----------------------------- MODULE ControlProofs -----------------------------
(***************************************************************************)
(* Proofs about ControlServer, for every set of live servers and viewers   *)
(* and every bound: types, the list of viewers, the table of requests, and *)
(* the age of the device table a page shows.                               *)
(***************************************************************************)
EXTENDS ControlServer, TLAPS

Steps    == {"idle", "send", "wait", "late", "copy", "erase"}
Requests == [id : -1..MaxRequests, finish : BOOLEAN, info : Infos, asked : 0..MaxVersion]
Receipts == [at : {"idle", "assign", "finish"}, id : -1..MaxRequests, info : Infos]
Messages == [msg : {"close", "clients"}, list : SUBSET Viewers]
Answers  == [id : 0..MaxRequests, json : 0..MaxVersion]

(* TypeOK, in parts; the ids of a control_server are bounded by the pages  *)
(* that have been asked for since it started.                              *)
ReqTypes  == at \in Steps /\ req \in Requests /\ ret \in Infos /\ dead \in BOOLEAN /\ timedOut \in BOOLEAN
IdTypes   == /\ requests \in 0..MaxRequests /\ _ID \in 0..requests
             /\ _mapDevs \subseteq 0..MaxRequests
             /\ at # "idle" => req.id \in 0..MaxRequests
RecvTypes == recv \in Receipts
ListTypes == /\ DOMAIN _mapClients \subseteq Lives
             /\ \A l \in DOMAIN _mapClients : _mapClients[l] \subseteq Viewers
             /\ _listWorkers \in [Lives -> SUBSET Viewers] /\ missed \subseteq Lives /\ closing \in [Lives -> Nat]
             /\ toCtrl \in [Lives -> Seq(Messages)]
SipTypes  == /\ version \in 0..MaxVersion /\ started \in 0..version /\ restarts \in 0..MaxRestarts
             /\ toSip \in Seq(0..MaxRequests) /\ fromSip \in Seq(Answers)

Types == ReqTypes /\ IdTypes /\ RecvTypes /\ ListTypes /\ SipTypes

LEMMA TypesImplyTypeOK == Types => TypeOK
<1> SUFFICES ASSUME Types PROVE TypeOK
    OBVIOUS
<1>1. _ID \in 0..MaxRequests
      BY ControlAssumption DEF Types, IdTypes
<1>2. toCtrl \in [Lives -> Seq([msg : {"close", "clients"}, list : SUBSET Viewers])]
      BY DEF Types, ListTypes, Messages
<1>3. version \in 0..MaxVersion /\ toSip \in Seq(0..MaxRequests)
      /\ fromSip \in Seq([id : 0..MaxRequests, json : 0..MaxVersion])
      BY DEF Types, SipTypes, Answers
<1>4. ReqTypes /\ RecvTypes /\ _mapDevs \subseteq 0..MaxRequests
      BY DEF Types, IdTypes
<1>5. /\ DOMAIN _mapClients \subseteq Lives /\ \A l \in DOMAIN _mapClients : _mapClients[l] \subseteq Viewers
      /\ _listWorkers \in [Lives -> SUBSET Viewers] /\ missed \subseteq Lives /\ closing \in [Lives -> Nat]
      BY DEF Types, ListTypes
<1> QED BY <1>1, <1>2, <1>3, <1>4, <1>5 DEF TypeOK, ReqTypes, RecvTypes, Steps, Requests, Receipts

(* The messages of a live server.                                          *)
LEMMA MessagesPrimed == Messages' = Messages
BY DEF Messages

LEMMA MessageTypes ==
    /\ Close \in Messages
    /\ \A list \in SUBSET Viewers : Clients(list) \in Messages
    /\ \A m \in Messages : m.list \subseteq Viewers /\ m.msg \in {"close", "clients"}
BY DEF Messages, Close, Clients

LEMMA InitTypes == Init => Types
<1> SUFFICES ASSUME Init PROVE Types
    OBVIOUS
<1> USE ControlAssumption
<1>1. NoReq \in Requests /\ None \in Infos /\ Free \in Receipts
      BY DEF Requests, Receipts, Infos, NoReq, Free, None, TimeOut, Torn
<1>4. ReqTypes
      BY <1>1 DEF Init, ReqTypes, Steps
<1>5. IdTypes
      BY DEF Init, IdTypes
<1>2. RecvTypes /\ SipTypes
      BY <1>1 DEF Init, RecvTypes, SipTypes
<1>3. ListTypes
      BY DEF Init, ListTypes, Nobody
<1> QED BY <1>2, <1>3, <1>4, <1>5 DEF Types

(* What the live servers and their messages do.                            *)
LEMMA ListTypesStep == Types /\ [Next]_vars => ListTypes'
<1> SUFFICES ASSUME Types, [Next]_vars PROVE ListTypes'
    OBVIOUS
<1> USE MessagesPrimed, MessageTypes DEF Types, ListTypes
<1>1. ASSUME NEW l \in Lives, NEW list \in SUBSET Viewers, Changes(l, list) PROVE ListTypes'
  <2>1. toCtrl' \in [Lives -> Seq(Messages)]
        BY <1>1 DEF Changes
  <2> QED BY <1>1, <2>1 DEF Changes
<1>2. ASSUME NEW l \in Lives, CreatLiveWorker(l) \/ CloseWorker(l) PROVE ListTypes'
  <2>1. PICK list \in SUBSET Viewers : Changes(l, list)
        BY <1>2 DEF CreatLiveWorker, CloseWorker
  <2> QED BY <1>1, <2>1
<1>3. ASSUME NEW l \in Lives, Dies(l) PROVE ListTypes'
  <2>1. closing' \in [Lives -> Nat]
        BY <1>3 DEF Dies
  <2> QED BY <1>3, <2>1 DEF Dies
<1>11. ASSUME NEW l \in Lives, CloseNoticed(l) PROVE ListTypes'
  <2>1. toCtrl' \in [Lives -> Seq(Messages)]
        BY <1>11 DEF CloseNoticed
  <2>2. closing[l] - 1 \in Nat
        BY <1>11 DEF CloseNoticed
  <2>3. closing' \in [Lives -> Nat]
        BY <1>11, <2>2 DEF CloseNoticed
  <2>4. missed' \subseteq Lives /\ UNCHANGED <<_mapClients, _listWorkers>>
        BY <1>11 DEF CloseNoticed
  <2> QED BY <2>1, <2>3, <2>4
<1>4. ASSUME NEW l \in Lives, OnLiveServer(l) PROVE ListTypes'
  <2>1. Head(toCtrl[l]) \in Messages /\ Tail(toCtrl[l]) \in Seq(Messages)
        BY <1>4 DEF OnLiveServer
  <2>2. toCtrl' \in [Lives -> Seq(Messages)] /\ UNCHANGED <<_listWorkers, missed, closing>>
        BY <1>4, <2>1 DEF OnLiveServer, liveVars
  <2>3. CASE OnClose(l)
        BY <2>2, <2>3 DEF OnClose, Unlisted
  <2>4. CASE OnClients(l)
        BY <2>1, <2>2, <2>4 DEF OnClients
  <2> QED BY <1>4, <2>3, <2>4 DEF OnLiveServer
<1>5. CASE CtrlRestarts
      BY <1>5 DEF CtrlRestarts, Nobody
<1>6. CASE SipServer
      BY <1>6 DEF SipServer, TableChanges, AnswersDevGet, DevGetLost, liveVars
<1>7. CASE FindDevRequest \/ AssignInfo \/ SetFinish
      BY <1>7 DEF FindDevRequest, AssignInfo, SetFinish, liveVars
<1>8. CASE ListDevRequest
      BY <1>8 DEF ListDevRequest, liveVars
<1>9. CASE LoopThread
      BY <1>9 DEF LoopThread, SendDevGet, WaitEnds, TimesOut, SetTimeOut, CopyInfo, EraseAndAnswer, liveVars
<1>10. CASE UNCHANGED vars
      BY <1>10 DEF vars, liveVars
<1> QED BY <1>2, <1>3, <1>4, <1>5, <1>6, <1>7, <1>8, <1>9, <1>10, <1>11 DEF Next, LiveServers, IpcThread

(* The request, and the messages to and from sip_server.                   *)
LEMMA RequestTypesStep == Types /\ [Next]_vars => (ReqTypes /\ IdTypes /\ RecvTypes /\ SipTypes)'
<1> SUFFICES ASSUME Types, [Next]_vars PROVE (ReqTypes /\ IdTypes /\ RecvTypes /\ SipTypes)'
    OBVIOUS
<1> DEFINE Goal == (ReqTypes /\ IdTypes /\ RecvTypes /\ SipTypes)'
<1>0. /\ Infos' = Infos /\ Requests' = Requests /\ Receipts' = Receipts /\ Answers' = Answers
      /\ None \in Infos /\ TimeOut \in Infos /\ Torn \in Infos /\ 0..MaxVersion \subseteq Infos
      /\ NoReq \in Requests /\ Free \in Receipts
      BY ControlAssumption DEF Infos, Requests, Receipts, Answers, None, TimeOut, Torn, NoReq, Free
<1>00. /\ \A r \in Requests : r.info \in Infos /\ r.id \in -1..MaxRequests /\ r.finish \in BOOLEAN
       /\ \A r \in Requests, i \in Infos : [r EXCEPT !.info = i] \in Requests
       /\ \A r \in Requests, b \in BOOLEAN : [r EXCEPT !.finish = b] \in Requests
       BY DEF Requests
<1> USE <1>0, ControlAssumption DEF Types, ReqTypes, IdTypes, RecvTypes, SipTypes
<1>1. ASSUME NEW l \in Lives, CreatLiveWorker(l) \/ CloseWorker(l) \/ Dies(l) \/ CloseNoticed(l) PROVE Goal
      BY <1>1 DEF CreatLiveWorker, CloseWorker, Dies, CloseNoticed, Changes, ctrlVars, hist
<1>2. ASSUME NEW l \in Lives, OnLiveServer(l) PROVE Goal
      BY <1>2 DEF OnLiveServer, ctrlVars, hist
<1>3. CASE TableChanges
      BY <1>3 DEF TableChanges, ctrlVars, hist
<1>4. CASE AnswersDevGet
  <2>1. [id |-> Head(toSip), json |-> version] \in Answers /\ Tail(toSip) \in Seq(0..MaxRequests)
        BY <1>4 DEF AnswersDevGet, Answers
  <2> QED BY <1>4, <2>1 DEF AnswersDevGet, ctrlVars, hist
<1>5. CASE DevGetLost
      BY <1>5 DEF DevGetLost, ctrlVars, hist
<1>6. CASE FindDevRequest
  <2>1. Head(fromSip) \in Answers /\ Tail(fromSip) \in Seq(Answers)
        BY <1>6 DEF FindDevRequest
  <2>2. [at |-> "assign", id |-> Head(fromSip).id, info |-> Head(fromSip).json] \in Receipts
        BY <2>1 DEF Answers, Receipts
  <2>3. recv' \in Receipts
        BY <1>6, <2>2 DEF FindDevRequest
  <2> QED BY <1>6, <2>1, <2>3 DEF FindDevRequest, ctrlVars, hist
<1>7. CASE AssignInfo
  <2>1. recv.info \in Infos /\ [recv EXCEPT !.at = "finish"] \in Receipts
        BY DEF Receipts
  <2>2. PICK i \in Infos : req' = [req EXCEPT !.info = i]
        BY <1>7, <2>1 DEF AssignInfo
  <2>3. req' \in Requests /\ req'.id = req.id
        BY <1>00, <2>2 DEF Requests
  <2> QED BY <1>7, <2>1, <2>3 DEF AssignInfo, hist
<1>8. CASE SetFinish
  <2>1. req' \in Requests /\ req'.id = req.id
        BY <1>00, <1>8 DEF SetFinish, Requests
  <2> QED BY <1>8, <2>1 DEF SetFinish, hist
<1>9. CASE ListDevRequest
  <2>1. req' \in Requests /\ req'.id = _ID /\ _ID \in 0..MaxRequests
        BY <1>9 DEF ListDevRequest, Requests
  <2> QED BY <1>9, <2>1 DEF ListDevRequest, Steps, NextId
<1>10. CASE SendDevGet
  <2>1. req.id \in 0..MaxRequests
        BY <1>10 DEF SendDevGet
  <2> QED BY <1>10, <2>1 DEF SendDevGet, Steps, hist
<1>11. CASE WaitEnds
      BY <1>11 DEF WaitEnds, Steps, hist
<1>12. CASE TimesOut
  <2>1. req' \in Requests /\ req'.id = req.id
        BY <1>00, <1>12 DEF TimesOut, Requests
  <2> QED BY <1>12, <2>1 DEF TimesOut, Steps
<1>13. CASE SetTimeOut
  <2>1. req' \in Requests /\ req'.id = req.id
        BY <1>00, <1>13 DEF SetTimeOut, Requests
  <2>2. dead' \in BOOLEAN
        BY <1>13 DEF SetTimeOut, Outcomes
  <2>3. at' = "copy" /\ at = "late" /\ UNCHANGED <<ret, _ID, _mapDevs, recv, version, toSip, fromSip, hist>>
        BY <1>13 DEF SetTimeOut
  <2> QED BY <2>1, <2>2, <2>3 DEF Steps, hist
<1>14. CASE CopyInfo
  <2>1. ret' \in Infos /\ dead' \in BOOLEAN
        BY <1>00, <1>14 DEF CopyInfo, Outcomes
  <2>2. at' = "erase" /\ at = "copy" /\ UNCHANGED <<req, _ID, _mapDevs, recv, version, toSip, fromSip, hist>>
        BY <1>14 DEF CopyInfo
  <2> QED BY <2>1, <2>2 DEF Steps, hist
<1>15. CASE EraseAndAnswer
      BY <1>15 DEF EraseAndAnswer, Steps
<1>16. CASE CtrlRestarts
  <2>1. ReqTypes' /\ RecvTypes'
        BY <1>16 DEF CtrlRestarts, Steps
  <2>2. IdTypes'
        BY <1>16 DEF CtrlRestarts
  <2>3. SipTypes'
        BY <1>16 DEF CtrlRestarts
  <2> QED BY <2>1, <2>2, <2>3
<1>17. CASE UNCHANGED vars
      BY <1>17 DEF vars, ctrlVars, hist
<1> QED BY <1>1, <1>2, <1>3, <1>4, <1>5, <1>6, <1>7, <1>8, <1>9, <1>10, <1>11, <1>12, <1>13, <1>14,
           <1>15, <1>16, <1>17 DEF Next, LiveServers, SipServer, IpcThread, LoopThread

LEMMA TypesInvariant == Spec => []Types
<1>1. Types /\ [Next]_vars => Types'
      BY ListTypesStep, RequestTypesStep DEF Types
<1> QED BY <1>1, InitTypes, PTL DEF Spec

(* Every variable of control_server and of what it talks to stays in its   *)
(* type; its ids never exceed the pages it was asked for.                  *)
THEOREM TypeCorrect == Spec => []TypeOK
BY TypesInvariant, TypesImplyTypeOK, PTL

-----------------------------------------------------------------------------
(* The viewers.  When no close is due from a live server, the last message *)
(* on its way is its list as it is, or the close of a predecessor; with    *)
(* none on its way, the page is right.                                     *)
Unheard(l) == _listWorkers[l] = {} \/ l \in missed
Listed(l) ==
    IF l \in DOMAIN _mapClients THEN _mapClients[l] = _listWorkers[l] ELSE Unheard(l)
LastWord(l, m) == m = Clients(_listWorkers[l]) \/ (m = Close /\ Unheard(l))

ListInv ==
    \A l \in Lives : closing[l] = 0 =>
        /\ toCtrl[l] = << >> => Listed(l)
        /\ toCtrl[l] # << >> => LastWord(l, toCtrl[l][Len(toCtrl[l])])

LEMMA LastOfTail ==
    ASSUME NEW S, NEW s \in Seq(S), s # << >>, Tail(s) # << >>
    PROVE  Tail(s)[Len(Tail(s))] = s[Len(s)]
<1>1. Len(s) \in Nat /\ Len(s) > 1 /\ Len(Tail(s)) = Len(s) - 1
      OBVIOUS
<1>2. \A i \in 1..Len(s) - 1 : Tail(s)[i] = s[i + 1]
      OBVIOUS
<1> QED BY <1>1, <1>2

LEMMA LastIsHead ==
    ASSUME NEW S, NEW s \in Seq(S), s # << >>, Tail(s) = << >>
    PROVE  s[Len(s)] = Head(s)
<1>1. Len(s) \in Nat /\ Len(s) # 0 /\ Len(Tail(s)) = Len(s) - 1
      OBVIOUS
<1>2. Len(Tail(s)) = 0
  <2>1. Len(<< >>) = 0
        OBVIOUS
  <2> QED BY <2>1, Zenon
<1>3. Len(s) = 1
      BY <1>1, <1>2
<1>4. Head(s) = s[1]
      OBVIOUS
<1> QED BY <1>3, <1>4

LEMMA LastOfAppend ==
    ASSUME NEW S, NEW s \in Seq(S), NEW m
    PROVE  Append(s, m) # << >> /\ Append(s, m)[Len(Append(s, m))] = m
<1>1. Len(s) \in Nat /\ Len(Append(s, m)) = Len(s) + 1 /\ Append(s, m)[Len(s) + 1] = m
      OBVIOUS
<1> QED BY <1>1

LEMMA OnLastMessage ==
    ASSUME Types, ListInv, NEW l \in Lives, OnLiveServer(l)
    PROVE  ListInv'
<1> USE DEF Types, ListTypes
<1> SUFFICES ASSUME NEW k \in Lives, closing[k] = 0
             PROVE  /\ toCtrl'[k] = << >> => Listed(k)'
                    /\ toCtrl'[k] # << >> => LastWord(k, toCtrl[k][Len(toCtrl[k])])'
    BY DEF ListInv, OnLiveServer, liveVars
<1>1. /\ toCtrl[l] \in Seq(Messages) /\ toCtrl[l] # << >>
      /\ toCtrl' = [toCtrl EXCEPT ![l] = Tail(@)]
      /\ missed' = missed /\ _listWorkers' = _listWorkers
      /\ OnClose(l) \/ OnClients(l)
      BY DEF OnLiveServer, liveVars
<1>2. k # l => (k \in DOMAIN _mapClients' <=> k \in DOMAIN _mapClients)
      BY <1>1 DEF OnClose, OnClients, Unlisted
<1>3. k # l /\ k \in DOMAIN _mapClients => _mapClients'[k] = _mapClients[k]
      BY <1>1 DEF OnClose, OnClients, Unlisted
<1>4. /\ Unheard(k)' <=> Unheard(k)
      /\ \A m : LastWord(k, m) <=> m = Clients(_listWorkers'[k]) \/ (m = Close /\ Unheard(k)')
      BY <1>1 DEF LastWord, Unheard
<1>5. CASE k # l
  <2>1. toCtrl'[k] = toCtrl[k]
        BY <1>1, <1>5
  <2>2. /\ toCtrl[k] = << >> => Listed(k)
        /\ toCtrl[k] # << >> => LastWord(k, toCtrl[k][Len(toCtrl[k])])
        BY DEF ListInv
  <2>3. Listed(k) => Listed(k)'
        BY <1>1, <1>2, <1>3, <1>4, <1>5 DEF Listed
  <2>4. LastWord(k, toCtrl[k][Len(toCtrl[k])]) => LastWord(k, toCtrl[k][Len(toCtrl[k])])'
        BY <1>1, <1>4, <2>1 DEF LastWord, Clients, Close
  <2> QED BY <2>1, <2>2, <2>3, <2>4
<1>6. CASE k = l /\ Tail(toCtrl[l]) # << >>
  <2>1. /\ toCtrl'[k] = Tail(toCtrl[l])
        /\ toCtrl'[k][Len(toCtrl'[k])] = toCtrl[l][Len(toCtrl[l])]
        BY <1>1, <1>6, LastOfTail
  <2>2. LastWord(l, toCtrl[l][Len(toCtrl[l])])
        BY <1>1, <1>6 DEF ListInv
  <2>3. LastWord(k, toCtrl[k][Len(toCtrl[k])])'
        BY <1>4, <1>6, <2>1, <2>2 DEF LastWord, Clients, Close
  <2> QED BY <1>6, <2>1, <2>3
<1>7. CASE k = l /\ Tail(toCtrl[l]) = << >>
  <2>1. LastWord(l, Head(toCtrl[l]))
        BY <1>1, <1>7, LastIsHead DEF ListInv
  <2>2. CASE Head(toCtrl[l]) = Clients(_listWorkers[l])
    <3>1. Head(toCtrl[l]).msg = "clients" /\ Head(toCtrl[l]).list = _listWorkers[l]
          BY <2>2 DEF Clients
    <3>2. l \in DOMAIN _mapClients' /\ _mapClients'[l] = _listWorkers[l]
          BY <1>1, <3>1 DEF OnClose, OnClients
    <3> QED BY <1>1, <1>7, <3>2 DEF Listed
  <2>3. CASE Head(toCtrl[l]) = Close /\ Unheard(l)
    <3>1. Head(toCtrl[l]).msg = "close"
          BY <2>3 DEF Close
    <3>2. l \notin DOMAIN _mapClients'
          BY <1>1, <3>1 DEF OnClose, OnClients, Unlisted
    <3> QED BY <1>1, <1>4, <1>7, <2>3, <3>2 DEF Listed
  <2> QED BY <2>1, <2>2, <2>3 DEF LastWord
<1> QED BY <1>5, <1>6, <1>7

(* A live server's process has sent its list, or its close has been sent.  *)
LEMMA SentLastWord ==
    ASSUME Types, ListInv, NEW l \in Lives, CreatLiveWorker(l) \/ CloseWorker(l) \/ CloseNoticed(l)
    PROVE  ListInv'
<1> USE DEF Types, ListTypes
<1>1. PICK m : /\ toCtrl' = [toCtrl EXCEPT ![l] = Append(@, m)]
               /\ _mapClients' = _mapClients
               /\ \/ m = Clients(_listWorkers'[l])
                  \/ m = Close /\ (_listWorkers'[l] = {} \/ l \in missed')
               /\ \A j \in Lives \ {l} : /\ (j \in missed' <=> j \in missed)
                                         /\ _listWorkers'[j] = _listWorkers[j] /\ closing'[j] = closing[j]
  <2>1. CASE CloseNoticed(l)
        BY <2>1 DEF CloseNoticed
  <2>2. CASE CreatLiveWorker(l) \/ CloseWorker(l)
    <3>1. PICK list : Changes(l, list)
          BY <2>2 DEF CreatLiveWorker, CloseWorker
    <3> QED BY <3>1 DEF Changes
  <2> QED BY <2>1, <2>2
<1> SUFFICES ASSUME NEW k \in Lives, closing'[k] = 0
             PROVE  /\ toCtrl'[k] = << >> => Listed(k)'
                    /\ toCtrl'[k] # << >> => LastWord(k, toCtrl[k][Len(toCtrl[k])])'
    BY DEF ListInv
<1>2. CASE k = l
  <2>1. toCtrl[l] \in Seq(Messages) /\ toCtrl'[k] = Append(toCtrl[l], m)
        BY <1>1, <1>2
  <2>2. toCtrl'[k] # << >> /\ toCtrl'[k][Len(toCtrl'[k])] = m
        BY <2>1, LastOfAppend
  <2>3. LastWord(k, toCtrl[k][Len(toCtrl[k])])'
    <3>1. CASE m = Clients(_listWorkers'[l])
          BY <1>2, <2>2, <3>1 DEF LastWord, Clients
    <3>2. CASE m = Close /\ (_listWorkers'[l] = {} \/ l \in missed')
          BY <1>2, <2>2, <3>2 DEF LastWord, Unheard, Close
    <3> QED BY <1>1, <3>1, <3>2
  <2> QED BY <2>2, <2>3
<1>3. CASE k # l
  <2>1. toCtrl'[k] = toCtrl[k] /\ closing[k] = 0
        BY <1>1, <1>3
  <2>2. Listed(k) => Listed(k)'
        BY <1>1, <1>3 DEF Listed, Unheard
  <2>3. LastWord(k, toCtrl[k][Len(toCtrl[k])]) => LastWord(k, toCtrl[k][Len(toCtrl[k])])'
        BY <1>1, <1>3, <2>1 DEF LastWord, Unheard, Clients, Close
  <2> QED BY <2>1, <2>2, <2>3 DEF ListInv
<1> QED BY <1>2, <1>3

(* A close is due of it.                                                   *)
LEMMA DiesUnheard ==
    ASSUME Types, ListInv, NEW l \in Lives, Dies(l)
    PROVE  ListInv'
<1> USE DEF Types, ListTypes
<1> SUFFICES ASSUME NEW k \in Lives, closing'[k] = 0
             PROVE  /\ toCtrl'[k] = << >> => Listed(k)'
                    /\ toCtrl'[k] # << >> => LastWord(k, toCtrl[k][Len(toCtrl[k])])'
    BY DEF ListInv
<1>1. /\ closing' = [closing EXCEPT ![l] = @ + 1] /\ closing[l] \in Nat
      /\ UNCHANGED <<toCtrl, _mapClients>> /\ missed' = missed \ {l}
      /\ _listWorkers' = [_listWorkers EXCEPT ![l] = {}]
      BY DEF Dies
<1>2. k # l /\ closing[k] = 0
      BY <1>1
<1>3. Listed(k) => Listed(k)'
      BY <1>1, <1>2 DEF Listed, Unheard
<1>4. LastWord(k, toCtrl[k][Len(toCtrl[k])]) => LastWord(k, toCtrl[k][Len(toCtrl[k])])'
      BY <1>1, <1>2 DEF LastWord, Unheard, Clients, Close
<1> QED BY <1>1, <1>2, <1>3, <1>4 DEF ListInv

LEMMA ListStep == Types /\ ListInv /\ [Next]_vars => ListInv'
<1> SUFFICES ASSUME Types, ListInv, [Next]_vars PROVE ListInv'
    OBVIOUS
<1>1. ASSUME UNCHANGED <<_mapClients, liveVars, toCtrl>> PROVE ListInv'
      BY <1>1 DEF ListInv, Listed, Unheard, LastWord, Clients, Close, liveVars
<1>2. CASE CtrlRestarts
      BY <1>2 DEF CtrlRestarts, ListInv, Listed, Unheard, Nobody
<1>3. CASE SipServer
      BY <1>1, <1>3 DEF SipServer, TableChanges, AnswersDevGet, DevGetLost
<1>4. CASE FindDevRequest \/ AssignInfo \/ SetFinish
      BY <1>1, <1>4 DEF FindDevRequest, AssignInfo, SetFinish
<1>5. CASE ListDevRequest
      BY <1>1, <1>5 DEF ListDevRequest
<1>6. CASE LoopThread
      BY <1>1, <1>6 DEF LoopThread, SendDevGet, WaitEnds, TimesOut, SetTimeOut, CopyInfo, EraseAndAnswer
<1>7. CASE UNCHANGED vars
      BY <1>1, <1>7 DEF vars
<1> QED BY OnLastMessage, SentLastWord, DiesUnheard, <1>2, <1>3, <1>4, <1>5, <1>6, <1>7
        DEF Next, LiveServers, IpcThread

(* However the live servers' messages and deaths, the notices of these and *)
(* control_server's own restarts interleave, a notice that comes behind    *)
(* the successor's first list included: no viewer that has left is shown,  *)
(* and a living one missing only after a restart or such a notice, until   *)
(* its server's list next changes.                                         *)
THEOREM PageListsViewers == Spec => []ListsLivingWorkers
<1>1. Init => ListInv
      BY DEF Init, ListInv, Listed, Unheard, Nobody
<1>2. ListInv => ListsLivingWorkers
      BY DEF ListInv, Listed, Unheard, ListsLivingWorkers
<1> QED BY <1>1, <1>2, ListStep, TypesInvariant, PTL DEF Spec

-----------------------------------------------------------------------------
(* The request.  Awaited is ListedWhileAwaited, and the IPC thread holds   *)
(* an answer only while the loop thread waits.                             *)
Awaited ==
    /\ _mapDevs = IF at = "idle" THEN {} ELSE {req.id}
    /\ recv.at # "idle" => at # "idle" /\ recv.id = req.id

reqVars == <<ctrlVars, recv, version, toSip, fromSip, hist>>

LEMMA OthersKeepRequest ==
    LiveServers \/ (\E l \in Lives : OnLiveServer(l)) \/ UNCHANGED vars => UNCHANGED reqVars
BY DEF LiveServers, CreatLiveWorker, CloseWorker, Changes, Dies, CloseNoticed, OnLiveServer, vars, reqVars

LEMMA AwaitedStep == Types /\ Awaited /\ [Next]_vars => Awaited'
<1> SUFFICES ASSUME Types, Awaited, [Next]_vars PROVE Awaited'
    OBVIOUS
<1>1. CASE UNCHANGED reqVars
      BY <1>1 DEF Awaited, reqVars, ctrlVars
<1>2. CASE SipServer
      BY <1>2 DEF SipServer, TableChanges, AnswersDevGet, DevGetLost, Awaited, ctrlVars
<1>3. CASE FindDevRequest
      BY <1>3 DEF FindDevRequest, Awaited, Free, ctrlVars
<1>4. CASE AssignInfo
  <2>1. req'.id = req.id /\ recv'.id = recv.id /\ at' = at /\ _mapDevs' = _mapDevs /\ recv.at # "idle"
        BY <1>4 DEF AssignInfo, Types, ReqTypes, RecvTypes, Requests, Receipts
  <2> QED BY <2>1 DEF Awaited
<1>5. CASE SetFinish
  <2>1. req'.id = req.id /\ recv' = Free /\ at' = at /\ _mapDevs' = _mapDevs
        BY <1>5 DEF SetFinish, Types, ReqTypes, Requests
  <2> QED BY <2>1 DEF Awaited, Free
<1>6. CASE ListDevRequest
      BY <1>6 DEF ListDevRequest, Awaited
<1>7. CASE SendDevGet \/ WaitEnds \/ CopyInfo
      BY <1>7 DEF SendDevGet, WaitEnds, CopyInfo, Awaited
<1>8. CASE TimesOut \/ SetTimeOut
  <2>1. req'.id = req.id /\ recv' = recv /\ at # "idle" /\ at' # "idle" /\ _mapDevs' = _mapDevs
        BY <1>8 DEF TimesOut, SetTimeOut, Types, ReqTypes, Requests
  <2> QED BY <2>1 DEF Awaited
<1>9. CASE EraseAndAnswer
      BY <1>9 DEF EraseAndAnswer, LockFree, Awaited
<1>10. CASE CtrlRestarts
      BY <1>10 DEF CtrlRestarts, Awaited, Free
<1> QED BY OthersKeepRequest, <1>1, <1>2, <1>3, <1>4, <1>5, <1>6, <1>7, <1>8, <1>9, <1>10
        DEF Next, IpcThread, LoopThread

LEMMA AwaitedInvariant == Spec => []Awaited
<1>1. Init => Awaited
      BY DEF Init, Awaited, Free
<1> QED BY <1>1, AwaitedStep, TypesInvariant, PTL DEF Spec

(* A request is listed exactly as long as it exists, and the IPC thread    *)
(* never holds a request that has been deleted, however late the answers   *)
(* are and whenever control_server is restarted.                           *)
THEOREM RequestOutlivesReceipt == Spec => []ListedWhileAwaited
<1>1. Awaited => ListedWhileAwaited
      BY DEF Awaited, ListedWhileAwaited
<1> QED BY <1>1, AwaitedInvariant, PTL

-----------------------------------------------------------------------------
(* The messages about a request d: none, or at most one on its way.        *)
NoneOf(d) ==
    /\ \A i \in DOMAIN toSip : toSip[i] # d
    /\ \A i \in DOMAIN fromSip : fromSip[i].id # d
AtMostOne(d) ==
    /\ \A i, j \in DOMAIN toSip : toSip[i] = d /\ toSip[j] = d => i = j
    /\ \A i, j \in DOMAIN fromSip : fromSip[i].id = d /\ fromSip[j].id = d => i = j
    /\ (\A i \in DOMAIN toSip : toSip[i] # d) \/ (\A i \in DOMAIN fromSip : fromSip[i].id # d)
Older == (\A i \in DOMAIN toSip : toSip[i] < _ID) /\ (\A i \in DOMAIN fromSip : fromSip[i].id < _ID)

LEMMA TailOf ==
    ASSUME NEW S, NEW s \in Seq(S), s # << >>
    PROVE  /\ Len(s) \in Nat /\ Len(s) > 0 /\ Head(s) = s[1] /\ Head(s) \in S /\ DOMAIN s = 1..Len(s)
           /\ Tail(s) \in Seq(S) /\ DOMAIN Tail(s) = 1..Len(s) - 1
           /\ \A i \in 1..Len(s) - 1 : Tail(s)[i] = s[i + 1]
OBVIOUS

LEMMA AppendOf ==
    ASSUME NEW S, NEW s \in Seq(S), NEW m
    PROVE  /\ Len(s) \in Nat /\ DOMAIN s = 1..Len(s) /\ DOMAIN Append(s, m) = 1..Len(s) + 1
           /\ \A i \in 1..Len(s) : Append(s, m)[i] = s[i]
           /\ Append(s, m)[Len(s) + 1] = m
OBVIOUS

LEMMA AnswerMoves ==
    ASSUME Types, AnswersDevGet, NEW d
    PROVE  /\ NoneOf(d) => NoneOf(d)'
           /\ AtMostOne(d) => AtMostOne(d)'
           /\ Older => Older'
<1>1. /\ toSip \in Seq(0..MaxRequests) /\ toSip # << >> /\ fromSip \in Seq(Answers)
      /\ toSip' = Tail(toSip) /\ _ID' = _ID
      BY DEF Types, SipTypes, AnswersDevGet, ctrlVars
<1>2. PICK a : fromSip' = Append(fromSip, a) /\ a.id = toSip[1]
      BY <1>1, TailOf DEF AnswersDevGet
<1>3. /\ Len(toSip) \in Nat /\ DOMAIN toSip = 1..Len(toSip) /\ 1 \in DOMAIN toSip
      /\ DOMAIN toSip' = 1..Len(toSip) - 1
      /\ \A i \in DOMAIN toSip' : toSip'[i] = toSip[i + 1] /\ i + 1 \in DOMAIN toSip /\ i + 1 # 1
      BY <1>1, TailOf
<1>4. /\ Len(fromSip) \in Nat /\ DOMAIN fromSip = 1..Len(fromSip)
      /\ DOMAIN fromSip' = 1..Len(fromSip) + 1
      /\ \A i \in DOMAIN fromSip : fromSip'[i] = fromSip[i]
      /\ fromSip'[Len(fromSip) + 1] = a
      BY <1>1, <1>2, AppendOf
<1>5. NoneOf(d) => NoneOf(d)'
      BY <1>2, <1>3, <1>4 DEF NoneOf
<1>6. Older => Older'
      BY <1>1, <1>2, <1>3, <1>4 DEF Older
<1>7. ASSUME AtMostOne(d) PROVE AtMostOne(d)'
  <2>1. CASE a.id = d
    <3>1. /\ \A i \in DOMAIN toSip' : toSip'[i] # d
          /\ \A i \in DOMAIN fromSip : fromSip[i].id # d
          BY <1>2, <1>3, <1>7, <2>1 DEF AtMostOne
    <3> QED BY <1>4, <2>1, <3>1 DEF AtMostOne
  <2>2. CASE a.id # d
    <3>1. \A i, j \in DOMAIN toSip' : toSip'[i] = d /\ toSip'[j] = d => i = j
          BY <1>3, <1>7 DEF AtMostOne
    <3>2. \A i \in DOMAIN fromSip' : fromSip'[i].id = d => i \in DOMAIN fromSip /\ fromSip[i].id = d
          BY <1>4, <2>2
    <3>3. (\A i \in DOMAIN toSip' : toSip'[i] # d) \/ (\A i \in DOMAIN fromSip' : fromSip'[i].id # d)
          BY <1>3, <1>7, <3>2 DEF AtMostOne
    <3> QED BY <1>7, <3>1, <3>2, <3>3 DEF AtMostOne
  <2> QED BY <2>1, <2>2
<1> QED BY <1>5, <1>6, <1>7

LEMMA RequestLost ==
    ASSUME Types, DevGetLost, NEW d
    PROVE  /\ NoneOf(d) => NoneOf(d)'
           /\ AtMostOne(d) => AtMostOne(d)'
           /\ Older => Older'
<1>1. /\ toSip \in Seq(0..MaxRequests) /\ toSip # << >>
      /\ toSip' = Tail(toSip) /\ _ID' = _ID /\ fromSip' = fromSip
      BY DEF Types, SipTypes, DevGetLost, ctrlVars
<1>2. /\ Len(toSip) \in Nat /\ DOMAIN toSip = 1..Len(toSip)
      /\ DOMAIN toSip' = 1..Len(toSip) - 1
      /\ \A i \in DOMAIN toSip' : toSip'[i] = toSip[i + 1] /\ i + 1 \in DOMAIN toSip
      BY <1>1, TailOf
<1>3. NoneOf(d) => NoneOf(d)'
      BY <1>1, <1>2 DEF NoneOf
<1>4. Older => Older'
      BY <1>1, <1>2 DEF Older
<1>5. AtMostOne(d) => AtMostOne(d)'
      BY <1>1, <1>2 DEF AtMostOne
<1> QED BY <1>3, <1>4, <1>5

LEMMA AnswerTaken ==
    ASSUME Types, FindDevRequest, NEW d
    PROVE  /\ NoneOf(d) => NoneOf(d)' /\ Head(fromSip).id # d
           /\ AtMostOne(d) => AtMostOne(d)' /\ (Head(fromSip).id = d => NoneOf(d)')
           /\ Older => Older'
<1>1. /\ fromSip \in Seq(Answers) /\ fromSip # << >>
      /\ fromSip' = Tail(fromSip) /\ _ID' = _ID /\ toSip' = toSip
      BY DEF Types, SipTypes, FindDevRequest, ctrlVars
<1>2. /\ Len(fromSip) \in Nat /\ DOMAIN fromSip = 1..Len(fromSip) /\ 1 \in DOMAIN fromSip
      /\ DOMAIN fromSip' = 1..Len(fromSip) - 1 /\ Head(fromSip) = fromSip[1]
      /\ \A i \in DOMAIN fromSip' : fromSip'[i] = fromSip[i + 1] /\ i + 1 \in DOMAIN fromSip /\ i + 1 # 1
      BY <1>1, TailOf
<1>3. NoneOf(d) => NoneOf(d)' /\ Head(fromSip).id # d
      BY <1>1, <1>2 DEF NoneOf
<1>4. Older => Older'
      BY <1>1, <1>2 DEF Older
<1>5. ASSUME AtMostOne(d) PROVE AtMostOne(d)'
      BY <1>1, <1>2, <1>5 DEF AtMostOne
<1>6. ASSUME AtMostOne(d), Head(fromSip).id = d PROVE NoneOf(d)'
  <2>1. \A i \in DOMAIN toSip : toSip[i] # d
        BY <1>2, <1>6 DEF AtMostOne
  <2>2. \A i \in DOMAIN fromSip' : fromSip'[i].id # d
        BY <1>2, <1>6 DEF AtMostOne
  <2> QED BY <1>1, <2>1, <2>2 DEF NoneOf
<1> QED BY <1>3, <1>4, <1>5, <1>6

LEMMA RequestSent ==
    ASSUME Types, SendDevGet, NoneOf(req.id)
    PROVE  AtMostOne(req.id)'
<1>1. /\ toSip \in Seq(0..MaxRequests) /\ toSip' = Append(toSip, req.id)
      /\ fromSip' = fromSip /\ req' = req
      BY DEF Types, SipTypes, SendDevGet
<1>2. /\ Len(toSip) \in Nat /\ DOMAIN toSip = 1..Len(toSip) /\ DOMAIN toSip' = 1..Len(toSip) + 1
      /\ \A i \in DOMAIN toSip : toSip'[i] = toSip[i]
      BY <1>1, AppendOf
<1>3. \A i \in DOMAIN toSip' : toSip'[i] = req.id => i = Len(toSip) + 1
      BY <1>2 DEF NoneOf
<1>4. \A i \in DOMAIN fromSip' : fromSip'[i].id # req.id
      BY <1>1 DEF NoneOf
<1> QED BY <1>1, <1>3, <1>4 DEF AtMostOne

(* Until control_server is restarted an id is used once, so a request      *)
(* has one message, and an answer is handled once.                         *)
Answered == req.finish /\ ~timedOut
Once ==
    restarts = 0 =>
        /\ Older
        /\ at # "idle" => req.id < _ID /\ AtMostOne(req.id)
        /\ at = "send" => NoneOf(req.id) /\ recv.at = "idle" /\ ~req.finish
        /\ at # "idle" /\ (recv.at # "idle" \/ Answered) => NoneOf(req.id)
        /\ at # "idle" /\ Answered => recv.at = "idle"

LEMMA OnceStep == Types /\ Awaited /\ Once /\ [Next]_vars => Once'
<1> SUFFICES ASSUME Types, Awaited, Once, [Next]_vars PROVE Once'
    OBVIOUS
<1> DEFINE Same == /\ toSip' = toSip /\ fromSip' = fromSip
<1>0. Same => (\A d : (NoneOf(d)' <=> NoneOf(d)) /\ (AtMostOne(d)' <=> AtMostOne(d)))
              /\ (_ID' = _ID => (Older' <=> Older))
      BY DEF NoneOf, AtMostOne, Older
<1>00. restarts \in Nat /\ req \in Requests /\ recv \in Receipts /\ _ID \in Nat
       BY DEF Types, SipTypes, ReqTypes, RecvTypes, IdTypes
<1> HIDE DEF Same
<1>1. CASE UNCHANGED reqVars \/ TableChanges
  <2>1. /\ Same /\ at' = at /\ req' = req /\ _ID' = _ID /\ recv' = recv /\ timedOut' = timedOut
        /\ restarts' = restarts
        BY <1>1 DEF Same, reqVars, ctrlVars, hist, TableChanges
  <2> QED BY <1>0, <2>1 DEF Once, Answered
<1>2. CASE AnswersDevGet \/ DevGetLost
  <2>1. /\ at' = at /\ req' = req /\ _ID' = _ID /\ recv' = recv /\ timedOut' = timedOut
        /\ restarts' = restarts
        BY <1>2 DEF AnswersDevGet, DevGetLost, ctrlVars, hist
  <2>2. /\ Older => Older'
        /\ NoneOf(req.id) => NoneOf(req.id)'
        /\ AtMostOne(req.id) => AtMostOne(req.id)'
    <3>1. ASSUME NEW d PROVE (Older => Older') /\ (NoneOf(d) => NoneOf(d)') /\ (AtMostOne(d) => AtMostOne(d)')
          BY <1>2, AnswerMoves, RequestLost
    <3>2. \A d : (NoneOf(d) => NoneOf(d)') /\ (AtMostOne(d) => AtMostOne(d)')
          BY <3>1
    <3> QED BY <2>1, <3>1, <3>2 DEF NoneOf, AtMostOne
  <2> QED BY <2>1, <2>2 DEF Once, Answered
<1>3. CASE FindDevRequest
  <2>1. /\ at' = at /\ req' = req /\ _ID' = _ID /\ timedOut' = timedOut /\ restarts' = restarts
        /\ recv.at = "idle"
        /\ recv'.at # "idle" => at # "idle" /\ Head(fromSip).id = req.id
        BY <1>3 DEF FindDevRequest, ctrlVars, hist, Awaited, Free
  <2>2. /\ Older => Older'
        /\ NoneOf(req.id) => NoneOf(req.id)' /\ recv'.at = "idle"
        /\ AtMostOne(req.id) => AtMostOne(req.id)' /\ (recv'.at # "idle" => NoneOf(req.id)')
    <3>1. ASSUME NEW d PROVE /\ Older => Older'
                             /\ NoneOf(d) => NoneOf(d)' /\ Head(fromSip).id # d
                             /\ AtMostOne(d) => AtMostOne(d)' /\ (Head(fromSip).id = d => NoneOf(d)')
          BY <1>3, AnswerTaken
    <3>2. \A d : /\ NoneOf(d) => NoneOf(d)' /\ Head(fromSip).id # d
                 /\ AtMostOne(d) => AtMostOne(d)' /\ (Head(fromSip).id = d => NoneOf(d)')
          BY <3>1
    <3> QED BY <2>1, <3>1, <3>2 DEF NoneOf, AtMostOne
  <2> QED BY <2>1, <2>2 DEF Once, Answered
<1>4. CASE AssignInfo
  <2>1. /\ Same /\ at' = at /\ req'.id = req.id /\ req'.finish = req.finish /\ _ID' = _ID
        /\ timedOut' = timedOut /\ restarts' = restarts /\ recv.at # "idle"
        BY <1>00, <1>4 DEF Same, AssignInfo, hist, Requests
  <2> QED BY <1>0, <2>1 DEF Once, Answered
<1>5. CASE SetFinish
  <2>1. /\ Same /\ at' = at /\ req'.id = req.id /\ req'.finish = TRUE /\ _ID' = _ID
        /\ timedOut' = timedOut /\ restarts' = restarts /\ recv.at # "idle" /\ recv'.at = "idle"
        BY <1>00, <1>5 DEF Same, SetFinish, hist, Requests, Free
  <2> QED BY <1>0, <2>1 DEF Once, Answered, Awaited
<1>6. CASE ListDevRequest
  <2>1. /\ Same /\ at' = "send" /\ req'.id = _ID /\ req'.finish = FALSE /\ _ID' = _ID + 1
        /\ recv' = recv /\ recv.at = "idle" /\ restarts' = restarts
        BY <1>6 DEF Same, ListDevRequest, NextId, Awaited
  <2>2. /\ \A i \in DOMAIN toSip : toSip[i] \in Nat
        /\ \A i \in DOMAIN fromSip : fromSip[i].id \in Nat
    <3> DEFINE Ids == 0..MaxRequests
    <3>1. toSip \in Seq(Ids) /\ fromSip \in Seq(Answers)
          BY DEF Types, SipTypes
    <3> HIDE DEF Ids
    <3>2. \A i \in DOMAIN toSip : toSip[i] \in Ids
          BY <3>1
    <3>4. \A i \in DOMAIN fromSip : fromSip[i] \in Answers
          BY <3>1
    <3>3. 0..MaxRequests \subseteq Nat /\ \A a \in Answers : a.id \in Nat
          BY ControlAssumption DEF Answers
    <3> QED BY <3>2, <3>3, <3>4 DEF Ids
  <2>3. Older => NoneOf(_ID) /\ AtMostOne(_ID)
        BY <1>00, <2>2 DEF Older, NoneOf, AtMostOne
  <2>4. Older => Older'
        BY <1>00, <2>1, <2>2 DEF Older, Same
  <2> QED BY <1>0, <1>00, <2>1, <2>3, <2>4 DEF Once, Answered
<1>7. CASE SendDevGet
  <2>1. /\ at = "send" /\ at' = "wait" /\ req' = req /\ _ID' = _ID /\ recv' = recv
        /\ timedOut' = timedOut /\ restarts' = restarts /\ fromSip' = fromSip
        /\ toSip' = Append(toSip, req.id) /\ toSip \in Seq(0..MaxRequests)
        BY <1>7 DEF SendDevGet, hist, Types, SipTypes
  <2>2. restarts = 0 => AtMostOne(req.id)' /\ Older /\ req.id < _ID
        BY <1>7, <2>1, RequestSent DEF Once
  <2>3. restarts = 0 => Older'
        BY <2>1, <2>2, AppendOf DEF Older
  <2> QED BY <2>1, <2>2, <2>3 DEF Once, Answered
<1>8. CASE WaitEnds \/ CopyInfo
  <2>1. /\ Same /\ at # "idle" /\ at' \notin {"idle", "send"} /\ req' = req /\ _ID' = _ID /\ recv' = recv
        /\ timedOut' = timedOut /\ restarts' = restarts
        BY <1>8 DEF Same, WaitEnds, CopyInfo, hist
  <2> QED BY <1>0, <2>1 DEF Once, Answered
<1>9. CASE TimesOut
  <2>1. /\ Same /\ at # "idle" /\ at' = "late" /\ req'.id = req.id /\ _ID' = _ID /\ recv' = recv
        /\ timedOut' = TRUE /\ restarts' = restarts
        BY <1>00, <1>9 DEF Same, TimesOut, Requests
  <2> QED BY <1>0, <2>1 DEF Once, Answered
<1>10. CASE SetTimeOut
  <2>1. /\ Same /\ at # "idle" /\ at' = "copy" /\ req'.id = req.id /\ req'.finish = req.finish /\ _ID' = _ID
        /\ recv' = recv /\ timedOut' = timedOut /\ restarts' = restarts
        BY <1>00, <1>10 DEF Same, SetTimeOut, Requests, hist
  <2> QED BY <1>0, <2>1 DEF Once, Answered
<1>11. CASE EraseAndAnswer
  <2>1. Same /\ at' = "idle" /\ _ID' = _ID /\ restarts' = restarts
        BY <1>11 DEF Same, EraseAndAnswer
  <2> QED BY <1>0, <2>1 DEF Once
<1>12. CASE CtrlRestarts
  <2>1. restarts' # 0
        BY <1>00, <1>12 DEF CtrlRestarts
  <2> QED BY <2>1 DEF Once
<1> QED BY OthersKeepRequest, <1>1, <1>2, <1>3, <1>4, <1>5, <1>6, <1>7, <1>8, <1>9, <1>10, <1>11, <1>12
        DEF Next, SipServer, IpcThread, LoopThread

(* How old an answer may be, and what a page may show.                     *)
Since    == IF restarts = 0 THEN req.asked ELSE started
Right(i) == \/ i \in {TimeOut, Torn} /\ timedOut
            \/ i = Torn /\ restarts > 0
            \/ i \in Since..version

Ages ==
    /\ at # "idle" => req.asked \in 0..version
    /\ \A i \in DOMAIN fromSip :
          /\ fromSip[i].json \in started..version
          /\ restarts = 0 /\ at # "idle" /\ fromSip[i].id = req.id => fromSip[i].json \in req.asked..version
    /\ recv.at # "idle" => recv.info \in Since..version

LEMMA AgesStep == Types /\ Awaited /\ Once /\ Ages /\ [Next]_vars => Ages'
<1> SUFFICES ASSUME Types, Awaited, Once, Ages, [Next]_vars PROVE Ages'
    OBVIOUS
<1>0. /\ restarts \in Nat /\ version \in Nat /\ started \in 0..version
      /\ req \in Requests /\ recv \in Receipts /\ toSip \in Seq(0..MaxRequests) /\ fromSip \in Seq(Answers)
      /\ DOMAIN fromSip = 1..Len(fromSip) /\ Len(fromSip) \in Nat
      /\ \A i \in DOMAIN fromSip : fromSip[i].json \in Nat
  <2>1. fromSip \in Seq(Answers) /\ \A a \in Answers : a.json \in Nat
        BY DEF Types, SipTypes, Answers
  <2> QED BY <2>1, ControlAssumption DEF Types, SipTypes, ReqTypes, RecvTypes
<1>00. req.asked \in Nat /\ Since \in Nat
       BY <1>0, ControlAssumption DEF Requests, Since
<1>1. CASE UNCHANGED reqVars
      BY <1>1 DEF Ages, Since, reqVars, ctrlVars, hist
<1>2. CASE TableChanges
  <2>1. /\ at' = at /\ req' = req /\ recv' = recv /\ fromSip' = fromSip /\ version' = version + 1
        /\ started' = started /\ restarts' = restarts
        BY <1>2 DEF TableChanges, ctrlVars, hist
  <2>2. Since' = Since /\ \A i, lo \in Nat : i \in lo..version => i \in lo..version'
        BY <1>0, <2>1 DEF Since
  <2>3. recv'.at # "idle" => recv'.info \in Since..version'
        BY <1>0, <1>00, <2>1 DEF Ages
  <2> QED BY <1>0, <1>00, <2>1, <2>2, <2>3 DEF Ages
<1>3. CASE AnswersDevGet
  <2>1. /\ at' = at /\ req' = req /\ recv' = recv /\ version' = version
        /\ started' = started /\ restarts' = restarts
        /\ fromSip' = Append(fromSip, [id |-> Head(toSip), json |-> version])
        BY <1>3 DEF AnswersDevGet, ctrlVars, hist
  <2>2. /\ DOMAIN fromSip' = 1..Len(fromSip) + 1
        /\ \A i \in DOMAIN fromSip : fromSip'[i] = fromSip[i]
        /\ fromSip'[Len(fromSip) + 1].json = version
        BY <1>0, <2>1, AppendOf
  <2>3. version \in started..version /\ (at # "idle" => version \in req.asked..version)
        BY <1>0, <1>00 DEF Ages
  <2> QED BY <1>0, <2>1, <2>2, <2>3 DEF Ages, Since
<1>4. CASE DevGetLost
      BY <1>4 DEF DevGetLost, Ages, Since, ctrlVars, hist
<1>5. CASE FindDevRequest
  <2>1. /\ at' = at /\ req' = req /\ version' = version
        /\ started' = started /\ restarts' = restarts
        /\ fromSip # << >> /\ fromSip' = Tail(fromSip)
        /\ recv' = IF Head(fromSip).id \in _mapDevs
                   THEN [at |-> "assign", id |-> Head(fromSip).id, info |-> Head(fromSip).json] ELSE Free
        BY <1>5 DEF FindDevRequest, ctrlVars, hist
  <2>2. /\ 1 \in DOMAIN fromSip /\ Head(fromSip) = fromSip[1]
        /\ \A i \in DOMAIN fromSip' : fromSip'[i] = fromSip[i + 1] /\ i + 1 \in DOMAIN fromSip
        BY <1>0, <2>1, TailOf
  <2>3. recv'.at # "idle" =>
           at # "idle" /\ fromSip[1].id = req.id /\ recv'.info = fromSip[1].json
        BY <2>1, <2>2 DEF Awaited, Free
  <2>4. recv'.at # "idle" => recv'.info \in Since..version
        BY <2>2, <2>3 DEF Ages, Since
  <2> QED BY <2>1, <2>2, <2>4 DEF Ages, Since
<1>6. CASE AssignInfo
  <2>1. /\ at' = at /\ req'.id = req.id /\ req'.asked = req.asked /\ version' = version
        /\ started' = started /\ restarts' = restarts /\ fromSip' = fromSip
        /\ recv'.info = recv.info /\ recv.at # "idle"
        BY <1>0, <1>6 DEF AssignInfo, hist, Requests, Receipts
  <2> QED BY <2>1 DEF Ages, Since
<1>7. CASE SetFinish
  <2>1. /\ at' = at /\ req'.id = req.id /\ req'.asked = req.asked /\ version' = version
        /\ started' = started /\ restarts' = restarts /\ fromSip' = fromSip /\ recv' = Free
        BY <1>0, <1>7 DEF SetFinish, hist, Requests
  <2> QED BY <2>1 DEF Ages, Since, Free
<1>8. CASE ListDevRequest
  <2>1. /\ req'.id = _ID /\ req'.asked = version /\ version' = version /\ at = "idle"
        /\ started' = started /\ restarts' = restarts /\ fromSip' = fromSip /\ recv' = recv
        BY <1>8 DEF ListDevRequest
  <2>2. restarts = 0 => \A i \in DOMAIN fromSip : fromSip[i].id # _ID
    <3>1. _ID \in Nat
          BY DEF Types, IdTypes
    <3> QED BY <3>1 DEF Once, Older
  <2>3. recv.at = "idle"
        BY <2>1 DEF Awaited
  <2> QED BY <1>0, <2>1, <2>2, <2>3 DEF Ages
<1>9. CASE SendDevGet \/ WaitEnds \/ CopyInfo
  <2>1. /\ at # "idle" /\ req' = req /\ version' = version
        /\ started' = started /\ restarts' = restarts /\ fromSip' = fromSip /\ recv' = recv
        BY <1>9 DEF SendDevGet, WaitEnds, CopyInfo, hist
  <2> QED BY <2>1 DEF Ages, Since
<1>10. CASE TimesOut \/ SetTimeOut
  <2>1. /\ at # "idle" /\ req'.id = req.id /\ req'.asked = req.asked /\ version' = version
        /\ started' = started /\ restarts' = restarts /\ fromSip' = fromSip /\ recv' = recv
        BY <1>0, <1>10 DEF TimesOut, SetTimeOut, hist, Requests
  <2> QED BY <2>1 DEF Ages, Since
<1>11. CASE EraseAndAnswer
  <2>1. /\ at' = "idle" /\ version' = version /\ recv.at = "idle"
        /\ started' = started /\ restarts' = restarts /\ fromSip' = fromSip /\ recv' = recv
        BY <1>11 DEF EraseAndAnswer, LockFree
  <2> QED BY <2>1 DEF Ages
<1>12. CASE CtrlRestarts
      BY <1>0, <1>12 DEF CtrlRestarts, Ages, Free
<1> QED BY OthersKeepRequest, <1>1, <1>2, <1>3, <1>4, <1>5, <1>6, <1>7, <1>8, <1>9, <1>10, <1>11, <1>12
        DEF Next, SipServer, IpcThread, LoopThread

(* What the request holds is right once it is finished, and the page too.  *)
ReqState ==
    /\ timedOut => at \in {"late", "copy", "erase"}
    /\ at = "late" => timedOut
    /\ req.info \in {TimeOut, Torn} => timedOut
    /\ at \in {"late", "copy"} => req.finish
    /\ at \in {"send", "wait", "copy"} /\ req.finish => Right(req.info)
    /\ recv.at = "finish" => Right(req.info)
    /\ at = "erase" => Right(ret)

LEMMA RightStays ==
    ASSUME Types, version' \in version..MaxVersion, timedOut => timedOut', Since' = Since,
           restarts' = restarts, NEW i, Right(i)
    PROVE  Right(i)'
<1>1. version \in Nat /\ version' \in Nat /\ version <= version' /\ Since \in Nat
      BY ControlAssumption DEF Types, SipTypes, ReqTypes, Requests, Since
<1>2. TimeOut' = TimeOut /\ Torn' = Torn
      BY DEF TimeOut, Torn
<1> QED BY <1>1, <1>2 DEF Right

LEMMA ReqStateStep == Types /\ Awaited /\ Once /\ Ages /\ ReqState /\ [Next]_vars => ReqState'
<1> SUFFICES ASSUME Types, Awaited, Once, Ages, ReqState, [Next]_vars PROVE ReqState'
    OBVIOUS
<1>0. /\ restarts \in Nat /\ version \in 0..MaxVersion /\ started \in 0..version
      /\ req \in Requests /\ recv \in Receipts /\ at \in Steps /\ timedOut \in BOOLEAN
      BY ControlAssumption DEF Types, SipTypes, ReqTypes, RecvTypes
<1>00. /\ Since \in Nat /\ TimeOut' = TimeOut /\ Torn' = Torn /\ None' = None
       /\ \A i \in 0..MaxVersion : i # TimeOut /\ i # Torn
       /\ None # TimeOut /\ None # Torn /\ TimeOut # Torn
       BY <1>0, ControlAssumption DEF Since, Requests, TimeOut, Torn, None
<1>1. CASE UNCHANGED reqVars
      BY <1>1 DEF ReqState, Right, Since, TimeOut, Torn, reqVars, ctrlVars, hist
<1>2. CASE SipServer
  <2>1. /\ at' = at /\ req' = req /\ ret' = ret /\ recv' = recv /\ timedOut' = timedOut
        /\ version' \in version..MaxVersion /\ started' = started /\ restarts' = restarts
        BY <1>0, <1>2, ControlAssumption DEF SipServer, TableChanges, AnswersDevGet, DevGetLost, ctrlVars, hist
  <2>2. Since' = Since
        BY <2>1 DEF Since
  <2>3. \A i : Right(i) => Right(i)'
        BY <2>1, <2>2, RightStays
  <2> QED BY <1>00, <2>1, <2>3 DEF ReqState
<1>3. CASE FindDevRequest
  <2>1. /\ at' = at /\ req' = req /\ ret' = ret /\ timedOut' = timedOut
        /\ version' = version /\ started' = started /\ restarts' = restarts
        /\ recv'.at # "finish"
        BY <1>3 DEF FindDevRequest, Free, ctrlVars, hist
  <2> QED BY <1>00, <2>1 DEF ReqState, Right, Since
<1>4. CASE AssignInfo
  <2>1. /\ at' = at /\ ret' = ret /\ timedOut' = timedOut /\ req'.asked = req.asked
        /\ version' = version /\ started' = started /\ restarts' = restarts /\ recv.at # "idle"
        /\ req'.finish = req.finish /\ req'.info = IF req.info = Torn THEN Torn ELSE recv.info
        BY <1>0, <1>4 DEF AssignInfo, hist, Requests
  <2>2. recv.info \in Since..version /\ recv.info \in 0..MaxVersion
        BY <1>0, <1>00, <2>1, ControlAssumption DEF Ages
  <2>3. \A i : Right(i)' <=> Right(i)
        BY <1>00, <2>1 DEF Right, Since
  <2>4. Right(req'.info) /\ (req'.info \in {TimeOut, Torn} => timedOut)
        BY <1>00, <2>1, <2>2 DEF ReqState, Right
  <2> QED BY <1>00, <2>1, <2>3, <2>4 DEF ReqState
<1>5. CASE SetFinish
  <2>1. /\ at' = at /\ ret' = ret /\ timedOut' = timedOut /\ req'.asked = req.asked
        /\ version' = version /\ started' = started /\ restarts' = restarts
        /\ recv.at = "finish" /\ recv'.at = "idle" /\ req'.finish = TRUE /\ req'.info = req.info
        BY <1>0, <1>5 DEF SetFinish, hist, Requests, Free
  <2> QED BY <1>00, <2>1 DEF ReqState, Right, Since
<1>6. CASE ListDevRequest
  <2>1. /\ at' = "send" /\ timedOut' = timedOut /\ ~timedOut /\ req'.info = None
        /\ req'.finish = FALSE /\ recv' = recv /\ recv.at = "idle"
        BY <1>6 DEF ListDevRequest, ReqState, Awaited
  <2> QED BY <1>00, <2>1 DEF ReqState
<1>7. CASE SendDevGet
  <2>1. /\ at = "send" /\ at' = "wait" /\ req' = req /\ recv' = recv /\ timedOut' = timedOut
        /\ version' = version /\ started' = started /\ restarts' = restarts
        BY <1>7 DEF SendDevGet, hist
  <2> QED BY <1>00, <2>1 DEF ReqState, Right, Since
<1>8. CASE WaitEnds
  <2>1. /\ at = "wait" /\ at' = "copy" /\ req' = req /\ req.finish /\ recv' = recv /\ timedOut' = timedOut
        /\ version' = version /\ started' = started /\ restarts' = restarts
        BY <1>8 DEF WaitEnds, hist
  <2> QED BY <1>00, <2>1 DEF ReqState, Right, Since
<1>9. CASE TimesOut
  <2>1. /\ at' = "late" /\ req'.info = req.info /\ req'.asked = req.asked /\ recv' = recv /\ timedOut' = TRUE
        /\ req'.finish = TRUE /\ version' = version /\ started' = started /\ restarts' = restarts
        BY <1>0, <1>9 DEF TimesOut, Requests
  <2> QED BY <1>00, <2>1 DEF ReqState, Right, Since
<1>10. CASE SetTimeOut
  <2>1. /\ at = "late" /\ at' = "copy" /\ req'.info \in {TimeOut, Torn} /\ req'.asked = req.asked
        /\ recv' = recv /\ timedOut' = timedOut
        /\ version' = version /\ started' = started /\ restarts' = restarts
        BY <1>0, <1>10 DEF SetTimeOut, hist, Requests
  <2>2. timedOut /\ req'.finish = req.finish
        BY <1>0, <1>10 DEF SetTimeOut, ReqState, Requests
  <2>3. req.finish
        BY <2>1, <2>2 DEF ReqState
  <2> QED BY <1>00, <2>1, <2>2, <2>3 DEF ReqState, Right, Since
<1>11. CASE CopyInfo
  <2>1. /\ at = "copy" /\ at' = "erase" /\ req' = req /\ recv' = recv /\ timedOut' = timedOut
        /\ version' = version /\ started' = started /\ restarts' = restarts
        /\ ret' = IF Raced THEN Torn ELSE req.info
        BY <1>11 DEF CopyInfo, hist
  <2>2. Right(ret')
    <3>1. CASE ~Raced
          BY <2>1, <3>1 DEF ReqState
    <3>2. CASE Raced
      <4>1. restarts = 0 => ~Answered
            BY <2>1, <3>2 DEF Raced, Once
      <4>2. restarts = 0 => timedOut
            BY <2>1, <4>1 DEF Answered, ReqState
      <4> QED BY <1>0, <2>1, <3>2, <4>2 DEF Right
    <3> QED BY <3>1, <3>2
  <2> QED BY <1>00, <2>1, <2>2 DEF ReqState, Right, Since
<1>12. CASE EraseAndAnswer
  <2>1. /\ at' = "idle" /\ recv' = recv /\ recv.at = "idle" /\ timedOut' = FALSE /\ req' = NoReq
        BY <1>12 DEF EraseAndAnswer, LockFree
  <2> QED BY <1>00, <2>1 DEF ReqState, NoReq
<1>13. CASE CtrlRestarts
  <2>1. /\ at' = "idle" /\ recv' = Free /\ timedOut' = FALSE /\ req' = NoReq
        BY <1>13 DEF CtrlRestarts
  <2> QED BY <1>00, <2>1 DEF ReqState, NoReq, Free
<1> QED BY OthersKeepRequest, <1>1, <1>2, <1>3, <1>4, <1>5, <1>6, <1>7, <1>8, <1>9, <1>10, <1>11, <1>12, <1>13
        DEF Next, IpcThread, LoopThread

(* However late, lost or torn the answers are, a page shows sip_server's   *)
(* table as it was after the page was asked for, or says that it could not *)
(* be had; only a control_server that was restarted may show an older one. *)
THEOREM PageIsFresh == Spec => []AnswerIsFresh
<1>1. Init => Once /\ Ages /\ ReqState
      BY DEF Init, Once, Older, Answered, Ages, ReqState, NoReq, Free, None, TimeOut, Torn
<1>2. Types /\ ReqState => AnswerIsFresh
  <2> SUFFICES ASSUME Types, ReqState, at = "erase" PROVE AnswerIsFresh
      BY DEF AnswerIsFresh
  <2>1. Right(ret) /\ Since \in Nat
        BY ControlAssumption DEF ReqState, Types, SipTypes, ReqTypes, Requests, Since
  <2> QED BY <2>1 DEF AnswerIsFresh, Right, Since, TimeOut, Torn
<1> QED BY <1>1, <1>2, AwaitedInvariant, TypesInvariant, OnceStep, AgesStep, ReqStateStep, PTL DEF Spec
=============================================================================
