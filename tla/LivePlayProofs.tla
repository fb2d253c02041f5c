--------------------------- MODULE LivePlayProofs ---------------------------
(***************************************************************************)
(* Theorems about LivePlay for every set of processes, viewers and ports   *)
(* and every bound.  The first two include hurried viewers, late answers,  *)
(* deaths, early restarts and ids given out twice; the third excludes the  *)
(* last.  The others are about what is left when nothing is hurried, late, *)
(* dead or racing for an id: live_server is then the client of SipCalls,   *)
(* and what SipCallsProofs proves of that client is inherited.             *)
(***************************************************************************)
EXTENDS LivePlay, SipServerProofs

-----------------------------------------------------------------------------
(* The inductive invariant: no pointer to a deleted request, none to two   *)
(* under one id; ids that stay apart if their numbering does; and a process *)
(* that is gone has no thread left.  Without the latter the ids of a       *)
(* restarted process would not be below its _ID.                           *)
GoneHaveNoThread ==
    \A c \in Procs : c \notin connected => \A w \in Workers : worker[c][w] = NoWorker

Numbered(r) == r.at \in {"numbered", "init", "filled", "wait"}

IdsStayApart ==
    Apart => \A c \in Procs, w \in Workers :
                 /\ Using(worker[c][w]) => worker[c][w].listed
                 /\ worker[c][w].at = "loaded" => worker[c][w].id = nextReq[c]
                 /\ Numbered(worker[c][w]) => worker[c][w].id < nextReq[c]
                 /\ \A v \in Workers : v # w =>
                       /\ worker[c][w].at = "loaded" => worker[c][v].at # "loaded"
                       /\ Numbered(worker[c][w]) /\ Numbered(worker[c][v]) => worker[c][v].id # worker[c][w].id

LiveInv == LiveTypeOK /\ NoStaleRequest /\ IdsStayApart /\ GoneHaveNoThread

LEMMA ListedUnderApart == LiveInv => RequestsListedWhileUsed
  BY DEF LiveInv, NoStaleRequest, IdsStayApart, RequestsListedWhileUsed

(* sip_server and the cameras neither connect nor disconnect a process.    *)
LEMMA ServerKeepsConnected ==
    ASSUME SipServerStep \/ Device
    PROVE  connected' = connected
  <1>1. ASSUME NEW c \in Procs, IpcThread(c) PROVE connected' = connected
    BY <1>1 DEF IpcThread, PlayInit, PlayInitNoPort, RealPlayUnsent, SendInvite, StopPlay,
                StopPlayUnknown, StopPlayThrows, StopPlayAll
  <1>2. CASE IndexCall \/ SipThread
    BY <1>2 DEF IndexCall, SipThread, DropEvent, FindByCallID, OnInviteOK, OnInviteOKThrows, OnPlayCb, OnInviteFailed, ipcVars
  <1>3. CASE Device
    BY <1>3 DEF Device, DeviceAnswers, DeviceHangsUp, ipcVars
  <1>4. QED
    BY <1>1, <1>2, <1>3 DEF SipServerStep

(* Steps of sip_server and the cameras.                                    *)
LEMMA ServerLive ==
    ASSUME LiveInv, SipServerStep \/ Device, UNCHANGED liveVars
    PROVE  LiveInv'
  <1>1. SipTypeOK'
    BY IpcThreadType, SipThreadType, DeviceType DEF LiveInv, LiveTypeOK, SipServerStep, Device
  <1>2. connected' = connected
    BY ServerKeepsConnected
  <1>3. QED
    BY <1>1, <1>2 DEF LiveInv, LiveTypeOK, NoStaleRequest, IdsStayApart, Using, Numbered, GoneHaveNoThread, liveVars

-----------------------------------------------------------------------------
(* Steps of live_server.                                                   *)

(* The record r may take the place of the viewer's, the counter of ids     *)
(* being n.                                                                *)
Fits(c, w, r, n) ==
    /\ r.listed => /\ Using(r)
                   /\ \A v \in Workers : v # w /\ worker[c][v].listed => worker[c][v].id # r.id
    /\ Apart =>
         /\ Using(r) => r.listed
         /\ r.at = "loaded" => r.id = n
         /\ Numbered(r) => r.id < n
         /\ nextReq[c] <= n
         /\ \A v \in Workers : v # w =>
               /\ r.at = "loaded" \/ n # nextReq[c] => worker[c][v].at # "loaded"
               /\ Numbered(r) /\ Numbered(worker[c][v]) => worker[c][v].id # r.id

(* A step that rewrites one viewer's record, with the counter of ids and   *)
(* the channel to sip_server.                                              *)
LEMMA OneWorker ==
    ASSUME LiveInv, NEW c \in Procs, NEW w \in Workers, c \in connected, NEW r \in Worker, NEW n \in 0..MaxReqs,
           worker' = [worker EXCEPT ![c][w] = r], Fits(c, w, r, n),
           nextReq' = [nextReq EXCEPT ![c] = n],
           toSip' \in [Procs -> Seq(Msg)],
           UNCHANGED <<sipVars, connected, toLive>>
    PROVE  LiveInv'
  <1>1. worker \in [Procs -> [Workers -> Worker]] /\ nextReq \in [Procs -> 0..MaxReqs]
    BY DEF LiveInv, LiveTypeOK
  <1>2. worker' \in [Procs -> [Workers -> Worker]] /\ nextReq' \in [Procs -> 0..MaxReqs]
    BY <1>1
  <1>3. \A d \in Procs, v \in Workers : worker'[d][v] = IF d = c /\ v = w THEN r ELSE worker[d][v]
    BY <1>1
  <1>4. SipTypeOK'
    BY DEF LiveInv, LiveTypeOK, SipTypeOK, sipVars
  <1>5. NoStaleRequest'
    BY <1>3 DEF LiveInv, NoStaleRequest, Fits, Using
  <1>6. IdsStayApart'
    <2> SUFFICES ASSUME Apart, NEW d \in Procs, NEW u \in Workers
                 PROVE  /\ Using(worker'[d][u]) => worker'[d][u].listed
                        /\ worker'[d][u].at = "loaded" => worker'[d][u].id = nextReq'[d]
                        /\ Numbered(worker'[d][u]) => worker'[d][u].id < nextReq'[d]
                        /\ \A v \in Workers : v # u =>
                             /\ worker'[d][u].at = "loaded" => worker'[d][v].at # "loaded"
                             /\ Numbered(worker'[d][u]) /\ Numbered(worker'[d][v]) => worker'[d][v].id # worker'[d][u].id
      BY DEF IdsStayApart, Using, Numbered
    <2>1. \A v \in Workers :
             /\ Using(worker[d][v]) => worker[d][v].listed
             /\ worker[d][v].at = "loaded" => worker[d][v].id = nextReq[d]
             /\ Numbered(worker[d][v]) => worker[d][v].id < nextReq[d]
             /\ \A x \in Workers : v # x =>
                   /\ worker[d][v].at = "loaded" => worker[d][x].at # "loaded"
                   /\ Numbered(worker[d][v]) /\ Numbered(worker[d][x]) => worker[d][x].id # worker[d][v].id
      BY DEF LiveInv, IdsStayApart
    <2>2. CASE d # c
      <3>1. nextReq'[d] = nextReq[d] /\ \A v \in Workers : worker'[d][v] = worker[d][v]
        BY <1>1, <1>3, <2>2
      <3>2. QED
        BY <2>1, <3>1
    <2>3. CASE d = c
      <3>1. nextReq'[d] = n /\ nextReq[d] <= n
        BY <1>1, <2>3 DEF Fits
      <3>2. n \in Int /\ nextReq[d] \in Int /\ \A v \in Workers : worker[d][v].id \in Int
        BY <1>1, ConstantFacts DEF Worker, ReqIds
      <3>3. \A v \in Workers : v # w =>
               /\ worker[d][v].at = "loaded" => worker[d][v].id = n
               /\ Numbered(worker[d][v]) => worker[d][v].id < n
        BY <2>1, <2>3, <3>1, <3>2 DEF Fits
      <3>4. QED
        BY <1>3, <2>1, <2>3, <3>1, <3>3 DEF Fits
    <2>4. QED
      BY <2>2, <2>3
  <1>7. GoneHaveNoThread'
    BY <1>3 DEF LiveInv, GoneHaveNoThread
  <1>8. QED
    BY <1>2, <1>4, <1>5, <1>6, <1>7 DEF LiveInv, LiveTypeOK

(* The record keeps its place in what the invariant reads, or gives it up. *)
LEMMA FitsAsBefore ==
    ASSUME LiveInv, NEW c \in Procs, NEW w \in Workers, NEW r \in Worker,
           \/ /\ r.listed = worker[c][w].listed /\ r.id = worker[c][w].id
              /\ Using(r) <=> Using(worker[c][w])
              /\ Numbered(r) <=> Numbered(worker[c][w])
              /\ r.at = "loaded" <=> worker[c][w].at = "loaded"
           \/ ~r.listed /\ r.at \notin {"loaded", "numbered", "init", "filled", "wait"}
    PROVE  Fits(c, w, r, nextReq[c])
  <1>1. nextReq[c] \in Int
    BY ConstantFacts DEF LiveInv, LiveTypeOK
  <1>2. CASE ~r.listed /\ r.at \notin {"loaded", "numbered", "init", "filled", "wait"}
    BY <1>1, <1>2 DEF Fits, Using, Numbered
  <1>3. CASE /\ r.listed = worker[c][w].listed /\ r.id = worker[c][w].id
             /\ Using(r) <=> Using(worker[c][w])
             /\ Numbered(r) <=> Numbered(worker[c][w])
             /\ r.at = "loaded" <=> worker[c][w].at = "loaded"
    <2>1. r.listed => Using(r) /\ \A v \in Workers : v # w /\ worker[c][v].listed => worker[c][v].id # r.id
      BY <1>3 DEF LiveInv, NoStaleRequest
    <2>2. Apart => /\ Using(r) => r.listed
                   /\ r.at = "loaded" => r.id = nextReq[c]
                   /\ Numbered(r) => r.id < nextReq[c]
                   /\ \A v \in Workers : v # w =>
                        /\ r.at = "loaded" => worker[c][v].at # "loaded"
                        /\ Numbered(r) /\ Numbered(worker[c][v]) => worker[c][v].id # r.id
      BY <1>3 DEF LiveInv, IdsStayApart
    <2>3. QED
      BY <1>1, <2>1, <2>2 DEF Fits
  <1>4. QED
    BY <1>2, <1>3

(* The same, the counter of ids being left alone.                          *)
LEMMA OneWorkerOnly ==
    ASSUME LiveInv, NEW c \in Procs, NEW w \in Workers, c \in connected, NEW r \in Worker,
           worker' = [worker EXCEPT ![c][w] = r], Fits(c, w, r, nextReq[c]),
           toSip' \in [Procs -> Seq(Msg)],
           UNCHANGED <<sipVars, connected, toLive, nextReq>>
    PROVE  LiveInv'
  <1>1. nextReq[c] \in 0..MaxReqs /\ nextReq' = [nextReq EXCEPT ![c] = nextReq[c]]
    BY DEF LiveInv, LiveTypeOK
  <1>2. QED
    BY <1>1, OneWorker

(* A viewer that is there belongs to a connected process.                  *)
LEMMA ThreadIsConnected ==
    ASSUME LiveInv, NEW c \in Procs, NEW w \in Workers, worker[c][w].at # "none"
    PROVE  c \in connected
  BY DEF LiveInv, GoneHaveNoThread, NoWorker

(* What the empty record is.                                               *)
LEMMA NoWorkerType == NoWorker \in Worker /\ NoWorker.at = "none" /\ ~NoWorker.listed
  BY ConstantFacts DEF NoWorker, Worker

(* The process dies.                                                       *)
LEMMA DiesLive ==
    ASSUME LiveInv, NEW c \in Procs, Dies(c)
    PROVE  LiveInv'
  <1>1. worker \in [Procs -> [Workers -> Worker]]
    BY DEF LiveInv, LiveTypeOK
  <1>2. worker' = [worker EXCEPT ![c] = [w \in Workers |-> NoWorker]] /\ nextReq' = nextReq
        /\ connected' = connected \ {c} /\ UNCHANGED sipVars
    BY DEF Dies, Disconnect
  <1>3. worker' \in [Procs -> [Workers -> Worker]]
    BY <1>1, <1>2, NoWorkerType
  <1>4. \A d \in Procs, v \in Workers : worker'[d][v] = IF d = c THEN NoWorker ELSE worker[d][v]
    BY <1>1, <1>2
  <1>5. toSip' \in [Procs -> Seq(Msg)] /\ toLive' \in [Procs -> Seq(Msg)]
    BY MessageTypes, SendFacts DEF Dies, Disconnect, LiveInv, LiveTypeOK, SipTypeOK
  <1>6. SipTypeOK'
    BY <1>2, <1>5 DEF LiveInv, LiveTypeOK, SipTypeOK, sipVars
  <1>7. NoStaleRequest'
    BY <1>4, NoWorkerType DEF LiveInv, NoStaleRequest, Using
  <1>8. IdsStayApart'
    BY <1>2, <1>4, NoWorkerType DEF LiveInv, IdsStayApart, Using, Numbered
  <1>9. GoneHaveNoThread'
    BY <1>2, <1>4 DEF LiveInv, GoneHaveNoThread
  <1>10. QED
    BY <1>2, <1>3, <1>6, <1>7, <1>8, <1>9 DEF LiveInv, LiveTypeOK

(* It is started again, and counts its ids from 0.                         *)
LEMMA RestartsLive ==
    ASSUME LiveInv, NEW c \in Procs, Restarts(c)
    PROVE  LiveInv'
  <1>1. \A w \in Workers : worker[c][w] = NoWorker
    BY DEF Restarts, LiveInv, GoneHaveNoThread
  <1>2. nextReq' \in [Procs -> 0..MaxReqs] /\ \A d \in Procs : d # c => nextReq'[d] = nextReq[d]
    BY ConstantFacts DEF Restarts, LiveInv, LiveTypeOK
  <1>3. SipTypeOK'
    BY DEF Restarts, LiveInv, LiveTypeOK, SipTypeOK, sipVars
  <1>4. worker' = worker /\ connected' = connected \cup {c}
    BY DEF Restarts
  <1>5. LiveTypeOK'
    BY <1>2, <1>3, <1>4 DEF LiveInv, LiveTypeOK
  <1>6. IdsStayApart'
    BY <1>1, <1>2, <1>4, NoWorkerType DEF LiveInv, IdsStayApart, Using, Numbered
  <1>7. QED
    BY <1>4, <1>5, <1>6 DEF LiveInv, NoStaleRequest, Using, GoneHaveNoThread

(* on_ipc_recv writes port, ret and finish of a listed request.            *)
LEMMA OnIpcRecvLive ==
    ASSUME LiveInv, NEW c \in Procs, OnIpcRecv(c)
    PROVE  LiveInv'
  <1>1. worker \in [Procs -> [Workers -> Worker]] /\ toLive \in [Procs -> Seq(Msg)]
    BY DEF LiveInv, LiveTypeOK, SipTypeOK
  <1>2. Head(toLive[c]) \in Msg /\ Tail(toLive[c]) \in Seq(Msg)
    BY <1>1, TailFacts DEF OnIpcRecv
  <1>3. PICK m : m = Head(toLive[c])
    OBVIOUS
  <1>4. m.port \in PortKeys /\ m.ret \in {0, -1}
    BY <1>2, <1>3 DEF Msg
  <1> DEFINE Got(r) ==
               IF ~r.listed \/ r.id # m.id THEN r
               ELSE IF m.type = "live_init_answer"
                    THEN [r EXCEPT !.port = m.port, !.finish = TRUE]
                    ELSE [r EXCEPT !.port = m.port, !.ret = m.ret, !.finish = TRUE]
  <1>5. worker' = [worker EXCEPT ![c] = [w \in Workers |-> Got(worker[c][w])]]
    BY <1>3 DEF OnIpcRecv
  <1>6. ASSUME NEW r \in Worker
        PROVE  Got(r) \in Worker /\ Got(r).at = r.at /\ Got(r).listed = r.listed /\ Got(r).id = r.id
    <2>1. CASE ~r.listed \/ r.id # m.id
      BY <2>1
    <2>2. CASE r.listed /\ r.id = m.id /\ m.type = "live_init_answer"
      <3>1. Got(r) = [r EXCEPT !.port = m.port, !.finish = TRUE]
        BY <2>2
      <3>2. QED
        BY <3>1, <1>4 DEF Worker
    <2>3. CASE r.listed /\ r.id = m.id /\ m.type # "live_init_answer"
      <3>1. Got(r) = [r EXCEPT !.port = m.port, !.ret = m.ret, !.finish = TRUE]
        BY <2>3
      <3>2. QED
        BY <3>1, <1>4 DEF Worker
    <2>4. QED
      BY <2>1, <2>2, <2>3
  <1> HIDE DEF Got
  <1>7. worker' \in [Procs -> [Workers -> Worker]]
    BY <1>1, <1>5, <1>6
  <1>8. \A d \in Procs, v \in Workers :
           worker'[d][v] = IF d = c THEN Got(worker[d][v]) ELSE worker[d][v]
    BY <1>1, <1>5
  <1>9. \A d \in Procs, v \in Workers :
           /\ worker'[d][v].at = worker[d][v].at /\ worker'[d][v].listed = worker[d][v].listed
           /\ worker'[d][v].id = worker[d][v].id
    BY <1>1, <1>6, <1>8
  <1>10. SipTypeOK'
    BY <1>1, <1>2 DEF OnIpcRecv, LiveInv, LiveTypeOK, SipTypeOK, sipVars
  <1>11. LiveTypeOK'
    BY <1>7, <1>9, <1>10 DEF OnIpcRecv, LiveInv, LiveTypeOK
  <1>12. NoStaleRequest' /\ IdsStayApart'
    <2>1. nextReq' = nextReq
      BY DEF OnIpcRecv
    <2>2. NoStaleRequest'
      BY <1>9 DEF LiveInv, NoStaleRequest, Using
    <2>3. IdsStayApart'
      BY <1>9, <2>1 DEF LiveInv, IdsStayApart, Using, Numbered
    <2>4. QED
      BY <2>2, <2>3
  <1>13. GoneHaveNoThread'
    <2>1. c \in connected /\ connected' = connected
      BY DEF OnIpcRecv
    <2>2. \A d \in Procs : d \notin connected => \A v \in Workers : worker'[d][v] = worker[d][v]
      BY <1>8, <2>1
    <2>3. QED
      BY <2>1, <2>2 DEF LiveInv, GoneHaveNoThread
  <1>14. QED
    BY <1>11, <1>12, <1>13 DEF LiveInv

(* DestoryRequest takes what is listed under the id off the list, be it    *)
(* another viewer's.                                                       *)
LEMMA PlayedLive ==
    ASSUME LiveInv, NEW c \in Procs, NEW w \in Workers, Played(c, w), ~Dies(c)
    PROVE  LiveInv'
  <1> DEFINE r == worker[c][w]
             then == IF r.left THEN "none" ELSE IF r.ret # 0 THEN "failed" ELSE "playing"
             q(v) == [worker[c][v] EXCEPT !.at = IF v = w THEN then ELSE @,
                                          !.listed = Unlisted(worker[c][v], r.id)]
  <1>1. worker \in [Procs -> [Workers -> Worker]]
    BY DEF LiveInv, LiveTypeOK
  <1>2. /\ worker' = [worker EXCEPT ![c] = [v \in Workers |-> q(v)]]
        /\ UNCHANGED <<baseVars, nextReq>> /\ r.at = "wait"
    BY DEF Played
  <1>3. ASSUME NEW v \in Workers
        PROVE  /\ q(v) \in Worker /\ q(v).id = worker[c][v].id
               /\ q(v).at = IF v = w THEN then ELSE worker[c][v].at
               /\ q(v).listed = Unlisted(worker[c][v], r.id)
    <2>1. worker[c][v] \in Worker
      BY <1>1
    <2>2. QED
      BY <2>1 DEF Worker, Unlisted
  <1>4. \A d \in Procs, v \in Workers : worker'[d][v] = IF d = c THEN q(v) ELSE worker[d][v]
    BY <1>1, <1>2
  <1> HIDE DEF q
  <1>5. worker' \in [Procs -> [Workers -> Worker]]
    BY <1>1, <1>2, <1>3
  <1>6. then \notin {"loaded", "numbered", "init", "filled", "wait"}
    OBVIOUS
  <1> HIDE DEF then
  <1>7. NoStaleRequest'
    <2> SUFFICES ASSUME NEW d \in Procs, NEW v \in Workers, worker'[d][v].listed
                 PROVE  /\ Using(worker'[d][v])
                        /\ \A u \in Workers : u # v /\ worker'[d][u].listed => worker'[d][u].id # worker'[d][v].id
      BY DEF NoStaleRequest, Using
    <2>1. CASE d # c
      BY <1>4, <2>1 DEF LiveInv, NoStaleRequest
    <2>2. CASE d = c
      <3>1. \A u \in Workers : worker'[c][u].listed => worker[c][u].listed /\ worker[c][u].id # r.id
        BY <1>3, <1>4 DEF Unlisted
      <3>2. v # w /\ worker'[c][v].at = worker[c][v].at
        BY <1>3, <1>4, <2>2, <3>1
      <3>3. \A u \in Workers : worker'[c][u].id = worker[c][u].id
        BY <1>3, <1>4
      <3>4. QED
        BY <2>2, <3>1, <3>2, <3>3 DEF LiveInv, NoStaleRequest, Using
    <2>3. QED
      BY <2>1, <2>2
  <1>8. IdsStayApart'
    <2> SUFFICES ASSUME Apart, NEW d \in Procs, NEW u \in Workers
                 PROVE  /\ Using(worker'[d][u]) => worker'[d][u].listed
                        /\ worker'[d][u].at = "loaded" => worker'[d][u].id = nextReq'[d]
                        /\ Numbered(worker'[d][u]) => worker'[d][u].id < nextReq'[d]
                        /\ \A v \in Workers : v # u =>
                             /\ worker'[d][u].at = "loaded" => worker'[d][v].at # "loaded"
                             /\ Numbered(worker'[d][u]) /\ Numbered(worker'[d][v]) => worker'[d][v].id # worker'[d][u].id
      BY DEF IdsStayApart, Using, Numbered
    <2>1. \A v \in Workers :
             /\ Using(worker[d][v]) => worker[d][v].listed
             /\ worker[d][v].at = "loaded" => worker[d][v].id = nextReq[d]
             /\ Numbered(worker[d][v]) => worker[d][v].id < nextReq[d]
             /\ \A x \in Workers : v # x =>
                   /\ worker[d][v].at = "loaded" => worker[d][x].at # "loaded"
                   /\ Numbered(worker[d][v]) /\ Numbered(worker[d][x]) => worker[d][x].id # worker[d][v].id
      BY DEF LiveInv, IdsStayApart
    <2>2. nextReq' = nextReq
      BY <1>2
    <2>3. CASE d # c
      BY <1>4, <2>1, <2>2, <2>3
    <2>4. CASE d = c
      <3>1. \A v \in Workers : worker'[c][v].id = worker[c][v].id
                               /\ worker'[c][v].at = (IF v = w THEN then ELSE worker[c][v].at)
                               /\ (worker'[c][v].listed <=> worker[c][v].listed /\ worker[c][v].id # r.id)
        BY <1>3, <1>4 DEF Unlisted
      <3>2. \A v \in Workers : (Numbered(worker'[c][v]) => v # w /\ Numbered(worker[c][v]))
                               /\ (Using(worker'[c][v]) => v # w /\ Using(worker[c][v]) /\ Numbered(worker[c][v]))
                               /\ (worker'[c][v].at = "loaded" => worker[c][v].at = "loaded")
        BY <1>6, <3>1 DEF Numbered, Using
      <3>3. Numbered(r)
        BY <1>2 DEF Numbered
      <3>4. Using(worker'[c][u]) => worker'[c][u].listed
        BY <2>1, <2>4, <3>1, <3>2, <3>3
      <3>5. QED
        BY <2>1, <2>2, <2>4, <3>1, <3>2, <3>4
    <2>5. QED
      BY <2>3, <2>4
  <1>9. GoneHaveNoThread'
    <2>1. c \in connected
      BY <1>2, ThreadIsConnected
    <2>2. QED
      BY <1>2, <1>4, <2>1 DEF LiveInv, GoneHaveNoThread, baseVars
  <1>10. SipTypeOK' /\ nextReq' \in [Procs -> 0..MaxReqs]
    BY <1>2 DEF LiveInv, LiveTypeOK, SipTypeOK, sipVars, baseVars
  <1>11. QED
    BY <1>5, <1>7, <1>8, <1>9, <1>10 DEF LiveInv, LiveTypeOK

(* The thread of a viewer.                                                 *)
LEMMA PlayThreadLive ==
    ASSUME LiveInv, NEW c \in Procs, NEW w \in Workers, PlayThread(c, w)
    PROVE  LiveInv'
  <1>1. PICK r \in Worker : r = worker[c][w]
    BY DEF LiveInv, LiveTypeOK
  <1>2. /\ toSip \in [Procs -> Seq(Msg)] /\ nextReq \in [Procs -> 0..MaxReqs]
        /\ worker \in [Procs -> [Workers -> Worker]]
    BY DEF LiveInv, LiveTypeOK, SipTypeOK
  <1>3. r.id \in ReqIds /\ nextReq[c] \in Int /\ r.id \in Int
    BY <1>1, <1>2, ConstantFacts DEF Worker, ReqIds
  <1>4. r.at # "none" => c \in connected
    BY <1>1, ThreadIsConnected
  <1>5. CASE LoadId(c, w)
    <2> DEFINE q == [r EXCEPT !.at = "loaded", !.id = nextReq[c]]
    <2>1. nextReq[c] \in ReqIds /\ r.at = "started"
      BY <1>1, <1>5, <1>2, ConstantFacts DEF LoadId, ReqIds
    <2>2. q \in Worker /\ worker' = [worker EXCEPT ![c][w] = q] /\ q.listed = r.listed
          /\ q.at = "loaded" /\ q.id = nextReq[c]
      BY <1>1, <1>2, <1>5, <2>1 DEF LoadId, Worker
    <2>3. UNCHANGED <<sipVars, connected, toLive>> /\ UNCHANGED <<toSip, nextReq>> /\ c \in connected
      BY <1>5, <1>4, <2>1 DEF LoadId, baseVars, sipVars
    <2>4. Apart => \A v \in Workers : worker[c][v].at # "loaded"
      BY <1>5 DEF LoadId
    <2> HIDE DEF q
    <2>5. ~q.listed
      BY <1>1, <2>1, <2>2 DEF LiveInv, NoStaleRequest, Using
    <2>6. Fits(c, w, q, nextReq[c])
      BY <1>3, <2>2, <2>4, <2>5 DEF Fits, Using, Numbered
    <2>7. QED
      BY <1>2, <2>2, <2>3, <2>6, OneWorkerOnly
  <1>6. CASE StoreId(c, w)
    <2> DEFINE q == [r EXCEPT !.at = "numbered"]
               n == r.id + 1
    <2>1. n \in 0..MaxReqs /\ r.at = "loaded"
      BY <1>1, <1>3, <1>6, ConstantFacts DEF StoreId, ReqIds
    <2>2. q \in Worker /\ worker' = [worker EXCEPT ![c][w] = q] /\ q.listed = r.listed
          /\ q.at = "numbered" /\ q.id = r.id
      BY <1>1, <1>2, <1>6 DEF StoreId, Worker
    <2>3. UNCHANGED <<sipVars, connected, toLive>> /\ UNCHANGED toSip /\ c \in connected
          /\ nextReq' = [nextReq EXCEPT ![c] = n]
      BY <1>1, <1>6, <1>4, <2>1 DEF StoreId, NextId, baseVars, sipVars
    <2>4. ~q.listed
      BY <1>1, <2>1, <2>2 DEF LiveInv, NoStaleRequest, Using
    <2> HIDE DEF q
    <2>5. Apart => /\ r.id = nextReq[c]
                   /\ \A v \in Workers : v # w => worker[c][v].at # "loaded"
                   /\ \A v \in Workers : Numbered(worker[c][v]) => worker[c][v].id < nextReq[c]
      BY <1>1, <2>1 DEF LiveInv, IdsStayApart
    <2>6. \A v \in Workers : worker[c][v].id \in Int
      BY <1>2, ConstantFacts DEF Worker, ReqIds
    <2>7. Fits(c, w, q, n)
      BY <1>3, <2>2, <2>4, <2>5, <2>6 DEF Fits, Using, Numbered
    <2> HIDE DEF n
    <2>8. QED
      BY <1>2, <2>1, <2>2, <2>3, <2>7, OneWorker
  <1>7. CASE CreateReal(c, w)
    <2> DEFINE q == [r EXCEPT !.at = "init", !.listed = IdFree(c, r.id)]
    <2>1. r.at = "numbered"
      BY <1>1, <1>7 DEF CreateReal
    <2>2. q \in Worker /\ worker' = [worker EXCEPT ![c][w] = q] /\ q.listed = IdFree(c, r.id)
          /\ q.at = "init" /\ q.id = r.id
      BY <1>1, <1>2, <1>7, <2>1 DEF CreateReal, IdFree, Worker
    <2>3. toSip' \in [Procs -> Seq(Msg)]
      BY <1>1, <1>2, <1>3, <1>7, MessageTypes, SendFacts DEF CreateReal, SendToSip
    <2>4. UNCHANGED <<sipVars, connected, toLive, nextReq>> /\ c \in connected
      BY <1>7, <1>4, <2>1 DEF CreateReal
    <2> HIDE DEF q
    <2>5. Apart => /\ r.id < nextReq[c]
                   /\ \A v \in Workers : v # w /\ Numbered(worker[c][v]) => worker[c][v].id # r.id
      BY <1>1, <2>1 DEF LiveInv, IdsStayApart, Numbered
    <2>6. \A v \in Workers : worker[c][v].listed => v # w /\ Numbered(worker[c][v])
      BY <1>1, <2>1 DEF LiveInv, NoStaleRequest, Using, Numbered
    <2>7. Fits(c, w, q, nextReq[c])
      BY <1>3, <2>2, <2>5, <2>6 DEF Fits, IdFree, Using, Numbered
    <2>8. QED
      BY <2>2, <2>3, <2>4, <2>7, OneWorkerOnly
  <1>8. CASE TimesOut(c, w)
    <2> DEFINE q == [r EXCEPT !.finish = TRUE, !.ret = 0]
    <2>1. q \in Worker /\ worker' = [worker EXCEPT ![c][w] = q]
          /\ q.listed = r.listed /\ q.at = r.at /\ q.id = r.id
      BY <1>1, <1>2, <1>8 DEF TimesOut, Worker
    <2>2. UNCHANGED <<sipVars, connected, toLive>> /\ UNCHANGED <<toSip, nextReq>> /\ c \in connected
      BY <1>8, <1>1, <1>4 DEF TimesOut, CanTimeOut, baseVars, sipVars
    <2> HIDE DEF q
    <2>3. Fits(c, w, q, nextReq[c])
      BY <1>1, <2>1, FitsAsBefore DEF Using, Numbered
    <2>4. QED
      BY <1>2, <2>1, <2>2, <2>3, OneWorkerOnly
  <1>9. CASE FillRtpData(c, w)
    <2> DEFINE q == [r EXCEPT !.at = "filled", !.rtp = r.port]
    <2>1. q \in Worker /\ worker' = [worker EXCEPT ![c][w] = q] /\ r.at = "init"
          /\ q.listed = r.listed /\ q.at = "filled" /\ q.id = r.id
      BY <1>1, <1>2, <1>9 DEF FillRtpData, Worker, RtpPort
    <2>2. UNCHANGED <<sipVars, connected, toLive>> /\ UNCHANGED <<toSip, nextReq>> /\ c \in connected
      BY <1>9, <1>1, <1>4 DEF FillRtpData, baseVars, sipVars
    <2> HIDE DEF q
    <2>3. Fits(c, w, q, nextReq[c])
      BY <1>1, <2>1, FitsAsBefore DEF Using, Numbered
    <2>4. QED
      BY <1>2, <2>1, <2>2, <2>3, OneWorkerOnly
  <1>10. CASE RealPlay(c, w)
    <2> DEFINE q == [r EXCEPT !.at = "wait", !.ret = 0, !.finish = FALSE]
    <2>1. q \in Worker /\ worker' = [worker EXCEPT ![c][w] = q] /\ r.at = "filled"
          /\ q.listed = r.listed /\ q.at = "wait" /\ q.id = r.id
      BY <1>1, <1>2, <1>10 DEF RealPlay, Worker
    <2>2. r.port \in PortKeys
      BY <1>1 DEF Worker
    <2>3. toSip' \in [Procs -> Seq(Msg)]
      BY <1>1, <1>2, <1>10, <2>2, ConstantFacts, MessageTypes, SendFacts DEF RealPlay, SendToSip
    <2>4. UNCHANGED <<sipVars, connected, toLive, nextReq>> /\ c \in connected
      BY <1>10, <1>1, <1>4 DEF RealPlay
    <2> HIDE DEF q
    <2>5. Fits(c, w, q, nextReq[c])
      BY <1>1, <2>1, FitsAsBefore DEF Using, Numbered
    <2>6. QED
      BY <2>1, <2>3, <2>4, <2>5, OneWorkerOnly
  <1>11. CASE Played(c, w)
    BY <1>11, DiesLive, PlayedLive
  <1>12. QED
    BY <1>5, <1>6, <1>7, <1>8, <1>9, <1>10, <1>11 DEF PlayThread

(* Viewers come and go.                                                    *)
LEMMA ViewerLive ==
    ASSUME LiveInv, NEW c \in Procs, NEW w \in Workers, Viewer(c, w)
    PROVE  LiveInv'
  <1>1. PICK r \in Worker : r = worker[c][w]
    BY DEF LiveInv, LiveTypeOK
  <1>2. /\ toSip \in [Procs -> Seq(Msg)] /\ nextReq \in [Procs -> 0..MaxReqs]
        /\ worker \in [Procs -> [Workers -> Worker]]
    BY DEF LiveInv, LiveTypeOK, SipTypeOK
  <1>3. r.at # "none" => c \in connected
    BY <1>1, ThreadIsConnected
  <1>4. CASE Connects(c, w)
    <2> DEFINE q == [NoWorker EXCEPT !.at = "started"]
    <2>1. q \in Worker /\ worker' = [worker EXCEPT ![c][w] = q] /\ ~q.listed /\ q.at = "started"
      BY <1>4, ConstantFacts DEF Connects, Worker, NoWorker
    <2>2. UNCHANGED <<sipVars, connected, toLive>> /\ UNCHANGED <<toSip, nextReq>> /\ c \in connected
      BY <1>4 DEF Connects, baseVars, sipVars
    <2> HIDE DEF q
    <2>3. Fits(c, w, q, nextReq[c])
      BY <2>1, FitsAsBefore
    <2>4. QED
      BY <1>2, <2>1, <2>2, <2>3, OneWorkerOnly
  <1>5. CASE LeavesAtOnce(c, w)
    BY <1>5, DiesLive DEF LeavesAtOnce
  <1> DEFINE gone == [r EXCEPT !.left = TRUE]
  <1>6. ASSUME NEW p \in PortKeys, SendToSip(c, StopPlayMsg(p)), worker' = [worker EXCEPT ![c][w].left = TRUE],
               UNCHANGED <<sipVars, connected, toLive, nextReq>>, r.at # "none"
        PROVE  LiveInv'
    <2>1. gone \in Worker /\ worker' = [worker EXCEPT ![c][w] = gone]
          /\ gone.listed = r.listed /\ gone.at = r.at /\ gone.id = r.id
      BY <1>1, <1>2, <1>6 DEF Worker
    <2>2. toSip' \in [Procs -> Seq(Msg)]
      BY <1>2, <1>6, MessageTypes, SendFacts DEF SendToSip
    <2>3. UNCHANGED <<sipVars, connected, toLive>> /\ nextReq' = nextReq /\ c \in connected
      BY <1>3, <1>6
    <2> HIDE DEF gone
    <2>4. Fits(c, w, gone, nextReq[c])
      BY <1>1, <2>1, FitsAsBefore DEF Using, Numbered
    <2>5. QED
      BY <2>1, <2>2, <2>3, <2>4, OneWorkerOnly
  <1> HIDE DEF gone
  <1>7. CASE LeavesInInit(c, w)
    <2>1. CASE Dies(c)
      BY <2>1, DiesLive
    <2>2. CASE ~Dies(c)
      BY <1>1, <1>6, <1>7, <2>2 DEF LeavesInInit
    <2>3. QED
      BY <2>1, <2>2
  <1>8. CASE LeavesInPlay(c, w)
    <2>1. r.rtp \in PortKeys
      BY <1>1 DEF Worker
    <2>2. QED
      BY <1>1, <1>6, <1>8, <2>1 DEF LeavesInPlay
  <1>9. CASE Leaves(c, w)
    <2>1. r.rtp \in PortKeys
      BY <1>1 DEF Worker
    <2>2. toSip' \in [Procs -> Seq(Msg)]
      BY <1>1, <1>2, <1>9, <2>1, MessageTypes, SendFacts DEF Leaves, SendToSip
    <2>3. worker' = [worker EXCEPT ![c][w] = NoWorker] /\ UNCHANGED <<sipVars, connected, toLive>>
          /\ UNCHANGED nextReq /\ c \in connected
      BY <1>1, <1>3, <1>9 DEF Leaves
    <2>4. Fits(c, w, NoWorker, nextReq[c])
      BY NoWorkerType, FitsAsBefore
    <2>5. QED
      BY <2>2, <2>3, <2>4, NoWorkerType, OneWorkerOnly
  <1>10. QED
    BY <1>4, <1>5, <1>7, <1>8, <1>9 DEF Viewer

-----------------------------------------------------------------------------
LEMMA InitLive == Init => LiveInv
  <1> SUFFICES ASSUME Init PROVE LiveInv
    OBVIOUS
  <1>1. worker \in [Procs -> [Workers -> Worker]] /\ \A c \in Procs, w \in Workers : worker[c][w] = NoWorker
    BY NoWorkerType DEF Init
  <1>2. nextReq \in [Procs -> 0..MaxReqs]
    BY ConstantFacts DEF Init
  <1>3. QED
    BY <1>1, <1>2, NoWorkerType, SipInitType
       DEF Init, LiveInv, LiveTypeOK, NoStaleRequest, IdsStayApart, Using, Numbered, GoneHaveNoThread

LEMMA NextLive ==
    ASSUME LiveInv, [Next]_vars
    PROVE  LiveInv'
  <1>1. CASE (SipServerStep \/ Device) /\ UNCHANGED liveVars
    BY <1>1, ServerLive
  <1>2. ASSUME NEW c \in Procs, OnIpcRecv(c) \/ Dies(c) \/ Restarts(c)
        PROVE  LiveInv'
    BY <1>2, OnIpcRecvLive, DiesLive, RestartsLive
  <1>3. ASSUME NEW c \in Procs, NEW w \in Workers, PlayThread(c, w) \/ Viewer(c, w)
        PROVE  LiveInv'
    BY <1>3, PlayThreadLive, ViewerLive
  <1>4. CASE UNCHANGED vars
    BY <1>4 DEF vars, baseVars, liveVars, LiveInv, LiveTypeOK, SipTypeOK, NoStaleRequest, IdsStayApart,
                Using, Numbered, GoneHaveNoThread
  <1>5. QED
    BY <1>1, <1>2, <1>3, <1>4 DEF Next

(* Every variable of live_server and sip_server stays in its type, even if *)
(* _ID++ (ipcex.cpp:77) hands an id out twice.                             *)
THEOREM TypeCorrect == Spec => []LiveTypeOK
  <1>1. LiveInv => LiveTypeOK
    BY DEF LiveInv
  <1>2. QED
    BY <1>1, InitLive, NextLive, PTL DEF Spec

(* on_ipc_recv never writes through a pointer to a request that play() has *)
(* done with (ipcex.cpp:42-57), for any number of processes and viewers,   *)
(* however they hurry, time out, die and come back, and also when the race *)
(* for _ID gives two of them one id.                                       *)
THEOREM NoRequestIsStale == Spec => []NoStaleRequest
  <1>1. LiveInv => NoStaleRequest
    BY DEF LiveInv
  <1>2. QED
    BY <1>1, InitLive, NextLive, PTL DEF Spec

(* Nor does it miss a request that play() waits on, unless viewers race    *)
(* for _ID.                                                                *)
THEOREM ListedWhileUsed == Spec => []RequestsListedWhileUsed
  <1>1. QED
    BY ListedUnderApart, InitLive, NextLive, PTL DEF Spec

-----------------------------------------------------------------------------
(* With patient viewers that do not race for _ID, timely answers, no       *)
(* process dying and a port for every viewer, live_server is the client of SipCalls: what is proved *)
(* of that client, DialogInv above all, holds of live_server too.          *)
P == INSTANCE SipCallsProofs WITH
    hold <- Hold, EarlyStop <- FALSE, EarlyRestart <- FALSE, MaxCrashes <- 0

(* What a viewer's record is as long as nothing is hurried or late.        *)
Quiet(r) ==
    /\ ~r.left /\ r.at # "failed"
    /\ r.at \in {"started", "loaded", "numbered"} => ~r.finish
    /\ r.at = "init" /\ r.finish => r.port \in Ports
    /\ r.at \in {"filled", "wait", "playing"} => r.rtp \in Ports
    /\ r.at \in {"filled", "wait"} => r.port = r.rtp
    /\ r.at = "wait" => r.ret = 0
QuietViewers == \A c \in Procs, w \in Workers : Quiet(worker[c][w])

(* Two viewers of a process have different ports, as they have different   *)
(* ids.                                                                    *)
Owns(r, p) == Granted(r, p) \/ Asked(r, p) \/ Playing(r, p)
IdsDiffer ==
    \A c \in Procs, v, w \in Workers :
        worker[c][v].listed /\ worker[c][w].listed /\ worker[c][v].id = worker[c][w].id => v = w
PortsDiffer ==
    \A c \in Procs, v, w \in Workers, p \in Ports :
        Owns(worker[c][v], p) /\ Owns(worker[c][w], p) => v = w

(* A live_init or its answer under way belongs to a viewer that waits in   *)
(* CreateReal; there is one of the two for an id, and only one.            *)
HasId(s, type, i) == \E j \in DOMAIN s : s[j].type = type /\ s[j].id = i
OneId(s, type, i) ==
    \A j, k \in DOMAIN s : (s[j].type = type /\ s[j].id = i /\ s[k].type = type /\ s[k].id = i) => j = k
WaitsFor(r, i) == r.at = "init" /\ ~r.finish /\ r.id = i
RequestAt(c, i) ==
    LET asked    == HasId(toSip[c], "live_init", i)
        answered == HasId(toLive[c], "live_init_answer", i)
    IN /\ asked \/ answered => \E w \in Workers : WaitsFor(worker[c][w], i)
       /\ ~(asked /\ answered)
       /\ OneId(toSip[c], "live_init", i) /\ OneId(toLive[c], "live_init_answer", i)
Requests == \A c \in Procs, i \in ReqIds : RequestAt(c, i)

(* Answers and viewers carry the id of the call the port is lent through.  *)
IdOf(p) == call[deviceCall[p]].id
Answer(m) ==
    /\ m.type \in {"live_init_answer", "live_play_answer"}
    /\ m.port \in Ports /\ m.id = IdOf(m.port)
    /\ m.type = "live_play_answer" => m.ret = 0
Answers == \A c \in Procs : \A j \in DOMAIN toLive[c] : Answer(toLive[c][j])
OwnIds ==
    \A c \in Procs, w \in Workers, p \in Ports :
        Granted(worker[c][w], p) \/ Asked(worker[c][w], p) => worker[c][w].id = IdOf(p)

PlainStops ==
    \A c \in Procs : \A j \in DOMAIN toSip[c] :
        toSip[c][j].type = "stop_play" => toSip[c][j] = StopPlayMsg(toSip[c][j].port)

Viewers == QuietViewers /\ PortsDiffer /\ Requests /\ Answers /\ OwnIds /\ PlainStops

ProtocolInv == Apart /\ LiveInv /\ P!DialogInv /\ Viewers

(* A port list in ascending order is the same thing to every client.       *)
LEMMA SameCard == \A S : P!Cardinality(S) = Cardinality(S) /\ Client!Cardinality(S) = Cardinality(S)
  BY DEF Cardinality, P!Cardinality, Client!Cardinality

LEMMA SameOrder == \A S : P!Ascending(S) = Ascending(S) /\ Client!Ascending(S) = Ascending(S)
  <1>1. \A S, T : P!Bijection(S, T) = Bijection(S, T) /\ Client!Bijection(S, T) = Bijection(S, T)
    BY DEF Bijection, P!Bijection, Client!Bijection, Injection, P!Injection, Client!Injection,
       Surjection, P!Surjection, Client!Surjection, IsInjective, P!IsInjective, Client!IsInjective
  <1>2. QED
    BY <1>1, SameCard DEF Ascending, P!Ascending, Client!Ascending

(* sip_server is the same program for every client.                       *)
LEMMA SameServer ==
    /\ \A c \in Procs : IpcThread(c) => P!IpcThread(c) /\ Client!IpcThread(c)
    /\ IndexCall => P!IndexCall /\ Client!IndexCall
    /\ SipThread => P!SipThread /\ Client!SipThread
    /\ Device => P!Device /\ Client!Device
  <1> USE DEF Receive, P!Receive, Client!Receive, Relay, P!Relay, Client!Relay, Calls, P!Calls, Client!Calls, Cids,
       P!Cids, Client!Cids, PortKeys, P!PortKeys, Client!PortKeys, CidKeys, P!CidKeys, Client!CidKeys, NoCall,
       P!NoCall, Client!NoCall, NoPort, P!NoPort, Client!NoPort, NullPort, P!NullPort, Client!NullPort, NoCid,
       P!NoCid, Client!NoCid, IdleIpc, P!IdleIpc, Client!IdleIpc, IdleSip, P!IdleSip, Client!IdleSip, InitAnswer,
       P!InitAnswer, Client!InitAnswer, PlayAnswer, P!PlayAnswer, Client!PlayAnswer, sipVars, P!sipVars,
       Client!sipVars, ipcVars, P!ipcVars, Client!ipcVars
  <1>1. \A c \in Procs : PlayInit(c) => P!PlayInit(c) /\ Client!PlayInit(c)
    BY DEF PlayInit, P!PlayInit, Client!PlayInit, FreshCall, P!FreshCall, Client!FreshCall
  <1>2. \A c \in Procs : PlayInitNoPort(c) => P!PlayInitNoPort(c) /\ Client!PlayInitNoPort(c)
    BY DEF PlayInitNoPort, P!PlayInitNoPort, Client!PlayInitNoPort
  <1>3. \A c \in Procs : RealPlayUnsent(c) => P!RealPlayUnsent(c) /\ Client!RealPlayUnsent(c)
    BY DEF RealPlayUnsent, P!RealPlayUnsent, Client!RealPlayUnsent
  <1>4. \A c \in Procs : SendInvite(c) => P!SendInvite(c) /\ Client!SendInvite(c)
    BY DEF SendInvite, P!SendInvite, Client!SendInvite, FreshCid, P!FreshCid, Client!FreshCid
  <1>5. \A c \in Procs : StopPlay(c) => P!StopPlay(c) /\ Client!StopPlay(c)
    BY DEF StopPlay, P!StopPlay, Client!StopPlay, Deleted, P!Deleted, Client!Deleted, Unindexed, P!Unindexed,
       Client!Unindexed, Returned, P!Returned, Client!Returned
  <1>6. \A c \in Procs : StopPlayUnknown(c) => P!StopPlayUnknown(c) /\ Client!StopPlayUnknown(c)
    BY DEF StopPlayUnknown, P!StopPlayUnknown, Client!StopPlayUnknown
  <1>7. \A c \in Procs : StopPlayThrows(c) => P!StopPlayThrows(c) /\ Client!StopPlayThrows(c)
    BY DEF StopPlayThrows, P!StopPlayThrows, Client!StopPlayThrows
  <1>8. \A c \in Procs : StopPlayAll(c) => P!StopPlayAll(c) /\ Client!StopPlayAll(c)
    <2>1. \A c : P!PortsOf(c) = PortsOf(c) /\ Client!PortsOf(c) = PortsOf(c)
      BY DEF PortsOf, P!PortsOf, Client!PortsOf
    <2>2. \A c \in Procs : StopPlayAll(c) => P!StopPlayAll(c)
      BY <2>1, SameOrder DEF StopPlayAll, P!StopPlayAll
    <2>3. \A c \in Procs : StopPlayAll(c) => Client!StopPlayAll(c)
      BY <2>1, SameOrder DEF StopPlayAll, Client!StopPlayAll
    <2>4. QED
      BY <2>2, <2>3
  <1>9. \A c \in Procs : IpcThread(c) => P!IpcThread(c) /\ Client!IpcThread(c)
    BY <1>1, <1>2, <1>3, <1>4, <1>5, <1>6, <1>7, <1>8 DEF IpcThread, P!IpcThread, Client!IpcThread
  <1>10. IndexCall => P!IndexCall /\ Client!IndexCall
    BY DEF IndexCall, P!IndexCall, Client!IndexCall
  <1>11. DropEvent => P!DropEvent /\ Client!DropEvent
    BY DEF DropEvent, P!DropEvent, Client!DropEvent
  <1>12. \A k \in {"ok", "fail"} : FindByCallID(k) => P!FindByCallID(k) /\ Client!FindByCallID(k)
    BY DEF FindByCallID, P!FindByCallID, Client!FindByCallID, SipEvent, P!SipEvent, Client!SipEvent
  <1>13. OnInviteOK => P!OnInviteOK /\ Client!OnInviteOK
    BY DEF OnInviteOK, P!OnInviteOK, Client!OnInviteOK, SetDialog, P!SetDialog, Client!SetDialog, Touched, P!Touched,
       Client!Touched, DialogIdOfAnswer, P!DialogIdOfAnswer, Client!DialogIdOfAnswer
  <1>14. OnPlayCb => P!OnPlayCb /\ Client!OnPlayCb
    BY DEF OnPlayCb, P!OnPlayCb, Client!OnPlayCb, Touched, P!Touched, Client!Touched
  <1>15. OnInviteFailed => P!OnInviteFailed /\ Client!OnInviteFailed
    BY DEF OnInviteFailed, P!OnInviteFailed, Client!OnInviteFailed, SetDialog, P!SetDialog, Client!SetDialog, Touched,
       P!Touched, Client!Touched
  <1>19. OnInviteOKThrows => P!OnInviteOKThrows /\ Client!OnInviteOKThrows
    BY DEF OnInviteOKThrows, P!OnInviteOKThrows, Client!OnInviteOKThrows
  <1>16. SipThread => P!SipThread /\ Client!SipThread
    BY <1>11, <1>12, <1>13, <1>14, <1>15, <1>19 DEF SipThread, P!SipThread, Client!SipThread
  <1>17. Device => P!Device /\ Client!Device
    BY DEF Device, P!Device, Client!Device, DeviceAnswers, P!DeviceAnswers, Client!DeviceAnswers, DeviceHangsUp,
       P!DeviceHangsUp, Client!DeviceHangsUp
  <1>18. QED
    BY <1>9, <1>10, <1>16, <1>17

-----------------------------------------------------------------------------
(* What the invariant of SipCalls says in terms of live_server.            *)
LentTo(c, p) == deviceCall[p] # NoCall /\ call[deviceCall[p]].proc = c

SipFacts ==
    /\ connected = Procs /\ crashes = 0
    /\ \A p \in PortKeys : deviceCall[p] # NoCall =>
          p \in Ports /\ call[deviceCall[p]].st = "live" /\ call[deviceCall[p]].port = p
    /\ \A k \in Calls : call[k].st = "live" => deviceCall[call[k].port] = k
    /\ \A i \in DOMAIN ports : ports[i] \in Ports /\ deviceCall[ports[i]] = NoCall
    /\ sip.at = "acked" => sip.obj \in Calls /\ call[sip.obj].st = "live"

HoldFacts ==
    \A c \in Procs, p \in Ports :
        /\ Hold[c][p] # "none" => LentTo(c, p)
        /\ \A j \in DOMAIN toSip[c] :
              toSip[c][j].type = "stop_play" /\ toSip[c][j].port = p => Hold[c][p] = "none"
        /\ \A j \in DOMAIN toLive[c] : toLive[c][j].port = p =>
              /\ toLive[c][j].type = "live_init_answer" => LentTo(c, p) /\ Hold[c][p] = "none"
              /\ toLive[c][j].type = "live_play_answer" => LentTo(c, p) /\ Hold[c][p] = "asked"

LEMMA Inherited == P!DialogInv => SipFacts /\ HoldFacts
  <1> SUFFICES ASSUME P!DialogInv PROVE SipFacts /\ HoldFacts
    OBVIOUS
  <1>1. /\ P!TypeOK /\ P!DeviceTable /\ P!PortsConserved /\ P!RightToStop
        /\ P!NoCallLeaks /\ P!PortStages /\ connected = Procs /\ P!DueCallsAreAwaited
    BY DEF P!DialogInv, P!IndexInv, P!IInv, P!Dialogs
  <1>2. NoCall = P!NoCall /\ Calls = P!Calls /\ PortKeys = P!PortKeys
    BY DEF NoCall, P!NoCall, Calls, P!Calls, PortKeys, P!PortKeys, NullPort, P!NullPort, NoPort, P!NoPort
  <1>3. SipFacts
    <2>1. crashes = 0
      BY <1>1 DEF P!TypeOK
    <2>2. \A i \in DOMAIN ports : ports[i] \in Ports /\ deviceCall[ports[i]] = NoCall
      BY <1>1, <1>2 DEF P!PortsConserved, P!InPool
    <2>3. sip.at = "acked" => sip.obj \in Calls /\ call[sip.obj].st = "live"
      BY <1>1, <1>2 DEF P!DueCallsAreAwaited, P!Awaited
    <2>4. QED
      BY <1>1, <1>2, <2>1, <2>2, <2>3 DEF SipFacts, P!DeviceTable, P!NoCallLeaks
  <1>4. ASSUME NEW c \in Procs, NEW p \in Ports
        PROVE  /\ Hold[c][p] # "none" => LentTo(c, p)
               /\ P!HasMsg(toSip[c], "stop_play", p) => Hold[c][p] = "none"
               /\ P!HasMsg(toLive[c], "live_init_answer", p) => LentTo(c, p) /\ Hold[c][p] = "none"
               /\ P!HasMsg(toLive[c], "live_play_answer", p) => LentTo(c, p) /\ Hold[c][p] = "asked"
    <2>1. p \in PortKeys
      BY ConstantFacts
    <2>2. LentTo(c, p) <=> P!Lent(c, p)
      BY <1>2 DEF LentTo, P!Lent
    <2>3. P!HasMsg(toLive[c], "live_play_answer", p) => Hold[c][p] = "asked"
      BY <1>1 DEF P!PortStages, P!PortStagesAt, P!HasAnswer
    <2>4. QED
      BY <1>1, <1>2, <2>1, <2>2, <2>3 DEF P!RightToStop
  <1>5. HoldFacts
    BY <1>4 DEF HoldFacts, P!HasMsg
  <1>6. QED
    BY <1>3, <1>5

LEMMA InheritedNext == P!DialogInv' => SipFacts' /\ HoldFacts'
  BY Inherited, PTL

-----------------------------------------------------------------------------
(* What a process holds, from what its viewers own.                        *)
LEMMA OwnsOne ==
    ASSUME NEW r, NEW p, NEW q, Owns(r, p), Owns(r, q)
    PROVE  p = q
  BY DEF Owns, Granted, Asked, Playing

LEMMA HoldOfOwned ==
    ASSUME NEW f, NEW p, \A v, w \in Workers : Owns(f[v], p) /\ Owns(f[w], p) => v = w
    PROVE  \A w \in Workers :
              /\ Granted(f[w], p) => HoldOf(f, p) = "granted"
              /\ Asked(f[w], p) => HoldOf(f, p) = "asked"
              /\ Playing(f[w], p) => HoldOf(f, p) = "playing"
  <1>1. \A r : /\ Asked(r, p) => ~Granted(r, p)
               /\ Playing(r, p) => ~Granted(r, p) /\ ~Asked(r, p)
    BY DEF Granted, Asked, Playing
  <1>2. QED
    BY <1>1 DEF HoldOf, Owns

LEMMA HoldOfOwner ==
    ASSUME NEW f, NEW p
    PROVE  /\ HoldOf(f, p) = "none" <=> \A w \in Workers : ~Owns(f[w], p)
           /\ HoldOf(f, p) = "granted" => \E w \in Workers : Granted(f[w], p)
           /\ HoldOf(f, p) = "asked" => \E w \in Workers : Asked(f[w], p)
           /\ HoldOf(f, p) \in {"asked", "playing"} => \E w \in Workers : Asked(f[w], p) \/ Playing(f[w], p)
  BY DEF HoldOf, Owns

LEMMA HoldAt ==
    ASSUME NEW c \in Procs, NEW p \in Ports
    PROVE  Hold[c][p] = HoldOf(worker[c], p) /\ Hold'[c][p] = HoldOf(worker'[c], p)
  BY DEF Hold, HoldOf

(* A viewer's step that leaves alone what it owns, and one that moves the  *)
(* only port it owns to another stage.                                     *)
SameStage(r, q, p) ==
    (Granted(q, p) <=> Granted(r, p)) /\ (Asked(q, p) <=> Asked(r, p)) /\ (Playing(q, p) <=> Playing(r, p))

LEMMA SameHoldOf ==
    ASSUME NEW f, NEW g, NEW p, \A w \in Workers : SameStage(f[w], g[w], p)
    PROVE  HoldOf(g, p) = HoldOf(f, p)
  BY DEF SameStage, HoldOf

LEMMA StutterHold ==
    ASSUME \A c \in Procs, w \in Workers, p \in Ports : SameStage(worker[c][w], worker'[c][w], p)
    PROVE  Hold' = Hold
  <1>1. \A c \in Procs, p \in Ports : HoldOf(worker'[c], p) = HoldOf(worker[c], p)
    BY SameHoldOf
  <1>2. Hold' = [c \in Procs |-> [p \in Ports |-> HoldOf(worker'[c], p)]]
    BY DEF Hold, HoldOf
  <1>3. QED
    BY <1>1, <1>2 DEF Hold

LEMMA MoveHold ==
    ASSUME NEW c \in Procs, NEW p \in Ports,
           \A d \in Procs, w \in Workers, q \in Ports :
              d # c \/ q # p => SameStage(worker[d][w], worker'[d][w], q)
    PROVE  Hold' = [Hold EXCEPT ![c][p] = HoldOf(worker'[c], p)]
  <1>1. \A d \in Procs, q \in Ports : d # c \/ q # p => HoldOf(worker'[d], q) = HoldOf(worker[d], q)
    BY SameHoldOf
  <1>2. Hold' = [d \in Procs |-> [q \in Ports |-> HoldOf(worker'[d], q)]]
    BY DEF Hold, HoldOf
  <1>3. [Hold EXCEPT ![c][p] = HoldOf(worker'[c], p)]
           = [d \in Procs |-> [q \in Ports |-> IF d = c /\ q = p THEN HoldOf(worker'[c], p) ELSE HoldOf(worker[d], q)]]
    BY DEF Hold
  <1>4. QED
    BY <1>1, <1>2, <1>3

-----------------------------------------------------------------------------
(* Requests and answers in the channels.                                   *)
LEMMA TailIds ==
    ASSUME NEW S, NEW s \in Seq(S), s # << >>
    PROVE  /\ \A j \in DOMAIN Tail(s) : \E k \in DOMAIN s : Tail(s)[j] = s[k]
           /\ \A type, i :
                /\ HasId(Tail(s), type, i) => HasId(s, type, i)
                /\ OneId(s, type, i) => OneId(Tail(s), type, i)
                /\ Head(s).type # type \/ Head(s).id # i => (HasId(s, type, i) => HasId(Tail(s), type, i))
                /\ OneId(s, type, i) /\ Head(s).type = type /\ Head(s).id = i => ~HasId(Tail(s), type, i)
  <1>1. /\ Len(s) \in Nat \ {0} /\ Head(s) = s[1] /\ DOMAIN s = 1..Len(s)
        /\ DOMAIN Tail(s) = 1..Len(s) - 1
        /\ \A j \in 1..Len(s) - 1 : Tail(s)[j] = s[j + 1]
    BY TailFacts, LenProperties
  <1>2. /\ \A j \in DOMAIN Tail(s) : j + 1 \in DOMAIN s /\ j + 1 # 1 /\ Tail(s)[j] = s[j + 1] /\ j \in Nat
        /\ \A j \in DOMAIN s : j = 1 \/ (j - 1 \in DOMAIN Tail(s) /\ Tail(s)[j - 1] = s[j])
        /\ 1 \in DOMAIN s
    BY <1>1
  <1>3. \A j \in DOMAIN Tail(s) : \E k \in DOMAIN s : Tail(s)[j] = s[k]
    BY <1>2
  <1>4. ASSUME NEW type, NEW i
        PROVE  /\ HasId(Tail(s), type, i) => HasId(s, type, i)
               /\ OneId(s, type, i) => OneId(Tail(s), type, i)
               /\ Head(s).type # type \/ Head(s).id # i => (HasId(s, type, i) => HasId(Tail(s), type, i))
               /\ OneId(s, type, i) /\ Head(s).type = type /\ Head(s).id = i => ~HasId(Tail(s), type, i)
    <2>1. HasId(Tail(s), type, i) => HasId(s, type, i)
      BY <1>3 DEF HasId
    <2>2. OneId(s, type, i) => OneId(Tail(s), type, i)
      <3> SUFFICES ASSUME OneId(s, type, i), NEW j \in DOMAIN Tail(s), NEW k \in DOMAIN Tail(s),
                          Tail(s)[j].type = type, Tail(s)[j].id = i, Tail(s)[k].type = type, Tail(s)[k].id = i
                   PROVE  j = k
        BY DEF OneId
      <3>1. j + 1 = k + 1
        BY <1>2 DEF OneId
      <3>2. QED
        BY <1>2, <3>1
    <2>3. Head(s).type # type \/ Head(s).id # i => (HasId(s, type, i) => HasId(Tail(s), type, i))
      BY <1>1, <1>2 DEF HasId
    <2>4. OneId(s, type, i) /\ Head(s).type = type /\ Head(s).id = i => ~HasId(Tail(s), type, i)
      BY <1>1, <1>2 DEF HasId, OneId
    <2>5. QED
      BY <2>1, <2>2, <2>3, <2>4
  <1>5. QED
    BY <1>3, <1>4

LEMMA AppendIds ==
    ASSUME NEW S, NEW s \in Seq(S), NEW m \in S
    PROVE  /\ \A j \in DOMAIN Append(s, m) : Append(s, m)[j] = m \/ \E k \in DOMAIN s : Append(s, m)[j] = s[k]
           /\ \A type, i :
                /\ HasId(Append(s, m), type, i) <=> HasId(s, type, i) \/ (m.type = type /\ m.id = i)
                /\ OneId(s, type, i) /\ (HasId(s, type, i) => m.type # type \/ m.id # i)
                      => OneId(Append(s, m), type, i)
  <1>1. /\ Len(s) \in Nat /\ DOMAIN s = 1..Len(s) /\ DOMAIN Append(s, m) = 1..Len(s) + 1
        /\ Append(s, m)[Len(s) + 1] = m /\ \A j \in 1..Len(s) : Append(s, m)[j] = s[j]
    BY AppendProperties, LenProperties
  <1>2. /\ \A j \in DOMAIN Append(s, m) : j \in DOMAIN s \/ j = Len(s) + 1
        /\ DOMAIN s \subseteq DOMAIN Append(s, m) /\ Len(s) + 1 \in DOMAIN Append(s, m)
        /\ \A j \in DOMAIN s : Append(s, m)[j] = s[j]
    BY <1>1
  <1>3. \A j \in DOMAIN Append(s, m) : Append(s, m)[j] = m \/ \E k \in DOMAIN s : Append(s, m)[j] = s[k]
    BY <1>1, <1>2
  <1>4. \A type, i : HasId(Append(s, m), type, i) <=> HasId(s, type, i) \/ (m.type = type /\ m.id = i)
    BY <1>1, <1>2 DEF HasId
  <1>5. \A type, i : OneId(s, type, i) /\ (HasId(s, type, i) => m.type # type \/ m.id # i)
                        => OneId(Append(s, m), type, i)
    BY <1>1, <1>2 DEF HasId, OneId
  <1>6. QED
    BY <1>3, <1>4, <1>5

-----------------------------------------------------------------------------
(* A viewer's step that sends nothing but perhaps a live_play or stop_play,*)
(* and leaves the request and the port it has, or lets go of them.         *)
Later(r, q) ==
    /\ Quiet(q)
    /\ \A p \in Ports : Owns(q, p) => Owns(r, p)
    /\ \A p \in Ports : Granted(q, p) \/ Asked(q, p) => (Granted(r, p) \/ Asked(r, p)) /\ q.id = r.id
    /\ \A i \in ReqIds : WaitsFor(r, i) => WaitsFor(q, i)

NoRequest(c) ==
    \/ toSip' = toSip
    \/ \E m \in Msg : /\ m.type # "live_init" /\ (m.type = "stop_play" => m = StopPlayMsg(m.port))
                      /\ toSip' = [toSip EXCEPT ![c] = Append(@, m)]

NoAnswer(c) ==
    toLive' = toLive \/ (toLive[c] # << >> /\ toLive' = [toLive EXCEPT ![c] = Tail(@)])

LEMMA ProtocolTypes ==
    ASSUME ProtocolInv
    PROVE  /\ worker \in [Procs -> [Workers -> Worker]] /\ nextReq \in [Procs -> 0..MaxReqs]
           /\ toSip \in [Procs -> Seq(Msg)] /\ toLive \in [Procs -> Seq(Msg)]
           /\ SipTypeOK
           /\ \A c \in Procs, w \in Workers :
                 /\ worker[c][w].listed <=> Using(worker[c][w])
                 /\ Numbered(worker[c][w]) => worker[c][w].id < nextReq[c]
           /\ SipFacts /\ HoldFacts /\ Viewers /\ IdsDiffer
  <1>1. /\ worker \in [Procs -> [Workers -> Worker]] /\ nextReq \in [Procs -> 0..MaxReqs]
        /\ toSip \in [Procs -> Seq(Msg)] /\ toLive \in [Procs -> Seq(Msg)] /\ SipTypeOK
    BY DEF ProtocolInv, LiveInv, LiveTypeOK, SipTypeOK
  <1>2. \A c \in Procs, w \in Workers :
           /\ worker[c][w].listed <=> Using(worker[c][w])
           /\ Numbered(worker[c][w]) => worker[c][w].id < nextReq[c]
    BY DEF ProtocolInv, LiveInv, NoStaleRequest, IdsStayApart
  <1>3. IdsDiffer
    BY DEF ProtocolInv, LiveInv, NoStaleRequest, IdsDiffer
  <1>4. SipFacts /\ HoldFacts /\ Viewers
    BY Inherited DEF ProtocolInv
  <1>5. QED
    BY <1>1, <1>2, <1>3, <1>4

(* No other viewer of the process has the id of one that has one.          *)
LEMMA OwnId ==
    ASSUME ProtocolInv, NEW c \in Procs, NEW w \in Workers, Numbered(worker[c][w])
    PROVE  \A v \in Workers : v # w /\ Numbered(worker[c][v]) => worker[c][v].id # worker[c][w].id
  BY DEF ProtocolInv, LiveInv, IdsStayApart

LEMMA NoRequestFacts ==
    ASSUME toSip \in [Procs -> Seq(Msg)], NEW c \in Procs, NoRequest(c), PlainStops
    PROVE  /\ PlainStops'
           /\ \A d \in Procs, i \in ReqIds : HasId(toSip'[d], "live_init", i) => HasId(toSip[d], "live_init", i)
           /\ \A d \in Procs, i \in ReqIds : OneId(toSip[d], "live_init", i) => OneId(toSip'[d], "live_init", i)
  <1>1. CASE toSip' = toSip
    BY <1>1 DEF PlainStops
  <1>2. ASSUME NEW m \in Msg, m.type # "live_init", m.type = "stop_play" => m = StopPlayMsg(m.port),
               toSip' = [toSip EXCEPT ![c] = Append(@, m)]
        PROVE  /\ PlainStops'
               /\ \A d \in Procs, i \in ReqIds : HasId(toSip'[d], "live_init", i) => HasId(toSip[d], "live_init", i)
               /\ \A d \in Procs, i \in ReqIds : OneId(toSip[d], "live_init", i) => OneId(toSip'[d], "live_init", i)
    <2>1. \A d \in Procs : toSip'[d] = IF d = c THEN Append(toSip[c], m) ELSE toSip[d]
      BY <1>2
    <2>2. toSip[c] \in Seq(Msg)
      OBVIOUS
    <2>3. PlainStops'
      <3>1. \A j \in DOMAIN Append(toSip[c], m) :
               \/ Append(toSip[c], m)[j] = m
               \/ \E k \in DOMAIN toSip[c] : Append(toSip[c], m)[j] = toSip[c][k]
        BY <2>2, AppendIds
      <3>2. \A j \in DOMAIN Append(toSip[c], m) :
               Append(toSip[c], m)[j].type = "stop_play"
                  => Append(toSip[c], m)[j] = StopPlayMsg(Append(toSip[c], m)[j].port)
        BY <1>2, <3>1 DEF PlainStops
      <3>3. \A d \in Procs : \A j \in DOMAIN toSip'[d] :
               toSip'[d][j].type = "stop_play" => toSip'[d][j] = StopPlayMsg(toSip'[d][j].port)
        <4> TAKE d \in Procs
        <4>1. CASE d = c
          <5>1. toSip'[d] = Append(toSip[c], m)
            BY <2>1, <4>1
          <5>2. QED
            BY <3>2, <5>1
        <4>2. CASE d # c
          <5>1. toSip'[d] = toSip[d]
            BY <2>1, <4>2
          <5>2. QED
            BY <5>1 DEF PlainStops
        <4>3. QED
          BY <4>1, <4>2
      <3>4. QED
        BY <3>3 DEF PlainStops
    <2>4. \A i : /\ HasId(Append(toSip[c], m), "live_init", i) => HasId(toSip[c], "live_init", i)
                 /\ OneId(toSip[c], "live_init", i) => OneId(Append(toSip[c], m), "live_init", i)
      BY <1>2, <2>2, AppendIds
    <2>5. QED
      BY <2>1, <2>3, <2>4
  <1>3. QED
    BY <1>1, <1>2 DEF NoRequest

LEMMA NoAnswerFacts ==
    ASSUME toLive \in [Procs -> Seq(Msg)], NEW c \in Procs, NoAnswer(c)
    PROVE  /\ \A d \in Procs : \A j \in DOMAIN toLive'[d] : \E k \in DOMAIN toLive[d] : toLive'[d][j] = toLive[d][k]
           /\ \A d \in Procs : \A type, i : HasId(toLive'[d], type, i) => HasId(toLive[d], type, i)
           /\ \A d \in Procs : \A type, i : OneId(toLive[d], type, i) => OneId(toLive'[d], type, i)
  <1>1. CASE toLive' = toLive
    BY <1>1
  <1>2. CASE toLive[c] # << >> /\ toLive' = [toLive EXCEPT ![c] = Tail(@)]
    <2>1. toLive[c] \in Seq(Msg) /\ \A d \in Procs : toLive'[d] = IF d = c THEN Tail(toLive[c]) ELSE toLive[d]
      BY <1>2
    <2>2. /\ \A j \in DOMAIN Tail(toLive[c]) : \E k \in DOMAIN toLive[c] : Tail(toLive[c])[j] = toLive[c][k]
          /\ \A type, i : HasId(Tail(toLive[c]), type, i) => HasId(toLive[c], type, i)
          /\ \A type, i : OneId(toLive[c], type, i) => OneId(Tail(toLive[c]), type, i)
      BY <1>2, <2>1, TailIds
    <2>3. QED
      BY <2>1, <2>2
  <1>3. QED
    BY <1>1, <1>2 DEF NoAnswer

LEMMA LaterViewers ==
    ASSUME ProtocolInv, NEW c \in Procs, NEW w \in Workers, NEW q,
           worker' = [worker EXCEPT ![c][w] = q], Later(worker[c][w], q), NoRequest(c),
           NoAnswer(c), UNCHANGED <<deviceCall, call>>
    PROVE  Viewers'
  <1>1. \A d \in Procs, v \in Workers : worker'[d][v] = IF d = c /\ v = w THEN q ELSE worker[d][v]
    BY ProtocolTypes
  <1>2. Viewers
    BY DEF ProtocolInv
  <1> PICK r : r = worker[c][w]
    OBVIOUS
  <1>3. QuietViewers'
    BY <1>1, <1>2 DEF Viewers, QuietViewers, Later
  <1>5. PortsDiffer'
    <2>1. \A d \in Procs, v \in Workers, p \in Ports : Owns(worker'[d][v], p) => Owns(worker[d][v], p)
      BY <1>1 DEF Later
    <2>2. QED
      BY <1>2, <2>1 DEF Viewers, PortsDiffer
  <1>6. OwnIds'
    <2>1. \A d \in Procs, v \in Workers, p \in Ports :
             Granted(worker'[d][v], p) \/ Asked(worker'[d][v], p)
                => (Granted(worker[d][v], p) \/ Asked(worker[d][v], p)) /\ worker'[d][v].id = worker[d][v].id
      BY <1>1 DEF Later
    <2>2. \A p \in Ports : IdOf(p)' = IdOf(p)
      BY DEF IdOf
    <2>3. QED
      BY <1>2, <2>1, <2>2 DEF Viewers, OwnIds
  <1>7. Requests'
    <2>1. \A d \in Procs, v \in Workers, i \in ReqIds : WaitsFor(worker[d][v], i) => WaitsFor(worker'[d][v], i)
      BY <1>1 DEF Later
    <2>2. \A d \in Procs, i \in ReqIds : RequestAt(d, i)
      BY <1>2 DEF Viewers, Requests
    <2>3. /\ \A d \in Procs, i \in ReqIds : HasId(toSip'[d], "live_init", i) => HasId(toSip[d], "live_init", i)
          /\ \A d \in Procs, i \in ReqIds : OneId(toSip[d], "live_init", i) => OneId(toSip'[d], "live_init", i)
      BY <1>2, ProtocolTypes, NoRequestFacts DEF Viewers
    <2>4. /\ \A d \in Procs, i \in ReqIds :
                HasId(toLive'[d], "live_init_answer", i) => HasId(toLive[d], "live_init_answer", i)
          /\ \A d \in Procs, i \in ReqIds :
                OneId(toLive[d], "live_init_answer", i) => OneId(toLive'[d], "live_init_answer", i)
      BY ProtocolTypes, NoAnswerFacts
    <2>5. QED
      BY <2>1, <2>2, <2>3, <2>4 DEF Requests, RequestAt
  <1>8. Answers'
    <2>1. \A m : Answer(m)' <=> Answer(m)
      BY DEF Answer, IdOf
    <2>2. \A d \in Procs : \A j \in DOMAIN toLive'[d] : \E k \in DOMAIN toLive[d] : toLive'[d][j] = toLive[d][k]
      BY ProtocolTypes, NoAnswerFacts
    <2>3. QED
      BY <1>2, <2>1, <2>2 DEF Viewers, Answers
  <1>9. PlainStops'
    BY <1>2, ProtocolTypes, NoRequestFacts DEF Viewers
  <1>10. QED
    BY <1>3, <1>5, <1>6, <1>7, <1>8, <1>9 DEF Viewers

-----------------------------------------------------------------------------
(* Every step of live_server is a step of the client, or a stutter.        *)
Simulated == [P!Next]_(P!vars) /\ [Client!Next]_(Client!vars)

LEMMA StutterIsSimulated ==
    ASSUME Hold' = Hold, UNCHANGED <<baseVars, nextReq, sent, crashes>>
    PROVE  Simulated
  <1>1. UNCHANGED P!vars
    BY DEF P!vars, P!baseVars, P!clientVars, baseVars
  <1>2. UNCHANGED Client!vars
    BY DEF Client!vars, Client!baseVars, Client!clientVars, baseVars
  <1>3. QED
    BY <1>1, <1>2 DEF Simulated

LEMMA OneViewerHold ==
    ASSUME ProtocolInv, NEW c \in Procs, NEW w \in Workers, NEW q, worker' = [worker EXCEPT ![c][w] = q],
           \A p \in Ports : SameStage(worker[c][w], q, p)
    PROVE  Hold' = Hold
  <1>1. \A d \in Procs, v \in Workers : worker'[d][v] = IF d = c /\ v = w THEN q ELSE worker[d][v]
    BY ProtocolTypes
  <1>2. \A r, p : SameStage(r, r, p)
    BY DEF SameStage
  <1>3. \A d \in Procs, v \in Workers, p \in Ports : SameStage(worker[d][v], worker'[d][v], p)
    BY <1>1, <1>2
  <1>4. QED
    BY <1>3, StutterHold

OthersStay(r, q, p) == \A x \in Ports : x # p => SameStage(r, q, x)
Moves(c, p) == Hold' = [Hold EXCEPT ![c][p] = HoldOf(worker'[c], p)]

LEMMA OneViewerMoves ==
    ASSUME ProtocolInv, NEW c \in Procs, NEW w \in Workers, NEW q, worker' = [worker EXCEPT ![c][w] = q],
           NEW p \in Ports, OthersStay(worker[c][w], q, p)
    PROVE  Moves(c, p)
  <1>1. \A d \in Procs, v \in Workers : worker'[d][v] = IF d = c /\ v = w THEN q ELSE worker[d][v]
    BY ProtocolTypes
  <1>2. \A r, x : SameStage(r, r, x)
    BY DEF SameStage
  <1>3. \A d \in Procs, v \in Workers, x \in Ports :
           d # c \/ x # p => SameStage(worker[d][v], worker'[d][v], x)
    BY <1>1, <1>2 DEF OthersStay
  <1>4. QED
    BY <1>3, MoveHold DEF Moves

LEMMA OwnerHold ==
    ASSUME PortsDiffer, NEW c \in Procs, NEW w \in Workers, NEW p \in Ports
    PROVE  /\ Granted(worker[c][w], p) => Hold[c][p] = "granted"
           /\ Asked(worker[c][w], p) => Hold[c][p] = "asked"
           /\ Playing(worker[c][w], p) => Hold[c][p] = "playing"
  <1>1. \A v, x \in Workers : Owns(worker[c][v], p) /\ Owns(worker[c][x], p) => v = x
    BY DEF PortsDiffer
  <1>2. QED
    BY <1>1, HoldAt, HoldOfOwned

(* A viewer comes: it owns nothing yet.                                    *)
LEMMA ConnectsSimulated ==
    ASSUME ProtocolInv, NEW c \in Procs, NEW w \in Workers, Connects(c, w)
    PROVE  Simulated /\ Viewers'
  <1> PICK r, q : r = worker[c][w] /\ q = [NoWorker EXCEPT !.at = "started"]
    OBVIOUS
  <1>1. worker' = [worker EXCEPT ![c][w] = q] /\ r.at = "none" /\ UNCHANGED <<baseVars, nextReq, sent, crashes>>
    BY DEF Connects
  <1>2. q.at = "started" /\ ~q.left /\ ~q.listed /\ ~q.finish
    BY DEF NoWorker
  <1>3. Later(r, q)
    BY <1>1, <1>2 DEF Later, Quiet, Owns, Granted, Asked, Playing, WaitsFor
  <1>4. \A p \in Ports : SameStage(r, q, p)
    BY <1>1, <1>2 DEF SameStage, Granted, Asked, Playing
  <1>5. NoRequest(c) /\ NoAnswer(c) /\ UNCHANGED <<deviceCall, call>>
    BY <1>1 DEF NoRequest, NoAnswer, baseVars
  <1>6. QED
    BY <1>1, <1>3, <1>4, <1>5, LaterViewers, OneViewerHold, StutterIsSimulated

(* The granted port goes into RtpData, and stays granted.                  *)
LEMMA FillRtpDataSimulated ==
    ASSUME ProtocolInv, NEW c \in Procs, NEW w \in Workers, FillRtpData(c, w)
    PROVE  Simulated /\ Viewers'
  <1> PICK r \in Worker : r = worker[c][w]
    BY ProtocolTypes
  <1> PICK q : q = [r EXCEPT !.at = "filled", !.rtp = r.port]
    OBVIOUS
  <1>1. worker' = [worker EXCEPT ![c][w] = q] /\ r.at = "init" /\ r.finish
        /\ UNCHANGED <<baseVars, nextReq, sent, crashes>>
    BY DEF FillRtpData, RtpPort
  <1>2. /\ q.at = "filled" /\ q.rtp = r.port /\ q.port = r.port /\ q.left = r.left
        /\ q.listed = r.listed /\ q.id = r.id
    BY DEF Worker
  <1>3. Quiet(r)
    BY ProtocolTypes DEF Viewers, QuietViewers
  <1>4. Later(r, q)
    BY <1>1, <1>2, <1>3 DEF Later, Quiet, Owns, Granted, Asked, Playing, WaitsFor
  <1>5. \A p \in Ports : SameStage(r, q, p)
    BY <1>1, <1>2 DEF SameStage, Granted, Asked, Playing
  <1>6. NoRequest(c) /\ NoAnswer(c) /\ UNCHANGED <<deviceCall, call>>
    BY <1>1 DEF NoRequest, NoAnswer, baseVars
  <1>7. QED
    BY <1>1, <1>4, <1>5, <1>6, LaterViewers, OneViewerHold, StutterIsSimulated

(* DestoryRequest takes the viewer's own request off the list, and no      *)
(* other's.                                                                *)
LEMMA PlayedRewrites ==
    ASSUME ProtocolInv, NEW c \in Procs, NEW w \in Workers, Played(c, w)
    PROVE  /\ worker' = [worker EXCEPT ![c][w] = [worker[c][w] EXCEPT !.at = "playing", !.listed = FALSE]]
           /\ worker[c][w].at = "wait" /\ worker[c][w].finish
           /\ UNCHANGED <<baseVars, nextReq, sent, crashes>>
  <1> PICK r \in Worker : r = worker[c][w]
    BY ProtocolTypes
  <1> PICK q : q = [r EXCEPT !.at = "playing", !.listed = FALSE]
    OBVIOUS
  <1>1. Quiet(r)
    BY ProtocolTypes DEF Viewers, QuietViewers
  <1>2. worker' = [worker EXCEPT ![c][w] = q] /\ r.at = "wait" /\ r.finish
        /\ UNCHANGED <<baseVars, nextReq, sent, crashes>>
    <2> DEFINE f(v) == [worker[c][v] EXCEPT !.at = IF v = w THEN "playing" ELSE @,
                                            !.listed = Unlisted(worker[c][v], r.id)]
    <2>1. /\ worker' = [worker EXCEPT ![c] = [v \in Workers |-> f(v)]]
          /\ r.at = "wait" /\ r.finish /\ UNCHANGED <<baseVars, nextReq, sent, crashes>>
      BY <1>1 DEF Played, Quiet
    <2>2. f(w) = q
      BY DEF Unlisted
    <2>3. ASSUME NEW v \in Workers, v # w PROVE f(v) = worker[c][v]
      <3>1. worker[c][v] \in Worker
        BY ProtocolTypes
      <3>2. Unlisted(worker[c][v], r.id) = worker[c][v].listed
        <4>1. Numbered(r)
          BY <2>1 DEF Numbered
        <4>2. worker[c][v].listed => Numbered(worker[c][v])
          BY ProtocolTypes DEF Using, Numbered
        <4>3. worker[c][v].listed => worker[c][v].id # r.id
          BY <2>3, <4>1, <4>2, OwnId
        <4>4. worker[c][v].listed \in BOOLEAN
          BY <3>1 DEF Worker
        <4>5. QED
          BY <4>3, <4>4 DEF Unlisted
      <3>3. QED
        BY <2>3, <3>1, <3>2 DEF Worker
    <2> HIDE DEF f
    <2>4. [v \in Workers |-> f(v)] = [worker[c] EXCEPT ![w] = q]
      BY <2>2, <2>3, ProtocolTypes
    <2>5. QED
      BY <2>1, <2>4
  <1>3. QED
    BY <1>2

(* The answer was good: the request is dropped, the port stays.            *)
LEMMA PlayedSimulated ==
    ASSUME ProtocolInv, NEW c \in Procs, NEW w \in Workers, Played(c, w)
    PROVE  Simulated /\ Viewers'
  <1> PICK r \in Worker : r = worker[c][w]
    BY ProtocolTypes
  <1> PICK q : q = [r EXCEPT !.at = "playing", !.listed = FALSE]
    OBVIOUS
  <1>1. Quiet(r)
    BY ProtocolTypes DEF Viewers, QuietViewers
  <1>2. worker' = [worker EXCEPT ![c][w] = q] /\ r.at = "wait" /\ r.finish
        /\ UNCHANGED <<baseVars, nextReq, sent, crashes>>
    BY PlayedRewrites
  <1>3. q.at = "playing" /\ q.rtp = r.rtp /\ q.left = r.left /\ ~q.listed
    BY DEF Worker
  <1>4. Later(r, q)
    BY <1>1, <1>2, <1>3 DEF Later, Quiet, Owns, Granted, Asked, Playing, WaitsFor
  <1>5. \A p \in Ports : SameStage(r, q, p)
    BY <1>2, <1>3 DEF SameStage, Granted, Asked, Playing
  <1>6. NoRequest(c) /\ NoAnswer(c) /\ UNCHANGED <<deviceCall, call>>
    BY <1>2 DEF NoRequest, NoAnswer, baseVars
  <1>7. QED
    BY <1>2, <1>4, <1>5, <1>6, LaterViewers, OneViewerHold, StutterIsSimulated

(* RealPlay asks for the port that was granted.                            *)
LEMMA RealPlaySimulated ==
    ASSUME ProtocolInv, PortsDiffer' , NEW c \in Procs, NEW w \in Workers, RealPlay(c, w)
    PROVE  Simulated
  <1> PICK r \in Worker : r = worker[c][w]
    BY ProtocolTypes
  <1> PICK q : q = [r EXCEPT !.at = "wait", !.ret = 0, !.finish = FALSE]
    OBVIOUS
  <1>1. worker' = [worker EXCEPT ![c][w] = q] /\ r.at = "filled" /\ SendToSip(c, LivePlay(0, r.port))
        /\ UNCHANGED <<sipVars, connected, toLive, nextReq, sent, crashes>>
    BY DEF RealPlay
  <1>2. PICK p \in Ports : Granted(r, p) /\ r.rtp = p /\ r.port = p
    BY <1>1, ProtocolTypes DEF Viewers, QuietViewers, Quiet, Granted
  <1>3. q.at = "wait" /\ ~q.finish /\ q.rtp = p
    BY <1>2 DEF Worker
  <1>4. worker'[c][w] = q
    BY <1>1, ProtocolTypes
  <1>5. Hold' = [Hold EXCEPT ![c][p] = HoldOf(worker'[c], p)]
    <2>1. OthersStay(worker[c][w], q, p)
      BY <1>1, <1>2, <1>3 DEF OthersStay, SameStage, Granted, Asked, Playing
    <2>2. worker' = [worker EXCEPT ![c][w] = q]
      BY <1>1
    <2>3. Moves(c, p)
      BY <2>1, <2>2, OneViewerMoves
    <2>4. QED
      BY <2>3 DEF Moves
  <1>6. HoldOf(worker'[c], p) = "asked"
    <2>1. \A v, x \in Workers : Owns(worker'[c][v], p) /\ Owns(worker'[c][x], p) => v = x
      BY <1>2 DEF PortsDiffer
    <2>2. Asked(worker'[c][w], p)
      BY <1>3, <1>4 DEF Asked
    <2>3. QED
      BY <2>1, <2>2, HoldOfOwned
  <1>7. Hold[c][p] = "granted"
    BY <1>2, ProtocolTypes, OwnerHold DEF Viewers
  <1>8. c \in connected
    BY ProtocolTypes DEF SipFacts
  <1>9. Hold' = [Hold EXCEPT ![c][p] = "asked"]
    BY <1>5, <1>6
  <1>10. P!ClientPlays(c, p)
    BY <1>1, <1>2, <1>7, <1>8, <1>9 DEF P!ClientPlays, SendToSip, P!SendToSip, LivePlay, P!LivePlay, sipVars, P!sipVars
  <1>11. Client!ClientPlays(c, p)
    BY <1>1, <1>2, <1>7, <1>8, <1>9
       DEF Client!ClientPlays, SendToSip, Client!SendToSip, LivePlay, Client!LivePlay, sipVars, Client!sipVars
  <1>12. QED
    BY <1>2, <1>10, <1>11 DEF Simulated, P!Next, P!Client, Client!Next, Client!Client

LEMMA RealPlayViewers ==
    ASSUME ProtocolInv, NEW c \in Procs, NEW w \in Workers, RealPlay(c, w)
    PROVE  Viewers'
  <1> PICK r \in Worker : r = worker[c][w]
    BY ProtocolTypes
  <1> PICK q : q = [r EXCEPT !.at = "wait", !.ret = 0, !.finish = FALSE]
    OBVIOUS
  <1>1. worker' = [worker EXCEPT ![c][w] = q] /\ r.at = "filled" /\ SendToSip(c, LivePlay(0, r.port))
        /\ UNCHANGED <<sipVars, connected, toLive, nextReq, sent, crashes>>
    BY DEF RealPlay
  <1>2. Quiet(r)
    BY ProtocolTypes DEF Viewers, QuietViewers
  <1>3. q.at = "wait" /\ ~q.finish /\ q.rtp = r.rtp /\ q.port = r.port /\ q.ret = 0 /\ q.left = r.left
        /\ q.listed = r.listed /\ q.id = r.id
    BY DEF Worker
  <1>4. Later(r, q)
    BY <1>1, <1>2, <1>3 DEF Later, Quiet, Owns, Granted, Asked, Playing, WaitsFor
  <1>5. NoRequest(c)
    <2>1. LivePlay(0, r.port) \in Msg /\ LivePlay(0, r.port).type = "live_play"
      BY <1>1, ConstantFacts, MessageTypes DEF Worker, LivePlay
    <2>2. QED
      BY <1>1, <2>1 DEF NoRequest, SendToSip
  <1>6. QED
    BY <1>1, <1>4, <1>5, LaterViewers DEF sipVars, NoAnswer

(* The viewer of a playing camera leaves: the port is stopped, once.       *)
LEMMA LeavesViewers ==
    ASSUME ProtocolInv, NEW c \in Procs, NEW w \in Workers, Leaves(c, w)
    PROVE  Viewers'
  <1> PICK r \in Worker : r = worker[c][w]
    BY ProtocolTypes
  <1>1. worker' = [worker EXCEPT ![c][w] = NoWorker] /\ r.at \in {"playing", "failed"}
        /\ SendToSip(c, StopPlayMsg(r.rtp)) /\ UNCHANGED <<sipVars, connected, toLive, nextReq, sent, crashes>>
    BY DEF Leaves
  <1>2. Later(r, NoWorker)
    BY <1>1 DEF NoWorker, Later, Quiet, Owns, Granted, Asked, Playing, WaitsFor
  <1>3. NoRequest(c)
    <2>1. StopPlayMsg(r.rtp) \in Msg /\ StopPlayMsg(r.rtp).type = "stop_play" /\ StopPlayMsg(r.rtp).port = r.rtp
      BY MessageTypes DEF Worker, StopPlayMsg
    <2>2. QED
      BY <1>1, <2>1 DEF NoRequest, SendToSip
  <1>4. QED
    BY <1>1, <1>2, <1>3, LaterViewers DEF sipVars, NoAnswer

LEMMA LeavesSimulated ==
    ASSUME ProtocolInv, NEW c \in Procs, NEW w \in Workers, Leaves(c, w)
    PROVE  Simulated
  <1> PICK r \in Worker : r = worker[c][w]
    BY ProtocolTypes
  <1>1. Quiet(r)
    BY ProtocolTypes DEF Viewers, QuietViewers
  <1>2. worker' = [worker EXCEPT ![c][w] = NoWorker] /\ r.at = "playing" /\ SendToSip(c, StopPlayMsg(r.rtp))
        /\ UNCHANGED <<sipVars, connected, toLive, nextReq, sent, crashes>>
    BY <1>1 DEF Leaves, Quiet
  <1>3. PICK p \in Ports : Playing(r, p) /\ r.rtp = p
    BY <1>1, <1>2 DEF Quiet, Playing
  <1>4. NoWorker.at = "none"
    BY DEF NoWorker
  <1>5. \A d \in Procs, v \in Workers : worker'[d][v] = IF d = c /\ v = w THEN NoWorker ELSE worker[d][v]
    BY <1>2, ProtocolTypes
  <1>6. Hold' = [Hold EXCEPT ![c][p] = HoldOf(worker'[c], p)]
    <2>1. OthersStay(worker[c][w], NoWorker, p)
      BY <1>2, <1>3, <1>4 DEF OthersStay, SameStage, Granted, Asked, Playing
    <2>2. worker' = [worker EXCEPT ![c][w] = NoWorker]
      BY <1>2
    <2>3. Moves(c, p)
      BY <2>1, <2>2, OneViewerMoves
    <2>4. QED
      BY <2>3 DEF Moves
  <1>7. HoldOf(worker'[c], p) = "none"
    <2>1. ASSUME NEW v \in Workers, Owns(worker'[c][v], p) PROVE FALSE
      <3>1. v # w
        BY <1>4, <1>5, <2>1 DEF Owns, Granted, Asked, Playing
      <3>2. Owns(worker[c][v], p)
        BY <1>5, <2>1, <3>1
      <3>3. Owns(r, p)
        BY <1>3 DEF Owns
      <3>4. QED
        BY <1>3, <3>1, <3>2, <3>3, ProtocolTypes DEF Viewers, PortsDiffer
    <2>2. QED
      BY <2>1, HoldOfOwner
  <1>8. Hold[c][p] = "playing"
    BY <1>3, ProtocolTypes, OwnerHold DEF Viewers
  <1>9. c \in connected
    BY ProtocolTypes DEF SipFacts
  <1>10. Hold' = [Hold EXCEPT ![c][p] = "none"]
    BY <1>6, <1>7
  <1>11. P!ClientStops(c, p)
    BY <1>2, <1>3, <1>8, <1>9, <1>10
       DEF P!ClientStops, P!AfterStop, SendToSip, P!SendToSip, StopPlayMsg, P!StopPlayMsg, sipVars, P!sipVars
  <1>12. Client!ClientStops(c, p)
    BY <1>2, <1>3, <1>8, <1>9, <1>10
       DEF Client!ClientStops, Client!AfterStop, SendToSip, Client!SendToSip, StopPlayMsg, Client!StopPlayMsg,
           sipVars, Client!sipVars
  <1>13. QED
    BY <1>3, <1>11, <1>12 DEF Simulated, P!Next, P!Client, Client!Next, Client!Client

(* An id is loaded, and is the process's when it is stored.                *)
LEMMA LoadIdSimulated ==
    ASSUME ProtocolInv, NEW c \in Procs, NEW w \in Workers, LoadId(c, w)
    PROVE  Simulated /\ Viewers'
  <1> PICK r \in Worker : r = worker[c][w]
    BY ProtocolTypes
  <1> PICK q : q = [r EXCEPT !.at = "loaded", !.id = nextReq[c]]
    OBVIOUS
  <1>1. worker' = [worker EXCEPT ![c][w] = q] /\ r.at = "started" /\ UNCHANGED <<baseVars, nextReq, sent, crashes>>
    BY DEF LoadId
  <1>2. q.at = "loaded" /\ q.left = r.left /\ q.finish = r.finish
    BY DEF Worker
  <1>3. Quiet(r)
    BY ProtocolTypes DEF Viewers, QuietViewers
  <1>4. Later(r, q)
    BY <1>1, <1>2, <1>3 DEF Later, Quiet, Owns, Granted, Asked, Playing, WaitsFor
  <1>5. \A p \in Ports : SameStage(r, q, p)
    BY <1>1, <1>2 DEF SameStage, Granted, Asked, Playing
  <1>6. NoRequest(c) /\ NoAnswer(c) /\ UNCHANGED <<deviceCall, call>>
    BY <1>1 DEF NoRequest, NoAnswer, baseVars
  <1>7. QED
    BY <1>1, <1>4, <1>5, <1>6, LaterViewers, OneViewerHold, StutterIsSimulated

LEMMA StoreIdSimulated ==
    ASSUME ProtocolInv, NEW c \in Procs, NEW w \in Workers, StoreId(c, w)
    PROVE  Simulated /\ Viewers'
  <1> PICK r \in Worker : r = worker[c][w]
    BY ProtocolTypes
  <1> PICK q : q = [r EXCEPT !.at = "numbered"]
    OBVIOUS
  <1>1. worker' = [worker EXCEPT ![c][w] = q] /\ r.at = "loaded" /\ UNCHANGED <<baseVars, sent, crashes>>
        /\ nextReq' = [nextReq EXCEPT ![c] = r.id + 1]
    BY DEF StoreId, NextId
  <1>2. q.at = "numbered" /\ q.left = r.left /\ q.finish = r.finish
    BY DEF Worker
  <1>3. Quiet(r)
    BY ProtocolTypes DEF Viewers, QuietViewers
  <1>4. Later(r, q)
    BY <1>1, <1>2, <1>3 DEF Later, Quiet, Owns, Granted, Asked, Playing, WaitsFor
  <1>5. \A p \in Ports : SameStage(r, q, p)
    BY <1>1, <1>2 DEF SameStage, Granted, Asked, Playing
  <1>6. NoRequest(c) /\ NoAnswer(c) /\ UNCHANGED <<deviceCall, call>>
    BY <1>1 DEF NoRequest, NoAnswer, baseVars
  <1>7. Viewers'
    BY <1>1, <1>4, <1>6, LaterViewers
  <1>8. Hold' = Hold
    BY <1>1, <1>5, OneViewerHold
  <1>9. r.id = nextReq[c]
    BY <1>1 DEF ProtocolInv, LiveInv, IdsStayApart
  <1>10. nextReq[c] < MaxReqs /\ connected = Procs
    <2>1. nextReq[c] < MaxReqs
      BY <1>9, ConstantFacts DEF Worker, ReqIds
    <2>2. QED
      BY <2>1, ProtocolTypes DEF SipFacts
  <1>11. P!ClientTakesId(c) /\ Client!ClientTakesId(c)
    <2>1. nextReq' = [nextReq EXCEPT ![c] = nextReq[c] + 1]
      BY <1>1, <1>9
    <2>2. QED
      BY <1>1, <1>8, <1>10, <2>1 DEF P!ClientTakesId, Client!ClientTakesId, baseVars, P!baseVars, Client!baseVars
  <1>12. Simulated
    BY <1>11 DEF Simulated, P!Next, P!Client, Client!Next, Client!Client
  <1>13. QED
    BY <1>7, <1>12

(* CreateReal asks with an id nobody else has.                             *)
LEMMA CreateRealSimulated ==
    ASSUME ProtocolInv, NEW c \in Procs, NEW w \in Workers, CreateReal(c, w)
    PROVE  Simulated /\ Viewers'
  <1> PICK r \in Worker : r = worker[c][w]
    BY ProtocolTypes
  <1> PICK n, q : n = r.id /\ q = [r EXCEPT !.at = "init", !.listed = IdFree(c, r.id)]
    OBVIOUS
  <1>1. /\ worker' = [worker EXCEPT ![c][w] = q] /\ r.at = "numbered" /\ sent < MaxCalls
        /\ SendToSip(c, LiveInit(n)) /\ sent' = sent + 1
        /\ UNCHANGED <<sipVars, connected, toLive, nextReq, crashes>>
    BY DEF CreateReal
  <1>2. q.at = "init" /\ q.id = n /\ q.finish = r.finish /\ q.left = r.left
    BY DEF Worker
  <1>3. Quiet(r) /\ Viewers /\ connected = Procs
    BY ProtocolTypes DEF Viewers, QuietViewers, SipFacts
  <1>4. n \in ReqIds /\ n < nextReq[c] /\ Numbered(r)
    BY <1>1, ProtocolTypes DEF Worker, Numbered
  <1>5. ~r.finish /\ Quiet(q) /\ \A p : ~Owns(r, p) /\ ~Owns(q, p)
    BY <1>1, <1>2, <1>3 DEF Quiet, Owns, Granted, Asked, Playing
  <1>6. Hold' = Hold
    <2>1. \A p \in Ports : SameStage(worker[c][w], q, p)
      BY <1>5 DEF SameStage, Owns
    <2>2. QED
      BY <1>1, <2>1, OneViewerHold
  <1>7. P!ClientInit(c)
    BY <1>1, <1>3, <1>4, <1>6
       DEF P!ClientInit, ReqIds, P!ReqIds, SendToSip, P!SendToSip, LiveInit, P!LiveInit, NullPort, P!NullPort, sipVars, P!sipVars
  <1>8. Client!ClientInit(c)
    BY <1>1, <1>3, <1>4, <1>6
       DEF Client!ClientInit, ReqIds, Client!ReqIds, SendToSip, Client!SendToSip, LiveInit, Client!LiveInit, NullPort, Client!NullPort,
           sipVars, Client!sipVars
  <1>9. Simulated
    BY <1>7, <1>8 DEF Simulated, P!Next, P!Client, Client!Next, Client!Client
  <1>10. \A d \in Procs, v \in Workers : worker'[d][v] = IF d = c /\ v = w THEN q ELSE worker[d][v]
    BY <1>1, ProtocolTypes
  <1>11. QuietViewers'
    BY <1>3, <1>5, <1>10 DEF Viewers, QuietViewers
  <1>14. PortsDiffer' /\ OwnIds'
    <2>1. \A p : IdOf(p)' = IdOf(p)
      BY <1>1 DEF IdOf, sipVars
    <2>2. PortsDiffer /\ OwnIds
      BY <1>3 DEF Viewers
    <2>3. \A p : ~Granted(q, p) /\ ~Asked(q, p)
      BY <1>5 DEF Owns
    <2>4. PortsDiffer'
      BY <1>5, <1>10, <2>2 DEF PortsDiffer
    <2>5. OwnIds'
      BY <1>10, <2>1, <2>2, <2>3 DEF OwnIds
    <2>6. QED
      BY <2>4, <2>5
  <1>15. /\ LiveInit(n) \in Msg /\ LiveInit(n).type = "live_init" /\ LiveInit(n).id = n
         /\ toSip[c] \in Seq(Msg) /\ \A d \in Procs : toSip'[d] = IF d = c THEN Append(toSip[c], LiveInit(n)) ELSE toSip[d]
    BY <1>1, <1>4, ProtocolTypes, MessageTypes DEF LiveInit, SendToSip
  <1>16. Requests'
    <2>1. \A v \in Workers : ~WaitsFor(worker[c][v], n)
      BY <1>1, <1>4, OwnId DEF WaitsFor, Numbered
    <2>2. \A d \in Procs, i \in ReqIds : RequestAt(d, i)
      BY <1>3 DEF Viewers, Requests
    <2>3. ~HasId(toSip[c], "live_init", n) /\ ~HasId(toLive[c], "live_init_answer", n)
      BY <1>4, <2>1, <2>2 DEF RequestAt
    <2>4. \A i \in ReqIds : /\ HasId(toSip'[c], "live_init", i) <=> HasId(toSip[c], "live_init", i) \/ i = n
                            /\ OneId(toSip[c], "live_init", i) => OneId(toSip'[c], "live_init", i)
      BY <1>15, <2>3, AppendIds
    <2>5. WaitsFor(q, n)
      BY <1>2, <1>5 DEF WaitsFor
    <2>6. \A d \in Procs, v \in Workers, i \in ReqIds : WaitsFor(worker[d][v], i) => WaitsFor(worker'[d][v], i)
      BY <1>1, <1>10 DEF WaitsFor
    <2>7. \A d \in Procs : toLive'[d] = toLive[d]
      BY <1>1
    <2>8. \A d \in Procs, i \in ReqIds : d # c \/ i # n => RequestAt(d, i)'
      BY <1>15, <2>2, <2>4, <2>6, <2>7 DEF RequestAt
    <2>9. RequestAt(c, n)'
      BY <1>4, <1>10, <2>2, <2>3, <2>4, <2>5, <2>7 DEF RequestAt
    <2>10. QED
      BY <2>8, <2>9 DEF Requests
  <1>17. Answers'
    <2>1. \A m : Answer(m)' <=> Answer(m)
      BY <1>1 DEF Answer, IdOf, sipVars
    <2>2. QED
      BY <1>1, <1>3, <2>1 DEF Viewers, Answers
  <1>18. PlainStops'
    <2>1. \A j \in DOMAIN Append(toSip[c], LiveInit(n)) :
             \/ Append(toSip[c], LiveInit(n))[j] = LiveInit(n)
             \/ \E k \in DOMAIN toSip[c] : Append(toSip[c], LiveInit(n))[j] = toSip[c][k]
      BY <1>15, AppendIds
    <2>2. \A j \in DOMAIN Append(toSip[c], LiveInit(n)) :
             Append(toSip[c], LiveInit(n))[j].type = "stop_play"
                => Append(toSip[c], LiveInit(n))[j] = StopPlayMsg(Append(toSip[c], LiveInit(n))[j].port)
      <3>1. LiveInit(n).type # "stop_play"
        BY DEF LiveInit
      <3>2. PlainStops
        BY <1>3 DEF Viewers
      <3>3. QED
        BY <2>1, <3>1, <3>2 DEF PlainStops
    <2>3. \A d \in Procs : \A j \in DOMAIN toSip'[d] :
             toSip'[d][j].type = "stop_play" => toSip'[d][j] = StopPlayMsg(toSip'[d][j].port)
      <3> TAKE d \in Procs
      <3>1. CASE d = c
        <4>1. toSip'[d] = Append(toSip[c], LiveInit(n))
          BY <1>15, <3>1
        <4>2. QED
          BY <2>2, <4>1
      <3>2. CASE d # c
        <4>1. toSip'[d] = toSip[d]
          BY <1>15, <3>2
        <4>2. QED
          BY <1>3, <4>1 DEF Viewers, PlainStops
      <3>3. QED
        BY <3>1, <3>2
    <2>4. QED
      BY <2>3 DEF PlainStops
  <1>19. QED
    BY <1>9, <1>11, <1>14, <1>16, <1>17, <1>18 DEF Viewers

(* on_ipc_recv: the answer meets the one request it is for.                *)
LEMMA HeadOfLive ==
    ASSUME ProtocolInv, NEW c \in Procs, toLive[c] # << >>
    PROVE  /\ toLive[c] \in Seq(Msg) /\ 1 \in DOMAIN toLive[c] /\ Head(toLive[c]) = toLive[c][1]
           /\ Head(toLive[c]) \in Msg /\ Answer(Head(toLive[c]))
  <1>1. toLive[c] \in Seq(Msg)
    BY ProtocolTypes
  <1>2. Head(toLive[c]) = toLive[c][1] /\ Head(toLive[c]) \in Msg /\ Len(toLive[c]) \in Nat \ {0}
    BY <1>1, TailFacts
  <1>3. 1 \in DOMAIN toLive[c]
    BY <1>1, <1>2, LenProperties
  <1>4. Answer(toLive[c][1])
    BY <1>3, ProtocolTypes DEF Viewers, Answers
  <1>5. QED
    BY <1>1, <1>2, <1>3, <1>4

(* The request an answer m is for is v's, and q is what it becomes.        *)
Got(r, m) ==
    IF m.type = "live_init_answer" THEN [r EXCEPT !.port = m.port, !.finish = TRUE]
    ELSE [r EXCEPT !.port = m.port, !.ret = m.ret, !.finish = TRUE]

LEMMA OneIsAnswered ==
    ASSUME ProtocolInv, NEW c \in Procs, OnIpcRecv(c), NEW w \in Workers,
           worker[c][w].listed, worker[c][w].id = Head(toLive[c]).id
    PROVE  worker' = [worker EXCEPT ![c][w] = Got(worker[c][w], Head(toLive[c]))]
  <1> PICK m : m = Head(toLive[c])
    OBVIOUS
  <1>1. worker' = [worker EXCEPT ![c] = [v \in Workers |->
            IF ~worker[c][v].listed \/ worker[c][v].id # m.id THEN worker[c][v] ELSE Got(worker[c][v], m)]]
    BY DEF OnIpcRecv, Got
  <1>2. \A v \in Workers : worker[c][v].listed /\ worker[c][v].id = m.id => v = w
    BY ProtocolTypes DEF IdsDiffer
  <1>3. [v \in Workers |-> IF ~worker[c][v].listed \/ worker[c][v].id # m.id THEN worker[c][v] ELSE Got(worker[c][v], m)]
           = [worker[c] EXCEPT ![w] = Got(worker[c][w], m)]
    BY <1>2, ProtocolTypes
  <1>4. QED
    BY <1>1, <1>3

LEMMA PlayAnswerSimulated ==
    ASSUME ProtocolInv, NEW c \in Procs, OnIpcRecv(c), Head(toLive[c]).type = "live_play_answer"
    PROVE  Simulated /\ Viewers'
  <1> PICK m : m = Head(toLive[c])
    OBVIOUS
  <1>1. /\ toLive[c] # << >> /\ toLive' = [toLive EXCEPT ![c] = Tail(@)]
        /\ UNCHANGED <<sipVars, connected, toSip, nextReq, sent, crashes>>
    BY DEF OnIpcRecv
  <1>2. /\ 1 \in DOMAIN toLive[c] /\ toLive[c][1] = m /\ m.type = "live_play_answer"
        /\ Answer(m) /\ m.port \in Ports /\ m.ret = 0
    BY <1>1, HeadOfLive DEF Answer
  <1>3. Hold[c][m.port] = "asked"
    BY <1>2, ProtocolTypes DEF HoldFacts
  <1>4. PICK p \in Ports : p = m.port
    BY <1>2
  <1>5. PICK w \in Workers : Asked(worker[c][w], p)
    BY <1>3, <1>4, HoldAt, HoldOfOwner
  <1> PICK r \in Worker : r = worker[c][w]
    BY ProtocolTypes
  <1> PICK q : q = [r EXCEPT !.port = p, !.ret = 0, !.finish = TRUE]
    OBVIOUS
  <1>6. r.at = "wait" /\ ~r.finish /\ r.rtp = p /\ r.listed /\ r.id = m.id
    <2>1. r.id = IdOf(p)
      BY <1>5, ProtocolTypes DEF Viewers, OwnIds
    <2>2. r.id = m.id
      BY <1>2, <1>4, <2>1 DEF Answer
    <2>3. r.at = "wait" /\ ~r.finish /\ r.rtp = p
      BY <1>5 DEF Asked
    <2>4. QED
      BY <2>2, <2>3, ProtocolTypes DEF Using
  <1>7. worker' = [worker EXCEPT ![c][w] = q]
    <2>1. worker' = [worker EXCEPT ![c][w] = Got(worker[c][w], m)]
      BY <1>6, OneIsAnswered
    <2>2. Got(r, m) = q
      BY <1>2, <1>4 DEF Got
    <2>3. QED
      BY <2>1, <2>2
  <1>8. q.at = "wait" /\ q.finish /\ q.rtp = p /\ q.port = p /\ q.ret = 0 /\ q.left = r.left
        /\ q.listed = r.listed /\ q.id = r.id
    BY <1>6 DEF Worker
  <1>9. Quiet(r)
    BY ProtocolTypes DEF Viewers, QuietViewers
  <1>10. Later(r, q)
    BY <1>6, <1>8, <1>9 DEF Later, Quiet, Owns, Granted, Asked, Playing, WaitsFor
  <1>11. NoRequest(c) /\ NoAnswer(c) /\ UNCHANGED <<deviceCall, call>>
    BY <1>1 DEF NoRequest, NoAnswer, sipVars
  <1>12. Viewers'
    BY <1>7, <1>10, <1>11, LaterViewers
  <1>13. Hold' = [Hold EXCEPT ![c][p] = HoldOf(worker'[c], p)]
    <2>1. OthersStay(worker[c][w], q, p)
      BY <1>6, <1>8 DEF OthersStay, SameStage, Granted, Asked, Playing
    <2>2. Moves(c, p)
      BY <1>7, <2>1, OneViewerMoves
    <2>3. QED
      BY <2>2 DEF Moves
  <1>14. HoldOf(worker'[c], p) = "playing"
    <2>1. \A v, x \in Workers : Owns(worker'[c][v], p) /\ Owns(worker'[c][x], p) => v = x
      BY <1>12 DEF Viewers, PortsDiffer
    <2>2. worker'[c][w] = q
      BY <1>7, ProtocolTypes
    <2>3. Playing(worker'[c][w], p)
      BY <1>8, <2>2 DEF Playing
    <2>4. QED
      BY <2>1, <2>3, HoldOfOwned
  <1>15. Hold' = [Hold EXCEPT ![c][m.port] = "playing"]
    BY <1>4, <1>13, <1>14
  <1>16. connected = Procs
    BY ProtocolTypes DEF SipFacts
  <1>17. P!ClientReceives(c)
    BY <1>1, <1>2, <1>3, <1>15, <1>16 DEF P!ClientReceives, sipVars, P!sipVars
  <1>18. Client!ClientReceives(c)
    BY <1>1, <1>2, <1>3, <1>15, <1>16 DEF Client!ClientReceives, sipVars, Client!sipVars
  <1>19. QED
    BY <1>12, <1>17, <1>18 DEF Simulated, P!Next, P!Client, Client!Next, Client!Client

LEMMA InitAnswerSimulated ==
    ASSUME ProtocolInv, NEW c \in Procs, OnIpcRecv(c), Head(toLive[c]).type = "live_init_answer"
    PROVE  Simulated /\ Viewers'
  <1> PICK m : m = Head(toLive[c])
    OBVIOUS
  <1>1. /\ toLive[c] # << >> /\ toLive' = [toLive EXCEPT ![c] = Tail(@)]
        /\ UNCHANGED <<sipVars, connected, toSip, nextReq, sent, crashes>>
    BY DEF OnIpcRecv
  <1>2. /\ 1 \in DOMAIN toLive[c] /\ toLive[c][1] = m /\ m.type = "live_init_answer" /\ m.id \in ReqIds
        /\ Answer(m) /\ m.port \in Ports
    BY <1>1, HeadOfLive DEF Answer, Msg
  <1>3. Hold[c][m.port] = "none"
    BY <1>2, ProtocolTypes DEF HoldFacts
  <1>4. PICK p \in Ports, i \in ReqIds : p = m.port /\ i = m.id
    BY <1>2
  <1>5. PICK w \in Workers : WaitsFor(worker[c][w], i)
    <2>1. HasId(toLive[c], "live_init_answer", i)
      BY <1>2, <1>4 DEF HasId
    <2>2. QED
      BY <2>1, ProtocolTypes DEF Viewers, Requests, RequestAt
  <1> PICK r \in Worker : r = worker[c][w]
    BY ProtocolTypes
  <1> PICK q : q = [r EXCEPT !.port = p, !.finish = TRUE]
    OBVIOUS
  <1>6. r.at = "init" /\ ~r.finish /\ r.listed /\ r.id = i
    BY <1>5, ProtocolTypes DEF WaitsFor, Using
  <1>7. worker' = [worker EXCEPT ![c][w] = q]
    <2>1. worker' = [worker EXCEPT ![c][w] = Got(worker[c][w], m)]
      BY <1>4, <1>6, OneIsAnswered
    <2>2. Got(r, m) = q
      BY <1>2, <1>4 DEF Got
    <2>3. QED
      BY <2>1, <2>2
  <1>8. q.at = "init" /\ q.finish /\ q.port = p /\ q.left = r.left /\ q.listed = r.listed /\ q.id = i
    BY <1>6 DEF Worker
  <1>9. \A d \in Procs, v \in Workers : worker'[d][v] = IF d = c /\ v = w THEN q ELSE worker[d][v]
    BY <1>7, ProtocolTypes
  <1>10. \A x : ~Owns(r, x) /\ (Owns(q, x) <=> x = p) /\ (Granted(q, x) <=> x = p) /\ ~Asked(q, x) /\ ~Playing(q, x)
    BY <1>6, <1>8 DEF Owns, Granted, Asked, Playing
  <1>11. \A v \in Workers : ~Owns(worker[c][v], p)
    BY <1>3, <1>4, HoldAt, HoldOfOwner
  <1>12. QuietViewers'
    <2>1. Quiet(r)
      BY ProtocolTypes DEF Viewers, QuietViewers
    <2>2. Quiet(q)
      BY <1>8, <2>1 DEF Quiet
    <2>3. QED
      BY <1>9, <2>2, ProtocolTypes DEF Viewers, QuietViewers
  <1>14. PortsDiffer'
    <2>1. PortsDiffer
      BY ProtocolTypes DEF Viewers
    <2>2. \A d \in Procs, v \in Workers, x \in Ports :
             Owns(worker'[d][v], x) => IF d = c /\ x = p THEN v = w ELSE Owns(worker[d][v], x)
      BY <1>9, <1>10, <1>11
    <2>3. QED
      BY <2>1, <2>2 DEF PortsDiffer
  <1>15. OwnIds'
    <2>1. OwnIds
      BY ProtocolTypes DEF Viewers
    <2>2. \A x : IdOf(x)' = IdOf(x)
      BY <1>1 DEF IdOf, sipVars
    <2>3. q.id = IdOf(p)
      BY <1>2, <1>4, <1>8 DEF Answer
    <2>4. SUFFICES ASSUME NEW d \in Procs, NEW v \in Workers, NEW x \in Ports,
                          Granted(worker'[d][v], x) \/ Asked(worker'[d][v], x)
                   PROVE  worker'[d][v].id = IdOf(x)
      BY <2>2 DEF OwnIds
    <2>5. CASE d = c /\ v = w
      <3>1. worker'[d][v] = q
        BY <1>9, <2>5
      <3>2. x = p
        BY <1>10, <2>4, <3>1
      <3>3. QED
        BY <2>3, <3>1, <3>2
    <2>6. CASE ~(d = c /\ v = w)
      <3>1. worker'[d][v] = worker[d][v]
        BY <1>9, <2>6
      <3>2. QED
        BY <2>1, <2>4, <3>1 DEF OwnIds
    <2>7. QED
      BY <2>5, <2>6
  <1>16. \A d \in Procs : toSip'[d] = toSip[d] /\ toLive'[d] = IF d = c THEN Tail(toLive[c]) ELSE toLive[d]
    BY <1>1, ProtocolTypes
  <1>17. /\ \A j \in DOMAIN Tail(toLive[c]) : \E k \in DOMAIN toLive[c] : Tail(toLive[c])[j] = toLive[c][k]
         /\ \A x : HasId(Tail(toLive[c]), "live_init_answer", x) => HasId(toLive[c], "live_init_answer", x)
         /\ \A x : OneId(toLive[c], "live_init_answer", x) => OneId(Tail(toLive[c]), "live_init_answer", x)
         /\ OneId(toLive[c], "live_init_answer", i) => ~HasId(Tail(toLive[c]), "live_init_answer", i)
    <2>1. toLive[c] \in Seq(Msg) /\ toLive[c] # << >> /\ Head(toLive[c]).type = "live_init_answer" /\ Head(toLive[c]).id = i
      BY <1>1, <1>2, <1>4, ProtocolTypes
    <2>2. QED
      BY <2>1, TailIds
  <1>18. Requests'
    <2>1. \A d \in Procs, x \in ReqIds : RequestAt(d, x)
      BY ProtocolTypes DEF Viewers, Requests
    <2>2. \A d \in Procs, v \in Workers, x \in ReqIds :
             WaitsFor(worker[d][v], x) /\ (d # c \/ x # i) => WaitsFor(worker'[d][v], x)
      BY <1>6, <1>9 DEF WaitsFor
    <2>3. \A d \in Procs, x \in ReqIds : d # c \/ x # i => RequestAt(d, x)'
      BY <1>16, <1>17, <2>1, <2>2 DEF RequestAt
    <2>4. HasId(toLive[c], "live_init_answer", i)
      BY <1>2, <1>4 DEF HasId
    <2>5. RequestAt(c, i)'
      BY <1>16, <1>17, <2>1, <2>4 DEF RequestAt
    <2>6. QED
      BY <2>3, <2>5 DEF Requests
  <1>19. Answers'
    <2>1. \A x : Answer(x)' <=> Answer(x)
      BY <1>1 DEF Answer, IdOf, sipVars
    <2>2. QED
      BY <1>16, <1>17, <2>1, ProtocolTypes DEF Viewers, Answers
  <1>20. PlainStops'
    BY <1>16, ProtocolTypes DEF Viewers, PlainStops
  <1>21. Viewers'
    BY <1>12, <1>14, <1>15, <1>18, <1>19, <1>20 DEF Viewers
  <1>22. Hold' = [Hold EXCEPT ![c][p] = HoldOf(worker'[c], p)]
    <2>1. OthersStay(r, q, p)
      BY <1>10 DEF OthersStay, SameStage, Owns
    <2>2. OthersStay(worker[c][w], q, p)
      BY <2>1
    <2>3. Moves(c, p)
      BY <1>7, <2>2, OneViewerMoves
    <2>4. QED
      BY <2>3 DEF Moves
  <1>23. HoldOf(worker'[c], p) = "granted"
    <2>1. \A v, x \in Workers : Owns(worker'[c][v], p) /\ Owns(worker'[c][x], p) => v = x
      BY <1>14 DEF PortsDiffer
    <2>2. Granted(worker'[c][w], p)
      BY <1>9, <1>10
    <2>3. QED
      BY <2>1, <2>2, HoldOfOwned
  <1>24. Hold' = [Hold EXCEPT ![c][m.port] = "granted"]
    BY <1>4, <1>22, <1>23
  <1>25. connected = Procs /\ m.id < nextReq[c]
    <2>1. worker[c][w].id < nextReq[c]
      BY <1>6, ProtocolTypes DEF Numbered
    <2>2. QED
      BY <1>4, <1>6, <2>1, ProtocolTypes DEF SipFacts
  <1>26. P!ClientReceives(c)
    BY <1>1, <1>2, <1>24, <1>25 DEF P!ClientReceives, sipVars, P!sipVars
  <1>27. Client!ClientReceives(c)
    BY <1>1, <1>2, <1>24, <1>25 DEF Client!ClientReceives, sipVars, Client!sipVars
  <1>28. QED
    BY <1>21, <1>26, <1>27 DEF Simulated, P!Next, P!Client, Client!Next, Client!Client

-----------------------------------------------------------------------------
(* Steps of sip_server and the cameras leave the viewers alone.            *)
IdsStay ==
    \A p \in PortKeys : deviceCall[p] # NoCall /\ deviceCall'[p] # NoCall => IdOf(p)' = IdOf(p)

Taken == toSip' = toSip \/ \E c \in Procs : toSip[c] # << >> /\ toSip' = [toSip EXCEPT ![c] = Tail(@)]

LEMMA TakenFacts ==
    ASSUME toSip \in [Procs -> Seq(Msg)], Taken
    PROVE  /\ \A d \in Procs : \A j \in DOMAIN toSip'[d] : \E k \in DOMAIN toSip[d] : toSip'[d][j] = toSip[d][k]
           /\ \A d \in Procs : \A type, i : HasId(toSip'[d], type, i) => HasId(toSip[d], type, i)
           /\ \A d \in Procs : \A type, i : OneId(toSip[d], type, i) => OneId(toSip'[d], type, i)
  <1>1. CASE toSip' = toSip
    BY <1>1
  <1>2. ASSUME NEW c \in Procs, toSip[c] # << >>, toSip' = [toSip EXCEPT ![c] = Tail(@)]
        PROVE  /\ \A d \in Procs : \A j \in DOMAIN toSip'[d] : \E k \in DOMAIN toSip[d] : toSip'[d][j] = toSip[d][k]
               /\ \A d \in Procs : \A type, i : HasId(toSip'[d], type, i) => HasId(toSip[d], type, i)
               /\ \A d \in Procs : \A type, i : OneId(toSip[d], type, i) => OneId(toSip'[d], type, i)
    <2>1. toSip[c] \in Seq(Msg) /\ \A d \in Procs : toSip'[d] = IF d = c THEN Tail(toSip[c]) ELSE toSip[d]
      BY <1>2
    <2>2. /\ \A j \in DOMAIN Tail(toSip[c]) : \E k \in DOMAIN toSip[c] : Tail(toSip[c])[j] = toSip[c][k]
          /\ \A type, i : HasId(Tail(toSip[c]), type, i) => HasId(toSip[c], type, i)
          /\ \A type, i : OneId(toSip[c], type, i) => OneId(Tail(toSip[c]), type, i)
      BY <1>2, <2>1, TailIds
    <2>3. QED
      BY <2>1, <2>2
  <1>3. QED
    BY <1>1, <1>2 DEF Taken

LEMMA ServerKeepsViewers ==
    ASSUME ProtocolInv, SipFacts', HoldFacts', worker' = worker, IdsStay, Taken
    PROVE  /\ QuietViewers' /\ PortsDiffer' /\ OwnIds' /\ PlainStops'
           /\ \A c \in Procs : \A j \in DOMAIN toLive[c], k \in DOMAIN toLive'[c], m \in Msg :
                 toLive[c][j] = m /\ toLive'[c][k] = m => Answer(m)'
  <1>1. QuietViewers' /\ PortsDiffer'
    BY ProtocolTypes DEF Viewers, QuietViewers, PortsDiffer
  <1>2. \A c \in Procs, p \in Ports : LentTo(c, p) /\ LentTo(c, p)' => IdOf(p)' = IdOf(p)
    BY ConstantFacts DEF IdsStay, LentTo
  <1>3. Hold' = Hold
    BY DEF Hold, HoldOf
  <1>4. OwnIds'
    <2> SUFFICES ASSUME NEW c \in Procs, NEW w \in Workers, NEW p \in Ports,
                        Granted(worker[c][w], p) \/ Asked(worker[c][w], p)
                 PROVE  worker[c][w].id = IdOf(p)'
      BY DEF OwnIds
    <2>1. Hold[c][p] # "none"
      BY ProtocolTypes, OwnerHold DEF Viewers
    <2>2. LentTo(c, p) /\ LentTo(c, p)'
      BY <1>3, <2>1, ProtocolTypes DEF HoldFacts
    <2>3. QED
      BY <1>2, <2>2, ProtocolTypes DEF Viewers, OwnIds
  <1>5. PlainStops'
    BY ProtocolTypes, TakenFacts DEF Viewers, PlainStops
  <1>6. ASSUME NEW c \in Procs, NEW j \in DOMAIN toLive[c], NEW k \in DOMAIN toLive'[c], NEW m \in Msg,
               toLive[c][j] = m, toLive'[c][k] = m
        PROVE  Answer(m)'
    <2>1. Answer(m)
      BY <1>6, ProtocolTypes DEF Viewers, Answers
    <2>2. PICK p \in Ports : p = m.port
      BY <2>1 DEF Answer
    <2>3. LentTo(c, p)
      BY <1>6, <2>1, <2>2, ProtocolTypes DEF HoldFacts, Answer
    <2>4. LentTo(c, p)'
      BY <1>6, <2>1, <2>2 DEF HoldFacts, Answer
    <2>5. IdOf(p)' = IdOf(p)
      BY <1>2, <2>3, <2>4
    <2>6. QED
      BY <2>1, <2>2, <2>5 DEF Answer
  <1>7. QED
    BY <1>1, <1>4, <1>5, <1>6

(* What a message of play_cb, or none, does to requests and answers.       *)
LEMMA ServerViewers ==
    ASSUME ProtocolInv, SipFacts', HoldFacts', worker' = worker, IdsStay, Taken,
           \/ toLive' = toLive
           \/ \E d \in Procs, m \in Msg : /\ m.type = "live_play_answer" /\ Answer(m)'
                                          /\ toLive' = [toLive EXCEPT ![d] = Append(@, m)]
    PROVE  Viewers'
  <1>1. /\ QuietViewers' /\ PortsDiffer' /\ OwnIds' /\ PlainStops'
        /\ \A c \in Procs : \A j \in DOMAIN toLive[c], k \in DOMAIN toLive'[c], m \in Msg :
              toLive[c][j] = m /\ toLive'[c][k] = m => Answer(m)'
    BY ServerKeepsViewers
  <1>2. \A c \in Procs : toLive[c] \in Seq(Msg)
    BY ProtocolTypes
  <1>3. /\ \A c \in Procs : \A k \in DOMAIN toLive'[c] : \E m \in Msg : toLive'[c][k] = m /\ Answer(m)'
        /\ \A c \in Procs : \A i : HasId(toLive'[c], "live_init_answer", i) => HasId(toLive[c], "live_init_answer", i)
        /\ \A c \in Procs : \A i : OneId(toLive[c], "live_init_answer", i) => OneId(toLive'[c], "live_init_answer", i)
    <2>1. CASE toLive' = toLive
      <3>1. \A c \in Procs : \A k \in DOMAIN toLive[c] : toLive[c][k] \in Msg
        BY <1>2
      <3>2. \A c \in Procs : \A k \in DOMAIN toLive'[c] : \E m \in Msg : toLive'[c][k] = m /\ Answer(m)'
        BY <1>1, <2>1, <3>1
      <3>3. QED
        BY <2>1, <3>2
    <2>2. ASSUME NEW d \in Procs, NEW m \in Msg, m.type = "live_play_answer", Answer(m)',
                 toLive' = [toLive EXCEPT ![d] = Append(@, m)]
          PROVE  /\ \A c \in Procs : \A k \in DOMAIN toLive'[c] : \E n \in Msg : toLive'[c][k] = n /\ Answer(n)'
                 /\ \A c \in Procs : \A i :
                       HasId(toLive'[c], "live_init_answer", i) => HasId(toLive[c], "live_init_answer", i)
                 /\ \A c \in Procs : \A i :
                       OneId(toLive[c], "live_init_answer", i) => OneId(toLive'[c], "live_init_answer", i)
      <3>1. \A c \in Procs : toLive'[c] = IF c = d THEN Append(toLive[d], m) ELSE toLive[c]
        BY <2>2, ProtocolTypes
      <3>2. /\ \A j \in DOMAIN Append(toLive[d], m) :
                  Append(toLive[d], m)[j] = m \/ \E k \in DOMAIN toLive[d] : Append(toLive[d], m)[j] = toLive[d][k]
            /\ \A i : HasId(Append(toLive[d], m), "live_init_answer", i) => HasId(toLive[d], "live_init_answer", i)
            /\ \A i : OneId(toLive[d], "live_init_answer", i) => OneId(Append(toLive[d], m), "live_init_answer", i)
        BY <1>2, <2>2, AppendIds
      <3>3. \A c \in Procs : \A k \in DOMAIN toLive'[c] :
               toLive'[c][k] = m \/ \E j \in DOMAIN toLive[c] : toLive'[c][k] = toLive[c][j]
        BY <3>1, <3>2
      <3>4. \A c \in Procs : \A j \in DOMAIN toLive[c] : toLive[c][j] \in Msg
        BY <1>2
      <3>5. \A c \in Procs : \A k \in DOMAIN toLive'[c] : \E n \in Msg : toLive'[c][k] = n /\ Answer(n)'
        <4> TAKE c \in Procs
        <4> TAKE k \in DOMAIN toLive'[c]
        <4>1. CASE toLive'[c][k] = m
          BY <2>2, <4>1
        <4>2. CASE \E j \in DOMAIN toLive[c] : toLive'[c][k] = toLive[c][j]
          BY <1>1, <3>4, <4>2
        <4>3. QED
          BY <3>3, <4>1, <4>2
      <3>6. QED
        BY <3>1, <3>2, <3>5
    <2>3. QED
      BY <2>1, <2>2
  <1>4. Answers'
    BY <1>3 DEF Answers, Answer, IdOf
  <1>5. /\ \A c \in Procs : \A i : HasId(toSip'[c], "live_init", i) => HasId(toSip[c], "live_init", i)
        /\ \A c \in Procs : \A i : OneId(toSip[c], "live_init", i) => OneId(toSip'[c], "live_init", i)
    BY ProtocolTypes, TakenFacts
  <1>6. Requests'
    <2>1. \A c \in Procs, i \in ReqIds : RequestAt(c, i)
      BY ProtocolTypes DEF Viewers, Requests
    <2>2. \A c \in Procs, i \in ReqIds : RequestAt(c, i)'
      BY <1>3, <1>5, <2>1 DEF RequestAt
    <2>3. QED
      BY <2>2 DEF Requests
  <1>7. QED
    BY <1>1, <1>4, <1>6 DEF Viewers

(* The head of the pool and the SipCall made for it are not in use.        *)
LEMMA PlayInitViewers ==
    ASSUME ProtocolInv, SipFacts', HoldFacts', worker' = worker, NEW c \in Procs, PlayInit(c)
    PROVE  Viewers'
  <1>1. toSip[c] # << >> /\ Head(toSip[c]).type = "live_init" /\ toSip' = [toSip EXCEPT ![c] = Tail(@)]
    BY DEF PlayInit, Receive
  <1>2. toSip[c] \in Seq(Msg) /\ Head(toSip[c]) \in Msg /\ toLive[c] \in Seq(Msg) /\ connected = Procs
    <2>1. toSip[c] \in Seq(Msg) /\ toLive[c] \in Seq(Msg) /\ connected = Procs
      BY ProtocolTypes DEF SipFacts
    <2>2. QED
      BY <1>1, <2>1, TailFacts
  <1>3. Head(ports) \in Ports /\ deviceCall[Head(ports)] = NoCall
    <2>1. ports # << >> /\ ports \in Seq(PortKeys)
      BY ProtocolTypes DEF PlayInit, SipTypeOK
    <2>2. Head(ports) = ports[1] /\ 1 \in DOMAIN ports
      BY <2>1, TailFacts, LenProperties
    <2>3. QED
      BY <2>2, ProtocolTypes DEF SipFacts
  <1>4. PICK i \in ReqIds, p \in Ports : i = Head(toSip[c]).id /\ p = Head(ports)
    BY <1>2, <1>3 DEF Msg
  <1>5. PICK k \in Calls :
           /\ call[k].st = "new"
           /\ call' = [call EXCEPT ![k] = [st |-> "live", proc |-> c, id |-> i, port |-> p, cid |-> NoCid, did |-> -1]]
           /\ deviceCall' = [deviceCall EXCEPT ![p] = k]
           /\ toLive' = [toLive EXCEPT ![c] = @ \o << InitAnswer(i, p, 0) >>]
    BY <1>2, <1>3, <1>4 DEF PlayInit, FreshCall, Relay
  <1>6. call \in [Calls -> SipCall] /\ deviceCall \in [PortKeys -> Calls \cup {NoCall}] /\ p \in PortKeys
    BY ProtocolTypes, ConstantFacts DEF SipTypeOK
  <1>7. IdOf(p)' = i
    <2>1. deviceCall'[p] = k /\ call'[k].id = i
      BY <1>5, <1>6
    <2>2. QED
      BY <2>1 DEF IdOf
  <1>8. IdsStay
    <2> SUFFICES ASSUME NEW x \in PortKeys, deviceCall[x] # NoCall PROVE IdOf(x)' = IdOf(x)
      BY DEF IdsStay
    <2>1. x # p /\ deviceCall'[x] = deviceCall[x]
      BY <1>3, <1>4, <1>5, <1>6
    <2>2. PICK j \in Calls : j = deviceCall[x] /\ call[j].st = "live"
      BY <1>6, ProtocolTypes DEF SipFacts
    <2>3. call'[j] = call[j]
      BY <1>5, <1>6, <2>2
    <2>4. QED
      BY <2>1, <2>2, <2>3 DEF IdOf
  <1>9. Taken
    BY <1>1 DEF Taken
  <1>10. /\ QuietViewers' /\ PortsDiffer' /\ OwnIds' /\ PlainStops'
         /\ \A d \in Procs : \A j \in DOMAIN toLive[d], x \in DOMAIN toLive'[d], m \in Msg :
               toLive[d][j] = m /\ toLive'[d][x] = m => Answer(m)'
    BY <1>8, <1>9, ServerKeepsViewers
  <1> PICK a \in Msg : a = InitAnswer(i, p, 0)
    BY <1>4, <1>6 DEF Msg, InitAnswer
  <1>11. a.type = "live_init_answer" /\ a.id = i /\ a.port = p
    BY DEF InitAnswer
  <1>12. Answer(a)'
    BY <1>4, <1>7, <1>11 DEF Answer
  <1>13. \A d \in Procs : /\ toSip'[d] = IF d = c THEN Tail(toSip[c]) ELSE toSip[d]
                          /\ toLive'[d] = IF d = c THEN Append(toLive[c], a) ELSE toLive[d]
    <2>1. toLive[c] \o << a >> = Append(toLive[c], a)
      BY <1>2, AppendIsConcat
    <2>2. QED
      BY <1>1, <1>5, <2>1, ProtocolTypes
  <1>14. /\ \A j \in DOMAIN Append(toLive[c], a) :
               Append(toLive[c], a)[j] = a \/ \E x \in DOMAIN toLive[c] : Append(toLive[c], a)[j] = toLive[c][x]
         /\ \A x : HasId(Append(toLive[c], a), "live_init_answer", x) <=> HasId(toLive[c], "live_init_answer", x) \/ x = i
         /\ \A x : OneId(toLive[c], "live_init_answer", x) /\ (HasId(toLive[c], "live_init_answer", x) => x # i)
                      => OneId(Append(toLive[c], a), "live_init_answer", x)
    BY <1>2, <1>11, AppendIds
  <1>15. Answers'
    <2>1. \A d \in Procs : \A j \in DOMAIN toLive[d] : toLive[d][j] \in Msg
      BY ProtocolTypes
    <2>2. \A d \in Procs : \A x \in DOMAIN toLive'[d] :
             toLive'[d][x] = a \/ \E j \in DOMAIN toLive[d] : toLive'[d][x] = toLive[d][j]
      <3> TAKE d \in Procs
      <3>1. CASE d = c
        <4>1. toLive'[d] = Append(toLive[c], a) /\ toLive[d] = toLive[c]
          BY <1>13, <3>1
        <4>2. QED
          BY <1>14, <4>1
      <3>2. CASE d # c
        BY <1>13, <3>2
      <3>3. QED
        BY <3>1, <3>2
    <2>3. \A d \in Procs : \A x \in DOMAIN toLive'[d] : \E m \in Msg : toLive'[d][x] = m /\ Answer(m)'
      <3> TAKE d \in Procs
      <3> TAKE x \in DOMAIN toLive'[d]
      <3>1. CASE toLive'[d][x] = a
        BY <1>12, <3>1
      <3>2. CASE \E j \in DOMAIN toLive[d] : toLive'[d][x] = toLive[d][j]
        BY <1>10, <2>1, <3>2
      <3>3. QED
        BY <2>2, <3>1, <3>2
    <2>4. QED
      BY <2>3 DEF Answers, Answer, IdOf
  <1>16. /\ \A x : HasId(Tail(toSip[c]), "live_init", x) => HasId(toSip[c], "live_init", x)
         /\ \A x : OneId(toSip[c], "live_init", x) => OneId(Tail(toSip[c]), "live_init", x)
         /\ OneId(toSip[c], "live_init", i) => ~HasId(Tail(toSip[c]), "live_init", i)
    BY <1>1, <1>2, <1>4, TailIds
  <1>17. HasId(toSip[c], "live_init", i)
    <2>1. Head(toSip[c]) = toSip[c][1] /\ 1 \in DOMAIN toSip[c]
      BY <1>1, <1>2, TailFacts, LenProperties
    <2>2. QED
      BY <1>1, <1>4, <2>1 DEF HasId
  <1>18. Requests'
    <2>1. \A d \in Procs, x \in ReqIds : RequestAt(d, x)
      BY ProtocolTypes DEF Viewers, Requests
    <2>2. \A d \in Procs, x \in ReqIds : d # c \/ x # i => RequestAt(d, x)'
      BY <1>13, <1>14, <1>16, <2>1 DEF RequestAt
    <2>3. RequestAt(c, i)'
      BY <1>13, <1>14, <1>16, <1>17, <2>1 DEF RequestAt
    <2>4. QED
      BY <2>2, <2>3 DEF Requests
  <1>19. QED
    BY <1>10, <1>15, <1>18 DEF Viewers

(* A SipCall keeps its id as long as it lives, and its port.               *)
LEMMA SameIdsStay ==
    ASSUME SipTypeOK, \A k \in Calls : call'[k].id = call[k].id,
           \A p \in PortKeys : deviceCall[p] # NoCall /\ deviceCall'[p] # NoCall => deviceCall'[p] = deviceCall[p]
    PROVE  IdsStay
  BY DEF IdsStay, IdOf, SipTypeOK

LEMMA SameIds ==
    ASSUME SipTypeOK, NEW x,
           \A k \in Calls : \/ call'[k] = call[k] \/ call'[k] = [call[k] EXCEPT !.st = x]
                           \/ call'[k] = [call[k] EXCEPT !.cid = x] \/ call'[k] = [call[k] EXCEPT !.did = x]
    PROVE  \A k \in Calls : call'[k].id = call[k].id
  <1> TAKE k \in Calls
  <1>1. PICK r \in SipCall : r = call[k]
    BY DEF SipTypeOK
  <1>2. /\ [r EXCEPT !.st = x].id = r.id /\ [r EXCEPT !.cid = x].id = r.id
        /\ [r EXCEPT !.did = x].id = r.id
    BY DEF SipCall
  <1>3. QED
    BY <1>1, <1>2

LEMMA OtherIpcThreadViewers ==
    ASSUME ProtocolInv, SipFacts', HoldFacts', worker' = worker, NEW c \in Procs,
           \/ RealPlayUnsent(c) \/ SendInvite(c) \/ StopPlay(c) \/ StopPlayUnknown(c)
           \/ StopPlayThrows(c) \/ StopPlayAll(c)
    PROVE  Viewers'
  <1>1. SipTypeOK
    BY ProtocolTypes
  <1>2. toLive' = toLive /\ Taken
    BY DEF RealPlayUnsent, SendInvite, StopPlay, StopPlayUnknown, StopPlayThrows, StopPlayAll, Receive, Taken
  <1>3. CASE RealPlayUnsent(c) \/ SendInvite(c) \/ StopPlayUnknown(c) \/ StopPlayThrows(c)
    <2>1. UNCHANGED <<deviceCall, call>>
      BY <1>3 DEF RealPlayUnsent, SendInvite, StopPlayUnknown, StopPlayThrows, sipVars
    <2>2. QED
      BY <1>1, <1>2, <2>1, SameIdsStay, ServerViewers
  <1>4. CASE StopPlay(c)
    <2>1. PICK p, k : deviceCall' = [deviceCall EXCEPT ![p] = NoCall] /\ call' = [call EXCEPT ![k].st = "freed"]
      BY <1>4 DEF StopPlay, Deleted
    <2>2. \A j \in Calls : call'[j].id = call[j].id
      <3>1. \A j \in Calls : call'[j] = call[j] \/ call'[j] = [call[j] EXCEPT !.st = "freed"]
        BY <1>1, <2>1 DEF SipTypeOK
      <3>2. QED
        BY <1>1, <3>1, SameIds
    <2>3. \A x \in PortKeys : deviceCall[x] # NoCall /\ deviceCall'[x] # NoCall => deviceCall'[x] = deviceCall[x]
      BY <1>1, <2>1 DEF SipTypeOK
    <2>4. QED
      BY <1>1, <1>2, <2>2, <2>3, SameIdsStay, ServerViewers
  <1>5. CASE StopPlayAll(c)
    <2>1. \A j \in Calls : call'[j].id = call[j].id
      <3>1. \A j \in Calls : call'[j] = call[j] \/ call'[j] = [call[j] EXCEPT !.st = "freed"]
        BY <1>5 DEF StopPlayAll
      <3>2. QED
        BY <1>1, <3>1, SameIds
    <2>2. \A x \in PortKeys : deviceCall[x] # NoCall /\ deviceCall'[x] # NoCall => deviceCall'[x] = deviceCall[x]
      BY <1>5 DEF StopPlayAll
    <2>3. QED
      BY <1>1, <1>2, <2>1, <2>2, SameIdsStay, ServerViewers
  <1>6. QED
    BY <1>3, <1>4, <1>5

LEMMA SipThreadViewers ==
    ASSUME ProtocolInv, SipFacts', HoldFacts', worker' = worker, IndexCall \/ SipThread \/ Device
    PROVE  Viewers'
  <1>1. SipTypeOK
    BY ProtocolTypes
  <1>2. CASE DropEvent \/ (\E kind \in {"ok", "fail"} : FindByCallID(kind)) \/ OnInviteOKThrows \/ Device
    <2>1. UNCHANGED <<deviceCall, call, toSip, toLive>>
      BY <1>2 DEF DropEvent, FindByCallID, OnInviteOKThrows, Device, DeviceAnswers, DeviceHangsUp, ipcVars
    <2>2. QED
      BY <1>1, <2>1, SameIdsStay, ServerViewers DEF Taken
  <1>3. CASE IndexCall
    <2>1. UNCHANGED <<deviceCall, toSip, toLive>> /\ call' = [call EXCEPT ![ipc.obj].cid = ipc.cid]
      BY <1>3 DEF IndexCall
    <2>2. \A j \in Calls : call'[j].id = call[j].id
      <3>1. \A j \in Calls : call'[j] = call[j] \/ call'[j] = [call[j] EXCEPT !.cid = ipc.cid]
        BY <1>1, <2>1 DEF SipTypeOK
      <3>2. QED
        BY <1>1, <3>1, SameIds
    <2>3. QED
      BY <1>1, <2>1, <2>2, SameIdsStay, ServerViewers DEF Taken
  <1>4. CASE OnInviteOK \/ OnInviteFailed
    <2>1. PICK j, did : /\ UNCHANGED <<deviceCall, toSip, toLive>>
                        /\ call' = call \/ call' = [call EXCEPT ![j].did = did]
      BY <1>4 DEF OnInviteOK, OnInviteFailed, SetDialog, ipcVars
    <2>2. \A k \in Calls : call'[k].id = call[k].id
      <3>1. \A k \in Calls : call'[k] = call[k] \/ call'[k] = [call[k] EXCEPT !.did = did]
        BY <1>1, <2>1 DEF SipTypeOK
      <3>2. QED
        BY <1>1, <3>1, SameIds
    <2>3. QED
      BY <1>1, <2>1, <2>2, SameIdsStay, ServerViewers DEF Taken
  <1>5. CASE OnPlayCb
    <2>1. UNCHANGED <<deviceCall, call, toSip>> /\ sip.at = "acked"
      BY <1>5 DEF OnPlayCb
    <2>2. PICK k \in Calls : k = sip.obj /\ call[k].st = "live" /\ call[k] \in SipCall
      BY <1>1, <2>1, ProtocolTypes DEF SipFacts, SipTypeOK
    <2> PICK m \in Msg : m = PlayAnswer(call[k].id, call[k].port, 0)
      BY <2>2 DEF PlayAnswer, Msg, SipCall
    <2>3. \/ toLive' = toLive
          \/ call[k].proc \in Procs /\ toLive' = [toLive EXCEPT ![call[k].proc] = Append(@, m)]
      <3>1. Touched(k) = {k}
        BY <2>2 DEF Touched
      <3>2. Relay(call[k].proc, << m >>)
        BY <1>5, <2>2, <3>1 DEF OnPlayCb
      <3>3. CASE call[k].proc \in connected
        <4>1. call[k].proc \in Procs /\ toLive[call[k].proc] \in Seq(Msg)
          BY <3>3, ProtocolTypes DEF SipFacts
        <4>2. toLive[call[k].proc] \o << m >> = Append(toLive[call[k].proc], m)
          BY <4>1, AppendIsConcat
        <4>3. QED
          BY <3>2, <3>3, <4>1, <4>2 DEF Relay
      <3>4. CASE call[k].proc \notin connected
        BY <3>2, <3>4 DEF Relay
      <3>5. QED
        BY <3>3, <3>4
    <2>4. m.type = "live_play_answer" /\ m.port = call[k].port /\ m.id = call[k].id /\ m.ret = 0
      BY DEF PlayAnswer
    <2>5. Answer(m)
      <3>1. deviceCall[call[k].port] = k /\ k # NoCall /\ call[k].port \in PortKeys
        BY <2>2, ProtocolTypes, ConstantFacts DEF SipFacts, SipCall
      <3>2. call[k].port \in Ports
        BY <3>1, ProtocolTypes DEF SipFacts
      <3>3. QED
        BY <2>4, <3>1, <3>2 DEF Answer, IdOf
    <2>6. Answer(m)'
      BY <2>1, <2>5 DEF Answer, IdOf
    <2>7. IdsStay /\ Taken
      BY <1>1, <2>1, SameIdsStay DEF Taken
    <2>8. QED
      BY <2>3, <2>4, <2>6, <2>7, ServerViewers
  <1>6. QED
    BY <1>2, <1>3, <1>4, <1>5 DEF SipThread

LEMMA SipServerViewers ==
    ASSUME ProtocolInv, SipFacts', HoldFacts', SipServerStep \/ Device, UNCHANGED liveVars,
           \A c \in Procs : ~PlayInitNoPort(c)
    PROVE  Viewers'
  <1>1. worker' = worker
    BY DEF liveVars
  <1>2. QED
    BY <1>1, PlayInitViewers, OtherIpcThreadViewers, SipThreadViewers DEF SipServerStep, IpcThread

LEMMA SipServerSimulated ==
    ASSUME SipServerStep \/ Device, UNCHANGED liveVars
    PROVE  Simulated
  <1>1. Hold' = Hold
    BY DEF Hold, HoldOf, liveVars
  <1>2. UNCHANGED P!clientVars /\ UNCHANGED Client!clientVars
    BY <1>1 DEF P!clientVars, Client!clientVars, liveVars
  <1>3. (P!SipServerStep /\ Client!SipServerStep) \/ (P!Device /\ Client!Device)
    BY SameServer DEF SipServerStep, P!SipServerStep, Client!SipServerStep
  <1>4. QED
    BY <1>2, <1>3 DEF Simulated, P!Next, Client!Next

-----------------------------------------------------------------------------
(* The steps of patient viewers and timely answers.                        *)
LEMMA LiveSimulated ==
    ASSUME Patient, Timely, MaxCrashes = 0, ProtocolInv, NEW c \in Procs,
           \/ OnIpcRecv(c) \/ Dies(c) \/ Restarts(c)
           \/ \E w \in Workers : PlayThread(c, w) \/ Viewer(c, w)
    PROVE  Simulated /\ Viewers'
  <1>1. ~Dies(c) /\ ~Restarts(c)
    BY ProtocolTypes DEF SipFacts, Dies, Restarts
  <1>2. CASE OnIpcRecv(c)
    <2>1. Head(toLive[c]).type \in {"live_init_answer", "live_play_answer"}
      BY <1>2, HeadOfLive DEF OnIpcRecv, Answer
    <2>2. QED
      BY <1>2, <2>1, PlayAnswerSimulated, InitAnswerSimulated
  <1>3. ASSUME NEW w \in Workers, PlayThread(c, w) \/ Viewer(c, w)
        PROVE  Simulated /\ Viewers'
    <2>1. CASE LoadId(c, w) \/ StoreId(c, w) \/ CreateReal(c, w) \/ FillRtpData(c, w) \/ Played(c, w)
      BY <2>1, LoadIdSimulated, StoreIdSimulated, CreateRealSimulated, FillRtpDataSimulated, PlayedSimulated
    <2>2. CASE RealPlay(c, w)
      <3>1. Viewers'
        BY <2>2, RealPlayViewers
      <3>2. PortsDiffer'
        BY <3>1 DEF Viewers
      <3>3. QED
        BY <2>2, <3>1, <3>2, RealPlaySimulated
    <2>3. CASE Connects(c, w) \/ Leaves(c, w)
      BY <2>3, ConnectsSimulated, LeavesSimulated, LeavesViewers
    <2>4. QED
      BY <1>3, <2>1, <2>2, <2>3 DEF PlayThread, TimesOut, Viewer, LeavesAtOnce, LeavesInInit, LeavesInPlay
  <1>4. QED
    BY <1>1, <1>2, <1>3

-----------------------------------------------------------------------------
(* A call that has not ended is some process's.                            *)
CallsHaveOwners == \A k \in Calls : call[k].st = "live" => call[k].proc \in Procs

LEMMA OwnersStay ==
    ASSUME SipTypeOK, CallsHaveOwners, [Next]_vars
    PROVE  CallsHaveOwners'
  <1>1. call \in [Calls -> SipCall]
    BY DEF SipTypeOK
  <1>2. SUFFICES ASSUME NEW k \in Calls
                 PROVE  \/ call'[k].proc = call[k].proc /\ (call'[k].st = "live" => call[k].st = "live")
                        \/ call'[k].proc \in Procs
    BY DEF CallsHaveOwners
  <1>3. CASE call' = call
    BY <1>3
  <1>4. ASSUME NEW c \in Procs, PlayInit(c)
        PROVE  (call'[k].proc = call[k].proc /\ call'[k].st = call[k].st) \/ call'[k].proc \in Procs
    <2>1. PICK j \in Calls :
             call' = [call EXCEPT ![j] = [st |-> "live", proc |-> c, id |-> Head(toSip[c]).id, port |-> Head(ports),
                                          cid |-> NoCid, did |-> -1]]
      BY <1>4 DEF PlayInit
    <2>2. QED
      BY <1>1, <2>1
  <1>5. ASSUME NEW j, NEW x,
               \/ call' = [call EXCEPT ![j].cid = x] \/ call' = [call EXCEPT ![j].did = x]
               \/ call' = [call EXCEPT ![j].st = "freed"]
        PROVE  call'[k].proc = call[k].proc /\ (call'[k].st = "live" => call[k].st = "live")
    <2>1. \/ call'[k] = call[k] \/ call'[k] = [call[k] EXCEPT !.cid = x] \/ call'[k] = [call[k] EXCEPT !.did = x]
          \/ call'[k] = [call[k] EXCEPT !.st = "freed"]
      BY <1>1, <1>5
    <2>2. QED
      BY <1>1, <2>1 DEF SipCall
  <1>6. ASSUME NEW c \in Procs, StopPlay(c)
        PROVE  call'[k].proc = call[k].proc /\ (call'[k].st = "live" => call[k].st = "live")
    <2>1. PICK j : call' = [call EXCEPT ![j].st = "freed"]
      BY <1>6 DEF StopPlay, Deleted
    <2>2. QED
      BY <1>5, <2>1
  <1>7. ASSUME NEW c \in Procs, StopPlayAll(c)
        PROVE  call'[k].proc = call[k].proc /\ (call'[k].st = "live" => call[k].st = "live")
    <2>1. call'[k] = call[k] \/ call'[k] = [call[k] EXCEPT !.st = "freed"]
      BY <1>7 DEF StopPlayAll
    <2>2. QED
      BY <1>1, <2>1 DEF SipCall
  <1>8. ASSUME NEW c \in Procs, IpcThread(c)
        PROVE  \/ call'[k].proc = call[k].proc /\ (call'[k].st = "live" => call[k].st = "live")
               \/ call'[k].proc \in Procs
    BY <1>3, <1>4, <1>6, <1>7, <1>8 DEF IpcThread, PlayInitNoPort, RealPlayUnsent, SendInvite, StopPlayUnknown,
       StopPlayThrows, sipVars
  <1>9. CASE IndexCall \/ OnInviteOK \/ OnInviteFailed
    <2>1. PICK j, x : call' = call \/ call' = [call EXCEPT ![j].cid = x] \/ call' = [call EXCEPT ![j].did = x]
      BY <1>9 DEF IndexCall, OnInviteOK, OnInviteFailed, SetDialog
    <2>2. QED
      BY <1>3, <1>5, <2>1
  <1>10. CASE DropEvent \/ FindByCallID("ok") \/ FindByCallID("fail") \/ OnInviteOKThrows \/ OnPlayCb \/ Device
    <2>1. call' = call
      BY <1>10 DEF DropEvent, FindByCallID, OnInviteOKThrows, OnPlayCb, Device, DeviceAnswers, DeviceHangsUp
    <2>2. QED
      BY <1>3, <2>1
  <1>11. ASSUME NEW c \in Procs,
                OnIpcRecv(c) \/ Dies(c) \/ Restarts(c) \/ \E w \in Workers : PlayThread(c, w) \/ Viewer(c, w)
         PROVE  call' = call
    BY <1>11 DEF OnIpcRecv, Dies, Restarts, PlayThread, LoadId, StoreId, CreateReal, TimesOut, FillRtpData, RealPlay, Played, Viewer,
       Connects, LeavesAtOnce, LeavesInInit, LeavesInPlay, Leaves, sipVars, baseVars
  <1>12. CASE UNCHANGED vars
    BY <1>3, <1>12 DEF vars, baseVars
  <1>13. QED
    BY <1>3, <1>8, <1>9, <1>10, <1>11, <1>12 DEF Next, SipServerStep, SipThread

-----------------------------------------------------------------------------
(* SipCallsProofs is about this client: its invariant is inherited.        *)
LEMMA InheritedAssumptions == P!PortsAssumption /\ P!ProcsAssumption /\ P!BoundsAssumption /\ P!ClientAssumption
  <1>1. P!IsFiniteSet(Ports)
    BY PortsAssumption DEF P!IsFiniteSet, IsFiniteSet
  <1>2. QED
    BY <1>1, PortsAssumption, ProcsAssumption, BoundsAssumption
       DEF P!PortsAssumption, P!ProcsAssumption, P!BoundsAssumption, P!ClientAssumption

LEMMA InheritedInit == P!Init => P!DialogInv
  BY InheritedAssumptions, P!InitDialogs

LEMMA InheritedStep == P!DialogInv /\ Simulated => P!DialogInv'
  BY InheritedAssumptions, P!NextDialogs DEF Simulated

-----------------------------------------------------------------------------
(* The invariant holds at first, and every step keeps it and is a step of  *)
(* the client of SipCalls.                                                 *)
LEMMA InitProtocol == Apart /\ Init => ProtocolInv /\ P!Init /\ Client!Init /\ CallsHaveOwners
  <1> SUFFICES ASSUME Apart, Init PROVE ProtocolInv /\ P!Init /\ Client!Init /\ CallsHaveOwners
    OBVIOUS
  <1>1. \A c \in Procs, w \in Workers : worker[c][w] = NoWorker
    BY DEF Init
  <1>2. \A p : ~Owns(NoWorker, p)
    BY DEF Owns, Granted, Asked, Playing, NoWorker
  <1>3. \A c \in Procs, p \in Ports : Hold[c][p] = "none"
    BY <1>1, <1>2, HoldAt, HoldOfOwner
  <1>4. Hold = [c \in Procs |-> [p \in Ports |-> "none"]]
    BY <1>3 DEF Hold
  <1>5. P!SipInit /\ Client!SipInit
    <2>1. ports \in P!Ascending(Ports) /\ ports \in Client!Ascending(Ports)
      BY SameOrder DEF Init, SipInit
    <2>2. QED
      BY <2>1 DEF Init, SipInit, P!SipInit, Client!SipInit, PortKeys, P!PortKeys, Client!PortKeys, CidKeys, P!CidKeys,
         Client!CidKeys, Calls, P!Calls, Client!Calls, Cids, P!Cids, Client!Cids, NoCall, P!NoCall, Client!NoCall,
         NoProc, P!NoProc, Client!NoProc, NullPort, P!NullPort, Client!NullPort, NoCid, P!NoCid, Client!NoCid,
         NoPort, P!NoPort, Client!NoPort, IdleIpc, P!IdleIpc, Client!IdleIpc, IdleSip, P!IdleSip, Client!IdleSip
  <1>6. P!Init /\ Client!Init
    BY <1>4, <1>5 DEF Init, P!Init, Client!Init
  <1>7. \A c \in Procs : toSip[c] = << >> /\ toLive[c] = << >>
    BY DEF Init, SipInit
  <1>8. Viewers
    <2>1. QuietViewers
      BY <1>1 DEF QuietViewers, Quiet, NoWorker
    <2>2. PortsDiffer
      BY <1>1, <1>2 DEF PortsDiffer
    <2>3. OwnIds
      BY <1>1, <1>2 DEF OwnIds, Owns
    <2>4. Requests /\ Answers /\ PlainStops
      BY <1>7 DEF Requests, RequestAt, HasId, OneId, Answers, PlainStops
    <2>5. QED
      BY <2>1, <2>2, <2>3, <2>4 DEF Viewers
  <1>9. CallsHaveOwners
    BY DEF Init, SipInit, CallsHaveOwners
  <1>10. P!DialogInv
    BY <1>6, InheritedInit
  <1>11. QED
    BY <1>6, <1>8, <1>9, <1>10, InitLive DEF ProtocolInv

PortsSuffice == \A c \in Procs : ~PlayInitNoPort(c)

LEMMA NextProtocol ==
    ASSUME Patient, Timely, MaxCrashes = 0, ProtocolInv, [Next]_vars, [PortsSuffice]_vars
    PROVE  ProtocolInv' /\ Simulated
  <1>1. LiveInv'
    BY NextLive DEF ProtocolInv
  <1>2. CASE UNCHANGED vars
    <2>1. Hold' = Hold /\ UNCHANGED <<baseVars, nextReq, sent, crashes>>
      BY <1>2 DEF Hold, HoldOf, vars, liveVars
    <2>2. Simulated
      BY <2>1, StutterIsSimulated
    <2>3. P!DialogInv'
      BY <2>2, InheritedStep DEF ProtocolInv
    <2>4. UNCHANGED <<worker, deviceCall, call, toSip, toLive>>
      BY <1>2 DEF vars, baseVars, liveVars
    <2>5. Viewers'
      BY <2>4 DEF ProtocolInv, Viewers, QuietViewers, PortsDiffer, Requests, RequestAt, Answers, Answer,
         OwnIds, IdOf, PlainStops
    <2>6. QED
      BY <1>1, <2>2, <2>3, <2>5 DEF ProtocolInv
  <1>3. CASE (SipServerStep \/ Device) /\ UNCHANGED liveVars /\ PortsSuffice
    <2>1. Simulated
      BY <1>3, SipServerSimulated
    <2>2. P!DialogInv'
      BY <2>1, InheritedStep DEF ProtocolInv
    <2>3. SipFacts' /\ HoldFacts'
      BY <2>2, InheritedNext
    <2>4. Viewers'
      BY <1>3, <2>3, SipServerViewers DEF PortsSuffice
    <2>5. QED
      BY <1>1, <2>1, <2>2, <2>4 DEF ProtocolInv
  <1>4. ASSUME NEW c \in Procs,
               \/ OnIpcRecv(c) \/ Dies(c) \/ Restarts(c)
               \/ \E w \in Workers : PlayThread(c, w) \/ Viewer(c, w)
        PROVE  ProtocolInv' /\ Simulated
    <2>1. Simulated /\ Viewers'
      BY <1>4, LiveSimulated
    <2>2. P!DialogInv'
      BY <2>1, InheritedStep DEF ProtocolInv
    <2>3. QED
      BY <1>1, <2>1, <2>2 DEF ProtocolInv
  <1>5. QED
    BY <1>2, <1>3, <1>4 DEF Next

(* What the invariant says of a camera that streams.                       *)
LEMMA CameraIsHeard == ProtocolInv /\ CallsHaveOwners => ListensWhereCameraSends
  <1> SUFFICES ASSUME ProtocolInv, CallsHaveOwners, NEW d \in Cids, dialog[d].st = "active",
                      call[dialog[d].obj].st = "live"
               PROVE  LET c == call[dialog[d].obj].proc
                          listeners == { w \in Workers : Listens(c, w, call[dialog[d].obj].port) }
                      IN Cardinality(listeners) = IF StopUnderWay(c, call[dialog[d].obj].port) THEN 0 ELSE 1
    BY DEF ListensWhereCameraSends
  <1>1. dialog[d].obj \in Calls
    <2>1. dialog[d].obj \in Calls \cup {NoCall}
      BY ProtocolTypes DEF SipTypeOK
    <2>2. P!DialogsAreFiled /\ P!Cids = Cids /\ P!NoCall = NoCall
      BY DEF ProtocolInv, P!DialogInv, P!Dialogs, P!Cids, Cids, P!NoCall, NoCall
    <2>3. QED
      BY <2>1, <2>2 DEF P!DialogsAreFiled
  <1>2. PICK k \in Calls : k = dialog[d].obj
    BY <1>1
  <1>3. call[k].st = "live" /\ call[k] \in SipCall /\ call[k].proc \in Procs
    BY <1>2, ProtocolTypes DEF SipTypeOK, CallsHaveOwners
  <1>4. deviceCall[call[k].port] = k /\ k # NoCall /\ call[k].port \in Ports
    <2>1. deviceCall[call[k].port] = k /\ k # NoCall /\ call[k].port \in PortKeys
      BY <1>3, ProtocolTypes, ConstantFacts DEF SipFacts, SipCall
    <2>2. QED
      BY <2>1, ProtocolTypes DEF SipFacts
  <1>5. PICK c \in Procs, p \in Ports : c = call[k].proc /\ p = call[k].port
    BY <1>3, <1>4
  <1>6. Hold[c][p] \in {"asked", "playing"} \/ P!HasMsg(toSip[c], "stop_play", p)
    <2>1. P!PortStagesAt(c, p)
      BY DEF ProtocolInv, P!DialogInv, P!Dialogs, P!PortStages
    <2>2. P!Lent(c, p)
      BY <1>4, <1>5 DEF P!Lent, P!NoCall, NoCall
    <2>3. ~P!NeverInvited(deviceCall[p])
      BY <1>2, <1>4, <1>5 DEF P!NeverInvited, P!Cids, Cids
    <2>4. QED
      BY <2>1, <2>2, <2>3 DEF P!PortStagesAt
  <1>7. P!HasMsg(toSip[c], "stop_play", p) => StopUnderWay(c, p)
    BY ProtocolTypes DEF P!HasMsg, StopUnderWay, Viewers, PlainStops
  <1>8. StopUnderWay(c, p) => Hold[c][p] = "none"
    BY ProtocolTypes DEF StopUnderWay, HoldFacts, StopPlayMsg
  <1>9. \A w \in Workers : /\ Listens(c, w, p) => Owns(worker[c][w], p)
                           /\ Asked(worker[c][w], p) \/ Playing(worker[c][w], p) => Listens(c, w, p)
    BY ProtocolTypes DEF Viewers, QuietViewers, Quiet, Listens, Owns, Granted, Asked, Playing
  <1> DEFINE listeners == { w \in Workers : Listens(c, w, p) }
  <1>10. CASE StopUnderWay(c, p)
    <2>1. listeners = {}
      BY <1>8, <1>9, <1>10, HoldAt, HoldOfOwner
    <2>2. QED
      BY <1>2, <1>5, <1>10, <2>1, FS_EmptySet
  <1>11. CASE ~StopUnderWay(c, p)
    <2>1. PICK w \in Workers : Asked(worker[c][w], p) \/ Playing(worker[c][w], p)
      BY <1>6, <1>7, <1>11, HoldAt, HoldOfOwner
    <2>2. \A v \in Workers : Owns(worker[c][v], p) => v = w
      BY <2>1, ProtocolTypes DEF Viewers, PortsDiffer, Owns
    <2>3. listeners = {w}
      BY <1>9, <2>1, <2>2
    <2>4. QED
      BY <1>2, <1>5, <1>11, <2>3, FS_Singleton
  <1>12. QED
    BY <1>10, <1>11

-----------------------------------------------------------------------------
(* live_server keeps to the protocol: with viewers that leave only after   *)
(* play() has returned and do not race for _ID, answers within 30 s, no    *)
(* process that dies and a port in the pool whenever one is asked for,     *)
(* every behaviour of play(), stop() and on_ipc_recv is one of the client  *)
(* of SipCalls, which asks for a port once, stops it once and never before *)
(* it is played or refused.                                                *)
THEOREM ProtocolIsKept ==
    ASSUME Patient, Timely, Apart, MaxCrashes = 0
    PROVE  Spec /\ [][PortsSuffice]_vars => KeepsTheProtocol
  <1>1. ProtocolInv /\ [Next]_vars /\ [PortsSuffice]_vars => ProtocolInv' /\ [Client!Next]_(Client!vars)
    BY NextProtocol DEF Simulated
  <1>2. Init => ProtocolInv /\ Client!Init
    BY InitProtocol
  <1>3. QED
    BY <1>1, <1>2, PTL DEF Spec, KeepsTheProtocol, Client!Spec

(* Under the same conditions a camera that streams for a call has exactly  *)
(* one viewer of the right process listening on the call's port, or the    *)
(* stop_play of that port is on its way (main.cpp play, the SDP of         *)
(* SipInvite.cpp).                                                         *)
THEOREM CameraHasItsListener ==
    ASSUME Patient, Timely, Apart, MaxCrashes = 0
    PROVE  Spec /\ [][PortsSuffice]_vars => []ListensWhereCameraSends
  <1>1. ProtocolInv /\ CallsHaveOwners /\ [Next]_vars /\ [PortsSuffice]_vars => (ProtocolInv /\ CallsHaveOwners)'
    <2> SUFFICES ASSUME ProtocolInv, CallsHaveOwners, [Next]_vars, [PortsSuffice]_vars
                 PROVE  ProtocolInv' /\ CallsHaveOwners'
      OBVIOUS
    <2>1. SipTypeOK
      BY ProtocolTypes
    <2>2. QED
      BY <2>1, NextProtocol, OwnersStay
  <1>2. Init => ProtocolInv /\ CallsHaveOwners
    BY InitProtocol
  <1>3. QED
    BY <1>1, <1>2, CameraIsHeard, PTL DEF Spec

(* And no camera is left calling, answered or streaming for a call that    *)
(* has ended (StopSipCall "ends the session", SipInvite.h:34).             *)
THEOREM NoCameraIsLeft ==
    ASSUME Patient, Timely, Apart, MaxCrashes = 0
    PROVE  Spec /\ [][PortsSuffice]_vars => []NoOrphanDialog
  <1>1. ProtocolInv /\ [Next]_vars /\ [PortsSuffice]_vars => ProtocolInv'
    BY NextProtocol
  <1>2. ProtocolInv => NoOrphanDialog
    <2>1. ProtocolInv => P!NoOrphanDialog
      BY DEF ProtocolInv, P!DialogInv, P!Dialogs
    <2>2. P!NoOrphanDialog => NoOrphanDialog
      BY DEF P!NoOrphanDialog, NoOrphanDialog, P!Cids, Cids, P!NoCall, NoCall
    <2>3. QED
      BY <2>1, <2>2
  <1>3. Init => ProtocolInv
    BY InitProtocol
  <1>4. QED
    BY <1>1, <1>2, <1>3, PTL DEF Spec

-----------------------------------------------------------------------------
(* The pool is never empty when a port is asked for, if there is a port    *)
(* for every viewer.  Every port lent has a viewer's place: the viewer it  *)
(* belongs to, the one that waits for the answer that grants it, or one    *)
(* that has sent the stop_play and not asked again in front of it.         *)
LentPorts == { p \in Ports : deviceCall[p] # NoCall }

Gets(c, w, p) ==
    \E j \in DOMAIN toLive[c] : /\ toLive[c][j].type = "live_init_answer" /\ toLive[c][j].port = p
                                /\ WaitsFor(worker[c][w], toLive[c][j].id)
GivesBack(c, w, p) ==
    \E j \in DOMAIN toSip[c] :
        /\ toSip[c][j] = StopPlayMsg(p)
        /\ \A k \in DOMAIN toSip[c] :
              toSip[c][k].type = "live_init" /\ WaitsFor(worker[c][w], toSip[c][k].id) => j < k
InPlace(c, w, p) == Owns(worker[c][w], p) \/ Gets(c, w, p) \/ GivesBack(c, w, p)

(* place gives every lent port a place of its own.                         *)
Places(place) ==
    /\ place \in [LentPorts -> Procs \X Workers]
    /\ \A p, q \in LentPorts : place[p] = place[q] => p = q
    /\ \A p \in LentPorts : InPlace(place[p][1], place[p][2], p)

(* What a step may do to a viewer, and to the messages, for it to keep its *)
(* places.                                                                 *)
SipStays(c, p) ==
    \/ toSip'[c] = toSip[c]
    \/ \E m \in Msg : toSip'[c] = Append(toSip[c], m)
    \/ toSip[c] # << >> /\ Head(toSip[c]) # StopPlayMsg(p) /\ toSip'[c] = Tail(toSip[c])

LiveStays(c, w) ==
    \A j \in DOMAIN toLive[c] :
        toLive[c][j].type = "live_init_answer" /\ WaitsFor(worker[c][w], toLive[c][j].id)
            => \E k \in DOMAIN toLive'[c] : toLive'[c][k] = toLive[c][j]

StillWaits(c, w) == \A i : WaitsFor(worker'[c][w], i) <=> WaitsFor(worker[c][w], i)

LEMMA GivesBackStays ==
    ASSUME NEW c \in Procs, NEW w \in Workers, NEW p \in Ports, toSip[c] \in Seq(Msg),
           GivesBack(c, w, p), SipStays(c, p), StillWaits(c, w)
    PROVE  GivesBack(c, w, p)'
  <1>1. PICK j \in DOMAIN toSip[c] :
           /\ toSip[c][j] = StopPlayMsg(p)
           /\ \A k \in DOMAIN toSip[c] :
                 toSip[c][k].type = "live_init" /\ WaitsFor(worker[c][w], toSip[c][k].id) => j < k
    BY DEF GivesBack
  <1>2. Len(toSip[c]) \in Nat /\ DOMAIN toSip[c] = 1..Len(toSip[c])
    BY LenProperties
  <1>3. CASE toSip'[c] = toSip[c]
    BY <1>1, <1>3 DEF GivesBack, StillWaits
  <1>4. ASSUME NEW m \in Msg, toSip'[c] = Append(toSip[c], m)
        PROVE  GivesBack(c, w, p)'
    <2>1. /\ DOMAIN Append(toSip[c], m) = 1..Len(toSip[c]) + 1
          /\ \A k \in 1..Len(toSip[c]) : Append(toSip[c], m)[k] = toSip[c][k]
      BY <1>2, AppendProperties, LenProperties
    <2>2. j \in DOMAIN toSip'[c] /\ toSip'[c][j] = StopPlayMsg(p)
      BY <1>1, <1>2, <1>4, <2>1
    <2>3. \A k \in DOMAIN toSip'[c] :
             toSip'[c][k].type = "live_init" /\ WaitsFor(worker'[c][w], toSip'[c][k].id) => j < k
      BY <1>1, <1>2, <1>4, <2>1 DEF StillWaits
    <2>4. QED
      BY <2>2, <2>3 DEF GivesBack
  <1>5. CASE toSip[c] # << >> /\ Head(toSip[c]) # StopPlayMsg(p) /\ toSip'[c] = Tail(toSip[c])
    <2>1. /\ Head(toSip[c]) = toSip[c][1] /\ DOMAIN Tail(toSip[c]) = 1..Len(toSip[c]) - 1
          /\ \A k \in 1..Len(toSip[c]) - 1 : Tail(toSip[c])[k] = toSip[c][k + 1]
      BY <1>2, <1>5, TailFacts, LenProperties
    <2>2. j # 1
      BY <1>1, <1>5, <2>1
    <2>3. j - 1 \in DOMAIN toSip'[c] /\ toSip'[c][j - 1] = StopPlayMsg(p)
      <3>1. j - 1 \in 1..Len(toSip[c]) - 1 /\ (j - 1) + 1 = j
        BY <1>1, <1>2, <2>2
      <3>2. Tail(toSip[c])[j - 1] = toSip[c][j]
        BY <2>1, <3>1
      <3>3. QED
        BY <1>1, <1>5, <2>1, <3>1, <3>2
    <2>4. \A k \in DOMAIN toSip'[c] :
             toSip'[c][k].type = "live_init" /\ WaitsFor(worker'[c][w], toSip'[c][k].id) => j - 1 < k
      <3> TAKE k \in DOMAIN toSip'[c]
      <3>1. k \in Nat /\ k + 1 \in DOMAIN toSip[c] /\ toSip'[c][k] = toSip[c][k + 1] /\ j \in Nat
        BY <1>1, <1>2, <1>5, <2>1
      <3>2. toSip[c][k + 1].type = "live_init" /\ WaitsFor(worker[c][w], toSip[c][k + 1].id) => j < k + 1
        BY <1>1, <3>1
      <3>3. QED
        BY <3>1, <3>2 DEF StillWaits
    <2>5. QED
      BY <2>3, <2>4 DEF GivesBack
  <1>6. QED
    BY <1>3, <1>4, <1>5 DEF SipStays

LEMMA InPlaceStays ==
    ASSUME NEW c \in Procs, NEW w \in Workers, NEW p \in Ports, toSip[c] \in Seq(Msg),
           InPlace(c, w, p), SipStays(c, p), LiveStays(c, w), StillWaits(c, w),
           Owns(worker[c][w], p) => Owns(worker'[c][w], p)
    PROVE  InPlace(c, w, p)'
  <1>1. CASE Owns(worker[c][w], p)
    BY <1>1 DEF InPlace
  <1>2. CASE Gets(c, w, p)
    <2>1. PICK m : /\ m.type = "live_init_answer" /\ m.port = p /\ WaitsFor(worker[c][w], m.id)
                   /\ \E j \in DOMAIN toLive[c] : toLive[c][j] = m
      BY <1>2 DEF Gets
    <2>2. PICK k \in DOMAIN toLive'[c] : toLive'[c][k] = m
      BY <2>1 DEF LiveStays
    <2>3. Gets(c, w, p)'
      BY <2>1, <2>2 DEF Gets, StillWaits
    <2>4. QED
      BY <2>3 DEF InPlace
  <1>3. CASE GivesBack(c, w, p)
    BY <1>3, GivesBackStays DEF InPlace
  <1>4. QED
    BY <1>1, <1>2, <1>3 DEF InPlace

(* A step that lends no port, and leaves the places of the lent ones.      *)
PlacesStay ==
    /\ LentPorts' \subseteq LentPorts
    /\ \A c \in Procs, w \in Workers, p \in Ports : p \in LentPorts' /\ InPlace(c, w, p) => InPlace(c, w, p)'

LEMMA PlacesAreKept ==
    ASSUME NEW place, Places(place), PlacesStay
    PROVE  \E f : Places(f)'
  <1> PICK f : f = [p \in LentPorts' |-> place[p]]
    OBVIOUS
  <1>1. \A p \in LentPorts' : p \in LentPorts /\ f[p] = place[p] /\ f[p] \in Procs \X Workers
    BY DEF Places, PlacesStay
  <1>2. f \in [LentPorts' -> Procs \X Workers]
    BY <1>1
  <1>3. \A p, q \in LentPorts' : f[p] = f[q] => p = q
    BY <1>1 DEF Places
  <1>4. \A p \in Ports : p \in LentPorts' => InPlace(f[p][1], f[p][2], p)'
    <2> SUFFICES ASSUME NEW p \in Ports, p \in LentPorts' PROVE InPlace(f[p][1], f[p][2], p)'
      OBVIOUS
    <2>1. PICK c \in Procs, w \in Workers : f[p][1] = c /\ f[p][2] = w
      BY <1>1
    <2>2. InPlace(c, w, p)
      BY <1>1, <2>1 DEF Places
    <2>3. InPlace(c, w, p)'
      BY <2>2 DEF PlacesStay
    <2>4. QED
      BY <2>1, <2>3
  <1>5. LentPorts' \subseteq Ports
    BY DEF LentPorts
  <1>6. Places(f)'
    BY <1>2, <1>3, <1>4, <1>5 DEF Places
  <1>7. QED
    BY <1>6

(* sip_server takes from toSip, and lends and takes back.                  *)
LEMMA RelayKeeps ==
    ASSUME toLive \in [Procs -> Seq(Msg)], NEW x, NEW m \in Msg, Relay(x, << m >>)
    PROVE  \A c \in Procs, w \in Workers : LiveStays(c, w)
  <1> SUFFICES ASSUME NEW c \in Procs, NEW w \in Workers, NEW j \in DOMAIN toLive[c]
               PROVE  \E k \in DOMAIN toLive'[c] : toLive'[c][k] = toLive[c][j]
    BY DEF LiveStays
  <1>1. toLive'[c] = toLive[c] \/ toLive'[c] = toLive[c] \o << m >>
    BY DEF Relay
  <1>2. toLive[c] \in Seq(Msg) /\ toLive[c] \o << m >> = Append(toLive[c], m)
    BY AppendIsConcat
  <1>3. \A k \in DOMAIN toLive[c] : k \in DOMAIN Append(toLive[c], m) /\ Append(toLive[c], m)[k] = toLive[c][k]
    BY <1>2, AppendProperties, LenProperties
  <1>4. QED
    BY <1>1, <1>2, <1>3

LEMMA ServerPlaces ==
    ASSUME ProtocolInv, SipServerStep \/ Device, UNCHANGED liveVars, \A c \in Procs : ~PlayInit(c),
           \A c \in Procs : ~PlayInitNoPort(c)
    PROVE  PlacesStay
  <1>1. /\ toSip \in [Procs -> Seq(Msg)] /\ toLive \in [Procs -> Seq(Msg)] /\ SipTypeOK
        /\ Ports \subseteq PortKeys /\ NoPort \notin Ports
    BY ProtocolTypes, ConstantFacts
  <1>2. /\ LentPorts' \subseteq LentPorts
        /\ \A c \in Procs, p \in Ports : p \in LentPorts' => SipStays(c, p)
    <2>1. CASE IndexCall \/ SipThread \/ Device
      <3>1. deviceCall' = deviceCall /\ toSip' = toSip
        BY <2>1 DEF IndexCall, SipThread, DropEvent, FindByCallID, OnInviteOK, OnInviteOKThrows, OnPlayCb,
           OnInviteFailed, Device, DeviceAnswers, DeviceHangsUp, ipcVars
      <3>2. QED
        BY <3>1 DEF LentPorts, SipStays
    <2>2. ASSUME NEW d \in Procs, NEW type, Receive(d, type),
                 \A p \in Ports : Head(toSip[d]) = StopPlayMsg(p) => deviceCall'[p] = NoCall
          PROVE  \A c \in Procs, p \in Ports : p \in LentPorts' => SipStays(c, p)
      <3> SUFFICES ASSUME NEW c \in Procs, NEW p \in Ports, p \in LentPorts' PROVE SipStays(c, p)
        OBVIOUS
      <3>1. toSip[d] # << >> /\ toSip'[c] = IF c = d THEN Tail(toSip[d]) ELSE toSip[c]
        BY <1>1, <2>2 DEF Receive
      <3>2. Head(toSip[d]) # StopPlayMsg(p)
        BY <2>2 DEF LentPorts
      <3>3. QED
        BY <3>1, <3>2 DEF SipStays
    <2>3. \A p : StopPlayMsg(p).type = "stop_play" /\ StopPlayMsg(p).port = p
      BY DEF StopPlayMsg
    <2>4. ASSUME NEW d \in Procs, RealPlayUnsent(d) \/ SendInvite(d)
          PROVE  /\ LentPorts' \subseteq LentPorts
                 /\ \A c \in Procs, p \in Ports : p \in LentPorts' => SipStays(c, p)
      <3>1. Receive(d, "live_play") /\ deviceCall' = deviceCall /\ Head(toSip[d]).type = "live_play"
        BY <2>4 DEF RealPlayUnsent, SendInvite, Receive, sipVars
      <3>2. QED
        BY <2>2, <2>3, <3>1 DEF LentPorts
    <2>5. ASSUME NEW d \in Procs, StopPlay(d) \/ StopPlayUnknown(d) \/ StopPlayThrows(d)
          PROVE  /\ LentPorts' \subseteq LentPorts
                 /\ \A c \in Procs, p \in Ports : p \in LentPorts' => SipStays(c, p)
      <3>1. Receive(d, "stop_play")
        BY <2>5 DEF StopPlay, StopPlayUnknown, StopPlayThrows
      <3>2. \A p \in PortKeys : deviceCall'[p] = deviceCall[p] \/ deviceCall'[p] = NoCall
        BY <1>1, <2>5 DEF StopPlay, StopPlayUnknown, StopPlayThrows, SipTypeOK
      <3>3. LentPorts' \subseteq LentPorts
        BY <1>1, <3>2 DEF LentPorts
      <3>4. ASSUME NEW p \in Ports, Head(toSip[d]) = StopPlayMsg(p)
            PROVE  deviceCall'[p] = NoCall
        <4>1. Head(toSip[d]).port = p /\ p # NoPort /\ p \in PortKeys
          BY <1>1, <2>3, <3>4
        <4>2. CASE StopPlay(d)
          <5>1. deviceCall' = [deviceCall EXCEPT ![p] = NoCall]
            BY <4>1, <4>2 DEF StopPlay
          <5>2. QED
            BY <1>1, <4>1, <5>1 DEF SipTypeOK
        <4>3. CASE StopPlayUnknown(d)
          BY <4>1, <4>3 DEF StopPlayUnknown
        <4>4. CASE StopPlayThrows(d)
          BY <4>1, <4>4 DEF StopPlayThrows
        <4>5. QED
          BY <2>5, <4>2, <4>3, <4>4
      <3>5. QED
        BY <2>2, <3>1, <3>3, <3>4
    <2>6. ASSUME NEW d \in Procs, StopPlayAll(d)
          PROVE  /\ LentPorts' \subseteq LentPorts
                 /\ \A c \in Procs, p \in Ports : p \in LentPorts' => SipStays(c, p)
      <3>1. Receive(d, "close") /\ Head(toSip[d]).type = "close"
        BY <2>6 DEF StopPlayAll, Receive
      <3>2. \A p \in PortKeys : deviceCall'[p] = deviceCall[p] \/ deviceCall'[p] = NoCall
        BY <2>6 DEF StopPlayAll
      <3>3. LentPorts' \subseteq LentPorts
        BY <1>1, <3>2 DEF LentPorts
      <3>4. QED
        BY <2>2, <2>3, <3>1, <3>3
    <2>7. QED
      BY <2>1, <2>4, <2>5, <2>6 DEF SipServerStep, IpcThread
  <1>3. \A c \in Procs, w \in Workers : LiveStays(c, w)
    <2>1. CASE toLive' = toLive
      BY <2>1 DEF LiveStays
    <2>2. CASE OnPlayCb /\ toLive' # toLive
      <3>1. sip.obj \in Calls
        BY <2>2, ProtocolTypes DEF OnPlayCb, SipFacts
      <3>2. PICK j \in Calls : Relay(call[j].proc, << PlayAnswer(call[j].id, call[j].port, 0) >>)
        BY <2>2, <3>1 DEF OnPlayCb, Touched
      <3>3. call[j] \in SipCall
        BY <1>1 DEF SipTypeOK
      <3>4. PlayAnswer(call[j].id, call[j].port, 0) \in Msg
        BY <3>3 DEF PlayAnswer, Msg, SipCall
      <3>5. QED
        BY <1>1, <3>2, <3>4, RelayKeeps
    <2>3. OnPlayCb \/ toLive' = toLive
      BY DEF SipServerStep, IpcThread, RealPlayUnsent, SendInvite, StopPlay, StopPlayUnknown, StopPlayThrows,
         StopPlayAll, IndexCall, SipThread, DropEvent, FindByCallID, OnInviteOK, OnInviteOKThrows,
         OnInviteFailed, Device, DeviceAnswers, DeviceHangsUp, ipcVars
    <2>4. QED
      BY <2>1, <2>2, <2>3
  <1>4. worker' = worker
    BY DEF liveVars
  <1>5. \A c \in Procs, w \in Workers, p \in Ports : p \in LentPorts' /\ InPlace(c, w, p) => InPlace(c, w, p)'
    <2> SUFFICES ASSUME NEW c \in Procs, NEW w \in Workers, NEW p \in Ports, p \in LentPorts', InPlace(c, w, p)
                 PROVE  InPlace(c, w, p)'
      OBVIOUS
    <2>1. SipStays(c, p) /\ LiveStays(c, w)
      BY <1>2, <1>3
    <2>2. StillWaits(c, w) /\ Owns(worker'[c][w], p) = Owns(worker[c][w], p)
      BY <1>4 DEF StillWaits
    <2>3. toSip[c] \in Seq(Msg)
      BY <1>1
    <2>4. QED
      BY <2>1, <2>2, <2>3, InPlaceStays
  <1>6. QED
    BY <1>2, <1>5 DEF PlacesStay

(* The viewer whose live_init is read has no place yet.                    *)
LEMMA AskerHasNoPlace ==
    ASSUME ProtocolInv, NEW d \in Procs, toSip[d] # << >>, Head(toSip[d]).type = "live_init"
    PROVE  \E v \in Workers : /\ WaitsFor(worker[d][v], Head(toSip[d]).id)
                              /\ \A p \in Ports : ~InPlace(d, v, p)
  <1>1. toSip[d] \in Seq(Msg)
    BY ProtocolTypes
  <1>2. Head(toSip[d]) = toSip[d][1] /\ Head(toSip[d]) \in Msg /\ DOMAIN toSip[d] = 1..Len(toSip[d])
        /\ 1 \in DOMAIN toSip[d] /\ Len(toSip[d]) \in Nat
    BY <1>1, TailFacts, LenProperties
  <1>3. PICK i \in ReqIds : i = Head(toSip[d]).id
    BY <1>2 DEF Msg
  <1>4. HasId(toSip[d], "live_init", i)
    BY <1>2, <1>3 DEF HasId
  <1>5. PICK v \in Workers : WaitsFor(worker[d][v], i) /\ ~HasId(toLive[d], "live_init_answer", i)
    BY <1>4, ProtocolTypes DEF Viewers, Requests, RequestAt
  <1>6. ASSUME NEW p \in Ports
        PROVE  ~InPlace(d, v, p)
    <2>1. ~Owns(worker[d][v], p)
      BY <1>5 DEF WaitsFor, Owns, Granted, Asked, Playing
    <2>2. ~Gets(d, v, p)
      BY <1>5 DEF Gets, WaitsFor, HasId
    <2>3. ~GivesBack(d, v, p)
      <3>1. \A j \in DOMAIN toSip[d] : j < 1 => FALSE
        BY <1>2
      <3>2. QED
        BY <1>2, <1>3, <1>5, <3>1 DEF GivesBack
    <2>4. QED
      BY <2>1, <2>2, <2>3 DEF InPlace
  <1>7. QED
    BY <1>3, <1>5, <1>6

(* PlayInit takes the place of the viewer that asked: it has none yet.     *)
LEMMA PlayInitPlaces ==
    ASSUME ProtocolInv, UNCHANGED liveVars, NEW d \in Procs, PlayInit(d), NEW place, Places(place)
    PROVE  \E f : Places(f)'
  <1>1. /\ toSip \in [Procs -> Seq(Msg)] /\ toLive \in [Procs -> Seq(Msg)] /\ SipTypeOK
        /\ Ports \subseteq PortKeys /\ NoCall \notin Calls
    BY ProtocolTypes, ConstantFacts
  <1>2. /\ toSip[d] # << >> /\ Head(toSip[d]).type = "live_init" /\ toSip' = [toSip EXCEPT ![d] = Tail(@)]
        /\ toSip[d] \in Seq(Msg) /\ Head(toSip[d]) \in Msg
    <2>1. toSip[d] # << >> /\ Head(toSip[d]).type = "live_init" /\ toSip' = [toSip EXCEPT ![d] = Tail(@)]
      BY DEF PlayInit, Receive
    <2>2. QED
      BY <1>1, <2>1, TailFacts
  <1>3. Head(ports) \in Ports /\ deviceCall[Head(ports)] = NoCall
    <2>1. ports # << >> /\ ports \in Seq(PortKeys)
      BY <1>1 DEF PlayInit, SipTypeOK
    <2>2. Head(ports) = ports[1] /\ 1 \in DOMAIN ports
      BY <2>1, TailFacts, LenProperties
    <2>3. QED
      BY <2>2, ProtocolTypes DEF SipFacts
  <1>4. PICK i \in ReqIds, q \in Ports : i = Head(toSip[d]).id /\ q = Head(ports)
    BY <1>2, <1>3 DEF Msg
  <1>5. PICK k \in Calls : deviceCall' = [deviceCall EXCEPT ![q] = k]
    BY <1>3, <1>4 DEF PlayInit
  <1>6. InitAnswer(i, q, 0) \in Msg /\ Relay(d, << InitAnswer(i, q, 0) >>)
    BY <1>1, <1>4 DEF PlayInit, InitAnswer, Msg
  <1>7. q \notin LentPorts /\ LentPorts' = LentPorts \cup {q}
    <2>1. \A p \in Ports : deviceCall'[p] = IF p = q THEN k ELSE deviceCall[p]
      BY <1>1, <1>5 DEF SipTypeOK
    <2>2. QED
      BY <1>1, <1>3, <1>4, <2>1 DEF LentPorts
  <1>8. PICK v \in Workers : WaitsFor(worker[d][v], i) /\ \A p \in Ports : ~InPlace(d, v, p)
    BY <1>2, <1>4, AskerHasNoPlace
  <1>9. worker' = worker
    BY DEF liveVars
  <1>10. ASSUME NEW c \in Procs, NEW w \in Workers, NEW p \in Ports, InPlace(c, w, p)
         PROVE  InPlace(c, w, p)'
    <2>1. LiveStays(c, w)
      BY <1>1, <1>6, RelayKeeps
    <2>2. SipStays(c, p)
      <3>1. Head(toSip[d]) # StopPlayMsg(p)
        BY <1>2 DEF StopPlayMsg
      <3>2. toSip'[c] = IF c = d THEN Tail(toSip[d]) ELSE toSip[c]
        BY <1>1, <1>2
      <3>3. QED
        BY <1>2, <3>1, <3>2 DEF SipStays
    <2>3. StillWaits(c, w) /\ Owns(worker'[c][w], p) = Owns(worker[c][w], p)
      BY <1>9 DEF StillWaits
    <2>4. toSip[c] \in Seq(Msg)
      BY <1>1
    <2>5. QED
      BY <1>10, <2>1, <2>2, <2>3, <2>4, InPlaceStays
  <1>11. InPlace(d, v, q)'
    <2> PICK a \in Msg : a = InitAnswer(i, q, 0)
      BY <1>6
    <2>1. a.type = "live_init_answer" /\ a.port = q /\ a.id = i
      BY DEF InitAnswer
    <2>2. toLive'[d] = Append(toLive[d], a)
      <3>1. d \in connected /\ toLive[d] \in Seq(Msg)
        BY <1>1, ProtocolTypes DEF SipFacts
      <3>2. toLive[d] \o << a >> = Append(toLive[d], a)
        BY <3>1, AppendIsConcat
      <3>3. QED
        BY <1>1, <1>6, <3>1, <3>2 DEF Relay
    <2>3. \E j \in DOMAIN toLive'[d] : toLive'[d][j] = a
      <3>1. toLive[d] \in Seq(Msg) /\ Len(toLive[d]) \in Nat
        BY <1>1, LenProperties
      <3>2. /\ Len(toLive[d]) + 1 \in DOMAIN Append(toLive[d], a)
            /\ Append(toLive[d], a)[Len(toLive[d]) + 1] = a
        BY <3>1, AppendProperties, LenProperties
      <3>3. QED
        BY <2>2, <3>2
    <2>4. Gets(d, v, q)'
      BY <1>8, <1>9, <2>1, <2>3 DEF Gets
    <2>5. QED
      BY <2>4 DEF InPlace
  <1> PICK f : f = [p \in LentPorts' |-> IF p = q THEN << d, v >> ELSE place[p]]
    OBVIOUS
  <1>12. f[q] = << d, v >> /\ \A p \in LentPorts : f[p] = place[p] /\ f[p] \in Procs \X Workers
    BY <1>7 DEF Places
  <1>13. f \in [LentPorts' -> Procs \X Workers]
    BY <1>7, <1>12
  <1>14. \A p \in LentPorts : f[p] # f[q]
    <2> SUFFICES ASSUME NEW p \in LentPorts, f[p] = << d, v >> PROVE FALSE
      BY <1>12
    <2>1. place[p][1] = d /\ place[p][2] = v
      BY <1>12
    <2>2. p \in Ports /\ InPlace(place[p][1], place[p][2], p)
      BY DEF Places, LentPorts
    <2>3. QED
      BY <1>8, <2>1, <2>2
  <1>15. \A x, y \in LentPorts' : f[x] = f[y] => x = y
    BY <1>7, <1>12, <1>14 DEF Places
  <1>16. \A p \in Ports : p \in LentPorts' => InPlace(f[p][1], f[p][2], p)'
    <2> SUFFICES ASSUME NEW p \in Ports, p \in LentPorts' PROVE InPlace(f[p][1], f[p][2], p)'
      OBVIOUS
    <2>1. CASE p = q
      <3>1. f[p][1] = d /\ f[p][2] = v
        BY <1>12, <2>1
      <3>2. QED
        BY <1>11, <2>1, <3>1
    <2>2. CASE p # q
      <3>1. p \in LentPorts
        BY <1>7, <2>2
      <3>2. PICK c \in Procs, w \in Workers : f[p][1] = c /\ f[p][2] = w
        BY <1>12, <3>1
      <3>3. InPlace(c, w, p)
        BY <1>12, <3>1, <3>2 DEF Places
      <3>4. InPlace(c, w, p)'
        BY <1>10, <3>3
      <3>5. QED
        BY <3>2, <3>4
    <2>3. QED
      BY <2>1, <2>2
  <1>17. LentPorts' \subseteq Ports
    BY DEF LentPorts
  <1>18. Places(f)'
    BY <1>13, <1>15, <1>16, <1>17 DEF Places
  <1>19. QED
    BY <1>18

-----------------------------------------------------------------------------
(* What the viewers do leaves every lent port in its place.                *)

(* One viewer's record changes from r to q, in a step that takes nothing   *)
(* from toSip.                                                             *)
SameWaits(r, q) == \A i : WaitsFor(q, i) <=> WaitsFor(r, i)
SameOwns(r, q) == \A p \in Ports : Owns(r, p) => Owns(q, p)

Appended == toSip' = toSip \/ \E c \in Procs : \E m \in Msg : toSip' = [toSip EXCEPT ![c] = Append(@, m)]

LEMMA AppendedStays ==
    ASSUME toSip \in [Procs -> Seq(Msg)], Appended
    PROVE  \A c \in Procs : \A p : SipStays(c, p)
  BY DEF Appended, SipStays

(* The viewers other than one, of which nothing is said.                   *)
LEMMA OthersKeepPlaces ==
    ASSUME ProtocolInv, NEW d \in Procs, NEW v \in Workers, NEW q, worker' = [worker EXCEPT ![d][v] = q], Appended,
           NEW c \in Procs, NEW w \in Workers, NEW p \in Ports, c # d \/ w # v, LiveStays(c, w), InPlace(c, w, p)
    PROVE  InPlace(c, w, p)'
  <1>1. worker'[c][w] = worker[c][w] /\ toSip[c] \in Seq(Msg)
    BY ProtocolTypes
  <1>2. SipStays(c, p)
    BY ProtocolTypes, AppendedStays
  <1>3. StillWaits(c, w) /\ Owns(worker'[c][w], p) = Owns(worker[c][w], p)
    BY <1>1 DEF StillWaits
  <1>4. QED
    BY <1>1, <1>2, <1>3, InPlaceStays

LEMMA ViewerKeepsPlaces ==
    ASSUME ProtocolInv, NEW d \in Procs, NEW v \in Workers, NEW q, worker' = [worker EXCEPT ![d][v] = q], Appended,
           SameWaits(worker[d][v], q), SameOwns(worker[d][v], q), deviceCall' = deviceCall,
           \A c \in Procs, w \in Workers : LiveStays(c, w)
    PROVE  PlacesStay
  <1>1. LentPorts' = LentPorts
    BY DEF LentPorts
  <1>2. ASSUME NEW c \in Procs, NEW w \in Workers, NEW p \in Ports, InPlace(c, w, p)
        PROVE  InPlace(c, w, p)'
    <2>1. CASE c # d \/ w # v
      BY <1>2, <2>1, OthersKeepPlaces
    <2>2. CASE c = d /\ w = v
      <3>1. worker'[c][w] = q /\ toSip[c] \in Seq(Msg)
        BY <2>2, ProtocolTypes
      <3>2. SipStays(c, p)
        BY ProtocolTypes, AppendedStays
      <3>3. StillWaits(c, w) /\ (Owns(worker[c][w], p) => Owns(worker'[c][w], p))
        BY <2>2, <3>1 DEF StillWaits, SameWaits, SameOwns
      <3>4. QED
        BY <1>2, <3>1, <3>2, <3>3, InPlaceStays
    <2>3. QED
      BY <2>1, <2>2
  <1>3. QED
    BY <1>1, <1>2 DEF PlacesStay

LEMMA QuietStepPlaces ==
    ASSUME ProtocolInv, NEW d \in Procs, NEW v \in Workers,
           \/ Connects(d, v) \/ LoadId(d, v) \/ StoreId(d, v)
           \/ FillRtpData(d, v) \/ RealPlay(d, v) \/ Played(d, v)
    PROVE  PlacesStay
  <1> PICK r \in Worker : r = worker[d][v]
    BY ProtocolTypes
  <1>1. Quiet(r)
    BY ProtocolTypes DEF Viewers, QuietViewers
  <1>2. ASSUME NEW q, worker' = [worker EXCEPT ![d][v] = q], SameWaits(r, q), SameOwns(r, q), Appended,
               deviceCall' = deviceCall, toLive' = toLive
        PROVE  PlacesStay
    <2>1. \A c \in Procs, w \in Workers : LiveStays(c, w)
      BY <1>2 DEF LiveStays
    <2>2. QED
      BY <1>2, <2>1, ViewerKeepsPlaces
  <1>3. CASE Connects(d, v)
    <2> PICK q : q = [NoWorker EXCEPT !.at = "started"]
      OBVIOUS
    <2>1. worker' = [worker EXCEPT ![d][v] = q] /\ r.at = "none" /\ UNCHANGED <<toSip, toLive, deviceCall>>
      BY <1>3 DEF Connects, baseVars
    <2>2. q.at = "started"
      BY DEF NoWorker
    <2>3. SameWaits(r, q) /\ SameOwns(r, q)
      BY <2>1, <2>2 DEF SameWaits, SameOwns, WaitsFor, Owns, Granted, Asked, Playing
    <2>4. QED
      BY <1>2, <2>1, <2>3 DEF Appended
  <1>8. CASE LoadId(d, v)
    <2> PICK q : q = [r EXCEPT !.at = "loaded", !.id = nextReq[d]]
      OBVIOUS
    <2>1. worker' = [worker EXCEPT ![d][v] = q] /\ r.at = "started" /\ UNCHANGED <<toSip, toLive, deviceCall>>
      BY <1>8 DEF LoadId, baseVars
    <2>2. q.at = "loaded"
      BY DEF Worker
    <2>3. SameWaits(r, q) /\ SameOwns(r, q)
      BY <2>1, <2>2 DEF SameWaits, SameOwns, WaitsFor, Owns, Granted, Asked, Playing
    <2>4. QED
      BY <1>2, <2>1, <2>3 DEF Appended
  <1>9. CASE StoreId(d, v)
    <2> PICK q : q = [r EXCEPT !.at = "numbered"]
      OBVIOUS
    <2>1. worker' = [worker EXCEPT ![d][v] = q] /\ r.at = "loaded" /\ UNCHANGED <<toSip, toLive, deviceCall>>
      BY <1>9 DEF StoreId, baseVars
    <2>2. q.at = "numbered"
      BY DEF Worker
    <2>3. SameWaits(r, q) /\ SameOwns(r, q)
      BY <2>1, <2>2 DEF SameWaits, SameOwns, WaitsFor, Owns, Granted, Asked, Playing
    <2>4. QED
      BY <1>2, <2>1, <2>3 DEF Appended
  <1>4. CASE FillRtpData(d, v)
    <2> PICK q : q = [r EXCEPT !.at = "filled", !.rtp = r.port]
      OBVIOUS
    <2>1. worker' = [worker EXCEPT ![d][v] = q] /\ r.at = "init" /\ r.finish /\ UNCHANGED <<toSip, toLive, deviceCall>>
      BY <1>4 DEF FillRtpData, RtpPort, baseVars
    <2>2. q.at = "filled" /\ q.rtp = r.port
      BY DEF Worker
    <2>3. SameWaits(r, q) /\ SameOwns(r, q)
      BY <2>1, <2>2 DEF SameWaits, SameOwns, WaitsFor, Owns, Granted, Asked, Playing
    <2>4. QED
      BY <1>2, <2>1, <2>3 DEF Appended
  <1>5. CASE RealPlay(d, v)
    <2> PICK q : q = [r EXCEPT !.at = "wait", !.ret = 0, !.finish = FALSE]
      OBVIOUS
    <2>1. /\ worker' = [worker EXCEPT ![d][v] = q] /\ r.at = "filled" /\ UNCHANGED <<toLive, deviceCall>>
          /\ toSip' = [toSip EXCEPT ![d] = Append(@, LivePlay(0, r.port))]
      BY <1>5 DEF RealPlay, SendToSip, sipVars
    <2>2. q.at = "wait" /\ ~q.finish /\ q.rtp = r.rtp
      BY DEF Worker
    <2>3. SameWaits(r, q) /\ SameOwns(r, q)
      BY <2>1, <2>2 DEF SameWaits, SameOwns, WaitsFor, Owns, Granted, Asked, Playing
    <2>4. LivePlay(0, r.port) \in Msg
      BY MessageTypes, ConstantFacts DEF Worker
    <2>5. QED
      BY <1>2, <2>1, <2>3, <2>4 DEF Appended
  <1>6. CASE Played(d, v)
    <2> PICK q : q = [r EXCEPT !.at = "playing", !.listed = FALSE]
      OBVIOUS
    <2>1. /\ worker' = [worker EXCEPT ![d][v] = q] /\ r.at = "wait" /\ r.finish
          /\ UNCHANGED <<toSip, toLive, deviceCall>>
      BY <1>6, PlayedRewrites DEF baseVars
    <2>2. q.at = "playing" /\ q.rtp = r.rtp
      BY DEF Worker
    <2>3. SameWaits(r, q) /\ SameOwns(r, q)
      BY <2>1, <2>2 DEF SameWaits, SameOwns, WaitsFor, Owns, Granted, Asked, Playing
    <2>4. QED
      BY <1>2, <2>1, <2>3 DEF Appended
  <1>7. QED
    BY <1>3, <1>4, <1>5, <1>6, <1>8, <1>9

(* The viewer's stop_play is behind whatever it asked for before.          *)
LEMMA LeavesPlaces ==
    ASSUME ProtocolInv, NEW d \in Procs, NEW v \in Workers, Leaves(d, v)
    PROVE  PlacesStay
  <1> PICK r \in Worker : r = worker[d][v]
    BY ProtocolTypes
  <1>1. Quiet(r)
    BY ProtocolTypes DEF Viewers, QuietViewers
  <1>2. /\ r.at = "playing" /\ r.rtp \in Ports /\ worker' = [worker EXCEPT ![d][v] = NoWorker]
        /\ toSip' = [toSip EXCEPT ![d] = Append(@, StopPlayMsg(r.rtp))] /\ UNCHANGED <<toLive, deviceCall>>
    BY <1>1 DEF Leaves, SendToSip, Quiet, sipVars
  <1>3. StopPlayMsg(r.rtp) \in Msg
    BY <1>2, MessageTypes, ConstantFacts
  <1>4. Appended
    BY <1>2, <1>3 DEF Appended
  <1>5. \A c \in Procs, w \in Workers : LiveStays(c, w)
    BY <1>2 DEF LiveStays
  <1>6. \A i : ~WaitsFor(r, i) /\ ~WaitsFor(NoWorker, i)
    BY <1>2 DEF WaitsFor, NoWorker
  <1>7. worker'[d][v] = NoWorker /\ toSip[d] \in Seq(Msg) /\ toSip'[d] = Append(toSip[d], StopPlayMsg(r.rtp))
    BY <1>2, ProtocolTypes
  <1>8. ASSUME NEW p \in Ports, InPlace(d, v, p)
        PROVE  InPlace(d, v, p)'
    <2>1. CASE Owns(r, p)
      <3>1. p = r.rtp
        BY <1>2, <2>1 DEF Owns, Granted, Asked, Playing
      <3>2. Len(toSip[d]) \in Nat
        BY <1>7, LenProperties
      <3>3. /\ Len(toSip[d]) + 1 \in DOMAIN Append(toSip[d], StopPlayMsg(p))
            /\ Append(toSip[d], StopPlayMsg(p))[Len(toSip[d]) + 1] = StopPlayMsg(p)
        BY <1>3, <1>7, <3>1, <3>2, AppendProperties, LenProperties
      <3>4. GivesBack(d, v, p)'
        BY <1>6, <1>7, <3>1, <3>3 DEF GivesBack
      <3>5. QED
        BY <3>4 DEF InPlace
    <2>2. ~Gets(d, v, p)
      BY <1>6 DEF Gets
    <2>3. CASE GivesBack(d, v, p)
      <3>1. SipStays(d, p)
        BY <1>4, ProtocolTypes, AppendedStays
      <3>2. StillWaits(d, v)
        BY <1>6, <1>7 DEF StillWaits
      <3>3. QED
        BY <1>7, <2>3, <3>1, <3>2, GivesBackStays DEF InPlace
    <2>4. QED
      BY <1>8, <2>1, <2>2, <2>3 DEF InPlace
  <1>9. ASSUME NEW c \in Procs, NEW w \in Workers, NEW p \in Ports, InPlace(c, w, p)
        PROVE  InPlace(c, w, p)'
    <2>1. CASE c # d \/ w # v
      BY <1>2, <1>4, <1>5, <1>9, <2>1, OthersKeepPlaces
    <2>2. CASE c = d /\ w = v
      BY <1>8, <1>9, <2>2
    <2>3. QED
      BY <2>1, <2>2
  <1>10. LentPorts' = LentPorts
    BY <1>2 DEF LentPorts
  <1>11. QED
    BY <1>9, <1>10 DEF PlacesStay

(* And what it asks for is behind its stop_play.                           *)
LEMMA CreateRealPlaces ==
    ASSUME ProtocolInv, NEW d \in Procs, NEW v \in Workers, CreateReal(d, v)
    PROVE  PlacesStay
  <1> PICK r \in Worker : r = worker[d][v]
    BY ProtocolTypes
  <1> PICK n \in ReqIds : n = r.id
    BY DEF Worker
  <1> PICK q : q = [r EXCEPT !.at = "init", !.listed = IdFree(d, r.id)]
    OBVIOUS
  <1>1. /\ r.at = "numbered" /\ worker' = [worker EXCEPT ![d][v] = q]
        /\ toSip' = [toSip EXCEPT ![d] = Append(@, LiveInit(n))] /\ UNCHANGED <<toLive, deviceCall>>
    BY DEF CreateReal, SendToSip, sipVars
  <1>2. LiveInit(n) \in Msg
    BY MessageTypes
  <1>3. Appended
    BY <1>1, <1>2 DEF Appended
  <1>4. \A c \in Procs, w \in Workers : LiveStays(c, w)
    BY <1>1 DEF LiveStays
  <1>5. ~HasId(toSip[d], "live_init", n)
    <2> SUFFICES ASSUME HasId(toSip[d], "live_init", n) PROVE FALSE
      OBVIOUS
    <2>1. PICK w \in Workers : WaitsFor(worker[d][w], n)
      BY ProtocolTypes DEF Viewers, Requests, RequestAt
    <2>2. w # v /\ Numbered(worker[d][w]) /\ Numbered(worker[d][v]) /\ worker[d][w].id = worker[d][v].id
      BY <1>1, <2>1 DEF WaitsFor, Numbered
    <2>3. QED
      BY <2>2, OwnId
  <1>6. worker'[d][v] = q /\ toSip[d] \in Seq(Msg) /\ toSip'[d] = Append(toSip[d], LiveInit(n)) /\ q.id = n
    <2>1. worker'[d][v] = q /\ q.id = n
      BY <1>1, ProtocolTypes DEF Worker
    <2>2. toSip[d] \in Seq(Msg) /\ toSip'[d] = Append(toSip[d], LiveInit(n))
      BY <1>1, ProtocolTypes
    <2>3. QED
      BY <2>1, <2>2
  <1>7. ASSUME NEW p \in Ports, InPlace(d, v, p)
        PROVE  InPlace(d, v, p)'
    <2>1. ~Owns(r, p) /\ ~Gets(d, v, p)
      BY <1>1 DEF Owns, Granted, Asked, Playing, Gets, WaitsFor
    <2>2. PICK j \in DOMAIN toSip[d] : toSip[d][j] = StopPlayMsg(p)
      BY <1>7, <2>1 DEF InPlace, GivesBack
    <2>3. Len(toSip[d]) \in Nat /\ DOMAIN toSip[d] = 1..Len(toSip[d])
      BY <1>6, LenProperties
    <2>4. /\ DOMAIN Append(toSip[d], LiveInit(n)) = 1..Len(toSip[d]) + 1
          /\ \A k \in 1..Len(toSip[d]) : Append(toSip[d], LiveInit(n))[k] = toSip[d][k]
      BY <1>2, <1>6, <2>3, AppendProperties, LenProperties
    <2>5. j \in DOMAIN toSip'[d] /\ toSip'[d][j] = StopPlayMsg(p)
      BY <1>6, <2>2, <2>3, <2>4
    <2>6. \A k \in DOMAIN toSip'[d] : toSip'[d][k].type = "live_init" /\ WaitsFor(q, toSip'[d][k].id) => j < k
      <3> SUFFICES ASSUME NEW k \in DOMAIN toSip'[d], toSip'[d][k].type = "live_init", toSip'[d][k].id = n
                   PROVE  j < k
        BY <1>6 DEF WaitsFor
      <3>1. k \notin DOMAIN toSip[d]
        BY <1>5, <1>6, <2>3, <2>4 DEF HasId
      <3>2. QED
        BY <1>6, <2>3, <2>4, <3>1
    <2>7. GivesBack(d, v, p)'
      BY <1>6, <2>5, <2>6 DEF GivesBack
    <2>8. QED
      BY <2>7 DEF InPlace
  <1>8. ASSUME NEW c \in Procs, NEW w \in Workers, NEW p \in Ports, InPlace(c, w, p)
        PROVE  InPlace(c, w, p)'
    <2>1. CASE c # d \/ w # v
      BY <1>1, <1>3, <1>4, <1>8, <2>1, OthersKeepPlaces
    <2>2. CASE c = d /\ w = v
      BY <1>7, <1>8, <2>2
    <2>3. QED
      BY <2>1, <2>2
  <1>9. LentPorts' = LentPorts
    BY <1>1 DEF LentPorts
  <1>10. QED
    BY <1>8, <1>9 DEF PlacesStay

(* on_ipc_recv takes an answer nobody, or only its own viewer, waits for.  *)
LEMMA TailLive ==
    ASSUME ProtocolInv, NEW d \in Procs, toLive[d] # << >>, toLive' = [toLive EXCEPT ![d] = Tail(@)],
           NEW c \in Procs, NEW w \in Workers,
           c = d => ~(Head(toLive[d]).type = "live_init_answer" /\ WaitsFor(worker[d][w], Head(toLive[d]).id))
    PROVE  LiveStays(c, w)
  <1>1. CASE c # d
    <2>1. toLive'[c] = toLive[c]
      BY <1>1, ProtocolTypes
    <2>2. QED
      BY <2>1 DEF LiveStays
  <1>2. CASE c = d
    <2>1. /\ toLive[d] \in Seq(Msg) /\ Head(toLive[d]) = toLive[d][1] /\ Len(toLive[d]) \in Nat
          /\ toLive'[d] = Tail(toLive[d])
      BY HeadOfLive, ProtocolTypes, LenProperties
    <2>2. /\ DOMAIN toLive[d] = 1..Len(toLive[d]) /\ DOMAIN Tail(toLive[d]) = 1..Len(toLive[d]) - 1
          /\ \A k \in 1..Len(toLive[d]) - 1 : Tail(toLive[d])[k] = toLive[d][k + 1]
      BY <2>1, TailFacts, LenProperties
    <2>3. ASSUME NEW j \in DOMAIN toLive[d], toLive[d][j].type = "live_init_answer",
                 WaitsFor(worker[d][w], toLive[d][j].id)
          PROVE  \E k \in DOMAIN toLive'[d] : toLive'[d][k] = toLive[d][j]
      <3>1. j # 1
        BY <1>2, <2>1, <2>3
      <3>2. j - 1 \in 1..Len(toLive[d]) - 1 /\ (j - 1) + 1 = j
        BY <2>1, <2>2, <3>1
      <3>3. Tail(toLive[d])[j - 1] = toLive[d][j]
        BY <2>2, <3>2
      <3>4. QED
        BY <2>1, <2>2, <3>2, <3>3
    <2>4. QED
      BY <1>2, <2>3 DEF LiveStays
  <1>3. QED
    BY <1>1, <1>2

LEMMA PlayAnswerPlaces ==
    ASSUME ProtocolInv, NEW c \in Procs, OnIpcRecv(c), Head(toLive[c]).type = "live_play_answer"
    PROVE  PlacesStay
  <1> PICK m : m = Head(toLive[c])
    OBVIOUS
  <1>1. /\ toLive[c] # << >> /\ toLive' = [toLive EXCEPT ![c] = Tail(@)]
        /\ toSip' = toSip /\ deviceCall' = deviceCall
    BY DEF OnIpcRecv, sipVars
  <1>2. /\ 1 \in DOMAIN toLive[c] /\ toLive[c][1] = m /\ m.type = "live_play_answer"
        /\ Answer(m) /\ m.port \in Ports
    BY <1>1, HeadOfLive DEF Answer
  <1>3. Hold[c][m.port] = "asked"
    BY <1>2, ProtocolTypes DEF HoldFacts
  <1>4. PICK p \in Ports : p = m.port
    BY <1>2
  <1>5. PICK w \in Workers : Asked(worker[c][w], p)
    BY <1>3, <1>4, HoldAt, HoldOfOwner
  <1> PICK r \in Worker : r = worker[c][w]
    BY ProtocolTypes
  <1> PICK q : q = [r EXCEPT !.port = m.port, !.ret = m.ret, !.finish = TRUE]
    OBVIOUS
  <1>6. r.at = "wait" /\ ~r.finish /\ r.rtp = p /\ r.listed /\ r.id = m.id
    <2>1. r.id = IdOf(p)
      BY <1>5, ProtocolTypes DEF Viewers, OwnIds
    <2>2. r.id = m.id
      BY <1>2, <1>4, <2>1 DEF Answer
    <2>3. r.at = "wait" /\ ~r.finish /\ r.rtp = p
      BY <1>5 DEF Asked
    <2>4. QED
      BY <2>2, <2>3, ProtocolTypes DEF Using
  <1>7. worker' = [worker EXCEPT ![c][w] = q]
    <2>1. worker' = [worker EXCEPT ![c][w] = Got(worker[c][w], m)]
      BY <1>6, OneIsAnswered
    <2>2. Got(r, m) = q
      BY <1>2 DEF Got
    <2>3. QED
      BY <2>1, <2>2
  <1>8. q.at = "wait" /\ q.finish /\ q.rtp = p
    BY <1>6 DEF Worker
  <1>9. SameWaits(r, q) /\ SameOwns(r, q)
    BY <1>6, <1>8 DEF SameWaits, SameOwns, WaitsFor, Owns, Granted, Asked, Playing
  <1>10. \A d \in Procs, v \in Workers : LiveStays(d, v)
    BY <1>1, <1>2, TailLive
  <1>11. QED
    BY <1>1, <1>7, <1>9, <1>10, ViewerKeepsPlaces DEF Appended

LEMMA InitAnswerPlaces ==
    ASSUME ProtocolInv, NEW c \in Procs, OnIpcRecv(c), Head(toLive[c]).type = "live_init_answer"
    PROVE  PlacesStay
  <1> PICK m : m = Head(toLive[c])
    OBVIOUS
  <1>1. /\ toLive[c] # << >> /\ toLive' = [toLive EXCEPT ![c] = Tail(@)]
        /\ toSip' = toSip /\ deviceCall' = deviceCall
    BY DEF OnIpcRecv, sipVars
  <1>2. /\ 1 \in DOMAIN toLive[c] /\ toLive[c][1] = m /\ m.type = "live_init_answer" /\ m.id \in ReqIds
        /\ m.port \in Ports
    BY <1>1, HeadOfLive DEF Answer, Msg
  <1>3. PICK p \in Ports, i \in ReqIds : p = m.port /\ i = m.id
    BY <1>2
  <1>4. RequestAt(c, i)
    BY ProtocolTypes DEF Viewers, Requests
  <1>5. PICK w \in Workers : WaitsFor(worker[c][w], i)
    <2>1. HasId(toLive[c], "live_init_answer", i)
      BY <1>2, <1>3 DEF HasId
    <2>2. QED
      BY <1>4, <2>1 DEF RequestAt
  <1> PICK r \in Worker : r = worker[c][w]
    BY ProtocolTypes
  <1> PICK q : q = [r EXCEPT !.port = m.port, !.finish = TRUE]
    OBVIOUS
  <1>6. r.at = "init" /\ ~r.finish /\ r.listed /\ r.id = i
    BY <1>5, ProtocolTypes DEF WaitsFor, Using
  <1>7. worker' = [worker EXCEPT ![c][w] = q]
    <2>1. worker' = [worker EXCEPT ![c][w] = Got(worker[c][w], m)]
      BY <1>3, <1>6, OneIsAnswered
    <2>2. Got(r, m) = q
      BY <1>2 DEF Got
    <2>3. QED
      BY <2>1, <2>2
  <1>8. q.at = "init" /\ q.finish /\ q.port = p
    BY <1>3, <1>6 DEF Worker
  <1>9. worker'[c][w] = q
    BY <1>7, ProtocolTypes
  <1>10. \A v \in Workers : WaitsFor(worker[c][v], i) => v = w
    BY <1>6, ProtocolTypes DEF WaitsFor, Using, IdsDiffer
  <1>11. Appended
    BY <1>1 DEF Appended
  <1>12. ASSUME NEW d \in Procs, NEW v \in Workers, NEW x \in Ports, InPlace(d, v, x)
         PROVE  InPlace(d, v, x)'
    <2>1. CASE d # c \/ v # w
      <3>1. LiveStays(d, v)
        BY <1>1, <1>3, <1>10, <2>1, TailLive
      <3>2. QED
        BY <1>7, <1>11, <1>12, <2>1, <3>1, OthersKeepPlaces
    <2>2. CASE d = c /\ v = w
      <3>1. ~Owns(r, x)
        BY <1>6 DEF Owns, Granted, Asked, Playing
      <3>2. CASE Gets(c, w, x)
        <4>1. PICK j \in DOMAIN toLive[c] : /\ toLive[c][j].type = "live_init_answer" /\ toLive[c][j].port = x
                                            /\ toLive[c][j].id = i
          BY <1>6, <3>2 DEF Gets, WaitsFor
        <4>2. j = 1
          BY <1>2, <1>3, <1>4, <4>1 DEF RequestAt, OneId
        <4>3. x = p
          BY <1>2, <1>3, <4>1, <4>2
        <4>4. Owns(worker'[c][w], x)
          BY <1>8, <1>9, <4>3 DEF Owns, Granted
        <4>5. QED
          BY <2>2, <4>4 DEF InPlace
      <3>3. CASE GivesBack(c, w, x)
        <4>1. \A n : ~WaitsFor(q, n)
          BY <1>8 DEF WaitsFor
        <4>2. GivesBack(c, w, x)'
          BY <1>1, <1>9, <3>3, <4>1 DEF GivesBack
        <4>3. QED
          BY <2>2, <4>2 DEF InPlace
      <3>4. QED
        BY <1>12, <2>2, <3>1, <3>2, <3>3 DEF InPlace
    <2>3. QED
      BY <2>1, <2>2
  <1>13. LentPorts' = LentPorts
    BY <1>1 DEF LentPorts
  <1>14. QED
    BY <1>12, <1>13 DEF PlacesStay

(* Every lent port has a place at first, and keeps or gets one.            *)
Placed == \E place : Places(place)

LEMMA InitPlaced == Init => Placed
  <1> SUFFICES ASSUME Init PROVE Placed
    OBVIOUS
  <1>1. LentPorts = {}
    BY ConstantFacts DEF Init, SipInit, LentPorts
  <1> PICK f : f = [p \in {} |-> p]
    OBVIOUS
  <1>2. f \in [LentPorts -> Procs \X Workers]
    BY <1>1
  <1>3. QED
    BY <1>1, <1>2 DEF Placed, Places

LEMMA NextPlaced ==
    ASSUME Patient, Timely, Apart, MaxCrashes = 0, ProtocolInv, Placed, [Next]_vars, [PortsSuffice]_vars
    PROVE  Placed'
  <1> PICK place : Places(place)
    BY DEF Placed
  <1>1. PlacesStay => Placed'
    BY PlacesAreKept DEF Placed
  <1>2. CASE UNCHANGED vars
    <2>1. UNCHANGED <<worker, toSip, toLive, deviceCall>>
      BY <1>2 DEF vars, baseVars, liveVars, sipVars
    <2>2. PlacesStay
      BY <2>1 DEF PlacesStay, LentPorts, InPlace, Gets, GivesBack
    <2>3. QED
      BY <1>1, <2>2
  <1>3. ASSUME SipServerStep \/ Device, UNCHANGED liveVars, PortsSuffice
        PROVE  Placed'
    <2>1. ASSUME NEW c \in Procs, PlayInit(c)
          PROVE  Placed'
      BY <1>3, <2>1, PlayInitPlaces DEF Placed
    <2>2. CASE \A c \in Procs : ~PlayInit(c)
      BY <1>1, <1>3, <2>2, ServerPlaces DEF PortsSuffice
    <2>3. QED
      BY <2>1, <2>2
  <1>4. ASSUME NEW c \in Procs, OnIpcRecv(c)
        PROVE  Placed'
    <2>1. Head(toLive[c]).type \in {"live_init_answer", "live_play_answer"}
      BY <1>4, HeadOfLive DEF OnIpcRecv, Answer
    <2>2. QED
      BY <1>1, <1>4, <2>1, PlayAnswerPlaces, InitAnswerPlaces
  <1>5. \A c \in Procs : ~Dies(c) /\ ~Restarts(c)
    BY ProtocolTypes DEF SipFacts, Dies, Restarts
  <1>6. ASSUME NEW c \in Procs, NEW w \in Workers, PlayThread(c, w) \/ Viewer(c, w)
        PROVE  Placed'
    <2>1. \/ CreateReal(c, w) \/ Leaves(c, w)
          \/ Connects(c, w) \/ LoadId(c, w) \/ StoreId(c, w)
          \/ FillRtpData(c, w) \/ RealPlay(c, w) \/ Played(c, w)
      BY <1>6 DEF PlayThread, TimesOut, Viewer, LeavesAtOnce, LeavesInInit, LeavesInPlay
    <2>2. QED
      BY <1>1, <2>1, CreateRealPlaces, LeavesPlaces, QuietStepPlaces
  <1>7. QED
    BY <1>2, <1>3, <1>4, <1>5, <1>6 DEF Next

(* With a port for every viewer a request meets a port: the viewer that    *)
(* asks has no place yet, and the places of the others are too few for all *)
(* ports to be lent.                                                       *)
EnoughPorts ==
    /\ IsFiniteSet(Procs) /\ IsFiniteSet(Workers)
    /\ Cardinality(Ports) >= Cardinality(Procs) * Cardinality(Workers)

LEMMA PoolHasPort ==
    ASSUME EnoughPorts, ProtocolInv, Placed
    PROVE  PortsSuffice
  <1> SUFFICES ASSUME NEW d \in Procs, PlayInitNoPort(d) PROVE FALSE
    BY DEF PortsSuffice
  <1> PICK place : Places(place)
    BY DEF Placed
  <1>1. toSip[d] # << >> /\ Head(toSip[d]).type = "live_init" /\ ports = << >> /\ toSip[d] \in Seq(Msg)
    BY ProtocolTypes DEF PlayInitNoPort, Receive
  <1>2. LentPorts = Ports
    <2>1. \A p \in Ports : P!InPool(p) <=> deviceCall[p] = P!NoCall
      BY DEF ProtocolInv, P!DialogInv, P!Dialogs, P!IndexInv, P!IInv, P!PortsConserved
    <2>2. \A p \in Ports : ~P!InPool(p)
      BY <1>1 DEF P!InPool
    <2>3. QED
      BY <2>1, <2>2 DEF LentPorts, NoCall, P!NoCall
  <1>3. PICK v \in Workers : \A p \in Ports : ~InPlace(d, v, p)
    BY <1>1, AskerHasNoPlace
  <1>4. /\ IsFiniteSet((Procs \X Workers) \ {<< d, v >>})
        /\ Cardinality((Procs \X Workers) \ {<< d, v >>}) < Cardinality(Ports)
    <2>1. IsFiniteSet(Procs \X Workers) /\ Cardinality(Procs \X Workers) = Cardinality(Procs) * Cardinality(Workers)
      BY FS_Product DEF EnoughPorts
    <2>2. /\ IsFiniteSet((Procs \X Workers) \ {<< d, v >>})
          /\ Cardinality((Procs \X Workers) \ {<< d, v >>}) = Cardinality(Procs \X Workers) - 1
      BY <2>1, FS_RemoveElement
    <2>3. Cardinality(Procs \X Workers) \in Nat /\ Cardinality(Ports) \in Nat
      BY <2>1, ConstantFacts, FS_CardinalityType
    <2>4. Cardinality(Ports) >= Cardinality(Procs \X Workers)
      BY <2>1 DEF EnoughPorts
    <2>5. QED
      BY <2>2, <2>3, <2>4
  <1>5. place \in [Ports -> (Procs \X Workers) \ {<< d, v >>}]
    <2>1. place \in [Ports -> Procs \X Workers]
      BY <1>2 DEF Places
    <2>2. ASSUME NEW p \in Ports, place[p] = << d, v >>
          PROVE  FALSE
      <3>1. place[p][1] = d /\ place[p][2] = v
        BY <2>2
      <3>2. InPlace(place[p][1], place[p][2], p)
        BY <1>2 DEF Places
      <3>3. QED
        BY <1>3, <3>1, <3>2
    <2>3. QED
      BY <2>1, <2>2
  <1>6. PICK p, q \in Ports : p # q /\ place[p] = place[q]
    <2> PICK T : T = (Procs \X Workers) \ {<< d, v >>}
      OBVIOUS
    <2>1. IsFiniteSet(Ports) /\ IsFiniteSet(T) /\ Cardinality(T) < Cardinality(Ports) /\ place \in [Ports -> T]
      BY <1>4, <1>5, ConstantFacts
    <2>2. \E x, y \in Ports : x # y /\ place[x] = place[y]
      BY <2>1, FS_PigeonHole
    <2>3. QED
      BY <2>2
  <1>7. QED
    BY <1>2, <1>6 DEF Places

(* sip_server never runs out of ports as long as it has one for every      *)
(* viewer live_server can serve: GetRtpPort never finds the list empty     *)
(* (SipServer.cpp PlayInit), for a viewer asks again only behind its own   *)
(* stop_play.                                                              *)
THEOREM PoolIsNeverEmpty ==
    ASSUME Patient, Timely, Apart, MaxCrashes = 0, EnoughPorts
    PROVE  Spec => [][PortsSuffice]_vars
  <1>1. ProtocolInv /\ Placed /\ [Next]_vars => (ProtocolInv /\ Placed)' /\ [PortsSuffice]_vars
    <2> SUFFICES ASSUME ProtocolInv, Placed, [Next]_vars
                 PROVE  ProtocolInv' /\ Placed' /\ [PortsSuffice]_vars
      OBVIOUS
    <2>1. [PortsSuffice]_vars
      BY PoolHasPort
    <2>2. QED
      BY <2>1, NextProtocol, NextPlaced
  <1>2. Init => ProtocolInv /\ Placed
    BY InitProtocol, InitPlaced
  <1>3. QED
    BY <1>1, <1>2, PTL DEF Spec

(* So with a port for every viewer nothing need be said of the pool: the   *)
(* protocol is kept, a camera that streams has its listener and none is    *)
(* left streaming for nobody.                                              *)
THEOREM WithAPortPerViewer ==
    ASSUME Patient, Timely, Apart, MaxCrashes = 0, EnoughPorts
    PROVE  Spec => KeepsTheProtocol /\ []ListensWhereCameraSends /\ []NoOrphanDialog
  BY PoolIsNeverEmpty, ProtocolIsKept, CameraHasItsListener, NoCameraIsLeft, PTL
=============================================================================
