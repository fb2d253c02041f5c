--------------------------- MODULE LiveWorkerProofs ---------------------------
(***************************************************************************)
(* Proofs about LiveWorker, for every size of the ring and any number of   *)
(* frames: types, the lives of the session and of the worker, and that a   *)
(* viewer is sent every buffer once, in order, and is never forgotten.     *)
(***************************************************************************)
EXTENDS LiveWorker, TLAPS

(* TypeOK, in parts.                                                       *)
SessTypes ==
    /\ client \in {"absent", "here", "gone"} /\ session \in Session
    /\ socket \in {"none", "open", "shutting", "closing", "closed"}
    /\ asyncs \in [Asyncs -> {"none", "open", "closing", "closed"}]
    /\ loopAt \in {"idle", "unlist", "disconnect", "forget", "asyncs"}
    /\ worker \in Worker
BufTypes ==
    /\ signalled \in BOOLEAN /\ dead \in BOOLEAN /\ write \in Write
    /\ ring \in Seq(Frames) /\ Len(ring) <= RingSize /\ made \in 0..MaxFrames
    /\ worker.at = "push" => made \in Frames
    /\ accepted \in Seq(Frames) /\ delivered \in Seq(Frames)

(* The socket's life decides over the loop's and the asyncs', which are    *)
(* closed last; handlecount counts those that are not.                     *)
NotClosed(h) == IF asyncs[h] \in {"open", "closing"} THEN 1 ELSE 0
AsyncsAre(S) == \A h \in Asyncs : asyncs[h] \in S
SessInv ==
    /\ client = "here" => socket = "open"
    /\ (client = "absent") <=> (socket = "none")
    /\ socket = "none" => AsyncsAre({"none"}) /\ loopAt = "idle" /\ session.st = "none"
                          /\ ~session.parseHeader /\ ~session.pWorker
    /\ socket \in {"open", "shutting", "closing"} => AsyncsAre({"open"}) /\ loopAt = "idle"
    /\ socket = "closed" => IF loopAt = "idle" THEN AsyncsAre({"closing", "closed"}) ELSE AsyncsAre({"open"})
    /\ session.handlecount = NotClosed("asWrite") + NotClosed("asClose")
    /\ session.st = "deleted" => session.handlecount = 0 /\ socket = "closed"

(* The worker lets go of the viewer only in OnClose, and is gone only      *)
(* after that.                                                             *)
WorkInv ==
    /\ session.pWorker <=> worker.at # "none"
    /\ session.pWorker => session.parseHeader
    /\ loopAt \in {"unlist", "disconnect", "forget"} => session.pWorker
    /\ session.pWorker /\ socket # "closed" => worker.m_bConnect /\ worker.m_pSession
    /\ loopAt \in {"unlist", "disconnect"} => worker.m_bConnect
    /\ loopAt = "disconnect" => ~worker.listed
    /\ session.pWorker /\ ~worker.m_bConnect => ~worker.listed
    /\ worker.at = "gone" => ~worker.m_bConnect

(* A write is under way just when the session says so, and not once the    *)
(* socket is closed.                                                       *)
WriteInv ==
    /\ write.kind # "frames" => write.frames = << >>
    /\ write.kind # "none" => session.writing /\ session.parseHeader /\ socket \in {"open", "shutting", "closing"}
    /\ session.writing /\ socket \in {"none", "open"} => write.kind # "none"
    /\ ~session.pWorker => ring = << >> /\ accepted = << >> /\ delivered = << >>
                           /\ write.kind \in {"none", "refusal"}

LifeInv == SessTypes /\ BufTypes /\ SessInv /\ WorkInv /\ WriteInv

-----------------------------------------------------------------------------
LEMMA InitLife == Init => LifeInv
<1> SUFFICES ASSUME Init PROVE LifeInv
    OBVIOUS
<1>1. SessTypes
  <2>1. session \in Session
        BY DEF Init, Session
  <2>2. worker \in Worker
        BY DEF Init, Worker
  <2> QED BY <2>1, <2>2 DEF Init, SessTypes
<1>2. BufTypes
  <2>1. write \in Write
        BY DEF Init, NoWrite, Write
  <2>2. /\ ring = << >> /\ accepted = << >> /\ delivered = << >> /\ made = 0 /\ worker.at = "none"
        BY DEF Init
  <2>3. signalled \in BOOLEAN /\ dead \in BOOLEAN
        BY DEF Init
  <2> QED BY <2>1, <2>2, <2>3, LiveWorkerAssumption DEF BufTypes
<1>3. SessInv
      BY DEF Init, SessInv, AsyncsAre, NotClosed, Asyncs
<1>4. WorkInv /\ WriteInv
      BY DEF Init, WorkInv, WriteInv, NoWrite
<1> QED BY <1>1, <1>2, <1>3, <1>4 DEF LifeInv

(* CloseSteps, step by step.                                               *)
LEMMA CloseStepNext ==
    /\ CloseStep("unlist") => loopAt = "unlist" /\ loopAt' = "disconnect"
    /\ CloseStep("disconnect") => loopAt = "disconnect" /\ loopAt' = "forget"
    /\ CloseStep("forget") => loopAt = "forget" /\ loopAt' = "asyncs"
    /\ CloseSteps[1] = "unlist"
<1>1. /\ DOMAIN CloseSteps = 1..4
      /\ CloseSteps[1] = "unlist" /\ CloseSteps[2] = "disconnect"
      /\ CloseSteps[3] = "forget" /\ CloseSteps[4] = "asyncs"
      BY DEF CloseSteps
<1>2. ASSUME NEW step, CloseStep(step)
      PROVE  loopAt = step /\ \E i \in 1..4 : CloseSteps[i] = step /\ loopAt' = CloseSteps[i + 1]
      BY <1>1, <1>2 DEF CloseStep
<1>3. ASSUME NEW step, CloseStep(step)
      PROVE  /\ loopAt = step
             /\ \/ step = "unlist" /\ loopAt' = "disconnect"
                \/ step = "disconnect" /\ loopAt' = "forget"
                \/ step = "forget" /\ loopAt' = "asyncs"
                \/ step = "asyncs"
  <2>1. PICK i \in 1..4 : CloseSteps[i] = step /\ loopAt' = CloseSteps[i + 1]
        BY <1>2, <1>3
  <2>2. i = 1 \/ i = 2 \/ i = 3 \/ i = 4
        BY <2>1
  <2> QED BY <1>1, <1>2, <1>3, <2>1, <2>2
<1> QED BY <1>1, <1>3

(* What OnSend leaves behind.                                              *)
LEMMA OnSendDoes ==
    ASSUME SessTypes, BufTypes, OnSend
    PROVE  /\ session.pWorker /\ session' \in Session /\ write' \in Write /\ ring' = << >>
           /\ session' = [session EXCEPT !.writing = ring # << >>]
           /\ session'.writing <=> ring # << >>
           /\ write'.kind \in {"none", "frames"}
           /\ write'.kind = "frames" => ring # << >> /\ write'.frames = ring /\ socket # "closing"
           /\ write'.kind = "none" => write'.frames = << >>
           /\ socket = "open" /\ ring # << >> => write'.kind = "frames"
<1>1. session.pWorker /\ ring' = << >> /\ session' = [session EXCEPT !.writing = ring # << >>]
      BY DEF OnSend
<1>2. session' \in Session /\ (session'.writing <=> ring # << >>)
      BY <1>1 DEF SessTypes, Session
<1>3. PICK ok \in WritesOn(socket) :
         write' = IF ok /\ ring # << >> THEN [kind |-> "frames", frames |-> ring] ELSE NoWrite
      BY DEF OnSend
<1>4. ok \in BOOLEAN /\ (socket = "open" => ok) /\ (socket = "closing" => ~ok)
      BY <1>3 DEF WritesOn
<1>5. [kind |-> "frames", frames |-> ring] \in Write /\ NoWrite \in Write
      BY DEF BufTypes, Write, NoWrite
<1>6. \/ ok /\ ring # << >> /\ write' = [kind |-> "frames", frames |-> ring]
      \/ ~(ok /\ ring # << >>) /\ write' = NoWrite
      BY <1>3
<1> QED BY <1>1, <1>2, <1>4, <1>5, <1>6 DEF NoWrite

-----------------------------------------------------------------------------
LEMMA SessTypesStep == LifeInv /\ [Next]_vars => SessTypes'
<1> SUFFICES ASSUME LifeInv, [Next]_vars PROVE SessTypes'
    OBVIOUS
<1>0. SessTypes /\ BufTypes /\ Session' = Session /\ Worker' = Worker
      BY DEF LifeInv, Session, Worker
<1> USE <1>0 DEF SessTypes, sessVars
<1>1. CASE OnConnection
  <2>1. session' = [session EXCEPT !.st = "live", !.connected = TRUE, !.handlecount = 2]
        BY <1>1 DEF OnConnection, TwoHandles
  <2>2. session' \in Session
    <3> DEFINE s1 == [session EXCEPT !.st = "live"]
               s2 == [s1 EXCEPT !.connected = TRUE]
    <3>1. s1 \in Session
          BY DEF Session
    <3>2. \A s \in Session : [s EXCEPT !.connected = TRUE] \in Session
          BY DEF Session
    <3>3. \A s \in Session : [s EXCEPT !.handlecount = 2] \in Session
          BY DEF Session
    <3>4. s2 \in Session
          BY <3>1, <3>2, Zenon
    <3>5. session' = [s2 EXCEPT !.handlecount = 2]
          BY <2>1, Zenon
    <3> QED BY <3>3, <3>4, <3>5, Zenon
  <2> QED BY <1>1, <2>2 DEF OnConnection
<1>2. CASE OnRecv
  <2>1. session' \in Session /\ worker' \in Worker
        BY <1>2 DEF OnRecv, Session, Worker
  <2> QED BY <1>2, <2>1 DEF OnRecv
<1>3. CASE OnRecvBad
  <2>1. session' \in Session
        BY <1>3 DEF OnRecvBad, Session
  <2> QED BY <1>3, <2>1 DEF OnRecvBad
<1>4. CASE ClientLeaves
      BY <1>4 DEF ClientLeaves
<1>5. CASE OnAsyncWrite
  <2>1. session' \in Session
        BY <1>5, OnSendDoes DEF OnAsyncWrite
  <2> QED BY <1>5, <2>1 DEF OnAsyncWrite
<1>6. CASE OnWrite
  <2>1. session' \in Session
        BY <1>6, OnSendDoes DEF OnWrite, AfterWrite
  <2> QED BY <1>6, <2>1 DEF OnWrite
<1>7. CASE OnWriteNoWorker
      BY <1>7 DEF OnWriteNoWorker
<1>8. CASE OnReadError
  <2>1. session' \in Session
        BY <1>8 DEF OnReadError, Session
  <2> QED BY <1>8, <2>1 DEF OnReadError
<1>9. CASE OnShutdown
      BY <1>9 DEF OnShutdown
<1>10. CASE OnUvClose
      BY <1>10, CloseStepNext DEF OnUvClose
<1>11. CASE Unlist \/ Disconnect \/ Forget
  <2>1. worker' \in Worker
        BY <1>11 DEF Unlist, Disconnect, Forget, Worker
  <2>2. /\ UNCHANGED <<client, session, socket, asyncs>>
        /\ loopAt' \in {"disconnect", "forget", "asyncs"}
        BY <1>11, CloseStepNext DEF Unlist, Disconnect, Forget, CloseStep
  <2> QED BY <2>1, <2>2
<1>12. CASE CloseAsyncs
      BY <1>12 DEF CloseAsyncs
<1>13. ASSUME NEW h \in Asyncs, OnClose(h) PROVE SessTypes'
  <2>1. session' \in Session
    <3>1. \/ session' = [session EXCEPT !.handlecount = @ - 1, !.st = "deleted"]
          \/ session' = [session EXCEPT !.handlecount = @ - 1]
          BY <1>13 DEF OnClose, Session
    <3>2. session.handlecount - 1 \in 0..2
          BY <1>13 DEF OnClose, LifeInv, SessInv, NotClosed, Asyncs
    <3> QED BY <3>1, <3>2 DEF Session
  <2> QED BY <1>13, <2>1 DEF OnClose
<1>14. CASE Opened \/ ReadFrame \/ SourceEnds
  <2>1. worker' \in Worker
        BY <1>14 DEF Opened, ReadFrame, SourceEnds, Worker
  <2> QED BY <1>14, <2>1 DEF Opened, ReadFrame, SourceEnds
<1>15. CASE PushFlvFrame \/ CheckSession \/ AsyncSend
  <2>1. \A pc \in {"read", "end", "check", "signal"} : [worker EXCEPT !.at = pc] \in Worker
        BY DEF Worker
  <2>2. Back \in {"read", "end"}
        BY DEF Back
  <2>3. worker' \in Worker
        BY <1>15, <2>1, <2>2 DEF PushFlvFrame, CheckSession, AsyncSend
  <2> QED BY <1>15, <2>3 DEF PushFlvFrame, CheckSession, AsyncSend
<1>16. CASE DeleteThis
  <2>1. worker' \in Worker
        BY <1>16 DEF DeleteThis, Worker
  <2> QED BY <1>16, <2>1 DEF DeleteThis
<1>17. CASE UNCHANGED vars
      BY <1>17 DEF vars
<1> QED BY <1>1, <1>2, <1>3, <1>4, <1>5, <1>6, <1>7, <1>8, <1>9, <1>10, <1>11, <1>12, <1>13, <1>14,
           <1>15, <1>16, <1>17 DEF Next, Viewer, Loop, Thread

LEMMA BufTypesStep == LifeInv /\ [Next]_vars => BufTypes'
<1> SUFFICES ASSUME LifeInv, [Next]_vars PROVE BufTypes'
    OBVIOUS
<1>0. /\ SessTypes /\ BufTypes /\ Write' = Write /\ Frames' = Frames
      /\ \A w \in Write : w.frames \in Seq(Frames)
      /\ RingSize \in Nat \ {0} /\ MaxFrames \in Nat
      BY LiveWorkerAssumption DEF LifeInv, Write, Frames
<1> USE <1>0 DEF BufTypes, sessVars, streamVars
<1>00. << >> \in Seq(Frames) /\ Len(<< >>) <= RingSize
       OBVIOUS
<1>1. ASSUME UNCHANGED <<signalled, write, streamVars, dead>>, worker'.at # "push" \/ worker'.at = worker.at
      PROVE  BufTypes'
      BY <1>1 DEF streamVars
<1>2. CASE OnConnection \/ ClientLeaves \/ OnReadError \/ OnShutdown \/ OnUvClose \/ CloseAsyncs
      BY <1>1, <1>2 DEF OnConnection, ClientLeaves, OnReadError, OnShutdown, OnUvClose, CloseAsyncs, sessVars
<1>3. CASE OnRecv
  <2>1. write' \in Write /\ worker'.at = "play"
        BY <1>3 DEF OnRecv, Write, SessTypes, Worker
  <2> QED BY <1>3, <2>1 DEF OnRecv, streamVars
<1>4. CASE OnRecvBad
  <2>1. write' \in Write
        BY <1>4 DEF OnRecvBad, Write
  <2> QED BY <1>4, <2>1 DEF OnRecvBad, streamVars
<1>5. CASE OnAsyncWrite
  <2>1. write' \in Write /\ ring' \in Seq(Frames) /\ Len(ring') <= RingSize
        BY <1>00, <1>5, OnSendDoes DEF OnAsyncWrite
  <2> QED BY <1>5, <2>1 DEF OnAsyncWrite
<1>6. CASE OnWrite
  <2>1. write' \in Write /\ ring' \in Seq(Frames) /\ Len(ring') <= RingSize
        BY <1>00, <1>6, OnSendDoes DEF OnWrite, AfterWrite
  <2>2. delivered' \in Seq(Frames)
    <3>1. write.frames \in Seq(Frames)
          OBVIOUS
    <3> QED BY <1>6, <3>1 DEF OnWrite, Arrived
  <2> QED BY <1>6, <2>1, <2>2 DEF OnWrite
<1>7. CASE OnWriteNoWorker
      BY <1>7 DEF OnWriteNoWorker, streamVars
<1>8. CASE Unlist \/ Disconnect
  <2>1. worker'.at = worker.at
        BY <1>8 DEF Unlist, Disconnect, SessTypes, Worker
  <2> QED BY <1>1, <1>8, <2>1 DEF Unlist, Disconnect, CloseStep
<1>9. CASE Forget
  <2>1. worker'.at = worker.at /\ dead' \in BOOLEAN
        BY <1>9 DEF Forget, SessTypes, Worker
  <2> QED BY <1>9, <2>1 DEF Forget, CloseStep, streamVars
<1>10. ASSUME NEW h \in Asyncs, OnClose(h) PROVE BufTypes'
      BY <1>1, <1>10 DEF OnClose
<1>11. CASE Opened
  <2>1. worker'.at # "push"
        BY <1>11 DEF Opened, SessTypes, Worker
  <2> QED BY <1>1, <1>11, <2>1 DEF Opened
<1>12. CASE ReadFrame \/ SourceEnds
  <2>1. \/ made' = made + 1 /\ made < MaxFrames
        \/ made' = made /\ worker'.at # "push"
        BY <1>12 DEF ReadFrame, SourceEnds, SessTypes, Worker
  <2>2. made' \in 0..MaxFrames /\ (worker'.at = "push" => made' \in Frames)
        BY <2>1 DEF Frames
  <2> QED BY <1>12, <2>2 DEF ReadFrame, SourceEnds
<1>13. CASE PushFlvFrame
  <2>1. worker'.at # "push" /\ made \in Frames
        BY <1>13 DEF PushFlvFrame, SessTypes, Worker, At, Back
  <2>2. \/ ring' = Append(ring, made) /\ accepted' = Append(accepted, made) /\ Len(ring) < RingSize
        \/ ring' = ring /\ accepted' = accepted
        BY <1>13 DEF PushFlvFrame, Room
  <2>3. /\ ring' \in Seq(Frames) /\ accepted' \in Seq(Frames)
        /\ (Len(ring') = Len(ring) + 1 /\ Len(ring) < RingSize) \/ ring' = ring
    <3>1. CASE ring' = ring /\ accepted' = accepted
          BY <3>1
    <3>2. CASE ring' = Append(ring, made) /\ accepted' = Append(accepted, made) /\ Len(ring) < RingSize
          BY <2>1, <3>2
    <3> QED BY <2>2, <3>1, <3>2
  <2>4. Len(ring') <= RingSize
    <3>1. Len(ring) \in Nat
          OBVIOUS
    <3> QED BY <2>3, <3>1
  <2> QED BY <1>13, <2>1, <2>3, <2>4 DEF PushFlvFrame
<1>14. CASE CheckSession
  <2>1. worker'.at # "push"
        BY <1>14 DEF CheckSession, SessTypes, Worker, Back
  <2> QED BY <1>1, <1>14, <2>1 DEF CheckSession
<1>15. CASE AsyncSend
  <2>1. worker'.at # "push"
        BY <1>15 DEF AsyncSend, SessTypes, Worker, Back
  <2>2. dead' \in BOOLEAN
        BY <1>15 DEF AsyncSend
  <2>3. signalled' \in BOOLEAN
    <3>1. signalled' = (signalled \/ asyncs["asWrite"] = "open")
          BY <1>15, Zenon DEF AsyncSend
    <3> QED BY <3>1, Zenon
  <2> QED BY <1>15, <2>1, <2>2, <2>3 DEF AsyncSend, streamVars, sessVars
<1>16. CASE DeleteThis
  <2>1. worker'.at # "push" /\ ring' = << >>
        BY <1>16 DEF DeleteThis, SessTypes, Worker
  <2> QED BY <1>16, <2>1 DEF DeleteThis, sessVars
<1>17. CASE UNCHANGED vars
      BY <1>1, <1>17 DEF vars, streamVars
<1> QED BY <1>2, <1>3, <1>4, <1>5, <1>6, <1>7, <1>8, <1>9, <1>10, <1>11, <1>12, <1>13, <1>14,
           <1>15, <1>16, <1>17 DEF Next, Viewer, Loop, Thread

-----------------------------------------------------------------------------
(* What the actions that write to the session or the worker leave in it.   *)
LEMMA ConnectionDoes ==
    ASSUME LifeInv, OnConnection
    PROVE  /\ session'.st = "live" /\ session'.handlecount = 2 /\ session'.writing = session.writing
           /\ session'.pWorker = session.pWorker /\ session'.parseHeader = session.parseHeader
           /\ \A h \in Asyncs : asyncs'[h] = "open"
<1>1. session \in Session /\ asyncs' = [h \in Asyncs |-> "open"]
      BY DEF OnConnection, LifeInv, SessTypes
<1>2. session' = [session EXCEPT !.st = "live", !.connected = TRUE, !.handlecount = 2]
      BY DEF OnConnection, TwoHandles
<1> DEFINE s1 == [session EXCEPT !.st = "live"]
           s2 == [s1 EXCEPT !.connected = TRUE]
<1>3. s1 \in Session /\ s1.st = "live" /\ s1.writing = session.writing
      /\ s1.pWorker = session.pWorker /\ s1.parseHeader = session.parseHeader
      BY <1>1 DEF Session
<1>4. session' = [s2 EXCEPT !.handlecount = 2]
      BY <1>2, Zenon
<1> HIDE DEF s1
<1>5. s2 \in Session /\ s2.st = s1.st /\ s2.writing = s1.writing
      /\ s2.pWorker = s1.pWorker /\ s2.parseHeader = s1.parseHeader
      BY <1>3 DEF Session
<1> HIDE DEF s2
<1> QED BY <1>1, <1>3, <1>4, <1>5 DEF Session

LEMMA CloseDoes ==
    ASSUME LifeInv, NEW h \in Asyncs, OnClose(h)
    PROVE  /\ session'.handlecount = session.handlecount - 1
           /\ session'.writing = session.writing
           /\ session'.pWorker = session.pWorker /\ session'.parseHeader = session.parseHeader
           /\ session'.st = session.st \/ (session'.st = "deleted" /\ session.handlecount = 1)
<1>1. session \in Session
      BY DEF LifeInv, SessTypes
<1>2. \/ /\ session.handlecount = 1
         /\ session' = [session EXCEPT !.handlecount = @ - 1, !.st = "deleted"]
      \/ session' = [session EXCEPT !.handlecount = @ - 1]
      BY <1>1 DEF OnClose, Session
<1> DEFINE s1 == [session EXCEPT !.handlecount = session.handlecount - 1]
<1>3. /\ s1.handlecount = session.handlecount - 1 /\ s1.st = session.st
      /\ s1.writing = session.writing /\ s1.pWorker = session.pWorker
      /\ s1.parseHeader = session.parseHeader
      BY <1>1 DEF Session
<1>4. s1 \in Session
  <2>1. session.handlecount - 1 \in 0..2
        BY DEF OnClose, LifeInv, SessTypes, SessInv, NotClosed, Asyncs
  <2> QED BY <1>1, <2>1 DEF Session
<1>5. CASE session' = s1
      BY <1>1, <1>5 DEF Session
<1>6. CASE session.handlecount = 1 /\ session' = [s1 EXCEPT !.st = "deleted"]
  <2> HIDE DEF s1
  <2> QED BY <1>3, <1>4, <1>6 DEF Session
<1> QED BY <1>2, <1>5, <1>6

LEMMA SessInvStep == LifeInv /\ [Next]_vars => SessInv'
<1> SUFFICES ASSUME LifeInv, [Next]_vars PROVE SessInv'
    OBVIOUS
<1>0. SessTypes /\ BufTypes /\ SessInv
      BY DEF LifeInv
<1>00. "asWrite" \in Asyncs /\ "asClose" \in Asyncs /\ \A h \in Asyncs : h = "asWrite" \/ h = "asClose"
       BY DEF Asyncs
<1> USE <1>0, <1>00 DEF SessTypes
<1>1. CASE OnConnection
  <2>1. client' = "here" /\ socket' = "open" /\ loopAt = "idle" /\ loopAt' = loopAt
        BY <1>1 DEF OnConnection, SessInv
  <2> QED BY <1>1, <2>1, ConnectionDoes DEF SessInv, AsyncsAre, NotClosed
<1>2. ASSUME UNCHANGED <<client, socket, asyncs, loopAt>>, session'.handlecount = session.handlecount,
             session'.st = session.st,
             socket = "none" => session'.parseHeader = session.parseHeader /\ session'.pWorker = session.pWorker
      PROVE  SessInv'
      BY <1>2 DEF SessInv, AsyncsAre, NotClosed
<1>3. CASE OnRecv \/ OnRecvBad
  <2>1. /\ UNCHANGED <<client, socket, asyncs, loopAt>> /\ socket = "open"
        /\ session'.handlecount = session.handlecount /\ session'.st = session.st
        BY <1>3 DEF OnRecv, OnRecvBad, Session
  <2> QED BY <1>2, <2>1
<1>4. CASE ClientLeaves
  <2>1. client = "here" /\ client' = "gone" /\ UNCHANGED <<session, socket, asyncs, loopAt>>
        BY <1>4 DEF ClientLeaves, sessVars
  <2> QED BY <2>1 DEF SessInv, AsyncsAre, NotClosed
<1>5. CASE OnAsyncWrite \/ OnWrite
  <2>1. /\ UNCHANGED <<client, socket, asyncs, loopAt>>
        /\ session' = session \/ OnSend
        BY <1>5 DEF OnAsyncWrite, OnWrite, AfterWrite
  <2>2. OnSend => /\ session'.handlecount = session.handlecount /\ session'.st = session.st
                  /\ session'.parseHeader = session.parseHeader /\ session'.pWorker = session.pWorker
        BY OnSendDoes DEF Session
  <2> QED BY <1>2, <2>1, <2>2
<1>6. CASE OnReadError
  <2>1. /\ UNCHANGED <<client, asyncs, loopAt>> /\ client = "gone" /\ socket = "open"
        /\ socket' \in {"closing", "shutting"}
        /\ session'.handlecount = session.handlecount /\ session'.st = session.st
        BY <1>6 DEF OnReadError, Session
  <2> QED BY <2>1 DEF SessInv, AsyncsAre, NotClosed
<1>7. CASE OnShutdown
      BY <1>7 DEF OnShutdown, SessInv, AsyncsAre, NotClosed
<1>8. CASE OnUvClose
  <2>1. /\ UNCHANGED <<client, session, asyncs>> /\ socket = "closing" /\ socket' = "closed"
        /\ loopAt' \in {"unlist", "asyncs"}
        BY <1>8, CloseStepNext DEF OnUvClose
  <2> QED BY <2>1 DEF SessInv, AsyncsAre, NotClosed
<1>9. CASE Unlist \/ Disconnect \/ Forget
  <2>1. UNCHANGED <<client, session, socket, asyncs>> /\ loopAt # "idle" /\ loopAt' # "idle"
        BY <1>9, CloseStepNext DEF Unlist, Disconnect, Forget, CloseStep
  <2> QED BY <2>1 DEF SessInv, AsyncsAre, NotClosed
<1>10. CASE CloseAsyncs
  <2>1. /\ UNCHANGED <<client, session, socket>> /\ loopAt = "asyncs" /\ loopAt' = "idle"
        /\ \A h \in Asyncs : asyncs'[h] = "closing"
        BY <1>10 DEF CloseAsyncs, Asyncs, BothAsyncs
  <2> QED BY <2>1 DEF SessInv, AsyncsAre, NotClosed
<1>11. ASSUME NEW h \in Asyncs, OnClose(h) PROVE SessInv'
  <2>1. /\ UNCHANGED <<client, socket, loopAt>> /\ loopAt = "idle" /\ asyncs[h] = "closing"
        /\ asyncs' = [asyncs EXCEPT ![h] = "closed"]
        BY <1>11 DEF OnClose, Idle
  <2>2. socket = "closed"
        BY <2>1 DEF SessInv, AsyncsAre
  <2>3. /\ asyncs'[h] = "closed" /\ \A g \in Asyncs \ {h} : asyncs'[g] = asyncs[g]
        BY <2>1
  <2>4. session'.handlecount = (NotClosed("asWrite") + NotClosed("asClose"))'
        BY <1>11, <2>1, <2>3, CloseDoes DEF SessInv, NotClosed
  <2>5. session'.st = "deleted" => session'.handlecount = 0
    <3>1. session.st = "deleted" => session.handlecount = 0
          BY DEF SessInv
    <3>2. session.handlecount # 0
          BY <2>1 DEF SessInv, NotClosed
    <3> QED BY <1>11, <3>1, <3>2, CloseDoes
  <2> QED BY <2>1, <2>2, <2>3, <2>4, <2>5 DEF SessInv, AsyncsAre
<1>12. CASE Opened \/ ReadFrame \/ Thread
      BY <1>2, <1>12 DEF Opened, ReadFrame, Thread, SourceEnds, PushFlvFrame, CheckSession, AsyncSend, DeleteThis,
                         sessVars
<1>13. CASE OnWriteNoWorker \/ UNCHANGED vars
      BY <1>2, <1>13 DEF OnWriteNoWorker, vars
<1> QED BY <1>1, <1>3, <1>4, <1>5, <1>6, <1>7, <1>8, <1>9, <1>10, <1>11, <1>12, <1>13
        DEF Next, Viewer, Loop

LEMMA WorkInvStep == LifeInv /\ [Next]_vars => WorkInv'
<1> SUFFICES ASSUME LifeInv, [Next]_vars PROVE WorkInv'
    OBVIOUS
<1>0. SessTypes /\ SessInv /\ WorkInv
      BY DEF LifeInv
<1> USE <1>0 DEF SessTypes
<1>1. ASSUME UNCHANGED <<socket, loopAt, worker>>, session'.pWorker = session.pWorker,
             session'.parseHeader = session.parseHeader \/ session'.parseHeader
      PROVE  WorkInv'
      BY <1>1 DEF WorkInv
<1>2. CASE OnConnection
  <2>1. UNCHANGED <<loopAt, worker>> /\ ~session.pWorker /\ loopAt = "idle"
        BY <1>2 DEF OnConnection, SessInv
  <2> QED BY <1>2, <2>1, ConnectionDoes DEF WorkInv
<1>3. CASE OnRecv
  <2>1. /\ UNCHANGED <<socket, loopAt>> /\ socket = "open" /\ loopAt = "idle"
        /\ session'.pWorker /\ session'.parseHeader
        BY <1>3 DEF OnRecv, Idle, Session
  <2>2. \E w \in Worker : worker' = [w EXCEPT !.listed = TRUE] /\ w.at = "play" /\ w.m_bConnect /\ w.m_pSession
    <3> DEFINE w1 == [worker EXCEPT !.at = "play"]
               w2 == [w1 EXCEPT !.m_bConnect = TRUE]
               w3 == [w2 EXCEPT !.m_pSession = TRUE]
    <3>1. w1 \in Worker /\ w1.at = "play"
          BY DEF Worker
    <3>2. worker' = [w3 EXCEPT !.listed = TRUE]
          BY <1>3, Zenon DEF OnRecv
    <3> HIDE DEF w1
    <3>3. w2 \in Worker /\ w2.at = "play" /\ w2.m_bConnect
          BY <3>1 DEF Worker
    <3> HIDE DEF w2
    <3>4. w3 \in Worker /\ w3.at = "play" /\ w3.m_bConnect /\ w3.m_pSession
          BY <3>3 DEF Worker
    <3> QED BY <3>2, <3>4
  <2>3. worker'.at = "play" /\ worker'.m_bConnect /\ worker'.m_pSession
        BY <2>2 DEF Worker
  <2> QED BY <2>1, <2>3 DEF WorkInv
<1>4. CASE OnRecvBad
  <2>1. /\ UNCHANGED <<socket, loopAt, worker>>
        /\ session'.pWorker = session.pWorker /\ session'.parseHeader
        BY <1>4 DEF OnRecvBad, Session
  <2> QED BY <1>1, <2>1
<1>5. CASE OnAsyncWrite \/ OnWrite
  <2>1. UNCHANGED <<socket, loopAt, worker>> /\ (session' = session \/ OnSend)
        BY <1>5 DEF OnAsyncWrite, OnWrite, AfterWrite
  <2>2. OnSend => session'.parseHeader = session.parseHeader /\ session'.pWorker = session.pWorker
        BY OnSendDoes DEF Session, LifeInv
  <2> QED BY <1>1, <2>1, <2>2
<1>6. CASE OnReadError
  <2>1. /\ UNCHANGED <<loopAt, worker>> /\ socket = "open" /\ socket' # "closed"
        /\ session'.pWorker = session.pWorker /\ session'.parseHeader = session.parseHeader
        BY <1>6 DEF OnReadError, Session
  <2> QED BY <2>1 DEF WorkInv
<1>7. CASE OnShutdown
      BY <1>7 DEF OnShutdown, WorkInv
<1>8. CASE OnUvClose
  <2>1. /\ UNCHANGED <<session, worker>> /\ socket = "closing" /\ socket' = "closed"
        /\ IF session.pWorker THEN loopAt' = "unlist" ELSE loopAt' = "asyncs"
        BY <1>8, CloseStepNext DEF OnUvClose
  <2> QED BY <2>1 DEF WorkInv
<1>9. CASE Unlist
  <2>1. /\ UNCHANGED <<session, socket>> /\ loopAt = "unlist" /\ loopAt' = "disconnect"
        /\ ~worker'.listed /\ worker'.at = worker.at /\ worker'.m_bConnect = worker.m_bConnect
        /\ worker'.m_pSession = worker.m_pSession
        BY <1>9, CloseStepNext DEF Unlist, CloseStep, Worker
  <2> QED BY <2>1 DEF WorkInv
<1>10. CASE Disconnect
  <2>1. /\ UNCHANGED <<session, socket>> /\ loopAt = "disconnect" /\ loopAt' = "forget"
        /\ worker'.listed = worker.listed /\ worker'.at = worker.at /\ ~worker'.m_bConnect
        /\ worker'.m_pSession = worker.m_pSession
        BY <1>10, CloseStepNext DEF Disconnect, CloseStep, Worker
  <2> QED BY <2>1 DEF WorkInv, SessInv
<1>11. CASE Forget
  <2>1. /\ UNCHANGED <<session, socket>> /\ loopAt = "forget" /\ loopAt' = "asyncs"
        /\ worker'.listed = worker.listed /\ worker'.at = worker.at /\ worker'.m_bConnect = worker.m_bConnect
        BY <1>11, CloseStepNext DEF Forget, CloseStep, Worker
  <2> QED BY <2>1 DEF WorkInv, SessInv
<1>12. CASE CloseAsyncs
      BY <1>12 DEF CloseAsyncs, WorkInv
<1>13. ASSUME NEW h \in Asyncs, OnClose(h) PROVE WorkInv'
  <2>1. UNCHANGED <<socket, loopAt, worker>>
        BY <1>13 DEF OnClose
  <2> QED BY <1>1, <1>13, <2>1, CloseDoes
<1>14. CASE Opened \/ ReadFrame \/ SourceEnds \/ PushFlvFrame \/ CheckSession \/ AsyncSend
  <2>1. /\ UNCHANGED <<session, socket, loopAt>> /\ worker.at \notin {"none", "gone"}
        /\ worker'.at \notin {"none", "gone"} /\ worker'.listed = worker.listed
        /\ worker'.m_bConnect = worker.m_bConnect /\ worker'.m_pSession = worker.m_pSession
        BY <1>14 DEF Opened, ReadFrame, SourceEnds, PushFlvFrame, CheckSession, AsyncSend, At, Back, Worker, sessVars
  <2> QED BY <2>1 DEF WorkInv
<1>15. CASE DeleteThis
  <2>1. /\ UNCHANGED <<session, socket, loopAt>> /\ worker.at = "end" /\ ~worker.m_bConnect
        /\ worker'.at = "gone" /\ worker'.listed = worker.listed
        /\ worker'.m_bConnect = worker.m_bConnect /\ worker'.m_pSession = worker.m_pSession
        BY <1>15 DEF DeleteThis, At, Worker, sessVars
  <2> QED BY <2>1 DEF WorkInv
<1>16. CASE ClientLeaves \/ OnWriteNoWorker \/ UNCHANGED vars
      BY <1>1, <1>16 DEF ClientLeaves, OnWriteNoWorker, vars, sessVars
<1> QED BY <1>2, <1>3, <1>4, <1>5, <1>6, <1>7, <1>8, <1>9, <1>10, <1>11, <1>12, <1>13, <1>14, <1>15, <1>16
        DEF Next, Viewer, Loop, Thread

LEMMA WriteInvStep == LifeInv /\ [Next]_vars => WriteInv'
<1> SUFFICES ASSUME LifeInv, [Next]_vars PROVE WriteInv'
    OBVIOUS
<1>0. SessTypes /\ BufTypes /\ SessInv /\ WorkInv /\ WriteInv
      BY DEF LifeInv
<1> USE <1>0 DEF SessTypes
<1>1. ASSUME UNCHANGED <<write, ring, accepted, delivered>>, socket' = socket,
             session'.writing = session.writing, session'.pWorker = session.pWorker,
             session'.parseHeader = session.parseHeader
      PROVE  WriteInv'
      BY <1>1 DEF WriteInv
<1>2. CASE OnConnection
  <2>1. UNCHANGED <<write, ring, accepted, delivered>> /\ socket = "none" /\ socket' = "open"
        BY <1>2 DEF OnConnection, SessInv, streamVars
  <2>2. ~session.parseHeader /\ ~session.pWorker /\ write.kind = "none"
        BY <2>1 DEF SessInv, WriteInv
  <2>3. ~session'.writing
        BY <1>2, <2>1, <2>2, ConnectionDoes DEF WriteInv
  <2> QED BY <1>2, <2>1, <2>2, <2>3, ConnectionDoes DEF WriteInv
<1>3. CASE OnRecv
  <2>1. /\ UNCHANGED <<socket, ring, accepted, delivered>> /\ socket = "open"
        /\ write'.kind = "response" /\ write'.frames = << >>
        /\ session'.writing /\ session'.parseHeader /\ session'.pWorker
        BY <1>3 DEF OnRecv, Session, streamVars
  <2> QED BY <2>1 DEF WriteInv
<1>4. CASE OnRecvBad
  <2>1. /\ UNCHANGED <<socket, ring, accepted, delivered>> /\ socket = "open"
        /\ write'.kind = "refusal" /\ write'.frames = << >>
        /\ session'.writing /\ session'.parseHeader /\ session'.pWorker = session.pWorker
        BY <1>4 DEF OnRecvBad, Session, streamVars
  <2> QED BY <2>1 DEF WriteInv
<1>5. CASE OnSend /\ socket' = socket /\ socket \in {"open", "shutting", "closing"}
  <2>1. /\ session.pWorker /\ session'.pWorker /\ session.parseHeader /\ session'.parseHeader
        BY <1>5, OnSendDoes DEF WorkInv, Session
  <2> QED BY <1>5, <2>1, OnSendDoes DEF WriteInv
<1>6. CASE OnAsyncWrite
  <2>1. socket' = socket /\ loopAt = "idle" /\ asyncs["asWrite"] = "open"
        BY <1>6 DEF OnAsyncWrite, Idle
  <2>2. socket \in {"open", "shutting", "closing"}
        BY <2>1 DEF SessInv, AsyncsAre, Asyncs
  <2>3. CASE OnSend
        BY <1>5, <2>1, <2>2, <2>3
  <2>4. CASE UNCHANGED <<session, write, ring>>
        BY <1>1, <1>6, <2>4 DEF OnAsyncWrite
  <2> QED BY <1>6, <2>3, <2>4 DEF OnAsyncWrite
<1>7. CASE OnWrite
  <2>1. OnSend /\ socket' = socket /\ write.kind # "none"
        BY <1>7 DEF OnWrite, AfterWrite
  <2> QED BY <1>5, <2>1 DEF WriteInv
<1>8. CASE OnReadError
  <2>1. /\ UNCHANGED <<write, ring, accepted, delivered>> /\ socket = "open" /\ socket' \in {"closing", "shutting"}
        /\ session'.writing = session.writing /\ session'.pWorker = session.pWorker
        /\ session'.parseHeader = session.parseHeader
        BY <1>8 DEF OnReadError, Session, streamVars
  <2> QED BY <2>1 DEF WriteInv
<1>9. CASE OnShutdown
  <2>1. UNCHANGED <<session, write, ring, accepted, delivered>> /\ socket' = "closing"
        BY <1>9 DEF OnShutdown, streamVars
  <2> QED BY <2>1 DEF WriteInv
<1>10. CASE OnUvClose
  <2>1. UNCHANGED <<session, write, ring, accepted, delivered>> /\ socket' = "closed" /\ write.kind = "none"
        BY <1>10 DEF OnUvClose, streamVars
  <2> QED BY <2>1 DEF WriteInv
<1>11. CASE Unlist \/ Disconnect \/ Forget \/ CloseAsyncs
      BY <1>1, <1>11 DEF Unlist, Disconnect, Forget, CloseStep, CloseAsyncs, streamVars
<1>12. ASSUME NEW h \in Asyncs, OnClose(h) PROVE WriteInv'
  <2>1. UNCHANGED <<socket, write, ring, accepted, delivered>>
        BY <1>12 DEF OnClose, streamVars
  <2> QED BY <1>1, <1>12, <2>1, CloseDoes
<1>13. CASE Opened \/ ReadFrame \/ SourceEnds \/ CheckSession \/ AsyncSend
      BY <1>1, <1>13 DEF Opened, ReadFrame, SourceEnds, CheckSession, AsyncSend, sessVars, streamVars
<1>14. CASE PushFlvFrame \/ DeleteThis
  <2>1. UNCHANGED <<session, socket, write>> /\ session.pWorker
        BY <1>14 DEF PushFlvFrame, DeleteThis, At, WorkInv, sessVars
  <2> QED BY <2>1 DEF WriteInv
<1>15. CASE ClientLeaves \/ OnWriteNoWorker \/ UNCHANGED vars
      BY <1>1, <1>15 DEF ClientLeaves, OnWriteNoWorker, vars, sessVars, streamVars
<1> QED BY <1>2, <1>3, <1>4, <1>6, <1>7, <1>8, <1>9, <1>10, <1>11, <1>12, <1>13, <1>14, <1>15
        DEF Next, Viewer, Loop, Thread

LEMMA LifeInvariant == Spec => []LifeInv
<1>1. LifeInv /\ [Next]_vars => LifeInv'
      BY SessTypesStep, BufTypesStep, SessInvStep, WorkInvStep, WriteInvStep DEF LifeInv
<1> QED BY <1>1, InitLife, PTL DEF Spec

(* Every variable stays in its type; the ring is never overfull.           *)
THEOREM TypeCorrect == Spec => []TypeOK
<1>1. LifeInv => TypeOK
      BY DEF LifeInv, SessTypes, BufTypes, TypeOK
<1> QED BY <1>1, LifeInvariant, PTL

(* The session is freed only when libuv is done with its three handles.    *)
THEOREM SessionIsLast == Spec => []SessionOutlivesHandles
<1>1. LifeInv => SessionOutlivesHandles
  <2> SUFFICES ASSUME LifeInv, session.st = "deleted"
               PROVE  socket = "closed" /\ \A h \in Asyncs : asyncs[h] = "closed"
      BY DEF SessionOutlivesHandles
  <2>1. socket = "closed" /\ NotClosed("asWrite") + NotClosed("asClose") = 0
        BY DEF LifeInv, SessInv
  <2>2. NotClosed("asWrite") = 0 /\ NotClosed("asClose") = 0
        BY <2>1 DEF NotClosed
  <2>3. \A h \in Asyncs : asyncs[h] \in {"open", "closing", "closed"}
        BY <2>1 DEF LifeInv, SessInv, AsyncsAre
  <2> QED BY <2>1, <2>2, <2>3 DEF NotClosed, Asyncs
<1> QED BY <1>1, LifeInvariant, PTL

(* When the worker has deleted itself, the list of viewers has let go of   *)
(* it, and of the loop nothing but the last statement of close() is left.  *)
THEOREM WorkerIsLast == Spec => []WorkerOutlivesUse
<1>1. LifeInv => WorkerOutlivesUse
  <2> SUFFICES ASSUME LifeInv, worker.at = "gone"
               PROVE  /\ ~worker.listed /\ write.kind = "none"
                      /\ loopAt \notin {"unlist", "disconnect"}
                      /\ ~(signalled /\ asyncs["asWrite"] = "open" /\ loopAt = "idle")
      BY DEF WorkerOutlivesUse
  <2>1. session.pWorker /\ ~worker.m_bConnect /\ ~worker.listed /\ socket = "closed"
        BY DEF LifeInv, WorkInv
  <2>2. write.kind = "none"
        BY <2>1 DEF LifeInv, WriteInv
  <2>3. loopAt = "idle" => asyncs["asWrite"] # "open"
        BY <2>1 DEF LifeInv, SessInv, AsyncsAre, Asyncs
  <2>4. loopAt \notin {"unlist", "disconnect"}
        BY <2>1 DEF LifeInv, WorkInv
  <2> QED BY <2>1, <2>2, <2>3, <2>4
<1> QED BY <1>1, LifeInvariant, PTL

-----------------------------------------------------------------------------
(* Sequences.                                                              *)
LEMMA ConcatEmpty ==
    ASSUME NEW S, NEW s \in Seq(S)
    PROVE  s \o << >> = s /\ << >> \o s = s
OBVIOUS

LEMMA ConcatAppend ==
    ASSUME NEW S, NEW s \in Seq(S), NEW t \in Seq(S), NEW e \in S
    PROVE  Append(s \o t, e) = s \o Append(t, e)
OBVIOUS

LEMMA OrderStep == LifeInv /\ NothingLostOrReordered /\ [Next]_vars => NothingLostOrReordered'
<1> SUFFICES ASSUME LifeInv, NothingLostOrReordered, [Next]_vars, client' = "here"
             PROVE  accepted' = delivered' \o write'.frames \o ring'
    BY DEF NothingLostOrReordered
<1>0. SessTypes /\ BufTypes /\ SessInv /\ WorkInv /\ WriteInv /\ write.frames \in Seq(Frames)
      /\ accepted \in Seq(Frames) /\ delivered \in Seq(Frames) /\ ring \in Seq(Frames)
      BY DEF LifeInv, BufTypes, Write
<1>1. CASE OnConnection
  <2>1. socket = "none" /\ write' = write /\ UNCHANGED streamVars
        BY <1>0, <1>1 DEF OnConnection, SessInv
  <2>2. ring = << >> /\ accepted = << >> /\ delivered = << >> /\ write.frames = << >>
        BY <1>0, <2>1 DEF SessInv, WriteInv
  <2> QED BY <1>0, <2>1, <2>2, ConcatEmpty DEF streamVars
<1>2. ASSUME client = "here" PROVE /\ socket = "open" /\ accepted = delivered \o write.frames \o ring
      BY <1>0, <1>2 DEF NothingLostOrReordered, SessInv
<1>3. ASSUME UNCHANGED <<client, accepted, delivered, ring>>, write'.frames = write.frames
      PROVE  accepted' = delivered' \o write'.frames \o ring'
      BY <1>2, <1>3
<1>4. CASE OnRecv \/ OnRecvBad
  <2>1. write'.frames = << >> /\ write.frames = << >>
        BY <1>0, <1>4 DEF OnRecv, OnRecvBad, WriteInv
  <2> QED BY <1>3, <1>4, <2>1 DEF OnRecv, OnRecvBad, streamVars
<1>5. ASSUME OnSend, client = "here" PROVE write'.frames = ring /\ ring' = << >>
      BY <1>0, <1>2, <1>5, OnSendDoes
<1>6. CASE OnAsyncWrite /\ OnSend
  <2>1. client' = client /\ accepted' = accepted /\ delivered' = delivered
        BY <1>6 DEF OnAsyncWrite
  <2>2. write.frames = << >> \/ UNCHANGED <<write, ring>>
        BY <1>0, <1>6 DEF OnAsyncWrite, Busy, WriteInv
  <2>3. CASE write.frames = << >>
    <3>1. accepted = delivered \o ring
          BY <1>0, <1>2, <2>1, <2>3, ConcatEmpty
    <3>2. delivered \o ring \in Seq(Frames)
          BY <1>0
    <3> QED BY <1>0, <1>5, <1>6, <2>1, <3>1, <3>2, ConcatEmpty
  <2>4. CASE UNCHANGED <<write, ring>>
        BY <1>3, <2>1, <2>4
  <2> QED BY <2>2, <2>3, <2>4
<1>7. CASE OnAsyncWrite /\ UNCHANGED <<write, ring>>
      BY <1>3, <1>7 DEF OnAsyncWrite
<1>8. CASE OnWrite
  <2>1. client' = client /\ accepted' = accepted /\ OnSend /\ delivered' = delivered \o write.frames
        BY <1>8 DEF OnWrite, AfterWrite, Arrived
  <2>2. accepted = delivered' \o ring /\ delivered' \o ring \in Seq(Frames)
        BY <1>0, <1>2, <2>1
  <2> QED BY <1>5, <2>1, <2>2, ConcatEmpty
<1>9. CASE PushFlvFrame
  <2>1. client' = client /\ write' = write /\ delivered' = delivered
        BY <1>9 DEF PushFlvFrame, sessVars
  <2>2. CASE ring' = ring /\ accepted' = accepted
        BY <1>3, <2>1, <2>2
  <2>3. CASE ring' = Append(ring, made) /\ accepted' = Append(accepted, made)
    <3>1. made \in Frames
          BY <1>0, <1>9 DEF PushFlvFrame, At, BufTypes
    <3> DEFINE dw == delivered \o write.frames
    <3>2. dw \in Seq(Frames)
          BY <1>0
    <3>3. accepted = dw \o ring
          BY <1>2, <2>1
    <3> HIDE DEF dw
    <3>4. Append(dw \o ring, made) = dw \o Append(ring, made)
      <4>1. ring \in Seq(Frames)
            BY <1>0
      <4> QED BY ONLY <3>1, <3>2, <4>1, SMT
    <3>5. accepted' = dw \o ring'
          BY <2>3, <3>3, <3>4, Zenon
    <3> QED BY <2>1, <3>5 DEF dw
  <2> QED BY <1>9, <2>2, <2>3 DEF PushFlvFrame
<1>10. CASE DeleteThis
  <2>1. socket = "closed" /\ client' = client
        BY <1>0, <1>10 DEF DeleteThis, At, WorkInv, SessInv
  <2> QED BY <1>2, <2>1
<1>11. CASE OnWriteNoWorker \/ OnReadError \/ OnShutdown \/ OnUvClose \/ ClientLeaves
      BY <1>3, <1>11 DEF OnWriteNoWorker, OnReadError, OnShutdown, OnUvClose, ClientLeaves, sessVars, streamVars
<1>12. CASE Unlist \/ Disconnect \/ Forget \/ CloseAsyncs \/ \E h \in Asyncs : OnClose(h)
      BY <1>3, <1>12 DEF Unlist, Disconnect, Forget, CloseStep, CloseAsyncs, OnClose, streamVars
<1>13. CASE Opened \/ ReadFrame \/ SourceEnds \/ CheckSession \/ AsyncSend
      BY <1>3, <1>13 DEF Opened, ReadFrame, SourceEnds, CheckSession, AsyncSend, sessVars, streamVars
<1>14. CASE UNCHANGED vars
      BY <1>3, <1>14 DEF vars, sessVars
<1> QED BY <1>1, <1>4, <1>6, <1>7, <1>8, <1>9, <1>10, <1>11, <1>12, <1>13, <1>14
        DEF Next, Viewer, Loop, Thread, OnAsyncWrite

(* However the pushes, the signals and the ends of writes interleave, what *)
(* a connected viewer has been sent, is being sent and will be sent is     *)
(* every buffer the ring took, once and in order.                          *)
THEOREM DeliveredInOrder == Spec => []NothingLostOrReordered
<1>1. Init => NothingLostOrReordered
      BY DEF Init, NothingLostOrReordered
<1> QED BY <1>1, OrderStep, LifeInvariant, PTL DEF Spec

-----------------------------------------------------------------------------
LEMMA WakeupStep == LifeInv /\ NoLostWakeup /\ [Next]_vars => NoLostWakeup'
<1> SUFFICES ASSUME LifeInv, NoLostWakeup, [Next]_vars, ring' # << >>, socket' = "open"
             PROVE  write'.kind # "none" \/ signalled' \/ worker'.at \in {"check", "signal"}
    BY DEF NoLostWakeup
<1>0. SessTypes /\ BufTypes /\ SessInv /\ WorkInv /\ WriteInv
      BY DEF LifeInv
<1>1. ASSUME UNCHANGED <<ring, socket, write, signalled>>, worker' = worker \/ worker.at \notin {"check", "signal"}
      PROVE  write'.kind # "none" \/ signalled' \/ worker'.at \in {"check", "signal"}
      BY <1>1 DEF NoLostWakeup
<1>2. CASE OnConnection
  <2>1. socket = "none" /\ ring' = ring
        BY <1>0, <1>2 DEF OnConnection, SessInv, streamVars
  <2> QED BY <1>0, <2>1 DEF SessInv, WriteInv
<1>3. CASE OnRecv \/ OnRecvBad
      BY <1>3 DEF OnRecv, OnRecvBad
<1>4. CASE OnAsyncWrite
  <2>1. socket = "open"
        BY <1>4 DEF OnAsyncWrite
  <2>2. CASE OnSend
        BY <1>0, <2>2, OnSendDoes
  <2>3. CASE Busy /\ UNCHANGED <<session, write, ring>>
        BY <1>0, <2>1, <2>3 DEF Busy, WriteInv
  <2> QED BY <1>4, <2>2, <2>3 DEF OnAsyncWrite
<1>5. CASE OnWrite
      BY <1>0, <1>5, OnSendDoes DEF OnWrite, AfterWrite
<1>6. CASE OnReadError \/ OnShutdown \/ OnUvClose
      BY <1>6 DEF OnReadError, OnShutdown, OnUvClose
<1>7. CASE Unlist \/ Disconnect \/ Forget
  <2>1. socket = "open" /\ loopAt # "idle"
        BY <1>7, CloseStepNext DEF Unlist, Disconnect, Forget, CloseStep
  <2> QED BY <1>0, <2>1 DEF SessInv
<1>8. CASE CloseAsyncs \/ \E h \in Asyncs : OnClose(h)
      BY <1>1, <1>8 DEF CloseAsyncs, OnClose, streamVars
<1>9. CASE PushFlvFrame
  <2>1. UNCHANGED <<socket, write, signalled>> /\ worker.at = "push"
        BY <1>9 DEF PushFlvFrame, At, sessVars
  <2>2. CASE worker' = [worker EXCEPT !.at = "check"]
        BY <1>0, <2>2 DEF SessTypes, Worker
  <2>3. CASE ring' = ring
        BY <1>1, <2>1, <2>3
  <2> QED BY <1>9, <2>2, <2>3 DEF PushFlvFrame
<1>10. CASE CheckSession
  <2>1. UNCHANGED <<session, socket>> /\ worker.at = "check"
        BY <1>10 DEF CheckSession, At, sessVars
  <2>2. worker.m_pSession /\ worker.m_bConnect
        BY <1>0, <2>1 DEF WorkInv
  <2>3. worker' = [worker EXCEPT !.at = "signal"]
        BY <1>10, <2>2 DEF CheckSession
  <2> QED BY <1>0, <2>3 DEF SessTypes, Worker
<1>11. CASE AsyncSend
  <2>1. UNCHANGED socket /\ signalled' = (signalled \/ asyncs["asWrite"] = "open")
        BY <1>11 DEF AsyncSend, sessVars
  <2>2. asyncs["asWrite"] = "open"
        BY <1>0, <2>1 DEF SessInv, AsyncsAre, Asyncs
  <2> QED BY <2>1, <2>2
<1>12. CASE DeleteThis
      BY <1>12 DEF DeleteThis
<1>13. CASE Opened \/ ReadFrame \/ SourceEnds
  <2>1. /\ UNCHANGED <<ring, socket, write, signalled>>
        /\ worker.at \notin {"check", "signal"}
        BY <1>13 DEF Opened, ReadFrame, SourceEnds, At, sessVars, streamVars
  <2> QED BY <1>1, <2>1
<1>14. CASE ClientLeaves \/ OnWriteNoWorker
      BY <1>1, <1>14 DEF ClientLeaves, OnWriteNoWorker, sessVars, streamVars
<1>15. CASE UNCHANGED vars
      BY <1>1, <1>15 DEF vars
<1> QED BY <1>2, <1>3, <1>4, <1>5, <1>6, <1>7, <1>8, <1>9, <1>10, <1>11, <1>12, <1>13, <1>14, <1>15
        DEF Next, Viewer, Loop, Thread

(* Although uv_async_send coalesces and OnSend does nothing while a write  *)
(* is under way, buffers never wait in the ring of an open session without *)
(* something under way that takes them.                                    *)
THEOREM WakeupsAreKept == Spec => []NoLostWakeup
<1>1. Init => NoLostWakeup
      BY DEF Init, NoLostWakeup
<1> QED BY <1>1, WakeupStep, LifeInvariant, PTL DEF Spec
=============================================================================
