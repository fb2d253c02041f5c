----------------------------- MODULE RtpStream -----------------------------
(***************************************************************************)
(* One CRtpStream of live_server (rtp.cpp) and the PS buffer of the        *)
(* CLiveWorker it feeds (worker.cpp).  Four threads share the two objects  *)
(* and no lock:                                                            *)
(*   - the play thread creates the stream, starts it, and then reads the   *)
(*     buffer from inside ffmpeg (fill_iobuffer) until the viewer is gone, *)
(*     when it deletes the worker;                                         *)
(*   - the stream's loop thread waits for asStop, closes its two handles   *)
(*     and deletes the stream;                                             *)
(*   - the jrtp thread takes packets off the network and pushes the frames *)
(*     RtpReassembly joins into the buffer while m_bRun is set;            *)
(*   - the server's uv loop calls stop() and clears m_bConnect when the    *)
(*     viewer leaves.                                                      *)
(* Nothing waits for the jrtp thread to end.  A thread that goes on with a *)
(* deleted object dies of it or is lucky, and then reads anything.         *)
(***************************************************************************)
EXTENDS Integers, Sequences, FiniteSetsExt

CONSTANTS
    Frames,       \* what the camera sends: the length of each PS frame, and whether it is a key frame
    RingSize,     \* elements m_pPSRing can hold (1000 in the code)
    ReadSizes,    \* the room ffmpeg may offer to a read (at most nInCatch)
    FindFirstKey  \* _findFirstKey: drop what comes before the first key frame

ASSUME RtpStreamAssumption ==
    /\ Frames \in Seq([len : Nat \ {0}, key : BOOLEAN])
    /\ RingSize \in Nat \ {0}
    /\ ReadSizes \subseteq Nat \ {0}
    /\ FindFirstKey \in BOOLEAN

VARIABLES
    viewer,   \* the server's loop: viewer there, in close() after stop(), gone
    player,   \* the play thread
    stream,   \* the CRtpStream: none, live, deleted
    m_bRun,
    handles,  \* the stream's uv handles: open, closing, closed
    m_nHandleNum,
    asStop,   \* uvAsStop has been sent and not been handled
    loop,     \* the stream's loop thread
    jrtp,     \* the jrtp thread
    worker,   \* [st, m_bConnect, m_bParseKey] of the CLiveWorker
    ring,     \* m_pPSRing, frames by number
    psStream, \* m_PsStream: the frame it holds (0: none yet), and m_nStreamReaded
    sent,     \* frames the camera has sent
    accepted, \* those put into the ring, in order
    read,     \* the bytes ffmpeg has been given
    dead      \* the process died

lifeVars == <<stream, m_bRun, handles, m_nHandleNum, asStop>>
bufVars  == <<ring, psStream, accepted, read>>
vars == <<viewer, player, stream, m_bRun, handles, m_nHandleNum, asStop, loop, jrtp, worker,
          ring, psStream, sent, accepted, read, dead>>

Handles  == {"uvTimer", "uvAsStop"}
FrameIds == DOMAIN Frames
Bytes(f) == [k \in 1..Frames[f].len |-> <<f, k>>]

Init ==
    /\ viewer = "there" /\ player = "init"
    /\ stream = "none" /\ m_bRun = FALSE /\ m_nHandleNum = 0 /\ asStop = FALSE
    /\ handles = [h \in Handles |-> "closed"]
    /\ loop = "none" /\ jrtp = "none"
    /\ worker = [st |-> "live", m_bConnect |-> TRUE, m_bParseKey |-> FALSE]
    /\ ring = << >> /\ psStream = [frame |-> 0, readed |-> 0]
    /\ sent = 0 /\ accepted = << >> /\ read = << >>
    /\ dead = FALSE

(* What a thread that uses a deleted object comes to.                      *)
Survives(st) == { ok \in BOOLEAN : st = "live" => ok }

-----------------------------------------------------------------------------
(* The play thread, until ffmpeg reads.                                    *)

(* RtpDecode::Creat: the constructor counts the handles it makes.          *)
OneHandle    == 1
ThreeHandles == 3
HandlesMade  == 2

Creat ==
    /\ ~dead /\ player = "init"
    /\ stream' = "live" /\ m_bRun' = TRUE
    /\ handles' = [h \in Handles |-> "open"] /\ m_nHandleNum' = HandlesMade
    /\ loop' = "run"
    /\ player' = "play"
    /\ UNCHANGED <<viewer, asStop, jrtp, worker, bufVars, sent, dead>>

(* RtpDecode::Play after the camera's answer: Begin starts the jrtp thread.*)
Begin ==
    /\ ~dead /\ player = "play"
    /\ \E ok \in Survives(stream) :
          /\ dead' = ~ok
          /\ jrtp' = IF ok THEN "test" ELSE jrtp
          /\ player' = IF ok THEN "fill" ELSE player
    /\ UNCHANGED <<viewer, lifeVars, loop, worker, bufVars, sent>>

(* RealPlay failed: play() and Play() return, and the worker is left.      *)
PlayFails ==
    /\ ~dead /\ player = "play"
    /\ player' = "returned"
    /\ UNCHANGED <<viewer, lifeVars, loop, jrtp, worker, bufVars, sent, dead>>

-----------------------------------------------------------------------------
(* The play thread in ffmpeg: fill_iobuffer and get_ps_data.               *)

(* fill_iobuffer returns 0 and av_read_frame an error; an error of ffmpeg  *)
(* (no stream found in the data, a read that fails) leads to the same end. *)
NeverGivesUp == FALSE
GivesUp      == ~worker.m_bConnect

ReadEnds ==
    /\ ~dead /\ player = "fill" /\ GivesUp
    /\ player' = "end"
    /\ UNCHANGED <<viewer, lifeVars, loop, jrtp, worker, bufVars, sent, dead>>

FfmpegFails ==
    /\ ~dead /\ player = "fill" /\ read # << >>
    /\ player' = "end"
    /\ UNCHANGED <<viewer, lifeVars, loop, jrtp, worker, bufVars, sent, dead>>

(* A new frame is fetched when the last one has been read to its end.      *)
Unread == IF psStream.frame = 0 THEN << >>
          ELSE SubSeq(Bytes(psStream.frame), psStream.readed + 1, Frames[psStream.frame].len)
BeforeKey == FindFirstKey /\ ~worker.m_bParseKey /\ ~Frames[Head(ring)].key

DropBeforeKey ==
    /\ Unread = << >> /\ ring # << >> /\ BeforeKey
    /\ ring' = Tail(ring)
    /\ UNCHANGED <<worker, psStream, read>>

FindsKey == worker' = [worker EXCEPT !.m_bParseKey = @ \/ FindFirstKey]

(* The frame fits ffmpeg's buffer ...                                      *)
GetWhole(n) ==
    /\ Unread = << >> /\ ring # << >> /\ ~BeforeKey /\ Frames[Head(ring)].len <= n
    /\ FindsKey
    /\ ring' = Tail(ring)
    /\ read' = read \o Bytes(Head(ring))
    /\ UNCHANGED psStream

(* ... or does not, and is kept in m_PsStream for this read and the next.  *)
KeptResumed(f, n) == [frame |-> f, readed |-> psStream.readed + n]
Kept(f, n)        == [frame |-> f, readed |-> n]

GetFirstPart(n) ==
    /\ Unread = << >> /\ ring # << >> /\ ~BeforeKey /\ Frames[Head(ring)].len > n
    /\ FindsKey
    /\ ring' = Tail(ring)
    /\ read' = read \o SubSeq(Bytes(Head(ring)), 1, n)
    /\ psStream' = Kept(Head(ring), n)

GetNextPart(n) ==
    /\ Unread # << >>
    /\ LET len == IF Len(Unread) > n THEN n ELSE Len(Unread)
       IN /\ read' = read \o SubSeq(Unread, 1, len)
          /\ psStream' = [psStream EXCEPT !.readed = @ + len]
    /\ UNCHANGED <<worker, ring>>

FillIoBuffer ==
    /\ ~dead /\ player = "fill" /\ worker.m_bConnect
    /\ \/ DropBeforeKey
       \/ \E n \in ReadSizes : GetWhole(n) \/ GetFirstPart(n) \/ GetNextPart(n)
    /\ UNCHANGED <<viewer, player, lifeVars, loop, jrtp, sent, accepted, dead>>

(* The end of CLiveWorker::Play: wait for the viewer to go, delete this.   *)
AtOnce    == TRUE
MayDelete == ~worker.m_bConnect

DeleteThis ==
    /\ ~dead /\ player = "end" /\ MayDelete
    /\ worker' = [worker EXCEPT !.st = "deleted"]
    /\ player' = "returned"
    /\ UNCHANGED <<viewer, lifeVars, loop, jrtp, bufVars, sent, dead>>

-----------------------------------------------------------------------------
(* The server's loop: CLiveWorker::close() calls stop(), which sends       *)
(* asStop, and then clears m_bConnect.  Viewers who leave before the       *)
(* stream is made are in LivePlay.                                         *)
Stop ==
    /\ ~dead /\ viewer = "there" /\ player # "init"
    /\ asStop' = TRUE
    /\ viewer' = "closing"
    /\ UNCHANGED <<player, stream, m_bRun, handles, m_nHandleNum, loop, jrtp, worker, bufVars, sent, dead>>

ClearConnect ==
    /\ ~dead /\ viewer = "closing"
    /\ worker' = [worker EXCEPT !.m_bConnect = FALSE]
    /\ viewer' = "gone"
    /\ UNCHANGED <<player, lifeVars, loop, jrtp, bufVars, sent, dead>>

-----------------------------------------------------------------------------
(* The stream's loop thread, run_loop_thread.                              *)
AsyncStopCb ==
    /\ ~dead /\ loop = "run" /\ asStop /\ handles["uvAsStop"] = "open"
    /\ asStop' = FALSE
    /\ handles' = [h \in Handles |-> "closing"]
    /\ UNCHANGED <<viewer, player, stream, m_bRun, m_nHandleNum, loop, jrtp, worker, bufVars, sent, dead>>

UdpUvCloseCb(h) ==
    /\ ~dead /\ loop = "run" /\ handles[h] = "closing"
    /\ handles' = [handles EXCEPT ![h] = "closed"]
    /\ m_nHandleNum' = m_nHandleNum - 1
    /\ m_bRun' = (m_bRun /\ m_nHandleNum' # 0)
    /\ loop' = IF m_nHandleNum' = 0 THEN "sleep" ELSE loop
    /\ UNCHANGED <<viewer, player, stream, asStop, jrtp, worker, bufVars, sent, dead>>

(* uv_stop has ended uv_run; after Sleep(20) m_bRun is tested.             *)
DeleteDec ==
    /\ ~dead /\ loop = "sleep"
    /\ IF m_bRun THEN loop' = "run" /\ UNCHANGED stream
                 ELSE loop' = "ended" /\ stream' = "deleted"
    /\ UNCHANGED <<viewer, player, m_bRun, handles, m_nHandleNum, asStop, jrtp, worker, bufVars, sent, dead>>

LoopThread == AsyncStopCb \/ (\E h \in Handles : UdpUvCloseCb(h)) \/ DeleteDec

-----------------------------------------------------------------------------
(* The jrtp thread, JRtpWork.                                              *)
MayRead(v) == IF stream = "deleted" THEN BOOLEAN ELSE {v}

TestRun ==
    /\ ~dead /\ jrtp = "test"
    /\ \E go \in MayRead(m_bRun) : jrtp' = IF go THEN "access" ELSE "bye"
    /\ \E ok \in Survives(stream) : dead' = ~ok
    /\ UNCHANGED <<viewer, player, lifeVars, loop, worker, bufVars, sent>>

(* A packet completes a frame: NextPacket works on the stream and pushes    *)
(* into the worker's ring; a full ring drops the frame.                    *)
Room == Len(ring) < RingSize
PushPsData(f) ==
    IF worker.st = "live" /\ Room
    THEN ring' = Append(ring, f) /\ accepted' = Append(accepted, f)
    ELSE UNCHANGED <<ring, accepted>>

NextPacket ==
    /\ ~dead /\ jrtp = "access" /\ sent < Len(Frames)
    /\ sent' = sent + 1
    /\ \E ok \in Survives(stream), ok2 \in Survives(worker.st) :
          /\ dead' = ~(ok /\ ok2)
          /\ IF ok /\ ok2 THEN PushPsData(sent + 1) ELSE UNCHANGED <<ring, accepted>>
    /\ UNCHANGED <<viewer, player, lifeVars, loop, jrtp, worker, psStream, read>>

(* EndDataAccess, and the wait of a millisecond.                           *)
EndDataAccess ==
    /\ ~dead /\ jrtp = "access"
    /\ \E ok \in Survives(stream) : dead' = ~ok
    /\ jrtp' = "test"
    /\ UNCHANGED <<viewer, player, lifeVars, loop, worker, bufVars, sent>>

ByeDestroy ==
    /\ ~dead /\ jrtp = "bye"
    /\ \E ok \in Survives(stream) : dead' = ~ok
    /\ jrtp' = "ended"
    /\ UNCHANGED <<viewer, player, lifeVars, loop, worker, bufVars, sent>>

JrtpThread == TestRun \/ NextPacket \/ EndDataAccess \/ ByeDestroy

-----------------------------------------------------------------------------
Next ==
    \/ Creat \/ Begin \/ PlayFails
    \/ ReadEnds \/ FfmpegFails \/ FillIoBuffer \/ DeleteThis
    \/ Stop \/ ClearConnect
    \/ LoopThread \/ JrtpThread

Spec == Init /\ [][Next]_vars

(* The threads are scheduled.  play() returns (LivePlay!PlayReturns), and  *)
(* a poll for packets ends.                                                *)
FairSpec ==
    /\ Spec
    /\ WF_vars(Creat) /\ WF_vars(Begin \/ PlayFails)
    /\ WF_vars(ReadEnds) /\ WF_vars(FillIoBuffer) /\ WF_vars(DeleteThis)
    /\ WF_vars(ClearConnect) /\ WF_vars(LoopThread)
    /\ WF_vars(TestRun) /\ WF_vars(EndDataAccess) /\ WF_vars(ByeDestroy)
-----------------------------------------------------------------------------
(* Every variable stays in its type.                                       *)
TypeOK ==
    /\ viewer \in {"there", "closing", "gone"}
    /\ player \in {"init", "play", "fill", "end", "returned"}
    /\ stream \in {"none", "live", "deleted"}
    /\ m_bRun \in BOOLEAN /\ asStop \in BOOLEAN /\ dead \in BOOLEAN
    /\ handles \in [Handles -> {"open", "closing", "closed"}]
    /\ m_nHandleNum \in 0..2
    /\ loop \in {"none", "run", "sleep", "ended"}
    /\ jrtp \in {"none", "test", "access", "bye", "ended"}
    /\ worker \in [st : {"live", "deleted"}, m_bConnect : BOOLEAN, m_bParseKey : BOOLEAN]
    /\ ring \in Seq(FrameIds) /\ Len(ring) <= RingSize
    /\ psStream \in [frame : {0} \union FrameIds, readed : Nat]
    /\ sent \in 0..Len(Frames)
    /\ accepted \in Seq(FrameIds)
    /\ read \in Seq(FrameIds \X (Nat \ {0}))

(* out is the bytes of the frames of s, none missing, repeated or out of   *)
(* turn: it starts with the first byte of the first frame, a byte that is  *)
(* not its frame's last is followed by the frame's next, the last byte of  *)
(* a frame by the first of the next frame, and it ends with the last byte  *)
(* of the last frame.                                                      *)
InTurn(s, b, c) ==
    IF b[2] < Frames[b[1]].len
    THEN c = <<b[1], b[2] + 1>>
    ELSE \E i \in 1..Len(s) - 1 : s[i] = b[1] /\ c = <<s[i + 1], 1>>

AreBytesOf(out, s) ==
    /\ out = << >> <=> s = << >>
    /\ out # << >> => /\ out[1] = <<s[1], 1>>
                     /\ out[Len(out)] = <<s[Len(s)], Frames[s[Len(s)]].len>>
    /\ \A n \in 1..Len(out) - 1 : InTurn(s, out[n], out[n + 1])

KeyFrames(s) == { i \in DOMAIN s : Frames[s[i]].key }
FromKey(s) ==
    IF ~FindFirstKey THEN s
    ELSE IF KeyFrames(s) = {} THEN << >> ELSE SubSeq(s, Min(KeyFrames(s)), Len(s))
Fetched == SubSeq(accepted, 1, Len(accepted) - Len(ring))

(* worker.cpp:601-643 and rtp.cpp:548-550: ffmpeg reads the bytes of the   *)
(* frames the ring took, whole and in order, from the first key frame on,  *)
(* however it cuts its reads and however full the ring was; the ring takes *)
(* no frame twice and none late.                                           *)
FramesReadWhole ==
    /\ accepted = Fetched \o ring
    /\ \A i, j \in DOMAIN accepted : i < j => accepted[i] < accepted[j]
    /\ AreBytesOf(read \o Unread, FromKey(Fetched))

(* main.cpp:40-50, worker.cpp:566-573: as long as the viewer is there the  *)
(* stream and the worker exist, whatever ffmpeg and the network do, and no *)
(* thread dies of either.                                                  *)
SafeWhileWatched ==
    viewer = "there" => stream # "deleted" /\ worker.st = "live" /\ ~dead

(* rtp.cpp:268-276, 317-318: the stream, which holds the loop and its      *)
(* handles, is deleted only when libuv has closed all of them.             *)
HandlesClosedFirst == stream = "deleted" => \A h \in Handles : handles[h] = "closed"

(* rtp.cpp:651-654: a stream that is told to stop is deleted in the end,   *)
(* unless the process dies of the race with the jrtp thread.               *)
StopDeletes == (viewer # "there") ~> (stream = "deleted" \/ dead)

(* worker.cpp:103-110: ffmpeg never waits for ever for the data of a       *)
(* viewer who has left; the worker it reads from is deleted.               *)
ReaderLeaves ==
    (viewer = "gone" /\ player \in {"fill", "end"}) ~> (worker.st = "deleted" \/ dead)
=============================================================================
