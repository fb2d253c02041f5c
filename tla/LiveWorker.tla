----------------------------- MODULE LiveWorker -----------------------------
(***************************************************************************)
(* One connection of a live server (projects/worker, linked into           *)
(* live_server, relay_server, hik_server, ...): the CLiveSession that the  *)
(* uv loop serves (server.cpp) and the CLiveWorker whose thread turns the  *)
(* camera's stream into FLV (worker.cpp).  Both keep a raw pointer to the  *)
(* other; m_bConnect and m_pSession are shared without a lock.             *)
(*                                                                         *)
(* A callback of the loop is one step, except OnClose, whose writes to the *)
(* worker the worker's thread may see one by one.  Where the two threads   *)
(* race to a freed object or a null pointer, the process dies or is lucky. *)
(***************************************************************************)
EXTENDS Integers, Sequences

CONSTANTS
    RingSize,  \* elements m_pFlvRing can hold (1000 in the code)
    MaxFrames  \* bound: buffers the muxer ever writes

ASSUME LiveWorkerAssumption == RingSize \in Nat \ {0} /\ MaxFrames \in Nat

VARIABLES
    client,    \* the viewer: not connected yet, connected, gone
    session,   \* CLiveSession
    socket,    \* its uv_tcp_t
    asyncs,    \* its uv_async_t, asWrite and asClose
    signalled, \* asWrite has been sent and not been handled
    write,     \* the uv_write under way: none, a response, frames
    loopAt,    \* what the loop does: "idle", or a step of OnClose
    worker,    \* CLiveWorker and its thread
    ring,      \* m_pFlvRing
    made,      \* buffers written by the muxer so far
    accepted,  \* those put into the ring, in order
    delivered, \* those the viewer has been sent
    dead       \* the process died

sessVars   == <<session, socket, asyncs, write, loopAt>>
streamVars == <<ring, made, accepted, delivered>>
vars == <<client, session, socket, asyncs, signalled, write, loopAt, worker,
          ring, made, accepted, delivered, dead>>

Frames == 1..MaxFrames
Asyncs == {"asWrite", "asClose"}
Session == [st : {"none", "live", "deleted"}, connected : BOOLEAN, parseHeader : BOOLEAN,
            handlecount : 0..2, writing : BOOLEAN, pWorker : BOOLEAN]
Worker == [at : {"none", "play", "read", "push", "check", "signal", "end", "failed", "gone"},
           m_bConnect : BOOLEAN, m_pSession : BOOLEAN, listed : BOOLEAN, trailer : BOOLEAN]
Write == [kind : {"none", "response", "refusal", "frames"}, frames : Seq(Frames)]

NoWrite == [kind |-> "none", frames |-> << >>]

Init ==
    /\ client = "absent"
    /\ session = [st |-> "none", connected |-> FALSE, parseHeader |-> FALSE,
                  handlecount |-> 0, writing |-> FALSE, pWorker |-> FALSE]
    /\ socket = "none"
    /\ asyncs = [h \in Asyncs |-> "none"]
    /\ signalled = FALSE
    /\ write = NoWrite
    /\ loopAt = "idle"
    /\ worker = [at |-> "none", m_bConnect |-> FALSE, m_pSession |-> FALSE,
                 listed |-> FALSE, trailer |-> FALSE]
    /\ ring = << >> /\ made = 0 /\ accepted = << >> /\ delivered = << >>
    /\ dead = FALSE

-----------------------------------------------------------------------------
(* The uv loop: callbacks of the session.                                  *)
Idle == ~dead /\ loopAt = "idle"

OneHandle  == 1
TwoHandles == 2

OnConnection ==
    /\ Idle /\ client = "absent"
    /\ client' = "here"
    /\ session' = [session EXCEPT !.st = "live", !.connected = TRUE, !.handlecount = TwoHandles]
    /\ socket' = "open"
    /\ asyncs' = [h \in Asyncs |-> "open"]
    /\ UNCHANGED <<signalled, write, loopAt, worker, streamVars, dead>>

(* OnRecv of a request that parses: the worker is made and listed, its     *)
(* thread started, the response written.                                   *)
OnRecv ==
    /\ Idle /\ client = "here" /\ socket = "open" /\ ~session.parseHeader
    /\ write.kind = "none"
    /\ session' = [session EXCEPT !.parseHeader = TRUE, !.pWorker = TRUE, !.writing = TRUE]
    /\ worker' = [worker EXCEPT !.at = "play", !.m_bConnect = TRUE, !.m_pSession = TRUE, !.listed = TRUE]
    /\ write' = [kind |-> "response", frames |-> << >>]
    /\ UNCHANGED <<client, socket, asyncs, signalled, loopAt, streamVars, dead>>

(* OnRecv of one that does not: 400, no worker.  More data on this         *)
(* connection is not modelled.                                             *)
OnRecvBad ==
    /\ Idle /\ client = "here" /\ socket = "open" /\ ~session.parseHeader
    /\ write.kind = "none"
    /\ session' = [session EXCEPT !.parseHeader = TRUE, !.writing = TRUE]
    /\ write' = [kind |-> "refusal", frames |-> << >>]
    /\ UNCHANGED <<client, socket, asyncs, signalled, loopAt, worker, streamVars, dead>>

(* OnSend once the socket is not writing: the whole ring is taken and      *)
(* written.  uv_write refuses a closing socket, and may refuse one that is *)
(* shutting down: then "writing" stays set and the frames are lost.        *)
WritesOn(sk) == { ok \in BOOLEAN : (sk = "open" => ok) /\ (sk = "closing" => ~ok) }

OnSend ==
    /\ session.pWorker
    /\ session' = [session EXCEPT !.writing = ring # << >>]
    /\ ring' = << >>
    /\ \E ok \in WritesOn(socket) :
          write' = IF ok /\ ring # << >> THEN [kind |-> "frames", frames |-> ring] ELSE NoWrite

(* on_uv_async_write.                                                      *)
NeverBusy == FALSE
Busy == session.writing

OnAsyncWrite ==
    /\ Idle /\ signalled /\ asyncs["asWrite"] = "open"
    /\ signalled' = FALSE
    /\ \/ /\ Busy
          /\ UNCHANGED <<session, write, ring>>
       \/ ~Busy /\ OnSend
    /\ UNCHANGED <<client, socket, asyncs, loopAt, worker, made, accepted, delivered, dead>>

(* Faulty: the end of a write only clears "writing".                       *)
WritingDone ==
    /\ session' = [session EXCEPT !.writing = FALSE]
    /\ write' = NoWrite
    /\ UNCHANGED ring
AfterWrite == OnSend

(* on_uv_write: the write has ended, well, with an error or cancelled by   *)
(* uv_close, which is not asked; OnSend goes on with what has come.        *)
Arrived(frames) == IF client = "here" THEN delivered \o frames ELSE delivered

OnWrite ==
    /\ Idle /\ write.kind # "none"
    /\ session.pWorker
    /\ AfterWrite
    /\ delivered' = Arrived(write.frames)
    /\ UNCHANGED <<client, socket, asyncs, signalled, loopAt, worker, made, accepted, dead>>

(* The same after a 400: OnSend reads through the null pWorker.            *)
OnWriteNoWorker ==
    /\ Idle /\ write.kind # "none"
    /\ ~session.pWorker
    /\ dead' = TRUE
    /\ UNCHANGED <<client, session, socket, asyncs, signalled, write, loopAt, worker, streamVars>>

ClientLeaves ==
    /\ client = "here" /\ ~dead
    /\ client' = "gone"
    /\ UNCHANGED <<sessVars, signalled, worker, streamVars, dead>>

(* on_uv_read: end of stream or reset closes the socket, any other error   *)
(* shuts it down first.                                                    *)
OnReadError ==
    /\ Idle /\ client = "gone" /\ socket = "open"
    /\ session' = [session EXCEPT !.connected = FALSE]
    /\ socket' \in {"closing", "shutting"}
    /\ UNCHANGED <<client, asyncs, signalled, write, loopAt, worker, streamVars, dead>>

(* on_uv_shutdown, once nothing is left to write.                          *)
OnShutdown ==
    /\ Idle /\ socket = "shutting" /\ write.kind = "none"
    /\ socket' = "closing"
    /\ UNCHANGED <<client, session, asyncs, signalled, write, loopAt, worker, streamVars, dead>>

(* on_uv_close -> OnClose -> pWorker->close(): _stop, then ...             *)
SwappedClose == <<"disconnect", "unlist", "forget", "asyncs">>
CloseSteps   == <<"unlist", "disconnect", "forget", "asyncs">>

OnUvClose ==
    /\ Idle /\ socket = "closing" /\ write.kind = "none"
    /\ socket' = "closed"
    /\ loopAt' = IF session.pWorker THEN CloseSteps[1] ELSE "asyncs"
    /\ UNCHANGED <<client, session, asyncs, signalled, write, worker, streamVars, dead>>

CloseStep(step) ==
    /\ ~dead /\ loopAt = step
    /\ \E i \in DOMAIN CloseSteps :
          /\ CloseSteps[i] = step
          /\ loopAt' = CloseSteps[i + 1]
    /\ UNCHANGED <<client, session, socket, asyncs, signalled, write, streamVars>>

(* ... the worker leaves _listWorkers, under its lock, ...                 *)
Unlist ==
    /\ CloseStep("unlist")
    /\ worker' = [worker EXCEPT !.listed = FALSE]
    /\ UNCHANGED dead

(* ... m_bConnect = false, on which the thread may delete the worker, ...  *)
Disconnect ==
    /\ CloseStep("disconnect")
    /\ worker' = [worker EXCEPT !.m_bConnect = FALSE]
    /\ UNCHANGED dead

(* ... m_pSession = NULL, maybe in freed memory.                           *)
Forget ==
    /\ CloseStep("forget")
    /\ worker' = [worker EXCEPT !.m_pSession = FALSE]
    /\ dead' \in IF worker.at = "gone" THEN BOOLEAN ELSE {FALSE}

(* ... and uv_close of both asyncs: a signal not handled yet never is.     *)
OnlyAsClose == {"asClose"}
BothAsyncs  == {"asWrite", "asClose"}

CloseAsyncs ==
    /\ ~dead /\ loopAt = "asyncs"
    /\ loopAt' = "idle"
    /\ asyncs' = [h \in Asyncs |-> IF h \in BothAsyncs THEN "closing" ELSE asyncs[h]]
    /\ UNCHANGED <<client, session, socket, signalled, write, worker, streamVars, dead>>

(* on_close of asWrite, asClose.                                           *)
OnClose(h) ==
    /\ Idle /\ asyncs[h] = "closing"
    /\ asyncs' = [asyncs EXCEPT ![h] = "closed"]
    /\ session' = [session EXCEPT !.handlecount = @ - 1,
                                  !.st = IF session.handlecount = 1 /\ ~session.connected
                                         THEN "deleted" ELSE @]
    /\ UNCHANGED <<client, socket, signalled, write, loopAt, worker, streamVars, dead>>

-----------------------------------------------------------------------------
(* The worker's thread: CLiveWorker::Play().                               *)
At(pc) == ~dead /\ worker.at = pc

(* _play() has opened the source, or failed and the thread is over, with   *)
(* the worker left as it is.                                               *)
Opened ==
    /\ At("play")
    /\ \E pc \in {"read", "failed"} : worker' = [worker EXCEPT !.at = pc]
    /\ UNCHANGED <<client, sessVars, signalled, streamVars, dead>>

(* av_read_frame and the muxer give the next buffer to write_buffer.       *)
ReadFrame ==
    /\ At("read") /\ worker.m_bConnect
    /\ made < MaxFrames
    /\ made' = made + 1
    /\ worker' = [worker EXCEPT !.at = "push"]
    /\ UNCHANGED <<client, sessVars, signalled, ring, accepted, delivered, dead>>

(* The source ends, cannot be decoded, or the viewer has gone: the trailer *)
(* is written (one more buffer, or none).                                  *)
SourceEnds ==
    /\ At("read")
    /\ \/ worker' = [worker EXCEPT !.at = "end"] /\ UNCHANGED made
       \/ /\ made < MaxFrames
          /\ made' = made + 1
          /\ worker' = [worker EXCEPT !.at = "push", !.trailer = TRUE]
    /\ UNCHANGED <<client, sessVars, signalled, ring, accepted, delivered, dead>>

Back == IF worker.trailer THEN "end" ELSE "read"

(* ring_insert has room.                                                   *)
Room == Len(ring) < RingSize

(* push_flv_frame, up to ring_insert: not when the viewer has gone or the  *)
(* ring is full.                                                           *)
PushFlvFrame ==
    /\ At("push")
    /\ IF worker.m_bConnect /\ Room
       THEN /\ ring' = Append(ring, made)
            /\ accepted' = Append(accepted, made)
            /\ worker' = [worker EXCEPT !.at = "check"]
       ELSE /\ worker' = [worker EXCEPT !.at = Back]
            /\ UNCHANGED <<ring, accepted>>
    /\ UNCHANGED <<client, sessVars, signalled, made, delivered, dead>>

(* if (m_pSession && m_bConnect) ...                                       *)
CheckSession ==
    /\ At("check")
    /\ worker' = [worker EXCEPT !.at = IF worker.m_pSession /\ worker.m_bConnect
                                       THEN "signal" ELSE Back]
    /\ UNCHANGED <<client, sessVars, signalled, streamVars, dead>>

(* ... m_pSession->AsyncSend(), by which time m_pSession may be NULL, or   *)
(* the session closed (nothing happens) or deleted.                        *)
AsyncSend ==
    /\ At("signal")
    /\ worker' = [worker EXCEPT !.at = Back]
    /\ signalled' = (signalled \/ asyncs["asWrite"] = "open")
    /\ dead' \in IF worker.m_pSession /\ session.st = "live" THEN {FALSE} ELSE BOOLEAN
    /\ UNCHANGED <<client, sessVars, streamVars>>

(* After "need close the client": while (m_bConnect) sleep; delete this.   *)
DeleteThis ==
    /\ At("end") /\ ~worker.m_bConnect
    /\ worker' = [worker EXCEPT !.at = "gone"]
    /\ ring' = << >>
    /\ UNCHANGED <<client, sessVars, signalled, made, accepted, delivered, dead>>

-----------------------------------------------------------------------------
Loop ==
    \/ OnAsyncWrite \/ OnWrite \/ OnWriteNoWorker \/ OnReadError \/ OnShutdown
    \/ OnUvClose \/ Unlist \/ Disconnect \/ Forget \/ CloseAsyncs
    \/ \E h \in Asyncs : OnClose(h)

Thread == SourceEnds \/ PushFlvFrame \/ CheckSession \/ AsyncSend \/ DeleteThis

Viewer == OnConnection \/ OnRecv \/ OnRecvBad \/ ClientLeaves

Next == Viewer \/ Loop \/ Opened \/ ReadFrame \/ Thread

Spec == Init /\ [][Next]_vars

(* The loop serves what is ready: a write ends, with an error once the     *)
(* viewer is gone.  The thread goes on, and leaves its loop once the       *)
(* viewer is gone; opening the source ends (LivePlay!PlayReturns).  The    *)
(* viewer and the source owe nothing.                                      *)
FairSpec ==
    /\ Spec
    /\ WF_vars(Loop)
    /\ WF_vars(Opened)
    /\ WF_vars(PushFlvFrame \/ CheckSession \/ AsyncSend \/ DeleteThis)
    /\ WF_vars(SourceEnds /\ ~worker.m_bConnect)

-----------------------------------------------------------------------------
(* Every variable stays in its type.                                       *)
TypeOK ==
    /\ client \in {"absent", "here", "gone"}
    /\ session \in Session
    /\ socket \in {"none", "open", "shutting", "closing", "closed"}
    /\ asyncs \in [Asyncs -> {"none", "open", "closing", "closed"}]
    /\ signalled \in BOOLEAN
    /\ write \in Write
    /\ loopAt \in {"idle", "unlist", "disconnect", "forget", "asyncs"}
    /\ worker \in Worker
    /\ ring \in Seq(Frames) /\ Len(ring) <= RingSize
    /\ made \in 0..MaxFrames
    /\ accepted \in Seq(Frames) /\ delivered \in Seq(Frames)
    /\ dead \in BOOLEAN

(* What a connected viewer has been sent, is being sent and will be sent   *)
(* is every accepted buffer, once and in order, however the pushes, the    *)
(* signals and the ends of writes interleave.                              *)
NothingLostOrReordered ==
    client = "here" => accepted = delivered \o write.frames \o ring

(* server.cpp:299, OnSend does nothing while a write is under way, and     *)
(* uv_async_send coalesces: no wake-up is lost all the same.  Buffers that *)
(* wait in the ring of an open session are taken by the end of a write, by *)
(* a signal, or by a signal the thread is about to send.                   *)
NoLostWakeup ==
    ring # << >> /\ socket = "open" =>
        write.kind # "none" \/ signalled \/ worker.at \in {"check", "signal"}

(* The session is freed only when libuv is done with all its handles.      *)
SessionOutlivesHandles ==
    session.st = "deleted" =>
        socket = "closed" /\ \A h \in Asyncs : asyncs[h] = "closed"

(* worker.cpp:569-571, 693-703: when the worker has deleted itself, all    *)
(* that may still touch it is the last statement of close(), 702, which    *)
(* comes after m_bConnect = false and thus too late (Forget, dead).  The   *)
(* list of viewers does not have it, and OnSend, which uses pWorker, is    *)
(* called neither by the end of a write nor by a signal.                   *)
WorkerOutlivesUse ==
    worker.at = "gone" =>
        /\ ~worker.listed
        /\ loopAt \notin {"unlist", "disconnect"}
        /\ write.kind = "none"
        /\ ~(signalled /\ asyncs["asWrite"] = "open" /\ loopAt = "idle")

(* When the viewer leaves, everything made for it goes: the session and    *)
(* the worker, unless the source could not be opened or the process died.  *)
LeavingCleansUp ==
    client = "gone" ~> \/ dead
                       \/ session.st = "deleted" /\ worker.at \in {"none", "gone", "failed"}
=============================================================================
