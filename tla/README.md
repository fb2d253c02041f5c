# RelayLive: TLA+ models, model checking and proofs

RelayLive relays video from GB28181 and Hikvision platforms to web players as FLV. The programs under
`src/projects` are small servers that talk to each other over a named-pipe relay (`ipc_server`). This
directory models the ones that carry the logic and states what makes them correct; TLC checks the statements
on small instances and TLAPS proves the central ones for every instance.

Contents: [1 The system](#1-the-system) · [2 Modules](#2-modules-and-how-they-correspond-to-the-code) ·
[3 Runs](#3-runs-bounds-and-what-they-show) · [4 Fairness](#4-fairness) · [5 Proofs](#5-proofs) ·
[6 Divergences](#6-where-the-code-and-its-own-words-part) · [7 Not modelled](#7-what-is-not-modelled-and-why) ·
[8 Plan](#8-plan)

Run from this directory: `tlc -workers 2 -config <run>.cfg <module>.tla`, `tlapm <module>.tla`.
The sources are GB18030; quoted comments are given with a translation.

## 1 The system

A play of a GB28181 camera touches every modelled part:

    viewer --HTTP/WS--> live_server --live_init, live_play, stop_play--> ipc_server --> sip_server --SIP--> camera
       <---- FLV ------ (worker lib) <---- live_init/play_answer --------             (INVITE, BYE)
                             ^------------------------- RTP (PS, H.264) -------------------------------------/

| part | state | operations | talks to | hard behaviour | correct when |
|---|---|---|---|---|---|
| **sip_server: calls and ports** (`SipInvite.cpp`, `SipServer.cpp`, `ipc.cpp`) | `_rtpPorts`; `m_mapDeviceCall` (port → call); `m_mapGlobalCall` (eXosip id → call); `SipCall` heap | `PlayInit`, `RealPlay`/`SendInvite`, `StopSipCall`, `StopSipCallAll`, `OnInviteOK`, `OnInviteFailed` | IPC from live_server; eXosip to cameras | two threads share raw `SipCall*` after the lock is released; a stop in the middle of an INVITE; a client that dies and comes back under its name | a port is pooled or lent to one call; the tables have no dangling entries and leak no call; a call's end ends the dialog |
| **live_server: playing** (`main.cpp`, `ipcex.cpp`) | `_PlayRequests`, `_ID`, one `PlayRequest` per viewer, `RtpData` | `play` (CreateReal, RealPlay, DestoryRequest), `stop`, `on_ipc_recv` | sip_server by message; the worker library by callback | three threads per request without a common lock; request ids counted without one; 30 s time-outs; late answers; leaving before `play` returns | a request is listed exactly while it is used; `play` returns; the server keeps sip_server's protocol; it listens where the camera sends |
| **live_server: RTP** (`rtp.cpp`) | list of packets, last frame, PS ring | `JRtpWork`/`AddPacket`, `push_ps_data`, `get_ps_data`, `DoStart`, destruction | jrtp thread, loop thread, ffmpeg thread | reordering, loss, repetition, 16-bit wrap; three threads at the end of a stream | ffmpeg gets whole frames, in order and once but for frames repeated or overtaken whole |
| **worker library** (`worker/`) | `CLiveSession`, `CLiveWorker`, FLV ring, `_listWorkers` | `OnRecv`, `OnSend`, `OnClose`, `Play`, `push_flv_frame`, `close` | uv loop and one thread per viewer | both objects keep raw pointers to each other; coalesced wake-ups; ring at its limit; three handles to close | buffers keep order; no wake-up is missed; nothing is freed early, everything is freed in the end |
| **sip_server: platform** (`SipRegister.cpp`, `SipMessage.cpp`, `SipServer.cpp`, `SipSubscribe.cpp`) | lease and on-line flag; `_bFirstReg`, `_bSubscribe`, `_lastQueryTime` | `OnRegister`, `OnMessage`, `ExpireThread`, `SubscribeThread` | lower platform by SIP | a new detached thread per report; an unsigned lease; queries that fail; no locks | the first report subscribes; the catalogue is renewed; a silent platform goes off line |
| **sip_server: devices** (`main.cpp`, `script.cpp`, `SipMessage.cpp`) | `g_mapDevs`; the script's database | `on_device`, `on_update_status`, `on_update_postion`, preload | the platform by SIP; the Lua script; control_server by `dev_get` | two copies changed in different orders, fields that may be empty, a restart in between | the database knows what the table shows; coordinates stay in pairs |
| **control_server** (`server.cpp`, `ipc.cpp`) | `_mapClients`, `_mapDevs`, `_ID` | client page, device page (`GetDevsJson`), `on_ipc_recv` | sip_server and the live servers by message | 30 s busy wait on the only loop; answer racing the time-out; restarts of either side | the page lists the living viewers; a device page shows no earlier page's answer; every page is answered |
| **capture_server** (`server.cpp`, `worker.cpp`, `clean.cpp`) | files under year/month/day | capture request, cleaner's scan | ffmpeg, file system, other capture servers | address, directory and file made one after the other beside a process that removes; a clock that turns in between | what was promised is saved; only what is old is deleted; what is old goes |
| relay_server, hik_server, ... | the worker library with other sources | | | | as the worker library |
| ipc_server / uvipc | connections by name | relay, close notice | all servers | order per sender; name reuse | external: the submodule is not in the repository |

The hazards of these parts, each at its line, are listed in `PROJECT.json`.

## 2 Modules and how they correspond to the code

    RtpPortPool            abstract: a port is free or held by one process
        ^ refined by
    SipCalls  = SipServer + a disciplined client     SipServerProofs (the handlers), SipCallsProofs
        ^ refined by
    LivePlay  = SipServer + the live_server program  LivePlayProofs
    RtpReassembly -> RtpStream   RtpProofs           Platform, Devices   PlatformProofs
    LiveWorker   LiveWorkerProofs     ControlServer   ControlProofs     Capture   CaptureProofs

**SipServer** has the state of sip_server's call handling, of the relay and of the cameras, and one action per
handler: `PlayInit`, `SendInvite`, `StopPlay`, `StopPlayAll` run on the IPC thread, `OnInviteOK`,
`OnInviteFailed` on the eXosip thread. A handler is split where its lock is released: `SendInvite` sends the
INVITE and `IndexCall` files the call under its id afterwards (`SipInvite.cpp:128` and `130`), and the SIP thread
holds the pointer of `FindByCallID` across steps (`sip`). `call` is the heap: a deleted call keeps its old fields
for a reader of freed memory. Error paths have actions of their own: empty pool (two answers are sent),
unknown port, INVITE not built or not sent (`SendInvite` returns -1, which `RealPlay` takes for a call id, so there is
no answer: `RealPlayUnsent`), an ACK that cannot be built, a 200 OK without a body (`OnInviteOKThrows`: a null pointer),
`stoi` throwing. `Relay` and `Disconnect` are uvipc as the servers use
it: messages of one sender stay in order, a lost client causes one `close`, messages to a missing client vanish.

**SipCalls** adds the client sip_server can rely on: a process uses only ports it was granted and stops each once.
`EarlyStop` lets it stop before the play answer, `EarlyRestart` lets it come back before its own `close` has been
handled. `hold` is a process' view of a port. It takes a request id (`ClientTakesId`) before it uses it (`ClientInit`).

**LivePlay** puts the real live_server in its place: per viewer a thread in `play()` (field `at`), the uv loop in
`stop()`, the IPC thread in `on_ipc_recv`. The unlocked accesses are modelled by what the build can do:
`RtpData` is read uninitialised (any port), as a null pointer (the process dies) or after its deletion (the
process dies or not). `_ID++` is a load and a store (`LoadId`, `StoreId`), so that two viewers may get one id; `map::insert`
then lists only one of the requests (`CreateReal`). `Patient`, `Timely` and `Apart` narrow the environment to viewers who
wait for `play()`, answers within 30 s, and viewers of a process who do not meet between that load and that store. The refinement `KeepsTheProtocol` maps each `PlayRequest` to `hold` of SipCalls.

**LiveWorker** is one connection: callbacks of the loop (`OnConnection`, `OnRecv`, `OnSend`, `OnWrite`,
`OnReadError`, `OnShutdown`, `OnUvClose`) and steps of the worker's thread (`ReadFrame`, `PushFlvFrame`,
`CheckSession`, `AsyncSend`, `SourceEnds`, `DeleteThis`). `OnClose` is split into its three writes because the
thread sees them one by one. `dead` records an access to freed or null memory that ended the process. Buffers are
numbered; ffmpeg between `get_ps_data` and `write_buffer` is external.

**RtpReassembly** is `AddPacket`: insertion sorted by `Sequence::operator<`, joining of a frame whose parts are all
there, removal of what was joined and of what is too old. The camera numbers packets modulo `SeqSpace`; the network
loses, repeats and delays them.

**RtpStream** is the life of one `CRtpStream` and of the worker it feeds, among four threads: the play thread
(`Creat`, `Begin`, then `FillIoBuffer` from inside ffmpeg until `DeleteThis`), the stream's loop thread
(`AsyncStopCb`, `UdpUvCloseCb`, `DeleteDec`), the jrtp thread (`TestRun`, `NextPacket`, `EndDataAccess`, `ByeDestroy`)
and the server's loop (`Stop`, `ClearConnect`). A packet of RtpReassembly that completes a frame is one `NextPacket`
here. `get_ps_data` is four disjuncts: a frame before the first key frame is thrown away, a frame that fits is read
whole, a longer one is copied to `m_PsStream` and read in parts. A thread that uses a deleted object dies of it or is
lucky; what it reads then is anything (`Survives`, `MayRead`).

**Platform** is the lower platform's lease and the query threads. A registration or keep-alive is two steps
(lease, then status and `AutoQuery`), `ExpireThread` is five (the unsigned `-=` is a load and a store),
`SubscribeThread` seven. `QueryDirtionary` may fail to build or to send the query; the caller stamps the time all the
same (`SipServer.cpp:208`), so `query` and `unsent`, history variables, keep what became of it. Reports that change nothing (401, 400, other messages) are left out. `lease` is a history
variable: what the last report granted and how many rounds have passed since.

**Devices** is `g_mapDevs` beside the database of the Lua script. A catalogue item (`OnNewDevice`, or `OnKnownDevice`
then `ReplaceDevice`), an item of a notification (`OnNotify`, `OnUpdateStatus`, `OnUpdatePostion`) and a mobile
position are the SIP thread's; they are cut where the script is told of one thing and the table, or the script, of
another only afterwards, and `Restart` may come at any cut. Of the 34 fields of `DevInfo` the three with control are kept.

**ControlServer** puts control_server's two threads beside live servers and sip_server. `GetDevsJson` is seven steps
(the busy wait makes every access to `finish` and `info` visible), the IPC thread's `dev_get_answer` three, the last
two under `_csDevs`: `recv.at # "idle"` is the lock. The device table is a version number, so that a fresh answer can be told
from a stale one. `info` touched by both threads at once is torn, or the process dies. A live server's death and
the notice of it are two steps (`Dies`, `CloseNoticed`): with `LateClose` the successor may have sent its list in between,
and `missed` keeps, as a history variable, that the notice or a restart of control_server took a list from the page.

**Capture** has a server process per request and the cleaner on one directory tree. A request reads the clock three
times, then goes through `CreatDir` level by level in two steps each (look, make), then saves; the cleaner's recursion
`scanDir` ... `scanDayDir` is an explicit stack of calls, each with the entries it has still to read, so that every
step of a server may fall between any two of the cleaner's. `CreatDir` makes directories of mode 777 in decimal, which is
01411: `Root` says that the servers may work in them nevertheless.

Each definition that stands for code has its lines in `map` of `PROJECT.json`. Pairs such as `Returned` /
`ReturnedIfIndexed` or `Busy` / `NeverBusy` are an operation and a plausible mistake in it, used to show that a
property depends on the code: with the second in place of the first, the property it is listed with is violated.

## 3 Runs, bounds and what they show

| run | module | distinct states | checks |
|---|---|---|---|
| `sip_pool` | MCSipCalls | 439 111 (with symmetry) | `PortsConserved`, `RightToStop`, `TablesPointToLiveCalls`, `NoCallLeaks`, `PoolRefined` (implements RtpPortPool) |
| `live_protocol` | MCLivePlay | 145 739 (with symmetry) | `KeepsTheProtocol` (implements SipCalls), `ListensWhereCameraSends`, `NoOrphanDialog`, `RequestsListedWhileUsed` |
| `live_crash` | MCLivePlay | 481 512 | `PlayReturns`, `PortsOfTheDeadReturn` |
| `worker_stream` | LiveWorker | 14 999 | `NothingLostOrReordered`, `NoLostWakeup`, `SessionOutlivesHandles`, `WorkerOutlivesUse`, `LeavingCleansUp` |
| `rtp_frames` | MCRtpReassembly | 752 830 | `FramesAreWhole`, `FramesInOrder`, `ListSorted`, `LastIsPacket`, `RtpTypeOK` |
| `stream_data` | MCRtpStream | 10 386 | `FramesReadWhole`, `SafeWhileWatched`, `HandlesClosedFirst`, `StopDeletes`, `ReaderLeaves` |
| `platform_first` | Platform | 271 401 | `SubscribesAfterFirstCatalogue`, `FirstReportSubscribes`, `CatalogueRenewed` |
| `devices` | MCDevices | 253 080 | `RestartLosesNoStatus`, `PositionsAreReports` |
| `control` | ControlServer | 759 576 | `ListsLivingWorkers`, `ListedWhileAwaited`, `AnswerIsFresh`, `EveryPageAnswered` |
| `capture` | Capture | 841 939 | `PromisedIsSaved`, `EarlyOnlyIfMixed`, `OnlyYoungRemain` |
| `sip_orphan`, `platform_expiry` | | | one property each, violated: see section 6 |

- `sip_pool`: two processes, two ports, three calls, one INVITE, one crash with restart, early stops. Two
  processes are the fewest that can take each other's port; two ports let one be lent while the other returns, and one
  process hold both when it dies; with three calls a port is lent, returned and lent again while the answer to the INVITE
  is still due; a crash can hit every stage. Two INVITEs at once are in `live_protocol`. One request id is enough here:
  sip_server only copies it. The abstract pool has no fairness, so symmetry is sound for `PoolRefined` too.
- `live_protocol`: two processes with two viewers each, so that two `play()` threads share one `_PlayRequests`, two ports,
  two plays and two INVITEs in all, by one process or by two. Viewers that have asked never outnumber ports here: with more
  the property is false, since the answer "port -1" of an empty pool is taken for a grant (section 6). It is false, too,
  without `Apart`: two viewers with one id.
- `live_crash`: one viewer, impatient, answers late, lost or doubled, one death of the process and an early restart with
  two request ids, so that an answer to the dead process can meet a request of the same id, and its `close` the
  ports of its successor, whose request meets an empty pool. The viewers of a process share nothing that `play()` could wait
  for but the listing, which is proved for any number of them.
- `worker_stream`: a ring of 2 and 4 buffers: the ring fills, a write takes several buffers, and more come meanwhile.
  `WorkerOutlivesUse` excepts the last statement of `close()` (`worker.cpp:702`), which does come too late (section 6).
- `rtp_frames`: twenty-one packets in frames of one, two and three, the last one open; numbers modulo 20 starting at 14 and
  time stamps modulo 7, so that both wrap and no number is unique in the stream; window 3, one lost, two repeated: frames of
  one and of two packets are repeated whole and short ones overtaken whole, and `FramesInOrder` names exactly these. The
  instance meets what the theorems assume, `WideEnough`: in the code the limit is 32768.
- `platform_first`: two overlapping query threads whose queries may fail, a lease of one round so that expiry meets every
  step. The counter has 4 values, so that it wraps; the program's 2^32 only makes the wrap longer. `platform_expiry`: 16
  values, one thread.
- `stream_data`: five frames, one before the first key frame, longer and shorter than a read of one or two bytes, two
  long ones in a row so that an offset could survive from one to the next; a ring of two fills while ffmpeg is slow. The
  run has `FindFirstKey = TRUE`, which takes every branch of `get_ps_data`; live_server itself starts with false
  (`main.cpp:91`), and the theorems cover both.
- `devices`: two devices, every combination of three statuses and five positions (nothing, "0", two that differ in one
  coordinate, one that differs in both), any number of reports and restarts: the state space is finite without a bound.
- `control`: two live servers with a viewer each and three comings, goings or deaths, `LateClose`; two pages, so that the
  answer to the first may meet the second; one change of the table; one restart of control_server.
- `capture`: a calendar of two months of two days, two years and a day; a year is kept, as with the shipped clean=365
  (`conf/config.txt:67`). Two requests are two servers; a year turns while they read the clock, and pictures grow
  old before the clock stops. `Root`: without it nothing is saved (section 6).

Deadlock checking is off where the instance ends: its bounded calls, packets or reports are used up, and viewers and
cameras may rest. It is on in `devices` and `capture`, whose SIP thread and timer always have another turn.

## 4 Fairness

Only threads of the program are fair, never viewers, cameras or restarts:
the IPC thread per sender pipe and the eXosip thread (it polls every 200 ms) in SipCalls; those, live_server's IPC
thread and each `play()` thread in LivePlay, whose waits poll the clock, so that a time-out is a step that must
come; the uv loop and the worker's thread in LiveWorker, with the assumption that opening a source returns (for
GB28181 it is bounded by the two 30 s waits) and that the read loop ends once `m_bConnect` is false (the read
loop and `fill_iobuffer` test it, `worker.cpp:106, 387`); all threads in Platform, and there the platform's answer to a query;
in RtpStream the four threads' own steps (`play()` returns by `PlayReturns`), not the camera's packets nor ffmpeg's
errors; control_server's loop and IPC threads, not sip_server, which may be absent; the cleaner, whose timer repeats,
not the clock or the servers.
Weak fairness is enough throughout: none of these steps is taken away by another before it happens for ever.

## 5 Proofs

All checked by TLAPS for every value of the constants that meets the named ASSUMEs (ports are positive, no process
is called "none", bounds are naturals, rings have room, the counter's width exceeds its step).

| theorem | says |
|---|---|
| `SipCallsProofs!TypeCorrect` | `Spec => []TypeOK`, early stops and early restarts included |
| `SipCallsProofs!InductiveInvariant` | `Spec => []IInv` when restarts are not early |
| `SipCallsProofs!PoolIsConserved`, `!StopsAreRightful` | `[]PortsConserved`, `[]RightToStop` |
| `SipCallsProofs!PoolIsImplemented` | the refinement `PoolRefined`: SipCalls implements RtpPortPool |
| `SipCallsProofs!CallsDoNotLeak`, `!TablesStayTrue` | `[]NoCallLeaks`, `[]TablesPointToLiveCalls` |
| `SipCallsProofs!NoDialogIsOrphaned` | `[]NoOrphanDialog` without early stops, early restarts and deaths |
| `LivePlayProofs!ProtocolIsKept` | the refinement `KeepsTheProtocol`: live_server is a client of SipCalls, when nothing is hurried, late or dead, no two viewers race for `_ID` and the pool is not empty when asked |
| `LivePlayProofs!CameraHasItsListener`, `!NoCameraIsLeft` | `[]ListensWhereCameraSends`, `[]NoOrphanDialog` of LivePlay, on the same terms |
| `LivePlayProofs!PoolIsNeverEmpty`, `!WithAPortPerViewer` | with a port per viewer the pool is not empty when asked, so the last three hold without that term |
| `LivePlayProofs!TypeCorrect`, `!NoRequestIsStale` | `[]LiveTypeOK`, `[]NoStaleRequest`, nothing excluded |
| `LivePlayProofs!ListedWhileUsed` | `[]RequestsListedWhileUsed`, on `Apart` only |
| `RtpProofs!AgeIsOfAPacket` | `[]LastIsPacket` |
| `RtpProofs!StaysClose` | what operator< compares is less than half the number space apart (`[]Close`), when the numbers are `WideEnough` |
| `RtpProofs!ListIsSorted`, `!PushedAreWhole` | `[]ListSorted`, `[]FramesAreWhole`, on the same terms |
| `RtpProofs!PushedInOrder` | `[]FramesInOrder`, on the same terms |
| `RtpProofs!ReadIsWhole` | `[]FramesReadWhole` |
| `RtpProofs!WatchedIsSafe`, `!StreamOutlivesHandles` | `[]SafeWhileWatched`, `[]HandlesClosedFirst` |
| `LiveWorkerProofs!SessionIsLast`, `!WorkerIsLast` | `[]SessionOutlivesHandles`, `[]WorkerOutlivesUse` |
| `LiveWorkerProofs!DeliveredInOrder`, `!WakeupsAreKept` | `[]NothingLostOrReordered`, `[]NoLostWakeup` |
| `PlatformProofs!SubscriptionWaits` | no subscription before the first catalogue of a timely platform, unless a query failed |
| `PlatformProofs!StatusSurvives`, `!PositionsStayPaired` | `[]RestartLosesNoStatus`, `[]PositionsAreReports` of Devices |
| `ControlProofs!PageListsViewers` | `[]ListsLivingWorkers` |
| `ControlProofs!RequestOutlivesReceipt`, `!PageIsFresh` | `[]ListedWhileAwaited`, `[]AnswerIsFresh` |
| `CaptureProofs!PromisesAreKept`, `!NothingGoesEarly` | `[]PromisedIsSaved`, and the action property `EarlyOnlyIfMixed`, for any number of days kept |
| `TypeCorrect` of Platform-, Control-, Rtp-, LiveWorker- and CaptureProofs, `DevicesTypeCorrect`, `RtpTypeCorrect` | the type invariant of each module |

**Ports.** `PortsConserved` is not inductive. A `stop_play` that arrives for a port not lent would pool it twice, so the
argument needs where the right to stop a port may be: in an init answer under way, with the process (`hold`), or in
the `stop_play` on its way back, in one of the three only, and while it exists the port is lent to that process
(`RightToStop`). For that to survive a crash, a process that is gone holds nothing, and its `close` is the last
message in its pipe, so that no stop can follow the release of all its ports (`CloseIsLast`); `DeviceTable` says
which call a port is lent through. `IInv` is the conjunction of these with `TypeOK`. The proof has a lemma per
action; `Frame`, `CloseFrame`, `ReceiveOnly` and `NoReceive` are the shared facts about steps that disturb only
messages. The assumption `~EarlyRestart` is needed: without it `PortsConserved` is false (section 6).

**Refinement and tables.** `TableSteps` sorts the steps by what they do to the device table: lend a port, take one
back, take a process' back, or leave it alone. Under `IInv` the first three are steps of RtpPortPool under the
mapping `Holder` and the last a stutter; the same four cases keep `NoCallLeaks`. The call-id index needs more: a
second INVITE of a call would leave its first entry behind, so `PlaysOnce` says that the right to play a port, like the
right to stop it, is in one place, that its call has not been invited while it exists (`Fresh`), and that no live_play
waits behind a stop_play of its port. `IndexInv` adds that the call between INVITE and index is live (`InvitedCall`).

**Platform.** `SubscriptionWaits` rests on `_bSubscribe` meaning that the catalogue is complete or a query was never sent,
the flag being set only after the sleep. **Devices.** `StatusInv`: table and database agree on every status except for the one device the SIP thread is
at between script and table, and there the database already has the item's status.

**control_server.** `ListInv`: when no notice of a death is due, the last message on its way from a live server is its list
as it is, or the `close` of a predecessor when the list is empty or the close took it, and with none on its way the page
is right. `AnswerIsFresh` needs `Once` (until control_server is restarted an id is used
once, so a request has at most one message under way), `Ages` (no message is older than the page it answers, or
than the restart) and `ReqState` (what the request holds once it is finished).

**Streams and workers.** `RtpProofs!LifeInv` counts the handles that are not closed, says they are closed
together, and that until the viewer leaves nobody tells the stream to stop. `LiveWorkerProofs!LifeInv` says the socket's
life decides over the loop's and the asyncs', the worker lets go of the viewer only in `OnClose`, and a write is
under way exactly when the session says so; delivery and wake-ups follow from it with the sequences of buffers.

**live_server.** `LiveInv`: a process which is gone has no thread left (without that a request could keep an id that its
restarted process has yet to give out); no listed request is stale and no two are listed under one id, which `map::insert`
and the erasing by id see to even when ids are equal; and, as long as `Apart`, ids given out and in use differ and are below
`_ID` unless they are about to be stored (`IdsStayApart`). From the last it follows that `insert` never fails
(`ListedUnderApart`). A lemma per thread; the steps of sip_server need no more than that they leave the processes' state
alone, which `SipServerProofs` shows.

**No camera is left.** `NoOrphanDialog` of SipCalls rests on `DialogInv`: every INVITE is filed with the call that sent it
(`DialogsAreFiled`), a call that has still to be answered, indexed or refused is one that somebody waits for
(`DueCallsAreAwaited`), and the stages of a lent port (granted, asked, playing, on its way in an answer or a stop) say
whether its call was invited and whether the dialog has settled (`PortStages`), so that a stop can only meet a dialog that
the BYE ends. Both hypotheses matter: with an early stop TLC orphans a camera (section 6), and so it does when a process
dies while its INVITE is unanswered.

**live_server is that client.** `ProtocolInv` relates each `PlayRequest` to what SipCalls says of its process under the
mapping `Hold` (a port is granted, asked for or playing if one of the viewers' records says so): two viewers of a process
differ in their ids and in their ports (`IdsDiffer`, `PortsDiffer`), a live_init or its answer under way belongs to a viewer
that waits for it and to one only (`Requests`), answers and viewers carry the id of the call the port is lent through
(`Answers`, `OwnIds`), and the stops under way are of the client's making (`PlainStops`). `SipCallsProofs` is instantiated
with the mapping as `P`, so `DialogInv` is inherited: each step of LivePlay is shown to be a step of SipCalls or a stutter,
one lemma per action (`...Simulated`), and `P!NextDialogs` carries the invariant over it. What SipCalls proves of ports,
tables and dialogs thereby holds of the program. The hypotheses are those under which the program keeps the protocol at
all: an impatient viewer stops uninitialised or foreign ports, a late answer leaves a port nobody knows of, of two viewers
with one id one may get the other's port, and -1 from an empty pool is taken for a grant (section 6).

**Enough ports.** `Placed`: each lent port has a viewer's place of its own. The viewer owns the port (`Owns`), or waits for
the answer on its way that grants it (`Gets`), or has given it back in a `stop_play` that is ahead of any request it has
made since (`GivesBack`). The viewer whose request sip_server reads has no place (`AskerHasNoPlace`), so if all ports were
lent there would be fewer places than ports. A viewer that comes again at once is the case that decides it: its old port
is back only because the pipe keeps the order of its messages. `live_protocol` has as many ports as viewers, the least for
which this is claimed.

**What ffmpeg reads.** `FramesReadWhole` compares what was read with the frames fetched byte by byte (`AreBytesOf`: each
byte is followed by the one whose turn it is), not with their concatenation, which is recursive. `ReadInv` adds that
`m_bParseKey` says whether a key frame has been fetched and that nothing accepted is ahead of the camera. A frame
that is fetched is read or kept as a whole (`OneMoreFrame`, `OneMoreFetched`), a further read only moves bytes from what is
kept to what is read.

**RTP packets.** `operator<` is an order only among numbers less than half their space apart. `Close` says that the packets
under way and the keys of the list are; while it holds, `Order` is inductive: the list is sorted by the camera's
numbers, each entry's sequence number and header flag are those of its first packet, and what was joined or pushed is whole.
That a joined frame is never last needs no hypothesis.

`Close` does not hold of every instance (with 8 numbers TLC finds a packet that overtakes the whole list), but it is an
invariant when the constants are `WideEnough(reach)`: more than `MaxAge` frames pass in `reach` packets, `reach` with the
window and the losses stays below half the numbers, and no more frames than there are time stamps pass in as
many. In the code half the numbers are 32768, time stamps have 32 bits, and the age limit is `outtime` (`rtp.cpp:539`), by
default about a second: `reach` is the number of packets of a second, a few thousand. `MaxLost` is the bound on all losses of
a stream, which is more than the argument would need of the losses in one second. The length of the stream and the number of
wraps are not bounded. The inductive invariant is `Near`: the last entry of the list, the
`Frontier`, is the newest packet received; the others are less than `reach` behind it, because `AddPacket` drops from the
front what is too old and time stamps give the age rightly (`Dated`, `AgeFacts`); and what was sent after it (`Unseen`) is under
way, so within the window, or lost. `NearIsClose` combines these, and `LeavingNear` is the step that needs all of them. `Near` and
`Close` need the sorted list and the sorted list needs `Close`, so `StaysClose` carries the three together.

**Frames in order.** `m_nDoneSeq` and `m_bDoneFirst` are never set (`rtp.cpp:119`, `441`), so no packet counts as older than what
has been pushed, and order rests on the stream: `FramesInOrder` says that a frame is pushed again only if as many packets
were repeated as it has (`Repeated`), and after a later one only if both lie within what may overtake a packet (`Overtaken`).
TLC reaches both. `InOrder` is the inductive invariant: of a pushed frame that is not repeated, and of each one before it
that is not overtaken, some packet is neither under way nor listed, so that it can never be joined again. When a frame
leaves the list that packet exists because `Twice`, the packets that are in two places at once, has no more members than
there were repetitions (`TwiceInserted`, `TwiceJoined`, `TwiceCut`: no step but a repetition adds one); for the frames before
it, because what is under way is not further behind than the window.

**Captures.** `IInv` follows a request through its stages (`Stage`), keeps the directories a tree (`Tree`), says that the
cleaner's stack of calls goes down that tree into old directories only (`CallIsOld`), and that the directories a promised
request has passed stand (`PathStands`). That holds because a request works on two days at most, and a year directory that was not old
by the midnight after the request (`BornOld`) is young until it is done: the calendar lemmas (`DivMod` and those after it) bound the age of a
year's, a month's and a day's directory by that of its first day.

Only model-checked is liveness (`PlayReturns`, `PortsOfTheDeadReturn`, `LeavingCleansUp`, `StopDeletes`, `ReaderLeaves`,
`FirstReportSubscribes`, `CatalogueRenewed`, `EveryPageAnswered`, `OnlyYoungRemain`), which is out of the prover's reach. Every
safety invariant and action property of a passing run is stated by a theorem. `NoStaleRequest` is proved only.

The type invariants of all modules but RtpReassembly are proved and not checked again by a run.

## 6 Where the code and its own words part

With a run that finds the counterexample:

- `sip_orphan` (`SipInvite.cpp:284`): a play stopped between INVITE and 200 OK sends no BYE, and the late answer finds
  no call (`205`): it is neither acknowledged nor ended, the camera stays in the dialog, and its port may be lent to
  somebody else.
- `platform_expiry` (`SipServer.cpp:252`): a registration with Expires 0 puts the platform on line and the
  unsigned lease wraps below zero. The flag `g_bLowStatus` has no other reader, but the lease decides whether messages
  are answered (`SipMessage.cpp:504`).

Met while modelling, without a run of their own; the first five are reachable in the models and shown by the constant named:

- `ipc.cpp:53`: the `close` of a dead live_server is matched by name, so it ends the calls of its successor, whose
  stops then pool the ports a second time (SipCalls with `EarlyRestart = TRUE` violates `PortsConserved`).
- `ipcex.cpp:77`: `req->id = _ID++` is outside the lock and runs on a thread per viewer. Two viewers may get one id; the second
  `insert` (`82`) then fails, and both answers go to the first request: it may be given the other viewer's port, and the
  other waits 30 s (LivePlay with two viewers and `Apart = FALSE` violates `RequestsListedWhileUsed`).
- `SipServer.cpp:72`: a timed-out `CreateReal` leaves port 0, and `stop_play 0` puts 0 into the pool (LivePlay with
  `Timely = FALSE` reaches it).
- `rtp.cpp:318`: `Stop` is described as "停止CRtpStream的接收，并删除实例" (stops the reception and deletes the instance, `rtp.h:25`),
  but the instance is deleted without waiting for the jrtp thread. Since that thread leaves its loop only after `m_bRun`
  is cleared, and then spends up to 10 s in `BYEDestroy` of the member `sess`, it nearly always runs on a deleted stream
  (RtpStream lets the process die of it: `dead`).
- `worker.cpp:702`: `close()` writes `m_pSession` after `m_bConnect = false`, upon which the thread may delete the worker
  (LiveWorker: `Forget`).
- `worker.cpp:567`: when the source ends the log says "need close the client", and nothing closes it; the viewer waits.
- `rtp.cpp:261`: `timer_cb` is empty although `rtp.cpp:360` speaks of a time-out of the reception ("udp接收超时判断").
- `main.cpp:37-38`: a catalogue item that moved in one coordinate only is shown and never stored; `main.cpp:43`: an item
  without coordinates erases the position the table shows; `SipMessage.cpp:349`: a mobile position without coordinates
  overwrites both table and database, where a notification is tested first (`308`).
- control_server's `ipc.cpp:114-116`: time-out and answer write `info` at once. `ipc.cpp:27`: after a restart of
  control_server a live server's viewers are missing until they next change; a `close` that comes after the successor's first
  list removes it (both are `missed` in ControlServer). `ipc.cpp:111`: while one page waits for sip_server no other is served, for 30 s.
- capture_server's `server.cpp:272`: a request at the turn of the year may be filed a year too old and deleted within minutes,
  against `README.md:101` "超出天数的文件自动清理" (files older than the number of days are cleaned).
  `server.cpp:44-51`: two servers that make the same directory at once: the loser's `CreatDir` returns -1, unread, and
  deeper directories are not made. `clean.cpp:120`: with clean=365 (`conf/config.txt:67`) a year directory made on a
  year's last day, or a leap year's last two, is old at birth, and may be removed while it is still empty. `server.cpp:47`:
  the mode is 777 in decimal, 01411, in which the owner may neither search nor write; a server that is not root cannot make
  the month's directory and saves nothing (Capture with `Root = FALSE`). `clean.cpp:26`: days count from midnight, so a
  picture may go almost 24 hours before it is 365 days old. `clean.cpp:44`: entries of unknown type are never deleted.
- `hik_server/live.cpp:183-196`: the HTTP close falls through into the WebSocket close and calls `close()` twice.
- `SipInvite.cpp:130`: the 200 OK may come before the call is indexed; it is dropped and `play()` times out.
- `ipcex.cpp:92, 117`: a time-out sets `ret = 0`, which `ipcex.h:9` calls failure ("0失败， 1成功") and `play()` takes for
  success (`main.cpp:27`).
- `ipc.cpp:19-33`, `SipServer.cpp:683`: an empty pool is answered twice, first with port -1 (4294967295 on the wire),
  which `play()` then uses; its `stop_play` makes `stoi` throw at `ipc.cpp:52`, which ends sip_server.
- `main.cpp:41-44`: a viewer who leaves during `CreateReal` stops whatever number is in memory; the port granted
  afterwards is not given back.
- `worker.cpp:676`: `m_pSession` is tested and then used while the loop sets it to null and deletes the session.
- `server.cpp:305`: after a refused request `OnSend` uses a null `pWorker`.
- `worker.cpp:165`: when the source cannot be opened the thread ends and the worker is never freed.
- `rtp.cpp:441`: `m_bDoneFirst` is never set, so a whole frame repeated by the network is given to ffmpeg twice
  (`FramesInOrder` without `Repeated` is violated), and one overtaken whole after its successor; `rtp.cpp:41`: after a gap of half the number space new packets are
  dropped as old; `rtp.cpp:436`: a packet of another payload type is not freed.
- `SipServer.cpp:208`: the time of the query is stamped although it could not be built or sent (`SipMessage.cpp:545`, `568`); the
  platform is then not asked again for an hour, and the subscription may come before any catalogue.
- `SipServer.cpp:201-202`: two reports in a row may both find `_bFirstReg` set and subscribe twice.

## 7 What is not modelled, and why

- Record play (`SendRecordInvite`, `RecordPlay`): no IPC message leads to it.
- ffmpeg, jrtplib, eXosip, libuv, uvipc, the Lua interpreter and its scripts, file systems: external, modelled by how
  `src/` uses them.
- Formatting and parsing of requests, SDP and XML: only the fields the control reads are kept. WebSocket framing and PTZ
  bytes are pure conversions. The HTTP parsing of control_server and capture_server is left out.
- relay_server is LiveWorker with ffmpeg's own source; the Hikvision servers are glue around a vendor SDK whose behaviour
  the repository does not have.
- `src/modules`: an earlier monolithic server that neither the solution nor the makefiles build.
- `src/common`, third-party code, configuration, and the web pages with their players (`NodePlayer.js`, `flv.js`, `wfs.js`:
  compiled or bundled third-party players, served as files and not run by any of these programs).

## 8 Plan

1. WebSocket frame lengths and PTZ command bytes as operators, against reference definitions.
