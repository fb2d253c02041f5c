----------------------------- MODULE RtpProofs ------------------------------
(***************************************************************************)
(* Theorems about the RTP stream of live_server (rtp.cpp and the PS buffer *)
(* of worker.cpp): the life of the stream and the threads around it, which *)
(* is RtpStream, and what AddPacket does to the packets, RtpReassembly.    *)
(***************************************************************************)
EXTENDS RtpStream, RtpReassembly, FiniteSetTheorems, SequenceTheorems, TLAPS

-----------------------------------------------------------------------------
(***************************************************************************)
(* RtpStream, for every sequence of frames, ring size and room ffmpeg      *)
(* offers: the life of the stream, of its handles and of the worker, and   *)
(* the types of the buffer.                                                *)
(***************************************************************************)

(* The types of what decides over the life of the two objects.             *)
LifeTypes ==
    /\ viewer \in {"there", "closing", "gone"}
    /\ player \in {"init", "play", "fill", "end", "returned"}
    /\ stream \in {"none", "live", "deleted"}
    /\ m_bRun \in BOOLEAN /\ asStop \in BOOLEAN /\ dead \in BOOLEAN
    /\ handles \in [Handles -> {"open", "closing", "closed"}]
    /\ m_nHandleNum \in 0..2
    /\ loop \in {"none", "run", "sleep", "ended"}
    /\ jrtp \in {"none", "test", "access", "bye", "ended"}
    /\ worker \in [st : {"live", "deleted"}, m_bConnect : BOOLEAN, m_bParseKey : BOOLEAN]

(* m_nHandleNum counts the handles that are not closed.                    *)
NotClosed(h) == IF handles[h] = "closed" THEN 0 ELSE 1
Counted == m_nHandleNum = NotClosed("uvTimer") + NotClosed("uvAsStop")

(* The two handles are closed together.                                    *)
Together == \A g, h \in Handles : handles[g] = "open" => handles[h] = "open"

(* Until the viewer leaves nobody tells the stream to stop, and its loop   *)
(* runs with both handles open.                                            *)
Watched ==
    viewer = "there" =>
        /\ ~asStop /\ ~dead /\ worker.st = "live" /\ worker.m_bConnect
        /\ \/ player = "init" /\ stream = "none" /\ loop = "none" /\ jrtp = "none"
           \/ /\ player # "init" /\ stream = "live" /\ loop = "run"
              /\ \A h \in Handles : handles[h] = "open"

LifeInv ==
    /\ LifeTypes /\ Counted /\ Together /\ Watched
    /\ loop = "none" => stream = "none"
    /\ player = "init" => viewer = "there"
    /\ loop = "sleep" \/ stream = "deleted" => m_nHandleNum = 0

LEMMA InitLife == Init => LifeInv
<1> SUFFICES ASSUME Init PROVE LifeInv
    OBVIOUS
<1>1. handles["uvTimer"] = "closed" /\ handles["uvAsStop"] = "closed"
  <2>1. handles = [h \in Handles |-> "closed"] /\ "uvTimer" \in Handles /\ "uvAsStop" \in Handles
        BY DEF Init, Handles
  <2> QED BY <2>1
<1>2. LifeTypes
  <2>1. handles \in [Handles -> {"open", "closing", "closed"}]
        BY DEF Init
  <2>2. worker \in [st : {"live", "deleted"}, m_bConnect : BOOLEAN, m_bParseKey : BOOLEAN]
        BY DEF Init
  <2>3. m_bRun \in BOOLEAN /\ asStop \in BOOLEAN /\ dead \in BOOLEAN
        BY DEF Init
  <2>4. /\ viewer = "there" /\ player = "init" /\ stream = "none" /\ m_nHandleNum = 0
        /\ loop = "none" /\ jrtp = "none"
        BY DEF Init
  <2> QED BY <2>1, <2>2, <2>3, <2>4 DEF LifeTypes
<1>3. Counted
      BY <1>1 DEF Init, Counted, NotClosed
<1>4. Watched
      BY DEF Init, Watched
<1>5. Together
      BY <1>1 DEF Together, Handles
<1> QED BY <1>2, <1>3, <1>4, <1>5 DEF Init, LifeInv

LEMMA SurvivesLive ==
    /\ \A st : Survives(st) \subseteq BOOLEAN
    /\ \A ok \in Survives("live") : ok
BY DEF Survives

LEMMA LifeStep == LifeInv /\ [Next]_vars => LifeInv'
<1> SUFFICES ASSUME LifeInv, [Next]_vars PROVE LifeInv'
    OBVIOUS
<1> USE DEF LifeInv, LifeTypes, lifeVars
<1>1. CASE Creat
      BY <1>1 DEF Creat, Counted, NotClosed, Together, Watched, Handles, HandlesMade, bufVars
<1>2. CASE Begin
  <2>1. PICK ok \in Survives(stream) : dead' = ~ok /\ jrtp' = (IF ok THEN "test" ELSE jrtp)
                                      /\ player' = (IF ok THEN "fill" ELSE player)
        BY <1>2 DEF Begin
  <2>2. ok \in BOOLEAN /\ (viewer = "there" => ok)
        BY <1>2, <2>1, SurvivesLive DEF Begin, Watched
  <2>3. LifeTypes'
        BY <1>2, <2>1, <2>2 DEF Begin
  <2>4. Counted' /\ Together' /\ Watched'
        BY <1>2, <2>1, <2>2 DEF Begin, Counted, NotClosed, Together, Watched
  <2> QED BY <1>2, <2>1, <2>2, <2>3, <2>4 DEF Begin
<1>3. CASE PlayFails \/ ReadEnds \/ FfmpegFails
      BY <1>3 DEF PlayFails, ReadEnds, FfmpegFails, Counted, NotClosed, Together, Watched
<1>4. CASE FillIoBuffer
  <2>1. /\ UNCHANGED <<viewer, player, lifeVars, loop, jrtp, dead>>
        /\ worker' \in [st : {"live", "deleted"}, m_bConnect : BOOLEAN, m_bParseKey : BOOLEAN]
        /\ worker'.st = worker.st /\ worker'.m_bConnect = worker.m_bConnect
        BY <1>4, RtpStreamAssumption
        DEF FillIoBuffer, DropBeforeKey, GetWhole, GetFirstPart, GetNextPart, FindsKey
  <2> QED BY <2>1 DEF Counted, NotClosed, Together, Watched
<1>5. CASE DeleteThis
      BY <1>5 DEF DeleteThis, MayDelete, Counted, NotClosed, Together, Watched
<1>6. CASE Stop
      BY <1>6 DEF Stop, Counted, NotClosed, Together, Watched
<1>12. CASE ClearConnect
  <2>1. worker' \in [st : {"live", "deleted"}, m_bConnect : BOOLEAN, m_bParseKey : BOOLEAN]
        BY <1>12 DEF ClearConnect
  <2> QED BY <1>12, <2>1 DEF ClearConnect, Counted, NotClosed, Together, Watched
<1>7. CASE AsyncStopCb
  <2>1. /\ UNCHANGED <<viewer, player, stream, m_bRun, m_nHandleNum, loop, jrtp, worker, dead>>
        /\ asStop /\ ~asStop' /\ loop = "run"
        /\ handles' \in [Handles -> {"open", "closing", "closed"}]
        /\ \A h \in Handles : handles'[h] = "closing"
        BY <1>7 DEF AsyncStopCb
  <2>2. asStop' \in BOOLEAN
        BY <1>7 DEF AsyncStopCb
  <2>3. \A h \in Handles : handles[h] # "closed"
        BY <1>7 DEF AsyncStopCb, Together, Handles
  <2> QED BY <2>1, <2>2, <2>3 DEF Counted, NotClosed, Together, Watched, Handles
<1>8. ASSUME NEW h \in Handles, UdpUvCloseCb(h) PROVE LifeInv'
      BY <1>8 DEF UdpUvCloseCb, Counted, NotClosed, Together, Watched, Handles
<1>9. CASE DeleteDec
      BY <1>9 DEF DeleteDec, Counted, NotClosed, Together, Watched
<1>10. CASE JrtpThread
  <2>1. /\ UNCHANGED <<viewer, player, lifeVars, loop, worker>>
        /\ jrtp # "none" /\ jrtp' \in {"test", "access", "bye", "ended"}
        BY <1>10 DEF JrtpThread, TestRun, NextPacket, EndDataAccess, ByeDestroy
  <2>2. dead' \in BOOLEAN /\ (viewer = "there" => ~dead')
    <3>1. viewer = "there" => stream = "live" /\ worker.st = "live"
          BY <2>1 DEF Watched
    <3>2. PICK ok \in Survives(stream), ok2 \in Survives(worker.st) : dead' = ~ok \/ dead' = ~(ok /\ ok2)
          BY <1>10 DEF JrtpThread, TestRun, NextPacket, EndDataAccess, ByeDestroy, Survives
    <3> QED BY <1>10, <3>1, SurvivesLive DEF JrtpThread, TestRun, NextPacket, EndDataAccess, ByeDestroy
  <2> QED BY <2>1, <2>2 DEF Counted, NotClosed, Together, Watched
<1>11. CASE UNCHANGED vars
      BY <1>11 DEF vars, Counted, NotClosed, Together, Watched
<1> QED BY <1>1, <1>2, <1>3, <1>4, <1>5, <1>6, <1>7, <1>8, <1>9, <1>10, <1>11, <1>12 DEF Next, LoopThread

LEMMA LifeInvariant == Spec => []LifeInv
BY InitLife, LifeStep, PTL DEF Spec

(* As long as the viewer is there, the stream and the worker exist and no  *)
(* thread dies of either, whatever the camera sends and ffmpeg does.       *)
THEOREM WatchedIsSafe == Spec => []SafeWhileWatched
<1>1. LifeInv => SafeWhileWatched
      BY DEF LifeInv, LifeTypes, Watched, SafeWhileWatched
<1> QED BY <1>1, LifeInvariant, PTL

(* The stream is deleted only when libuv has closed both of its handles.   *)
THEOREM StreamOutlivesHandles == Spec => []HandlesClosedFirst
<1>1. LifeInv => HandlesClosedFirst
      BY DEF LifeInv, LifeTypes, Counted, NotClosed, HandlesClosedFirst, Handles
<1> QED BY <1>1, LifeInvariant, PTL

-----------------------------------------------------------------------------
(* The buffer.                                                             *)
Read == FrameIds \X (Nat \ {0})
BufTypes ==
    /\ ring \in Seq(FrameIds) /\ Len(ring) <= RingSize
    /\ psStream \in [frame : {0} \union FrameIds, readed : Nat]
    /\ sent \in 0..Len(Frames)
    /\ accepted \in Seq(FrameIds)
    /\ read \in Seq(Read)

LEMMA FrameTypes ==
    /\ FrameIds = 1..Len(Frames) /\ Len(Frames) \in Nat
    /\ \A f \in FrameIds : Frames[f].len \in Nat \ {0}
<1> DEFINE Described == [len : Nat \ {0}, key : BOOLEAN]
<1>1. Frames \in Seq(Described)
      BY RtpStreamAssumption
<1>2. \A f \in Described : f.len \in Nat \ {0}
      OBVIOUS
<1> HIDE DEF Described
<1>3. FrameIds = 1..Len(Frames) /\ Len(Frames) \in Nat
      BY <1>1 DEF FrameIds
<1>4. \A f \in FrameIds : Frames[f] \in Described
      BY <1>1, <1>3
<1> QED BY <1>2, <1>3, <1>4

LEMMA BytesTypes ==
    ASSUME NEW f \in FrameIds
    PROVE  Bytes(f) \in Seq(Read) /\ Len(Bytes(f)) = Frames[f].len
<1>1. Frames[f].len \in Nat
      BY FrameTypes
<1>2. \A k \in 1..Frames[f].len : <<f, k>> \in Read
      BY <1>1 DEF Read
<1> QED BY <1>1, <1>2 DEF Bytes

LEMMA LengthIsNat == ASSUME NEW S, NEW s \in Seq(S) PROVE Len(s) \in Nat
OBVIOUS

LEMMA PartOf ==
    ASSUME NEW S, NEW s \in Seq(S), NEW m \in Nat \ {0}, NEW n \in 0..Len(s)
    PROVE  SubSeq(s, m, n) \in Seq(S)
OBVIOUS

LEMMA UnreadTypes ==
    ASSUME BufTypes
    PROVE  Unread \in Seq(Read)
<1>1. CASE psStream.frame = 0
      BY <1>1 DEF Unread
<1>2. CASE psStream.frame # 0
  <2>1. psStream.frame \in FrameIds /\ psStream.readed + 1 \in Nat \ {0}
        BY <1>2 DEF BufTypes
  <2>2. Frames[psStream.frame].len \in 0..Len(Bytes(psStream.frame))
        BY <2>1, BytesTypes, FrameTypes
  <2> QED BY <1>2, <2>1, <2>2, BytesTypes, PartOf DEF Unread
<1> QED BY <1>1, <1>2

LEMMA FillTypes ==
    ASSUME BufTypes, FillIoBuffer
    PROVE  BufTypes'
<1> USE DEF BufTypes
<1>0. sent' = sent /\ accepted' = accepted
      BY DEF FillIoBuffer
<1>1. ring # << >> => /\ Head(ring) \in FrameIds /\ Tail(ring) \in Seq(FrameIds)
                      /\ Len(Tail(ring)) <= RingSize
      BY RtpStreamAssumption
<1>2. CASE DropBeforeKey
      BY <1>0, <1>1, <1>2 DEF DropBeforeKey
<1>3. ASSUME NEW n \in ReadSizes, GetWhole(n) PROVE BufTypes'
  <2>1. Bytes(Head(ring)) \in Seq(Read)
        BY <1>1, <1>3, BytesTypes DEF GetWhole
  <2>2. read' \in Seq(Read)
        BY <1>3, <2>1 DEF GetWhole
  <2> QED BY <1>0, <1>1, <1>3, <2>2 DEF GetWhole
<1>4. ASSUME NEW n \in ReadSizes, GetFirstPart(n) PROVE BufTypes'
  <2>1. n \in Nat /\ Head(ring) \in FrameIds /\ Frames[Head(ring)].len \in Nat /\ n < Frames[Head(ring)].len
        BY <1>1, <1>4, RtpStreamAssumption, FrameTypes DEF GetFirstPart
  <2>2. Bytes(Head(ring)) \in Seq(Read) /\ n \in 0..Len(Bytes(Head(ring)))
        BY <2>1, BytesTypes
  <2>3. SubSeq(Bytes(Head(ring)), 1, n) \in Seq(Read)
        BY <2>2, PartOf
  <2>4. read' \in Seq(Read) /\ psStream' \in [frame : {0} \union FrameIds, readed : Nat]
        BY <1>4, <2>1, <2>3 DEF GetFirstPart, Kept
  <2> QED BY <1>0, <1>1, <1>4, <2>4 DEF GetFirstPart
<1>5. ASSUME NEW n \in ReadSizes, GetNextPart(n) PROVE BufTypes'
  <2>1. PICK len \in 0..Len(Unread) : /\ read' = read \o SubSeq(Unread, 1, len)
                                      /\ psStream' = [psStream EXCEPT !.readed = @ + len]
    <3> DEFINE len == IF Len(Unread) > n THEN n ELSE Len(Unread)
    <3>1. len \in 0..Len(Unread)
      <4>1. n \in Nat /\ Len(Unread) \in Nat
        <5>1. n \in Nat
          <6> HIDE DEF BufTypes
          <6> QED BY RtpStreamAssumption
        <5>2. Len(Unread) \in Nat
              BY UnreadTypes, LengthIsNat
        <5> QED BY <5>1, <5>2
      <4> QED BY <4>1
    <3>2. read' = read \o SubSeq(Unread, 1, len) /\ psStream' = [psStream EXCEPT !.readed = @ + len]
          BY <1>5 DEF GetNextPart
    <3> HIDE DEF len
    <3> QED BY <3>1, <3>2
  <2>2. read' \in Seq(Read)
        BY <2>1, UnreadTypes, PartOf
  <2>3. psStream' \in [frame : {0} \union FrameIds, readed : Nat]
    <3>1. len \in Nat
          BY UnreadTypes, LengthIsNat
    <3>2. psStream.readed \in Nat /\ psStream.readed + len \in Nat
          BY <3>1
    <3>3. psStream' = [psStream EXCEPT !.readed = psStream.readed + len]
          BY <2>1
    <3> QED BY <3>2, <3>3
  <2> QED BY <1>0, <1>5, <2>2, <2>3 DEF GetNextPart
<1> QED BY <1>2, <1>3, <1>4, <1>5 DEF FillIoBuffer

LEMMA BufStep == BufTypes /\ [Next]_vars => BufTypes'
<1> SUFFICES ASSUME BufTypes, [Next]_vars PROVE BufTypes'
    OBVIOUS
<1>1. ASSUME UNCHANGED <<bufVars, sent>> PROVE BufTypes'
      BY <1>1 DEF BufTypes, bufVars
<1>2. CASE NextPacket
  <2>1. sent' = sent + 1 /\ sent' \in 0..Len(Frames) /\ sent + 1 \in FrameIds
        /\ psStream' = psStream /\ read' = read
        BY <1>2, FrameTypes DEF NextPacket, BufTypes
  <2>2. \/ ring' = ring /\ accepted' = accepted
        \/ Len(ring) < RingSize /\ ring' = Append(ring, sent + 1) /\ accepted' = Append(accepted, sent + 1)
        BY <1>2 DEF NextPacket, PushPsData, Room
  <2>3. /\ ring' \in Seq(FrameIds) /\ accepted' \in Seq(FrameIds)
        /\ Len(ring') <= RingSize
    <3>1. CASE ring' = ring /\ accepted' = accepted
          BY <3>1 DEF BufTypes
    <3>2. CASE Len(ring) < RingSize /\ ring' = Append(ring, sent + 1) /\ accepted' = Append(accepted, sent + 1)
      <4>1. ring \in Seq(FrameIds) /\ accepted \in Seq(FrameIds) /\ RingSize \in Nat
            BY RtpStreamAssumption DEF BufTypes
      <4>2. Len(ring') = Len(ring) + 1 /\ Len(ring) \in Nat
            BY <3>2, <4>1
      <4> QED BY <2>1, <3>2, <4>1, <4>2
    <3> QED BY <2>2, <3>1, <3>2
  <2> QED BY <2>1, <2>3 DEF BufTypes
<1>3. CASE Creat \/ Begin \/ PlayFails
      BY <1>1, <1>3 DEF Creat, Begin, PlayFails
<1>4. CASE ReadEnds \/ FfmpegFails \/ DeleteThis
      BY <1>1, <1>4 DEF ReadEnds, FfmpegFails, DeleteThis
<1>5. CASE Stop \/ ClearConnect \/ LoopThread
      BY <1>1, <1>5 DEF Stop, ClearConnect, LoopThread, AsyncStopCb, UdpUvCloseCb, DeleteDec, bufVars
<1>6. CASE TestRun \/ EndDataAccess \/ ByeDestroy
      BY <1>1, <1>6 DEF TestRun, EndDataAccess, ByeDestroy
<1>7. CASE UNCHANGED vars
      BY <1>1, <1>7 DEF vars, bufVars
<1> QED BY FillTypes, <1>2, <1>3, <1>4, <1>5, <1>6, <1>7 DEF Next, JrtpThread

(* Every variable stays in its type; the ring never holds more frames than *)
(* it has room for.                                                        *)
THEOREM TypeCorrect == Spec => []TypeOK
<1>1. Init => BufTypes
      BY RtpStreamAssumption, FrameTypes DEF Init, BufTypes
<1>2. LifeInv /\ BufTypes => TypeOK
      BY DEF LifeInv, LifeTypes, BufTypes, Read, TypeOK
<1> QED BY <1>1, <1>2, BufStep, LifeInvariant, PTL DEF Spec

-----------------------------------------------------------------------------
(* Indices.                                                                *)

(* A set of indices that is closed downwards is an initial segment.        *)
LEMMA InitialSegment ==
    ASSUME NEW N \in Nat, NEW T \in SUBSET (1..N), \A i \in T : \A j \in 1..i : j \in T
    PROVE  Cardinality(T) \in 0..N /\ T = 1..Cardinality(T)
  <1> DEFINE k == Cardinality(T)
  <1>1. IsFiniteSet(1..N) /\ Cardinality(1..N) = N
    BY FS_Interval
  <1>2. IsFiniteSet(T) /\ k \in Nat /\ k <= N
    <2>1. IsFiniteSet(T) /\ k <= N
      BY <1>1, FS_Subset
    <2>2. QED
      BY <2>1, FS_CardinalityType
  <1>3. IsFiniteSet(1..k) /\ Cardinality(1..k) = k
    BY <1>2, FS_Interval
  <1>4. ASSUME NEW t \in T PROVE t <= k
    <2>1. t \in Nat /\ IsFiniteSet(1..t) /\ Cardinality(1..t) = t
      BY FS_Interval
    <2>2. 1..t \in SUBSET T
      BY <1>4
    <2>3. QED
      BY <2>1, <2>2, <1>2, FS_Subset
  <1>5. T \in SUBSET (1..k)
    BY <1>4, <1>2
  <1>6. T = 1..k
    BY <1>3, <1>5, FS_Subset
  <1>7. QED
    BY <1>2, <1>6

(* A set of indices that is not empty has a least one.                     *)
LEMMA LeastIndex ==
    ASSUME NEW N \in Nat, NEW T \in SUBSET (1..N), T # {}
    PROVE  \E t \in T : \A u \in T : t <= u
  <1> DEFINE L == { x \in 1..N : \A t \in T : x <= t }
             k == Cardinality(L)
  <1>1. k \in 0..N /\ L = 1..k
    <2>1. L \in SUBSET (1..N) /\ \A i \in L : \A j \in 1..i : j \in L
      OBVIOUS
    <2> HIDE DEF L
    <2>2. QED
      BY <2>1, InitialSegment
  <1>2. PICK t \in T : TRUE
    OBVIOUS
  <1>3. 1 \in L
    OBVIOUS
  <1>4. k \in L
    <2> HIDE DEF L, k
    <2>1. QED
      BY <1>1, <1>3
  <1>5. k \in T
    <2> SUFFICES ASSUME k \notin T PROVE FALSE
      OBVIOUS
    <2> HIDE DEF k
    <2>1. \A u \in T : k + 1 <= u
      BY <1>4
    <2>2. k + 1 \in L
      BY <2>1, <1>1, <1>2
    <2> HIDE DEF L
    <2>3. QED
      BY <2>2, <1>1
  <1>6. QED
    BY <1>4, <1>5

-----------------------------------------------------------------------------
(* What ffmpeg reads.                                                      *)

(* Sequences, index by index.                                              *)
LEMMA CutInTwo ==
    ASSUME NEW S, NEW s \in Seq(S), NEW n \in 0..Len(s)
    PROVE  SubSeq(s, 1, n) \o SubSeq(s, n + 1, Len(s)) = s
  <1> DEFINE a == SubSeq(s, 1, n)
             b == SubSeq(s, n + 1, Len(s))
  <1>1. /\ a \in Seq(S) /\ Len(a) = n /\ \A i \in 1..n : a[i] = s[i]
        /\ b \in Seq(S) /\ Len(b) = Len(s) - n /\ \A i \in 1..Len(s) - n : b[i] = s[n + i]
        /\ Len(s) \in Nat
    OBVIOUS
  <1> HIDE DEF a, b
  <1>2. a \o b \in Seq(S) /\ Len(a \o b) = Len(s)
    BY <1>1
  <1>3. ASSUME NEW i \in 1..Len(s)
        PROVE  (a \o b)[i] = s[i]
    <2>1. (a \o b)[i] = IF i <= n THEN a[i] ELSE b[i - n]
      BY <1>1, ConcatProperties
    <2>2. IF i <= n THEN i \in 1..n ELSE i - n \in 1..Len(s) - n /\ n + (i - n) = i
      BY <1>1
    <2>3. QED
      BY <1>1, <2>1, <2>2
  <1>4. a \o b = s
    BY <1>2, <1>3, SeqEqual
  <1>5. QED
    BY <1>4 DEF a, b

LEMMA PartOfPart ==
    ASSUME NEW S, NEW s \in Seq(S), NEW r \in 0..Len(s), NEW n \in 0..Len(s) - r
    PROVE  LET u == SubSeq(s, r + 1, Len(s))
           IN  /\ Len(u) = Len(s) - r
               /\ SubSeq(u, n + 1, Len(u)) = SubSeq(s, r + n + 1, Len(s))
  OBVIOUS

LEMMA MovedOn ==
    ASSUME NEW S, NEW s \in Seq(S), NEW t \in Seq(S), t # << >>
    PROVE  /\ SubSeq(s \o t, 1, Len(s \o t) - Len(t)) = s
           /\ SubSeq(s \o t, 1, Len(s \o t) - Len(Tail(t))) = Append(s, Head(t))
           /\ Append(s, Head(t)) \o Tail(t) = s \o t
  OBVIOUS

LEMMA PutBehind ==
    ASSUME NEW S, NEW s \in Seq(S), NEW t \in Seq(S), NEW e \in S
    PROVE  /\ Append(s \o t, e) = s \o Append(t, e)
           /\ Len(Append(s \o t, e)) - Len(Append(t, e)) = Len(s \o t) - Len(t)
           /\ SubSeq(Append(s \o t, e), 1, Len(s \o t) - Len(t)) = SubSeq(s \o t, 1, Len(s \o t) - Len(t))
  OBVIOUS

LEMMA ReadsJoin == \A x, y, z \in Seq(Read) : (x \o y) \o z = x \o (y \o z)
  BY ConcatAssociative

LEMMA FramesJoin == \A s, t \in Seq(FrameIds), f \in FrameIds : Append(s \o t, f) = s \o Append(t, f)
  BY PutBehind

(* One more frame is wanted: all its bytes come behind the others.         *)
LEMMA OneMoreFrame ==
    ASSUME NEW out \in Seq(Read), NEW s \in Seq(FrameIds), AreBytesOf(out, s), NEW f \in FrameIds
    PROVE  AreBytesOf(out \o Bytes(f), Append(s, f))
  <1> DEFINE all == out \o Bytes(f)
             more == Append(s, f)
             N == Len(out)
             L == Frames[f].len
  <1>1. N \in Nat /\ L \in Nat \ {0} /\ Len(s) \in Nat /\ Bytes(f) \in Seq(Read) /\ Len(Bytes(f)) = L
    BY FrameTypes, BytesTypes
  <1>2. /\ Len(all) = N + L
        /\ \A n \in 1..N : all[n] = out[n]
        /\ \A k \in 1..L : all[N + k] = << f, k >>
    BY <1>1 DEF Bytes
  <1>3. /\ Len(more) = Len(s) + 1 /\ more[Len(s) + 1] = f
        /\ \A i \in 1..Len(s) : more[i] = s[i]
    BY <1>1
  <1>4. (N = 0 <=> out = << >>) /\ (Len(s) = 0 <=> s = << >>)
    BY EmptySeq
  <1>5. all \in Seq(Read) /\ more \in Seq(FrameIds) /\ Len(all) # 0 /\ Len(more) # 0
    BY <1>1, <1>2, <1>3
  <1> HIDE DEF all, more
  <1>6. all[1] = << more[1], 1 >>
    <2>1. CASE N = 0
      <3>1. Len(s) = 0
        BY <1>4, <2>1 DEF AreBytesOf
      <3>2. all[0 + 1] = << f, 1 >> /\ more[0 + 1] = f
        BY <1>1, <1>2, <1>3, <2>1, <3>1
      <3>3. QED
        BY <3>2
    <2>2. CASE N # 0
      <3>1. 1 \in 1..N /\ 1 \in 1..Len(s) /\ out[1] = << s[1], 1 >>
        BY <1>1, <1>4, <2>2 DEF AreBytesOf
      <3>2. QED
        BY <1>2, <1>3, <3>1
    <2>3. QED
      BY <2>1, <2>2
  <1>7. all[Len(all)] = << more[Len(more)], Frames[more[Len(more)]].len >>
    <2>1. L \in 1..L /\ all[Len(all)] = all[N + L]
      BY <1>1, <1>2
    <2>2. all[N + L] = << f, L >>
      BY <1>2, <2>1
    <2>3. more[Len(more)] = f
      BY <1>3
    <2>4. QED
      BY <2>1, <2>2, <2>3
  <1>8. ASSUME NEW n \in 1..Len(all) - 1
        PROVE  InTurn(more, all[n], all[n + 1])
    <2>1. n \in 1..N + L - 1
      BY <1>1, <1>2
    <2>2. CASE n < N
      <3>1. n \in 1..N - 1 /\ all[n] = out[n] /\ all[n + 1] = out[n + 1]
        <4>1. n \in 1..N - 1 /\ n \in 1..N /\ n + 1 \in 1..N
          BY <1>1, <2>1, <2>2
        <4>2. QED
          BY <1>2, <4>1
      <3>2. InTurn(s, out[n], out[n + 1])
        BY <3>1 DEF AreBytesOf
      <3>3. \A i \in 1..Len(s) - 1 : i \in 1..Len(more) - 1 /\ more[i] = s[i] /\ more[i + 1] = s[i + 1]
        BY <1>1, <1>3
      <3>4. QED
        BY <3>1, <3>2, <3>3 DEF InTurn
    <2>3. CASE n = N
      <3>1. N # 0 /\ Len(s) # 0 /\ n \in 1..N /\ N \in 1..N
        BY <1>1, <1>4, <2>1, <2>3 DEF AreBytesOf
      <3>2. Len(s) \in 1..Len(s) /\ Len(s) \in 1..Len(more) - 1 /\ more[Len(s)] = s[Len(s)]
        BY <1>1, <1>3, <3>1
      <3>3. all[n] = << s[Len(s)], Frames[s[Len(s)]].len >>
        <4>1. all[n] = out[N]
          BY <1>2, <2>3, <3>1
        <4>2. out[N] = << s[Len(s)], Frames[s[Len(s)]].len >>
          BY <1>4, <3>1 DEF AreBytesOf
        <4>3. QED
          BY <4>1, <4>2
      <3>4. all[n + 1] = << f, 1 >>
        BY <1>1, <1>2, <2>3
      <3>5. Frames[s[Len(s)]].len \in Nat
        <4>1. s[Len(s)] \in FrameIds
          BY <3>2, ElementOfSeq
        <4>2. QED
          BY <4>1, FrameTypes
      <3>6. QED
        BY <1>3, <3>2, <3>3, <3>4, <3>5 DEF InTurn
    <2>4. CASE n > N
      <3>1. PICK k \in 1..L - 1 : n = N + k
        <4>1. n - N \in 1..L - 1 /\ n = N + (n - N)
          BY <1>1, <2>1, <2>4
        <4>2. QED
          BY <4>1
      <3>2. k \in 1..L /\ k + 1 \in 1..L /\ N + (k + 1) = n + 1 /\ k < L
        BY <1>1, <3>1
      <3>3. all[N + k] = << f, k >> /\ all[N + (k + 1)] = << f, k + 1 >>
        BY <1>2, <3>2
      <3>4. QED
        BY <3>1, <3>2, <3>3 DEF InTurn
    <2>5. QED
      BY <1>1, <2>1, <2>2, <2>3, <2>4
  <1>9. all # << >> /\ more # << >>
    BY <1>5, EmptySeq
  <1>10. AreBytesOf(all, more)
    BY <1>6, <1>7, <1>8, <1>9 DEF AreBytesOf
  <1>11. QED
    BY <1>10 DEF all, more

(* From the first key frame on, when one more frame has been fetched.      *)
LEMMA LeastOf ==
    ASSUME NEW N \in Nat, NEW T \in SUBSET (1..N), T # {}
    PROVE  Min(T) \in T /\ \A u \in T : Min(T) <= u
  BY LeastIndex DEF Min

LEMMA FromKeyTypes ==
    ASSUME NEW s \in Seq(FrameIds)
    PROVE  /\ FromKey(s) \in Seq(FrameIds)
           /\ FindFirstKey => (FromKey(s) = << >> <=> KeyFrames(s) = {})
  <1>1. Len(s) \in Nat /\ KeyFrames(s) \in SUBSET (1..Len(s))
    BY DEF KeyFrames
  <1>2. CASE FindFirstKey /\ KeyFrames(s) # {}
    <2>1. PICK i \in 1..Len(s) : i = Min(KeyFrames(s))
      BY <1>1, <1>2, LeastOf
    <2>2. SubSeq(s, i, Len(s)) \in Seq(FrameIds) /\ Len(SubSeq(s, i, Len(s))) # 0
      BY <1>1
    <2>3. QED
      BY <1>2, <2>1, <2>2, EmptySeq DEF FromKey
  <1>3. QED
    BY <1>2 DEF FromKey

LEMMA OneMoreFetched ==
    ASSUME NEW s \in Seq(FrameIds), NEW f \in FrameIds
    PROVE  FromKey(Append(s, f)) =
              IF FindFirstKey /\ KeyFrames(s) = {} /\ ~Frames[f].key THEN << >> ELSE Append(FromKey(s), f)
  <1> DEFINE t == Append(s, f)
             n == Len(s)
  <1>1. n \in Nat /\ KeyFrames(s) \in SUBSET (1..n) /\ Len(t) = n + 1 /\ t \in Seq(FrameIds)
    BY DEF KeyFrames
  <1>2. KeyFrames(t) = IF Frames[f].key THEN KeyFrames(s) \cup {n + 1} ELSE KeyFrames(s)
    <2>1. DOMAIN t = 1..n + 1 /\ DOMAIN s = 1..n /\ t[n + 1] = f /\ \A i \in 1..n : t[i] = s[i]
      BY <1>1
    <2>2. 1..n + 1 = (1..n) \cup {n + 1}
      BY <1>1
    <2> HIDE DEF t, n
    <2>3. QED
      BY <2>1, <2>2 DEF KeyFrames
  <1>3. CASE ~FindFirstKey
    BY <1>3 DEF FromKey
  <1>4. CASE FindFirstKey /\ KeyFrames(s) = {}
    <2>1. CASE Frames[f].key
      <3>1. KeyFrames(t) = {n + 1}
        BY <1>2, <1>4, <2>1
      <3>2. Min(KeyFrames(t)) = n + 1
        <4> PICK m \in Nat : m = n + 1
          BY <1>1
        <4>1. {m} \in SUBSET (1..m)
          BY <1>1
        <4>2. Min({m}) \in {m}
          BY <4>1, LeastOf
        <4>3. QED
          BY <3>1, <4>2
      <3>3. SubSeq(t, n + 1, n + 1) = Append(<< >>, f)
        <4>1. t[n + 1] = f
          OBVIOUS
        <4>2. /\ SubSeq(t, n + 1, n + 1) \in Seq(FrameIds) /\ Len(SubSeq(t, n + 1, n + 1)) = 1
              /\ SubSeq(t, n + 1, n + 1)[1] = t[n + 1]
          BY <1>1
        <4>3. Append(<< >>, f) \in Seq(FrameIds) /\ Len(Append(<< >>, f)) = 1 /\ Append(<< >>, f)[1] = f
          OBVIOUS
        <4> PICK x \in Seq(FrameIds), y \in Seq(FrameIds) : x = SubSeq(t, n + 1, n + 1) /\ y = Append(<< >>, f)
          BY <4>2, <4>3
        <4>4. Len(x) = Len(y) /\ \A i \in 1..Len(x) : x[i] = y[i]
          BY <4>1, <4>2, <4>3
        <4>5. x = y
          BY <4>4, SeqEqual
        <4>6. QED
          BY <4>5
      <3>4. QED
        BY <1>1, <1>4, <2>1, <3>1, <3>2, <3>3 DEF FromKey
    <2>2. QED
      BY <1>2, <1>4, <2>1 DEF FromKey
  <1>5. CASE FindFirstKey /\ KeyFrames(s) # {}
    <2>1. PICK i \in 1..n : i = Min(KeyFrames(s)) /\ i \in KeyFrames(s) /\ \A u \in KeyFrames(s) : i <= u
      BY <1>1, <1>5, LeastOf
    <2>2. Min(KeyFrames(t)) = i
      <3>1. KeyFrames(t) \in SUBSET (1..n + 1) /\ KeyFrames(t) # {} /\ i \in KeyFrames(t)
        BY <1>1, <1>2, <2>1
      <3>2. \A u \in KeyFrames(t) : i <= u
        BY <1>1, <1>2, <2>1
      <3>3. Min(KeyFrames(t)) \in KeyFrames(t) /\ \A u \in KeyFrames(t) : Min(KeyFrames(t)) <= u
        <4> PICK m \in Nat : m = n + 1
          BY <1>1
        <4>1. KeyFrames(t) \in SUBSET (1..m) /\ KeyFrames(t) # {}
          BY <3>1
        <4>2. QED
          BY <4>1, LeastOf
      <3>4. Min(KeyFrames(t)) \in 1..n + 1 /\ i <= Min(KeyFrames(t)) /\ Min(KeyFrames(t)) <= i
        BY <3>1, <3>2, <3>3
      <3>5. QED
        BY <3>4
    <2>3. SubSeq(t, i, n + 1) = Append(SubSeq(s, i, n), f)
      BY <1>1
    <2>4. KeyFrames(t) # {}
      BY <1>2, <1>5
    <2>5. QED
      BY <1>1, <1>5, <2>1, <2>2, <2>3, <2>4 DEF FromKey
  <1>6. QED
    BY <1>3, <1>4, <1>5


(* m_bParseKey says whether a key frame has been fetched.                  *)
KeyIsSeen == FindFirstKey => (worker.m_bParseKey <=> KeyFrames(Fetched) # {})
NoneAhead == \A i \in DOMAIN accepted : accepted[i] <= sent

ReadInv == BufTypes /\ FramesReadWhole /\ KeyIsSeen /\ NoneAhead

LEMMA FetchedTypes ==
    ASSUME BufTypes, accepted = Fetched \o ring
    PROVE  Fetched \in Seq(FrameIds)
  <1>1. Len(accepted) - Len(ring) <= Len(accepted) /\ Len(accepted) - Len(ring) \in Int
    BY LengthIsNat DEF BufTypes
  <1>2. QED
    BY <1>1 DEF BufTypes, Fetched

(* What fill_iobuffer does: it takes the head of the ring, of which ffmpeg *)
(* has the bytes, or the rest of them is kept; or it hands on what is kept.*)
LEMMA HeadIsFetched ==
    ASSUME ReadInv, ring # << >>, ring' = Tail(ring), accepted' = accepted
    PROVE  Fetched' = Append(Fetched, Head(ring)) /\ accepted' = Fetched' \o ring' /\ Head(ring) \in FrameIds
  <1>1. ring \in Seq(FrameIds) /\ Fetched \in Seq(FrameIds) /\ accepted = Fetched \o ring
    BY FetchedTypes DEF ReadInv, FramesReadWhole, BufTypes
  <1> PICK s \in Seq(FrameIds) : s = Fetched
    BY <1>1
  <1>2. Fetched' = SubSeq(s \o ring, 1, Len(s \o ring) - Len(Tail(ring)))
    BY <1>1 DEF Fetched
  <1>3. Fetched' = Append(s, Head(ring))
    BY <1>1, <1>2, MovedOn
  <1>4. accepted' = Append(s, Head(ring)) \o Tail(ring)
    BY <1>1, MovedOn
  <1>5. Head(ring) \in FrameIds
    BY <1>1
  <1>6. QED
    BY <1>3, <1>4, <1>5

LEMMA DropKeepsReading ==
    ASSUME ReadInv, DropBeforeKey, accepted' = accepted
    PROVE  accepted' = Fetched' \o ring' /\ AreBytesOf(read' \o Unread', FromKey(Fetched')) /\ KeyIsSeen'
  <1> USE DEF ReadInv
  <1>1. /\ ring # << >> /\ ring' = Tail(ring) /\ FindFirstKey /\ ~worker.m_bParseKey /\ ~Frames[Head(ring)].key
        /\ worker' = worker /\ psStream' = psStream /\ read' = read
    BY DEF DropBeforeKey, BeforeKey
  <1>2. /\ Fetched' = Append(Fetched, Head(ring)) /\ accepted' = Fetched' \o ring' /\ Head(ring) \in FrameIds
        /\ Fetched \in Seq(FrameIds) /\ KeyFrames(Fetched) = {}
    BY <1>1, HeadIsFetched, FetchedTypes DEF FramesReadWhole, KeyIsSeen
  <1>3. FromKey(Fetched) = << >> /\ FromKey(Fetched') = << >>
    BY <1>1, <1>2, OneMoreFetched, FromKeyTypes
  <1>4. KeyFrames(Fetched') = {}
    <2>1. Fetched' \in Seq(FrameIds)
      BY <1>2
    <2>2. QED
      BY <1>1, <1>3, <2>1, FromKeyTypes
  <1>5. Unread' = Unread
    BY <1>1 DEF Unread
  <1>6. QED
    BY <1>1, <1>2, <1>3, <1>4, <1>5 DEF FramesReadWhole, KeyIsSeen

(* A frame that is not thrown away.                                        *)
LEMMA WantedIsRead ==
    ASSUME ReadInv, worker.m_bParseKey \in BOOLEAN, ring # << >>, ring' = Tail(ring), accepted' = accepted,
           ~BeforeKey, worker' = [worker EXCEPT !.m_bParseKey = @ \/ FindFirstKey], Unread = << >>,
           "m_bParseKey" \in DOMAIN worker, read' \o Unread' = read \o Bytes(Head(ring))
    PROVE  accepted' = Fetched' \o ring' /\ AreBytesOf(read' \o Unread', FromKey(Fetched')) /\ KeyIsSeen'
  <1> USE DEF ReadInv
  <1>1. /\ Fetched' = Append(Fetched, Head(ring)) /\ accepted' = Fetched' \o ring' /\ Head(ring) \in FrameIds
        /\ Fetched \in Seq(FrameIds)
    BY HeadIsFetched, FetchedTypes DEF FramesReadWhole
  <1>2. FindFirstKey => KeyFrames(Fetched) # {} \/ Frames[Head(ring)].key
    BY DEF BeforeKey, KeyIsSeen
  <1>3. FromKey(Fetched') = Append(FromKey(Fetched), Head(ring))
    BY <1>1, <1>2, OneMoreFetched
  <1>4. read \in Seq(Read) /\ AreBytesOf(read, FromKey(Fetched))
    <2>1. read \in Seq(Read) /\ read \o << >> = read
      BY ConcatEmptySeq DEF BufTypes
    <2>2. QED
      BY <2>1 DEF FramesReadWhole
  <1>5. FromKey(Fetched) \in Seq(FrameIds)
    BY <1>1, FromKeyTypes
  <1>6. AreBytesOf(read' \o Unread', FromKey(Fetched'))
    BY <1>1, <1>3, <1>4, <1>5, OneMoreFrame
  <1>7. KeyIsSeen'
    <2>1. Fetched' \in Seq(FrameIds)
      BY <1>1
    <2>2. Append(FromKey(Fetched), Head(ring)) # << >>
      BY <1>1, <1>5, AppendProperties
    <2>3. FindFirstKey => KeyFrames(Fetched') # {}
      BY <1>3, <2>1, <2>2, FromKeyTypes
    <2>4. FindFirstKey => worker'.m_bParseKey
      OBVIOUS
    <2>5. QED
      BY <2>3, <2>4 DEF KeyIsSeen
  <1>8. QED
    BY <1>1, <1>6, <1>7

LEMMA FillReads ==
    ASSUME LifeInv, ReadInv, FillIoBuffer
    PROVE  accepted' = Fetched' \o ring' /\ AreBytesOf(read' \o Unread', FromKey(Fetched')) /\ KeyIsSeen'
  <1> USE DEF ReadInv
  <1>1. accepted' = accepted
    BY DEF FillIoBuffer
  <1>2. worker.m_bParseKey \in BOOLEAN /\ "m_bParseKey" \in DOMAIN worker
    BY DEF LifeInv, LifeTypes
  <1>3. read \in Seq(Read) /\ Unread \in Seq(Read)
    BY UnreadTypes DEF BufTypes
  <1>4. CASE DropBeforeKey
    BY <1>1, <1>4, DropKeepsReading
  <1>5. ASSUME NEW n \in ReadSizes, GetWhole(n)
        PROVE  accepted' = Fetched' \o ring' /\ AreBytesOf(read' \o Unread', FromKey(Fetched')) /\ KeyIsSeen'
    <2>1. /\ Unread = << >> /\ ring # << >> /\ ring' = Tail(ring) /\ ~BeforeKey /\ psStream' = psStream
          /\ worker' = [worker EXCEPT !.m_bParseKey = @ \/ FindFirstKey] /\ read' = read \o Bytes(Head(ring))
      BY <1>5 DEF GetWhole, FindsKey
    <2>2. Unread' = << >>
      BY <2>1 DEF Unread
    <2>3. Head(ring) \in FrameIds
      BY <1>1, <2>1, HeadIsFetched
    <2>4. read' \o Unread' = read \o Bytes(Head(ring))
      <3>1. read \o Bytes(Head(ring)) \in Seq(Read)
        BY <1>3, <2>3, BytesTypes
      <3>2. QED
        BY <2>1, <2>2, <3>1, ConcatEmptySeq
    <2>5. QED
      BY <1>1, <1>2, <2>1, <2>4, WantedIsRead
  <1>6. ASSUME NEW n \in ReadSizes, GetFirstPart(n)
        PROVE  accepted' = Fetched' \o ring' /\ AreBytesOf(read' \o Unread', FromKey(Fetched')) /\ KeyIsSeen'
    <2>1. /\ Unread = << >> /\ ring # << >> /\ ring' = Tail(ring) /\ ~BeforeKey
          /\ worker' = [worker EXCEPT !.m_bParseKey = @ \/ FindFirstKey]
          /\ read' = read \o SubSeq(Bytes(Head(ring)), 1, n)
          /\ psStream' = [frame |-> Head(ring), readed |-> n] /\ n < Frames[Head(ring)].len
      BY <1>6 DEF GetFirstPart, FindsKey, Kept
    <2>2. PICK f \in FrameIds : f = Head(ring)
      BY <1>1, <2>1, HeadIsFetched
    <2>3. /\ n \in 0..Len(Bytes(f)) /\ n + 1 \in Nat \ {0} /\ Bytes(f) \in Seq(Read) /\ Len(Bytes(f)) = Frames[f].len
          /\ Len(Bytes(f)) \in 0..Len(Bytes(f))
      <3>1. Bytes(f) \in Seq(Read) /\ Len(Bytes(f)) = Frames[f].len /\ Frames[f].len \in Nat
        BY BytesTypes, FrameTypes
      <3>2. n \in Nat
        <4> HIDE DEF ReadInv
        <4>1. QED
          BY RtpStreamAssumption
      <3>3. QED
        BY <2>1, <2>2, <3>1, <3>2
    <2>4. Unread' = SubSeq(Bytes(f), n + 1, Len(Bytes(f)))
      <3>1. f # 0
        BY FrameTypes
      <3>2. QED
        BY <2>1, <2>2, <2>3, <3>1 DEF Unread
    <2>5. read' \o Unread' = read \o Bytes(f)
      <3>1. SubSeq(Bytes(f), 1, n) \in Seq(Read) /\ SubSeq(Bytes(f), n + 1, Len(Bytes(f))) \in Seq(Read)
        BY <2>3, PartOf
      <3>2. (read \o SubSeq(Bytes(f), 1, n)) \o SubSeq(Bytes(f), n + 1, Len(Bytes(f)))
               = read \o (SubSeq(Bytes(f), 1, n) \o SubSeq(Bytes(f), n + 1, Len(Bytes(f))))
        BY <1>3, <3>1, ReadsJoin, Zenon
      <3>3. SubSeq(Bytes(f), 1, n) \o SubSeq(Bytes(f), n + 1, Len(Bytes(f))) = Bytes(f)
        BY <2>3, CutInTwo
      <3>4. QED
        BY <2>1, <2>2, <2>4, <3>2, <3>3
    <2>6. QED
      BY <1>1, <1>2, <2>1, <2>2, <2>5, WantedIsRead
  <1>7. ASSUME NEW n \in ReadSizes, GetNextPart(n)
        PROVE  accepted' = Fetched' \o ring' /\ AreBytesOf(read' \o Unread', FromKey(Fetched')) /\ KeyIsSeen'
    <2>1. UNCHANGED <<worker, ring, accepted>> /\ Unread # << >>
      BY <1>1, <1>7 DEF GetNextPart
    <2>2. read' \o Unread' = read \o Unread
      <3>1. PICK len \in 0..Len(Unread) : /\ read' = read \o SubSeq(Unread, 1, len)
                                          /\ psStream' = [psStream EXCEPT !.readed = @ + len]
        <4>1. n \in Nat /\ Len(Unread) \in Nat
          BY <1>3, LengthIsNat, RtpStreamAssumption
        <4>2. (IF Len(Unread) > n THEN n ELSE Len(Unread)) \in 0..Len(Unread)
          BY <4>1
        <4>3. QED
          BY <1>7, <4>2 DEF GetNextPart
      <3>2. PICK f \in FrameIds : f = psStream.frame /\ f # 0
        BY <2>1 DEF Unread, BufTypes
      <3>3. PICK r \in Nat : r = psStream.readed
        BY DEF BufTypes
      <3>4. /\ Bytes(f) \in Seq(Read) /\ Len(Bytes(f)) = Frames[f].len /\ Frames[f].len \in Nat
            /\ Unread = SubSeq(Bytes(f), r + 1, Len(Bytes(f)))
        BY <3>2, <3>3, BytesTypes, FrameTypes DEF Unread
      <3>5. psStream'.frame = f /\ psStream'.readed = r + len
        BY <3>1, <3>2, <3>3 DEF BufTypes
      <3>6. Unread' = SubSeq(Bytes(f), r + len + 1, Len(Bytes(f)))
        BY <3>2, <3>4, <3>5 DEF Unread
      <3>7. r \in 0..Len(Bytes(f))
        <4>1. CASE r > Len(Bytes(f))
          <5>1. Unread = << >>
            BY <3>4, <4>1, SubSeqEmpty
          <5>2. QED
            BY <2>1, <5>1
        <4>2. QED
          BY <3>4, <4>1
      <3>8. Unread' = SubSeq(Unread, len + 1, Len(Unread)) /\ len \in 0..Len(Bytes(f)) - r
        <4>1. Len(Unread) = Len(Bytes(f)) - r
          BY <3>4, <3>7, PartOfPart
        <4>2. len \in 0..Len(Bytes(f)) - r
          BY <3>1, <4>1
        <4>3. QED
          BY <3>4, <3>6, <3>7, <4>1, <4>2, PartOfPart
      <3>9. Unread = SubSeq(Unread, 1, len) \o SubSeq(Unread, len + 1, Len(Unread))
        BY <1>3, <3>1, CutInTwo
      <3>10. SubSeq(Unread, 1, len) \in Seq(Read) /\ SubSeq(Unread, len + 1, Len(Unread)) \in Seq(Read)
        <4>1. Len(Unread) \in Nat
          BY <1>3, LengthIsNat
        <4>2. len + 1 \in Nat \ {0} /\ Len(Unread) \in 0..Len(Unread)
          BY <3>1, <4>1
        <4>3. QED
          BY <1>3, <3>1, <4>2, PartOf
      <3>11. (read \o SubSeq(Unread, 1, len)) \o SubSeq(Unread, len + 1, Len(Unread))
                = read \o (SubSeq(Unread, 1, len) \o SubSeq(Unread, len + 1, Len(Unread)))
        BY <1>3, <3>10, ReadsJoin, Zenon
      <3>12. QED
        BY <3>1, <3>8, <3>9, <3>11
    <2>3. Fetched' = Fetched
      BY <2>1 DEF Fetched
    <2>4. QED
      BY <2>1, <2>2, <2>3 DEF FramesReadWhole, KeyIsSeen
  <1>8. QED
    BY <1>4, <1>5, <1>6, <1>7 DEF FillIoBuffer

LEMMA ReadStep == LifeInv /\ ReadInv /\ [Next]_vars => ReadInv'
  <1> SUFFICES ASSUME LifeInv, ReadInv, [Next]_vars PROVE ReadInv'
    OBVIOUS
  <1>1. BufTypes'
    BY BufStep DEF ReadInv
  <1>2. CASE FillIoBuffer
    <2>1. accepted' = accepted /\ sent' = sent
      BY <1>2 DEF FillIoBuffer
    <2>2. QED
      BY <1>1, <1>2, <2>1, FillReads DEF ReadInv, FramesReadWhole, NoneAhead
  <1>3. CASE NextPacket
    <2>1. sent' = sent + 1 /\ sent + 1 \in FrameIds /\ sent \in Nat /\ UNCHANGED <<worker, psStream, read>>
      BY <1>3, FrameTypes DEF NextPacket, ReadInv, BufTypes
    <2>2. CASE UNCHANGED <<ring, accepted>>
      <3>1. Fetched' = Fetched /\ Unread' = Unread
        BY <2>1, <2>2 DEF Fetched, Unread
      <3>2. accepted \in Seq(FrameIds)
        BY DEF ReadInv, BufTypes
      <3>3. NoneAhead'
        <4> SUFFICES ASSUME NEW i \in DOMAIN accepted PROVE accepted[i] <= sent + 1
          BY <2>1, <2>2 DEF NoneAhead
        <4>1. accepted[i] \in FrameIds /\ accepted[i] <= sent
          BY <3>2, ElementOfSeq, LenProperties DEF ReadInv, NoneAhead
        <4>2. QED
          BY <2>1, <4>1, FrameTypes
      <3>4. QED
        BY <1>1, <2>1, <2>2, <3>1, <3>3 DEF ReadInv, FramesReadWhole, KeyIsSeen
    <2>3. CASE ring' = Append(ring, sent + 1) /\ accepted' = Append(accepted, sent + 1)
      <3>1. PICK f \in FrameIds : f = sent + 1
        BY <2>1
      <3>2. ring \in Seq(FrameIds) /\ accepted \in Seq(FrameIds) /\ Fetched \in Seq(FrameIds)
            /\ accepted = Fetched \o ring
        BY FetchedTypes DEF ReadInv, BufTypes, FramesReadWhole
      <3>3. Fetched' = Fetched /\ accepted' = Fetched \o ring'
        <4> PICK s \in Seq(FrameIds) : s = Fetched
          BY <3>2
        <4>1. Fetched' = SubSeq(Append(s \o ring, f), 1, Len(Append(s \o ring, f)) - Len(Append(ring, f)))
          BY <2>3, <3>1, <3>2 DEF Fetched
        <4>2. Fetched = SubSeq(s \o ring, 1, Len(s \o ring) - Len(ring))
          BY <3>2 DEF Fetched
        <4>3. Fetched' = Fetched
          BY <3>1, <3>2, <4>1, <4>2, PutBehind
        <4>4. Append(s \o ring, f) = s \o Append(ring, f)
          BY <3>1, <3>2, FramesJoin, Zenon
        <4>5. QED
          BY <2>3, <3>1, <3>2, <4>3, <4>4
      <3>4. /\ DOMAIN accepted = 1..Len(accepted) /\ DOMAIN accepted' = 1..Len(accepted) + 1 /\ Len(accepted) \in Nat
            /\ \A i \in 1..Len(accepted) : accepted'[i] = accepted[i]
            /\ accepted'[Len(accepted) + 1] = sent + 1
        BY <2>3, <3>1, <3>2, AppendProperties, LenProperties
      <3>5. \A i \in 1..Len(accepted) : accepted[i] \in Nat /\ accepted[i] <= sent
        <4> TAKE i \in 1..Len(accepted)
        <4>1. accepted[i] \in FrameIds
          BY <3>2, ElementOfSeq
        <4>2. QED
          BY <3>4, <4>1, FrameTypes DEF ReadInv, NoneAhead
      <3>6. NoneAhead'
        BY <2>1, <3>4, <3>5 DEF NoneAhead
      <3>7. \A i, j \in DOMAIN accepted' : i < j => accepted'[i] < accepted'[j]
        <4> SUFFICES ASSUME NEW i \in 1..Len(accepted) + 1, NEW j \in 1..Len(accepted) + 1, i < j
                     PROVE  accepted'[i] < accepted'[j]
          BY <3>4
        <4>1. i \in 1..Len(accepted)
          BY <3>4
        <4>2. CASE j \in 1..Len(accepted)
          BY <3>4, <4>1, <4>2 DEF ReadInv, FramesReadWhole
        <4>3. CASE j = Len(accepted) + 1
          BY <2>1, <3>4, <3>5, <4>1, <4>3
        <4>4. QED
          BY <3>4, <4>2, <4>3
      <3>8. Unread' = Unread
        BY <2>1 DEF Unread
      <3>9. QED
        BY <1>1, <2>1, <3>3, <3>6, <3>7, <3>8 DEF ReadInv, FramesReadWhole, KeyIsSeen
    <2>4. QED
      BY <1>3, <2>2, <2>3 DEF NextPacket, PushPsData
  <1>4. ASSUME UNCHANGED <<bufVars, sent>>, worker'.m_bParseKey = worker.m_bParseKey
        PROVE  ReadInv'
    <2>1. Fetched' = Fetched /\ Unread' = Unread /\ accepted' = accepted /\ ring' = ring /\ read' = read
      BY <1>4 DEF bufVars, Fetched, Unread
    <2>2. QED
      BY <1>1, <1>4, <2>1 DEF ReadInv, FramesReadWhole, KeyIsSeen, NoneAhead
  <1>5. CASE Creat \/ Begin \/ PlayFails \/ ReadEnds \/ FfmpegFails \/ Stop
    BY <1>4, <1>5 DEF Creat, Begin, PlayFails, ReadEnds, FfmpegFails, Stop
  <1>6. CASE DeleteThis \/ ClearConnect
    <2>1. UNCHANGED <<bufVars, sent>> /\ worker'.m_bParseKey = worker.m_bParseKey
      BY <1>6 DEF DeleteThis, ClearConnect, LifeInv, LifeTypes
    <2>2. QED
      BY <1>4, <2>1
  <1>7. CASE LoopThread \/ TestRun \/ EndDataAccess \/ ByeDestroy
    BY <1>4, <1>7 DEF LoopThread, AsyncStopCb, UdpUvCloseCb, DeleteDec, TestRun, EndDataAccess, ByeDestroy
  <1>8. CASE UNCHANGED vars
    BY <1>4, <1>8 DEF vars, bufVars
  <1>9. QED
    BY <1>2, <1>3, <1>5, <1>6, <1>7, <1>8 DEF Next, JrtpThread

LEMMA InitReads == Init => ReadInv
  <1> SUFFICES ASSUME Init PROVE ReadInv
    OBVIOUS
  <1>1. BufTypes
    BY RtpStreamAssumption, FrameTypes DEF Init, BufTypes
  <1>2. Fetched = << >> /\ Unread = << >> /\ read \o Unread = << >> /\ Fetched \o ring = << >>
    BY DEF Init, Fetched, Unread
  <1>3. DOMAIN << >> = {} /\ Len(<< >>) = 0
    BY EmptySeq
  <1>4. FromKey(<< >>) = << >> /\ KeyFrames(<< >>) = {}
    BY <1>3 DEF FromKey, KeyFrames
  <1>5. AreBytesOf(<< >>, << >>)
    BY <1>3 DEF AreBytesOf
  <1>6. QED
    BY <1>1, <1>2, <1>3, <1>4, <1>5 DEF Init, ReadInv, FramesReadWhole, KeyIsSeen, NoneAhead

(* ffmpeg reads the frames that the ring took whole, each once and in      *)
(* order, from the first key frame on, for every stream of frames, size of *)
(* the ring and cut of the reads, and however the four threads interleave  *)
(* (CLiveWorker::get_ps_data and push_ps_data).                            *)
THEOREM ReadIsWhole == Spec => []FramesReadWhole
  <1>1. ReadInv => FramesReadWhole
    BY DEF ReadInv
  <1>2. QED
    BY <1>1, InitReads, ReadStep, LifeInvariant, PTL DEF Spec

-----------------------------------------------------------------------------
(***************************************************************************)
(* RtpReassembly, for every division of the packets into frames, every     *)
(* space of sequence numbers and time stamps, and every bound of the       *)
(* network.                                                                *)
(***************************************************************************)

(* Numbers.                                                                *)

LEMMA DivMod ==
    ASSUME NEW a \in Nat, NEW k \in Nat, k > 0
    PROVE  a \div k \in Nat /\ a % k \in 0..k - 1 /\ a = k * (a \div k) + (a % k)
  <1>1. a \div k \in Nat
    OBVIOUS
  <1>2. a % k \in 0..k - 1
    OBVIOUS
  <1>3. a = k * (a \div k) + (a % k)
    OBVIOUS
  <1>4. QED
    BY <1>1, <1>2, <1>3

(* Multiples of s are far from each other.                                 *)
LEMMA FarMultiple == \A s, a, d \in Nat : s * (a + d) = s * a + s * d
  OBVIOUS

LEMMA TwoTimes == \A s, d \in Nat : d >= 2 => s * d >= s + s
  OBVIOUS

LEMMA ConstantFacts ==
    /\ MaxPackets \in Nat /\ Heads \subseteq Packets
    /\ SeqSpace \in Nat /\ SeqSpace > 2 /\ FirstSeq \in 0..SeqSpace - 1
    /\ TsSpace \in Nat /\ TsSpace > 0 /\ MaxAge \in Nat
    /\ Window \in Nat /\ MaxLost \in Nat /\ MaxDups \in Nat
  BY RtpAssumption DEF Packets

(* Half of the space of sequence numbers.                                  *)
Half == SeqSpace \div 2

LEMMA HalfFacts == Half \in Nat /\ Half > 0 /\ Half + Half <= SeqSpace
  <1>1. Half \in Nat /\ SeqSpace % 2 \in 0..1 /\ SeqSpace = 2 * Half + (SeqSpace % 2)
    BY ConstantFacts, DivMod DEF Half
  <1>2. QED
    BY <1>1, ConstantFacts

(* The quotients of two numbers that are close differ by one at most.      *)
LEMMA CloseQuotients ==
    ASSUME NEW s \in Nat, s > 0, NEW a \in Nat, NEW b \in Nat, a <= b, b - a < s
    PROVE  \/ b - a = (b % s) - (a % s)
           \/ b - a = (b % s) - (a % s) + s
  <1> DEFINE p == a \div s
             q == b \div s
             x == a % s
             y == b % s
  <1>1. p \in Nat /\ x \in 0..s - 1 /\ a = s * p + x
    BY DivMod
  <1>2. q \in Nat /\ y \in 0..s - 1 /\ b = s * q + y
    BY DivMod
  <1> HIDE DEF p, q, x, y
  <1>3. CASE q < p
    <2>1. PICK d \in Nat : p = q + 1 + d
      BY <1>1, <1>2, <1>3
    <2>2. s * p = s * q + s * (1 + d)
      <3>1. p = q + (1 + d) /\ 1 + d \in Nat
        BY <2>1, <1>2
      <3>2. QED
        BY <3>1, <1>2, FarMultiple
    <2>3. s * (1 + d) = s * 1 + s * d /\ s * d \in Nat /\ s * 1 = s
      BY FarMultiple
    <2>4. s * q \in Nat
      BY <1>2
    <2>5. QED
      BY <1>1, <1>2, <2>2, <2>3, <2>4
  <1>4. CASE q = p
    <2>1. s * q \in Nat
      BY <1>2
    <2>2. b - a = y - x
      BY <1>1, <1>2, <1>4, <2>1
    <2>3. QED
      BY <2>2 DEF x, y
  <1>5. CASE q > p
    <2>1. PICK d \in Nat : q = p + 1 + d
      BY <1>1, <1>2, <1>5
    <2>2. s * q = s * p + s * (1 + d)
      <3>1. q = p + (1 + d) /\ 1 + d \in Nat
        BY <2>1, <1>1
      <3>2. QED
        BY <3>1, <1>1, FarMultiple
    <2>3. s * (1 + d) = s * 1 + s * d /\ s * 1 = s
      BY FarMultiple
    <2>4. s * p \in Nat /\ s * d \in Nat
      BY <1>1
    <2>5. d = 0
      <3> SUFFICES ASSUME d >= 1 PROVE FALSE
        OBVIOUS
      <3>1. s * (1 + d) >= s + s
        BY TwoTimes
      <3>2. QED
        BY <1>1, <1>2, <2>2, <2>4, <3>1
    <2>6. s * d = 0
      BY <2>5
    <2>7. b - a = y - x + s
      BY <1>1, <1>2, <2>2, <2>3, <2>4, <2>6
    <2>8. QED
      BY <2>7 DEF x, y
  <1>6. QED
    BY <1>1, <1>2, <1>3, <1>4, <1>5

(* operator< and the successor, on the sequence numbers of two packets     *)
(* less than half the space apart: the order of the camera.                *)
IsClose(m, n) == m - n < Half /\ n - m < Half

LEMMA LaterPacket ==
    ASSUME NEW m \in Packets, NEW n \in Packets, m < n, n - m < Half
    PROVE  /\ Less(RtpSeq(m), RtpSeq(n)) /\ ~Less(RtpSeq(n), RtpSeq(m))
           /\ RtpSeq(m) # RtpSeq(n)
  <1> DEFINE a == FirstSeq + m - 1
             b == FirstSeq + n - 1
             x == a % SeqSpace
             y == b % SeqSpace
  <1>1. a \in Nat /\ b \in Nat /\ a < b /\ b - a = n - m
    BY ConstantFacts DEF Packets
  <1> HIDE DEF a, b
  <1>2. x \in 0..SeqSpace - 1 /\ y \in 0..SeqSpace - 1
    BY <1>1, ConstantFacts, DivMod
  <1>3. b - a = y - x \/ b - a = y - x + SeqSpace
    <2>1. SeqSpace \in Nat /\ SeqSpace > 0 /\ a <= b /\ b - a < SeqSpace
      BY <1>1, ConstantFacts, HalfFacts
    <2>2. QED
      BY <1>1, <2>1, CloseQuotients
  <1>4. RtpSeq(m) = x /\ RtpSeq(n) = y
    BY DEF a, b, RtpSeq
  <1>5. \A s, t : Less(s, t) <=> \/ (s < t /\ t - s <= Half - 1)
                                 \/ (t < s /\ s - t > Half - 1)
    BY DEF Less, Half
  <1> HIDE DEF x, y
  <1>6. /\ (x < y /\ y - x <= Half - 1) \/ (y < x /\ x - y > Half - 1)
        /\ ~((y < x /\ x - y <= Half - 1) \/ (x < y /\ y - x > Half - 1))
        /\ x # y
    BY <1>1, <1>2, <1>3, ConstantFacts, HalfFacts
  <1>7. QED
    BY <1>4, <1>5, <1>6

LEMMA SeqNumberFacts ==
    ASSUME NEW m \in Packets, NEW n \in Packets, IsClose(m, n)
    PROVE  /\ Less(RtpSeq(m), RtpSeq(n)) <=> m < n
           /\ RtpSeq(m) = RtpSeq(n) => m = n
  <1>1. m \in Int /\ n \in Int /\ Half \in Nat
    BY HalfFacts DEF Packets
  <1>2. RtpSeq(m) \in 0..SeqSpace - 1
    <2>1. FirstSeq + m - 1 \in Nat
      BY ConstantFacts DEF Packets
    <2>2. QED
      BY <2>1, ConstantFacts, DivMod DEF RtpSeq
  <1>3. ~Less(RtpSeq(m), RtpSeq(m))
    BY <1>2 DEF Less
  <1>4. CASE m < n
    BY <1>4, LaterPacket DEF IsClose
  <1>5. CASE n < m
    BY <1>1, <1>5, LaterPacket DEF IsClose
  <1>6. CASE m = n
    BY <1>1, <1>3, <1>6
  <1>7. QED
    BY <1>1, <1>4, <1>5, <1>6

(* A packet whose number follows a packet's in the stream of sequence      *)
(* numbers is the next one.                                                *)
LEMMA SuccessorFacts ==
    ASSUME NEW m \in Packets, NEW n \in Packets, m < n, n - m < Half, RtpSeq(n) = Succ(RtpSeq(m))
    PROVE  n = m + 1
  <1> DEFINE a == FirstSeq + m - 1
             b == FirstSeq + n - 1
             x == a % SeqSpace
             y == b % SeqSpace
  <1>1. a \in Nat /\ b \in Nat /\ a < b /\ b - a = n - m
    BY ConstantFacts DEF Packets
  <1> HIDE DEF a, b
  <1>2. x \in 0..SeqSpace - 1 /\ y \in 0..SeqSpace - 1
    BY <1>1, ConstantFacts, DivMod
  <1>3. b - a = y - x \/ b - a = y - x + SeqSpace
    <2>1. SeqSpace \in Nat /\ SeqSpace > 0 /\ a <= b /\ b - a < SeqSpace
      BY <1>1, ConstantFacts, HalfFacts
    <2>2. QED
      BY <1>1, <2>1, CloseQuotients
  <1>4. y = (x + 1) % SeqSpace
    BY DEF a, b, x, y, RtpSeq, Succ
  <1> HIDE DEF x, y
  <1>5. CASE x + 1 < SeqSpace
    <2>1. y = x + 1
      BY <1>2, <1>4, <1>5, ConstantFacts
    <2>2. QED
      BY <1>1, <1>2, <1>3, <2>1, ConstantFacts, HalfFacts DEF Packets
  <1>6. CASE x + 1 = SeqSpace
    <2>1. y = 0
      BY <1>4, <1>6, ConstantFacts
    <2>2. QED
      BY <1>1, <1>2, <1>3, <1>6, <2>1, ConstantFacts, HalfFacts DEF Packets
  <1>7. QED
    BY <1>2, <1>5, <1>6, ConstantFacts

-----------------------------------------------------------------------------
(* Lists.                                                                  *)

(* Entries with a packet, which all are.                                   *)
Filled == { e \in Entry : e.packets # << >> }

(* What is where when one entry takes the place of those between the first *)
(* a and the b-th: a packet is inserted (b = a + 1), or a frame joined.    *)
Spliced(m, l, a, b, e) ==
    /\ m \in Seq(Filled) /\ Len(m) = a + 1 + (Len(l) - b + 1)
    /\ \A j \in 1..a : m[j] = l[j]
    /\ m[a + 1] = e
    /\ \A j \in (a + 2)..Len(m) : m[j] = l[j - a + b - 2]

LEMMA SpliceFacts ==
    ASSUME NEW l \in Seq(Filled), NEW a \in Nat, NEW b \in Nat, a < b, b <= Len(l) + 1, NEW e \in Filled,
           NEW m, m = SubSeq(l, 1, a) \o <<e>> \o SubSeq(l, b, Len(l))
    PROVE  Spliced(m, l, a, b, e)
  <1> DEFINE s == SubSeq(l, 1, a)
             t == SubSeq(l, b, Len(l))
  <1>1. Len(l) \in Nat
    OBVIOUS
  <1>2. s \in Seq(Filled) /\ Len(s) = a /\ \A j \in 1..a : s[j] = l[j]
    BY <1>1
  <1>3. t \in Seq(Filled) /\ Len(t) = Len(l) - b + 1 /\ \A j \in 1..(Len(l) - b + 1) : t[j] = l[b + j - 1]
    BY <1>1
  <1> DEFINE c == s \o <<e>>
  <1>4. m = c \o t
    OBVIOUS
  <1> HIDE DEF s, t
  <1>5. c \in Seq(Filled) /\ Len(c) = a + 1 /\ (\A j \in 1..a : c[j] = s[j]) /\ c[a + 1] = e
    BY <1>2
  <1> HIDE DEF c
  <1>6. /\ m \in Seq(Filled) /\ Len(m) = Len(c) + Len(t)
        /\ \A j \in 1..(Len(c) + Len(t)) : m[j] = IF j <= Len(c) THEN c[j] ELSE t[j - Len(c)]
    <2>1. \A u, v : u \in Seq(Filled) /\ v \in Seq(Filled) =>
             /\ u \o v \in Seq(Filled) /\ Len(u \o v) = Len(u) + Len(v)
             /\ \A j \in 1..(Len(u) + Len(v)) : (u \o v)[j] = IF j <= Len(u) THEN u[j] ELSE v[j - Len(u)]
      BY ConcatProperties
    <2>2. c \in Seq(Filled) /\ t \in Seq(Filled)
      BY <1>3, <1>5
    <2>3. /\ c \o t \in Seq(Filled) /\ Len(c \o t) = Len(c) + Len(t)
          /\ \A j \in 1..(Len(c) + Len(t)) : (c \o t)[j] = IF j <= Len(c) THEN c[j] ELSE t[j - Len(c)]
      BY <2>1, <2>2
    <2>4. QED
      BY <1>4, <2>3, Zenon
  <1>7. PICK n \in Nat : n = Len(l) - b + 1
    <2>1. Len(l) - b + 1 \in Nat
      BY <1>1
    <2>2. QED
      BY <2>1
  <1>8. Len(c) = a + 1 /\ Len(t) = n /\ Len(m) = a + 1 + n
    BY <1>3, <1>5, <1>6, <1>7
  <1>9. \A j \in 1..(a + 1 + n) : m[j] = IF j <= a + 1 THEN c[j] ELSE t[j - (a + 1)]
    BY <1>6, <1>8
  <1>10. \A j \in 1..a : m[j] = l[j]
    <2> TAKE j \in 1..a
    <2>1. j \in 1..(a + 1 + n) /\ j <= a + 1
      BY <1>7
    <2>2. m[j] = c[j]
      BY <1>9, <2>1
    <2>3. QED
      BY <1>2, <1>5, <2>2
  <1>11. m[a + 1] = e
    <2>1. a + 1 \in 1..(a + 1 + n) /\ a + 1 <= a + 1
      BY <1>7
    <2>2. m[a + 1] = c[a + 1]
      BY <1>9, <2>1
    <2>3. QED
      BY <1>5, <2>2
  <1>12. \A j \in (a + 2)..(a + 1 + n) : m[j] = l[j - a + b - 2]
    <2> TAKE j \in (a + 2)..(a + 1 + n)
    <2>1. j - (a + 1) \in 1..n /\ j \in 1..(a + 1 + n) /\ ~(j <= a + 1)
          /\ b + (j - (a + 1)) - 1 = j - a + b - 2
      OBVIOUS
    <2>2. m[j] = t[j - (a + 1)]
      BY <1>9, <2>1
    <2>3. t[j - (a + 1)] = l[b + (j - (a + 1)) - 1]
      BY <1>3, <1>7, <2>1
    <2>4. QED
      BY <2>1, <2>2, <2>3
  <1>13. \A j \in (a + 2)..Len(m) : m[j] = l[j - a + b - 2]
    BY <1>8, <1>12
  <1>14. m \in Seq(Filled) /\ Len(m) = a + 1 + (Len(l) - b + 1)
    BY <1>6, <1>7, <1>8
  <1>15. QED
    BY <1>10, <1>11, <1>13, <1>14 DEF Spliced

(* What is left when the first k entries leave.                            *)
LEMMA RestFacts ==
    ASSUME NEW S, NEW l \in Seq(S), NEW k \in 0..Len(l)
    PROVE  LET m == SubSeq(l, k + 1, Len(l))
           IN /\ m \in Seq(S) /\ Len(m) = Len(l) - k
              /\ \A j \in 1..(Len(l) - k) : m[j] = l[k + j]
  OBVIOUS

(* An ordered list of some of the indices of a list.                       *)
LEMMA AscendingFacts ==
    ASSUME NEW n \in Nat, NEW T \in SUBSET (1..n), NEW order \in Ascending(T)
    PROVE  /\ Cardinality(T) \in Nat /\ DOMAIN order = 1..Cardinality(T)
           /\ \A i \in DOMAIN order : order[i] \in T
  <1>1. Cardinality(T) \in Nat
    <2>1. IsFiniteSet(1..n)
      BY FS_Interval
    <2>2. IsFiniteSet(T)
      BY <2>1, FS_Subset
    <2>3. QED
      BY <2>2, FS_CardinalityType
  <1>2. order \in [1..Cardinality(T) -> T]
    BY DEF Ascending, Bijection, Injection
  <1>3. QED
    BY <1>1, <1>2

-----------------------------------------------------------------------------
(* What holds whatever the network does: the types, no entry without a     *)
(* packet, and a packet at the end.                                        *)
PacketLast(l) == l # << >> => ~l[Len(l)].ps

NetTypes ==
    /\ packetsSent \in 0..MaxPackets /\ net \subseteq 1..packetsSent /\ lost \in 0..MaxLost /\ dups \in 0..MaxDups

ListTypes ==
    /\ list \in Seq(Filled) /\ PacketLast(list)
    /\ pushed \in Seq(Seq(Packets))

LEMMA ParseFacts ==
    ASSUME NEW n \in Packets
    PROVE  /\ Parse(n) \in Filled
           /\ ~Parse(n).ps /\ Parse(n).seq = RtpSeq(n) /\ (Parse(n).head <=> n \in Heads)
           /\ Parse(n).packets = <<n>> /\ Parse(n).packets[1] = n
  <1>1. RtpSeq(n) \in 0..SeqSpace - 1
    <2>1. FirstSeq + n - 1 \in Nat
      BY ConstantFacts DEF Packets
    <2>2. QED
      BY <2>1, ConstantFacts, DivMod DEF RtpSeq
  <1>2. FrameOf(n) \in Nat
    <2>1. IsFiniteSet(1..MaxPackets)
      BY ConstantFacts, FS_Interval
    <2>2. { h \in Heads : h <= n } \in SUBSET (1..MaxPackets)
      BY ConstantFacts DEF Packets
    <2>3. IsFiniteSet({ h \in Heads : h <= n })
      BY <2>1, <2>2, FS_Subset
    <2>4. QED
      BY <2>3, FS_CardinalityType DEF FrameOf
  <1>3. FrameOf(n) % TsSpace \in 0..TsSpace - 1
    BY <1>2, ConstantFacts, DivMod
  <1>4. FrameOf(n) % TsSpace \in -1..TsSpace - 1
    BY <1>3, ConstantFacts
  <1>5. <<n>> \in Seq(Packets) /\ <<n>> # << >>
    OBVIOUS
  <1>6. Parse(n) \in Entry
    BY <1>1, <1>4, <1>5 DEF Parse, Entry
  <1>7. QED
    BY <1>5, <1>6 DEF Parse, Filled

(* What Inserted makes of the list.                                        *)
InsertedAt(m, k, p) ==
    /\ k <= Len(list)
    /\ m \in Seq(Filled) /\ Len(m) = Len(list) + 1
    /\ \A j \in 1..k : m[j] = list[j]
    /\ m[k + 1] = p
    /\ \A j \in (k + 2)..(Len(list) + 1) : m[j] = list[j - 1]

LEMMA InsertStep ==
    ASSUME list \in Seq(Filled), NEW p \in Filled, NEW m, m = Inserted(p)
    PROVE  \E k \in Nat :
              /\ k = Cardinality({ i \in DOMAIN list : Less(list[i].seq, p.seq) })
              /\ InsertedAt(m, k, p)
  <1> DEFINE before == { i \in DOMAIN list : Less(list[i].seq, p.seq) }
  <1>1. Len(list) \in Nat /\ DOMAIN list = 1..Len(list)
    OBVIOUS
  <1>2. IsFiniteSet(1..Len(list)) /\ Cardinality(1..Len(list)) = Len(list)
    BY <1>1, FS_Interval
  <1>3. before \in SUBSET (1..Len(list))
    BY <1>1
  <1>4. Inserted(p) = InsertAt(list, 1 + Cardinality(before), p)
    BY DEF Inserted
  <1> HIDE DEF before
  <1>5. IsFiniteSet(before) /\ Cardinality(before) <= Len(list)
    BY <1>2, <1>3, FS_Subset
  <1>6. PICK k \in Nat : k = Cardinality(before)
    BY <1>5, FS_CardinalityType
  <1>7. 1 + k = k + 1 /\ (1 + k) - 1 = k
    OBVIOUS
  <1>8. m = SubSeq(list, 1, k) \o <<p>> \o SubSeq(list, k + 1, Len(list))
    BY <1>4, <1>6, <1>7 DEF InsertAt
  <1>9. PICK b \in Nat : b = k + 1
    OBVIOUS
  <1>10. m = SubSeq(list, 1, k) \o <<p>> \o SubSeq(list, b, Len(list)) /\ k < b /\ b <= Len(list) + 1
    BY <1>1, <1>5, <1>6, <1>8, <1>9
  <1>11. /\ m \in Seq(Filled) /\ Len(m) = k + 1 + (Len(list) - b + 1)
         /\ \A j \in 1..k : m[j] = list[j]
         /\ m[k + 1] = p
         /\ \A j \in (k + 2)..Len(m) : m[j] = list[j - k + b - 2]
    <2>1. Spliced(m, list, k, b, p)
      BY <1>10, SpliceFacts
    <2>2. QED
      BY <2>1 DEF Spliced
  <1>12. Len(m) = Len(list) + 1
    BY <1>1, <1>9, <1>11
  <1>13. \A j \in (k + 2)..(Len(list) + 1) : m[j] = list[j - 1]
    <2> TAKE j \in (k + 2)..(Len(list) + 1)
    <2>1. j \in (k + 2)..Len(m) /\ j - k + b - 2 = j - 1
      BY <1>1, <1>9, <1>12
    <2>2. QED
      BY <1>11, <2>1
  <1>14. InsertedAt(m, k, p)
    BY <1>5, <1>6, <1>11, <1>12, <1>13 DEF InsertedAt
  <1>15. QED
    BY <1>6, <1>14 DEF before

LEMMA InsertedTypes ==
    ASSUME ListTypes, NEW n \in Packets
    PROVE  LET l == Inserted(Parse(n))
           IN l \in Seq(Filled) /\ Len(l) = Len(list) + 1 /\ PacketLast(l)
  <1> DEFINE l == Inserted(Parse(n))
  <1>1. list \in Seq(Filled) /\ Parse(n) \in Filled /\ ~Parse(n).ps /\ Len(list) \in Nat
    BY ParseFacts DEF ListTypes
  <1>2. PICK k \in Nat : InsertedAt(l, k, Parse(n))
    BY <1>1, InsertStep
  <1> HIDE DEF l
  <1>3. /\ k <= Len(list)
        /\ l \in Seq(Filled) /\ Len(l) = Len(list) + 1
        /\ l[k + 1] = Parse(n)
        /\ \A j \in (k + 2)..(Len(list) + 1) : l[j] = list[j - 1]
    BY <1>2 DEF InsertedAt
  <1>4. ~l[Len(l)].ps
    <2>1. CASE k = Len(list)
      BY <1>1, <1>3, <2>1
    <2>2. CASE k < Len(list)
      <3>1. Len(list) + 1 \in (k + 2)..(Len(list) + 1) /\ (Len(list) + 1) - 1 = Len(list) /\ list # << >>
        BY <1>1, <2>2
      <3>2. l[Len(l)] = list[Len(list)]
        BY <1>3, <3>1
      <3>3. QED
        BY <3>1, <3>2 DEF ListTypes, PacketLast
    <2>3. QED
      BY <1>1, <1>3, <2>1, <2>2
  <1>5. QED
    BY <1>3, <1>4 DEF l, PacketLast

(* A frame joined of the entries from first to last - 1.                   *)
LEMMA FrameFacts ==
    ASSUME NEW l \in Seq(Filled), NEW first \in 1..Len(l), NEW last \in 1..Len(l), first < last
    PROVE  LET f == Frame(l, first, last - 1)
           IN /\ f \in Filled /\ f.ps /\ f.seq = l[first].seq
              /\ f.packets \in Seq(Packets) /\ Len(f.packets) = last - first
              /\ \A i \in 1..(last - first) : f.packets[i] = l[first + i - 1].packets[1]
  <1> DEFINE ps == [i \in 1..(last - 1 - first + 1) |-> l[first + i - 1].packets[1]]
  <1>1. /\ Len(l) \in Nat /\ first \in Nat /\ last \in Nat /\ last - first \in Nat \ {0}
        /\ last - 1 - first + 1 = last - first
    OBVIOUS
  <1>2. \A e \in Filled : e.packets[1] \in Packets /\ e.seq \in 0..SeqSpace - 1
    BY DEF Filled, Entry
  <1>3. \A i \in 1..(last - first) : first + i - 1 \in 1..Len(l)
    BY <1>1
  <1>4. \A i \in 1..(last - first) : l[first + i - 1].packets[1] \in Packets
    BY <1>2, <1>3
  <1>5. ps \in [1..(last - first) -> Packets]
    BY <1>1, <1>4
  <1>6. /\ ps \in Seq(Packets) /\ Len(ps) = last - first
        /\ \A i \in 1..(last - first) : ps[i] = l[first + i - 1].packets[1]
    <2>1. \A i \in 1..(last - first) : ps[i] = l[first + i - 1].packets[1]
      BY <1>1
    <2>2. \A s : s \in [1..(last - first) -> Packets] => s \in Seq(Packets) /\ Len(s) = last - first
      BY <1>1
    <2> HIDE DEF ps
    <2>3. QED
      BY <1>5, <2>1, <2>2
  <1> DEFINE f == Frame(l, first, last - 1)
  <1>7. f = [ps |-> TRUE, seq |-> l[first].seq, head |-> FALSE, ts |-> -1, packets |-> ps]
    BY DEF Frame
  <1> HIDE DEF ps, f
  <1>8. ps # << >>
    BY <1>1, <1>6
  <1>9. l[first].seq \in 0..SeqSpace - 1 /\ -1 \in -1..TsSpace - 1
    BY <1>2, ConstantFacts
  <1>10. f \in Entry /\ f.packets = ps /\ f.ps /\ f.seq = l[first].seq
    BY <1>6, <1>7, <1>9 DEF Entry
  <1>11. f \in Filled
    BY <1>8, <1>10 DEF Filled
  <1>12. QED
    BY <1>6, <1>10, <1>11 DEF f

(* What Joined makes of a list with a complete frame.                      *)
JoinedAt(m, l, first, last) ==
    /\ first < last
    /\ m \in Seq(Filled) /\ Len(m) = Len(l) - (last - first) + 1
    /\ \A j \in 1..(first - 1) : m[j] = l[j]
    /\ m[first] = Frame(l, first, last - 1)
    /\ \A j \in (first + 1)..Len(m) : m[j] = l[j + (last - first) - 1]

LEMMA JoinStep ==
    ASSUME NEW l \in Seq(Filled), Complete(l) # {}, NEW m, m = Joined(l)
    PROVE  \E first, last \in 1..Len(l) :
              <<first, last>> \in Complete(l) /\ JoinedAt(m, l, first, last)
  <1>1. Len(l) \in Nat /\ DOMAIN l = 1..Len(l)
    OBVIOUS
  <1> DEFINE ends == { r[2] : r \in Complete(l) }
  <1>2. \A r \in Complete(l) : /\ r[1] \in 1..Len(l) /\ r[2] \in 1..Len(l) /\ r = <<r[1], r[2]>>
                              /\ r[1] < r[2]
    BY <1>1 DEF Complete
  <1>3. ends \in SUBSET (1..Len(l)) /\ ends # {}
    BY <1>2
  <1>4. PICK t \in ends : \A u \in ends : t <= u
    <2> HIDE DEF ends
    <2>1. QED
      BY <1>1, <1>3, LeastIndex
  <1>5. \E r \in Complete(l) : \A q \in Complete(l) : r[2] <= q[2]
    BY <1>4
  <1> DEFINE r == CHOOSE r \in Complete(l) : \A q \in Complete(l) : r[2] <= q[2]
  <1>6. r \in Complete(l)
    BY <1>5
  <1>7. m = SubSeq(l, 1, r[1] - 1) \o <<Frame(l, r[1], r[2] - 1)>> \o SubSeq(l, r[2] - 1 + 1, Len(l))
    BY DEF Joined, UpToNotEnd
  <1> HIDE DEF r
  <1>8. PICK first, last \in 1..Len(l) : first = r[1] /\ last = r[2] /\ <<first, last>> \in Complete(l) /\ first < last
    BY <1>2, <1>6
  <1>9. PICK a \in Nat : a = first - 1
    BY <1>8
  <1>10. PICK f \in Filled : f = Frame(l, first, last - 1)
    BY <1>8, FrameFacts
  <1>11. /\ last \in Nat /\ first = a + 1 /\ a < last /\ last <= Len(l) + 1
         /\ last - 1 + 1 = last /\ first - 1 = a
    BY <1>1, <1>8, <1>9
  <1>12. m = SubSeq(l, 1, a) \o <<f>> \o SubSeq(l, last, Len(l))
    BY <1>7, <1>8, <1>10, <1>11
  <1>13. /\ m \in Seq(Filled) /\ Len(m) = a + 1 + (Len(l) - last + 1)
         /\ \A j \in 1..a : m[j] = l[j]
         /\ m[a + 1] = f
         /\ \A j \in (a + 2)..Len(m) : m[j] = l[j - a + last - 2]
    <2>1. Spliced(m, l, a, last, f)
      BY <1>11, <1>12, SpliceFacts
    <2>2. QED
      BY <2>1 DEF Spliced
  <1>14. Len(m) = Len(l) - (last - first) + 1
    BY <1>1, <1>11, <1>13
  <1>15. \A j \in (first + 1)..Len(m) : m[j] = l[j + (last - first) - 1]
    <2> TAKE j \in (first + 1)..Len(m)
    <2>1. j \in (a + 2)..Len(m)
      BY <1>11, <1>14
    <2>2. j \in Int /\ first \in Int /\ last \in Int
      BY <1>1, <1>8, <1>14
    <2>3. j - a + last - 2 = j + (last - first) - 1
      BY <1>11, <2>2
    <2>4. QED
      BY <1>13, <2>1, <2>3
  <1>16. m[first] = Frame(l, first, last - 1) /\ \A j \in 1..(first - 1) : m[j] = l[j]
    BY <1>10, <1>11, <1>13
  <1>17. JoinedAt(m, l, first, last)
    BY <1>8, <1>13, <1>14, <1>15, <1>16 DEF JoinedAt
  <1>18. QED
    BY <1>8, <1>17

(* Joining leaves the end of the list alone.                               *)
LEMMA JoinedTypes ==
    ASSUME NEW l \in Seq(Filled), PacketLast(l)
    PROVE  Joined(l) \in Seq(Filled) /\ PacketLast(Joined(l))
  <1>1. CASE Complete(l) = {}
    BY <1>1 DEF Joined
  <1>2. CASE Complete(l) # {}
    <2> DEFINE m == Joined(l)
    <2>0. PICK first, last \in 1..Len(l) : JoinedAt(m, l, first, last)
      BY <1>2, JoinStep
    <2> HIDE DEF m
    <2>1. /\ first < last
          /\ m \in Seq(Filled) /\ Len(m) = Len(l) - (last - first) + 1
          /\ \A j \in (first + 1)..Len(m) : m[j] = l[j + (last - first) - 1]
      BY <2>0 DEF JoinedAt
    <2>2. /\ Len(m) \in (first + 1)..Len(m) /\ Len(m) + (last - first) - 1 = Len(l) /\ l # << >>
      BY <2>1
    <2>3. m[Len(m)] = l[Len(l)]
      BY <2>1, <2>2
    <2>4. PacketLast(m)
      BY <2>2, <2>3 DEF PacketLast
    <2>5. QED
      BY <2>1, <2>4 DEF m
  <1>3. QED
    BY <1>1, <1>2

LEMMA LeaveStep ==
    ASSUME NEW l \in Seq(Filled)
    PROVE  Leaving(l) \in 0..Len(l)
  <1>1. Len(l) \in Nat /\ DOMAIN l = 1..Len(l)
    OBVIOUS
  <1>2. CASE \E i \in DOMAIN l : Stays(l, i)
    <2> DEFINE T == { i \in 1..Len(l) : Stays(l, i) }
    <2>1. T \in SUBSET (1..Len(l)) /\ T # {}
      BY <1>1, <1>2
    <2>2. PICK t \in T : \A u \in T : t <= u
      <3> HIDE DEF T
      <3>1. QED
        BY <1>1, <2>1, LeastIndex
    <2>3. t \in DOMAIN l /\ Stays(l, t) /\ \A j \in 1..(t - 1) : ~Stays(l, j)
      BY <1>1, <2>2
    <2> DEFINE i == CHOOSE i \in DOMAIN l : Stays(l, i) /\ \A j \in 1..(i - 1) : ~Stays(l, j)
    <2>4. i \in DOMAIN l
      BY <2>3
    <2>5. Leaving(l) = i - 1
      BY <1>2 DEF Leaving
    <2> HIDE DEF i
    <2>6. QED
      BY <1>1, <2>4, <2>5
  <1>3. CASE ~\E i \in DOMAIN l : Stays(l, i)
    BY <1>1, <1>3 DEF Leaving
  <1>4. QED
    BY <1>2, <1>3

(* The frames that leave, in their order.                                  *)
LEMMA LeavingFrames ==
    ASSUME NEW l \in Seq(Filled), NEW n \in 0..Len(l), NEW order \in FramesAmong(l, n)
    PROVE  /\ Cardinality({ i \in 1..n : IsFrame(l[i]) }) \in Nat
           /\ DOMAIN order = 1..Cardinality({ i \in 1..n : IsFrame(l[i]) })
           /\ \A i \in DOMAIN order : order[i] \in 1..n /\ l[order[i]].ps
  <1> DEFINE T == { i \in 1..n : IsFrame(l[i]) }
  <1>1. T \in SUBSET (1..n) /\ n \in Nat /\ \A i \in T : i \in 1..n /\ l[i].ps
    BY DEF IsFrame
  <1>2. order \in Ascending(T)
    BY DEF FramesAmong
  <1> HIDE DEF T
  <1>3. Cardinality(T) \in Nat /\ DOMAIN order = 1..Cardinality(T) /\ \A i \in DOMAIN order : order[i] \in T
    BY <1>1, <1>2, AscendingFacts
  <1>4. \A i \in DOMAIN order : order[i] \in 1..n /\ l[order[i]].ps
    BY <1>1, <1>3
  <1>5. QED
    BY <1>3, <1>4 DEF T

(* AddPacket.                                                              *)
LEMMA AddTypes ==
    ASSUME ListTypes, NEW n \in Packets, AddPacket(n)
    PROVE  ListTypes'
  <1>1. CASE Listed(n)
    BY <1>1 DEF AddPacket, ListTypes, PacketLast
  <1>2. CASE ~Listed(n)
    <2> DEFINE l == Joined(Inserted(Parse(n)))
    <2>1. l \in Seq(Filled) /\ PacketLast(l)
      BY InsertedTypes, JoinedTypes
    <2>2. Leaving(l) \in 0..Len(l)
      BY <2>1, LeaveStep
    <2>3. list' = SubSeq(l, Leaving(l) + 1, Len(l))
          /\ \E order \in FramesAmong(l, Leaving(l)) :
                  pushed' = pushed \o [i \in DOMAIN order |-> l[order[i]].packets]
      BY <1>2 DEF AddPacket
    <2> HIDE DEF l
    <2>4. PICK k \in 0..Len(l) : k = Leaving(l)
      BY <2>2
    <2>5. /\ list' \in Seq(Filled) /\ Len(list') = Len(l) - k
          /\ \A j \in 1..(Len(l) - k) : list'[j] = l[k + j]
      BY <2>1, <2>3, <2>4, RestFacts
    <2>6. PacketLast(list)'
      <3> SUFFICES ASSUME list' # << >> PROVE ~list'[Len(list')].ps
        BY DEF PacketLast
      <3>1. Len(list') \in 1..(Len(l) - k) /\ k + Len(list') = Len(l) /\ l # << >>
        BY <2>1, <2>5
      <3>2. list'[Len(list')] = l[Len(l)]
        BY <2>5, <3>1
      <3>3. QED
        BY <2>1, <3>1, <3>2 DEF PacketLast
    <2>7. PICK order \in FramesAmong(l, k) :
                  pushed' = pushed \o [i \in DOMAIN order |-> l[order[i]].packets]
      BY <2>3, <2>4
    <2>8. pushed' \in Seq(Seq(Packets))
      <3> DEFINE c == Cardinality({ i \in 1..k : IsFrame(l[i]) })
                 add == [i \in DOMAIN order |-> l[order[i]].packets]
      <3>1. c \in Nat /\ DOMAIN order = 1..c /\ \A i \in DOMAIN order : order[i] \in 1..k
        BY <2>1, LeavingFrames
      <3> HIDE DEF c
      <3>2. \A i \in 1..Len(l) : l[i].packets \in Seq(Packets)
        BY <2>1 DEF Filled, Entry
      <3>3. \A i \in DOMAIN order : order[i] \in 1..Len(l)
        BY <3>1, <2>1, <2>4
      <3>4. add \in [1..c -> Seq(Packets)]
        BY <3>1, <3>2, <3>3
      <3> HIDE DEF add
      <3>5. add \in Seq(Seq(Packets))
        BY <3>1, <3>4
      <3>6. pushed \o add \in Seq(Seq(Packets))
        BY <3>5, ConcatProperties DEF ListTypes
      <3>7. QED
        BY <2>7, <3>6 DEF add
    <2>9. QED
      BY <2>5, <2>6, <2>8 DEF ListTypes
  <1>3. QED
    BY <1>1, <1>2

LEMMA TypesStep ==
    ASSUME NetTypes, ListTypes, [RtpNext]_rtpVars
    PROVE  NetTypes' /\ ListTypes'
  <1>1. ASSUME UNCHANGED <<list, pushed>> PROVE ListTypes'
    BY <1>1 DEF ListTypes, PacketLast
  <1>2. CASE CameraSends
    BY <1>1, <1>2, ConstantFacts DEF CameraSends, NetTypes
  <1>3. ASSUME NEW n \in Packets, PacketLost(n) PROVE NetTypes' /\ ListTypes'
    BY <1>1, <1>3, ConstantFacts DEF PacketLost, NetTypes
  <1>4. ASSUME NEW n \in Packets, Arrives(n) PROVE NetTypes' /\ ListTypes'
    <2>1. ListTypes'
      BY <1>4, AddTypes DEF Arrives
    <2>2. NetTypes'
      <3>1. net' \subseteq net /\ packetsSent' = packetsSent /\ lost' = lost
        BY <1>4 DEF Arrives
      <3>2. dups' = dups \/ (dups < MaxDups /\ dups' = dups + 1)
        BY <1>4 DEF Arrives
      <3>3. QED
        BY <3>1, <3>2, ConstantFacts DEF NetTypes
    <2>3. QED
      BY <2>1, <2>2
  <1>5. CASE UNCHANGED rtpVars
    BY <1>1, <1>5 DEF rtpVars, NetTypes
  <1>6. QED
    BY <1>2, <1>3, <1>4, <1>5 DEF RtpNext

LEMMA TypesInvariant == RtpSpec => [](NetTypes /\ ListTypes)
  <1>1. RtpInit => NetTypes /\ ListTypes
    <2>1. << >> \in Seq(Filled) /\ << >> \in Seq(Seq(Packets))
      OBVIOUS
    <2>2. QED
      BY <2>1, ConstantFacts DEF RtpInit, NetTypes, ListTypes, PacketLast
  <1>2. QED
    BY <1>1, TypesStep, PTL DEF RtpSpec

(* Every variable stays in its type, for every division into frames.       *)
THEOREM RtpTypeCorrect == RtpSpec => []RtpTypeOK
  <1>1. NetTypes /\ ListTypes => RtpTypeOK
    <2>1. Filled \subseteq Entry
      BY DEF Filled
    <2>2. list \in Seq(Filled) => list \in Seq(Entry)
      BY <2>1, SeqMonotonic
    <2>3. QED
      BY <2>2 DEF NetTypes, ListTypes, RtpTypeOK
  <1>2. QED
    BY <1>1, TypesInvariant, PTL

(* The age of packets is never taken from a joined frame, whose ts is not  *)
(* set, whatever is lost, delayed or repeated: the entry that ends a frame *)
(* stays behind it in m_PacketList.                                        *)
THEOREM AgeIsOfAPacket == RtpSpec => []LastIsPacket
  <1>1. ListTypes => LastIsPacket
    BY DEF ListTypes, PacketLast, LastIsPacket, Last
  <1>2. QED
    BY <1>1, TypesInvariant, PTL

-----------------------------------------------------------------------------
(* operator< orders the packets only while those that are compared are     *)
(* less than half the space of sequence numbers apart (rtp.cpp:39-54): the *)
(* ones under way and the ones the list is sorted by.                      *)
Key(e) == e.packets[1]
Keys(l) == { Key(l[i]) : i \in DOMAIN l }

Close == \A m, n \in net \cup Keys(list) : IsClose(m, n)

(* As long as that is so, the list is sorted, an entry's sequence number   *)
(* and header flag are those of its first packet, and what is joined or    *)
(* pushed is a whole frame.                                                *)
Whole(f) ==
    /\ f # << >> /\ f[1] \in Heads
    /\ \A i \in DOMAIN f : f[i] = f[1] + i - 1
    /\ \A i \in DOMAIN f : i > 1 => f[i] \notin Heads
    /\ f[Len(f)] + 1 \in Heads

Known(e) ==
    /\ e.seq = RtpSeq(Key(e))
    /\ ~e.ps => (e.head <=> Key(e) \in Heads)
    /\ e.ps => Whole(e.packets)

AllKnown(l) == \A i \in DOMAIN l : Known(l[i])
Sorted(l)   == \A i, j \in DOMAIN l : i < j => Key(l[i]) < Key(l[j])
AllClose(l) == \A i, j \in DOMAIN l : IsClose(Key(l[i]), Key(l[j]))

Order == AllKnown(list) /\ Sorted(list) /\ \A k \in DOMAIN pushed : Whole(pushed[k])

LEMMA KeyTypes ==
    ASSUME NEW l \in Seq(Filled)
    PROVE  /\ Len(l) \in Nat /\ DOMAIN l = 1..Len(l)
           /\ \A i \in DOMAIN l : Key(l[i]) \in Packets /\ Key(l[i]) \in Int
  <1>1. \A e \in Filled : Key(e) \in Packets
    BY DEF Filled, Entry, Key
  <1>2. \A n \in Packets : n \in Int
    BY DEF Packets
  <1>3. QED
    BY <1>1, <1>2

(* Numbers that go up by one at every index.                               *)
LEMMA UpByOne ==
    ASSUME NEW N \in Nat, NEW f, \A i \in 1..N : f[i] \in Int,
           \A i \in 1..N : i + 1 <= N => f[i + 1] = f[i] + 1
    PROVE  \A i \in 1..N : f[i] = f[1] + i - 1
  <1> DEFINE T == { i \in 1..N : \A j \in 1..i : f[j] = f[1] + j - 1 }
             c == Cardinality(T)
  <1>1. T \in SUBSET (1..N) /\ \A i \in T : \A j \in 1..i : j \in T
    OBVIOUS
  <1>2. c \in 0..N /\ T = 1..c
    <2> HIDE DEF T
    <2>1. QED
      BY <1>1, InitialSegment
  <1> HIDE DEF c
  <1>3. ASSUME c < N PROVE FALSE
    <2>1. c + 1 \in 1..N
      BY <1>2, <1>3
    <2>2. f[c + 1] = f[1] + (c + 1) - 1
      <3>1. CASE c = 0
        BY <2>1, <3>1
      <3>2. CASE c > 0
        <4>1. c \in 1..N /\ c \in T
          <5> HIDE DEF T
          <5>1. QED
            BY <1>2, <3>2
        <4>2. f[c] = f[1] + c - 1 /\ f[c + 1] = f[c] + 1
          BY <2>1, <4>1
        <4>3. PICK a \in Int : a = f[1]
          BY <4>1
        <4>4. c \in Int /\ f[c] = a + c - 1 /\ f[c + 1] = (a + c - 1) + 1
          BY <4>1, <4>2, <4>3
        <4>5. (a + c - 1) + 1 = a + (c + 1) - 1
          BY <4>3, <4>4
        <4>6. QED
          BY <4>3, <4>4, <4>5
      <3>3. QED
        BY <1>2, <3>1, <3>2
    <2>3. \A j \in 1..c : f[j] = f[1] + j - 1
      <3> TAKE j \in 1..c
      <3>1. j \in T
        <4> HIDE DEF T
        <4>1. QED
          BY <1>2
      <3>2. j \in 1..j
        BY <1>2
      <3>3. QED
        BY <3>1, <3>2
    <2>4. \A j \in 1..(c + 1) : j \in 1..c \/ j = c + 1
      BY <1>2
    <2>5. c + 1 \in T
      BY <2>1, <2>2, <2>3, <2>4
    <2> HIDE DEF T
    <2>6. QED
      BY <1>2, <2>5
  <1>4. c = N
    BY <1>2, <1>3
  <1>5. QED
    BY <1>2, <1>4

(* An arriving packet is sorted in.                                        *)
LEMMA InsertedOrder ==
    ASSUME ListTypes, Order, Close, NEW n \in net, n \in Packets, ~Listed(n)
    PROVE  LET l == Inserted(Parse(n)) IN AllKnown(l) /\ Sorted(l) /\ AllClose(l)
  <1> DEFINE p == Parse(n)
             before == { i \in DOMAIN list : Less(list[i].seq, p.seq) }
             k == Cardinality(before)
             l == Inserted(p)
  <1>1. /\ list \in Seq(Filled) /\ Len(list) \in Nat /\ DOMAIN list = 1..Len(list)
        /\ \A i \in DOMAIN list : Key(list[i]) \in Packets /\ Key(list[i]) \in Int
    BY KeyTypes DEF ListTypes
  <1>2. /\ p \in Filled /\ Key(p) = n /\ p.seq = RtpSeq(n) /\ Known(p) /\ n \in Int
    BY ParseFacts DEF Known, Key, Packets
  <1>3. \A i \in DOMAIN list : IsClose(Key(list[i]), n) /\ IsClose(n, Key(list[i]))
    BY DEF Close, Keys
  <1>4. \A i \in DOMAIN list : /\ Less(list[i].seq, p.seq) <=> Key(list[i]) < n
                               /\ Key(list[i]) # n
    <2> TAKE i \in DOMAIN list
    <2>1. list[i].seq = RtpSeq(Key(list[i]))
      BY DEF Order, AllKnown, Known
    <2>2. Less(RtpSeq(Key(list[i])), RtpSeq(n)) <=> Key(list[i]) < n
      BY <1>1, <1>3, SeqNumberFacts
    <2>3. list[i].seq # RtpSeq(n)
      BY DEF Listed
    <2>4. QED
      BY <1>2, <2>1, <2>2, <2>3
  <1>5. /\ k \in 0..Len(list)
        /\ l \in Seq(Filled) /\ Len(l) = Len(list) + 1
        /\ \A j \in 1..k : l[j] = list[j]
        /\ l[k + 1] = p
        /\ \A j \in (k + 2)..(Len(list) + 1) : l[j] = list[j - 1]
    <2>1. list \in Seq(Filled) /\ p \in Filled
      BY <1>1, <1>2
    <2>2. k \in Nat /\ InsertedAt(l, k, p)
      BY <2>1, InsertStep
    <2> HIDE DEF l, k
    <2>3. QED
      BY <1>1, <2>2 DEF InsertedAt
  <1>6. before = 1..k
    <2>1. before \in SUBSET (1..Len(list))
      BY <1>1
    <2>2. \A i \in before : \A j \in 1..i : j \in before
      <3> TAKE i \in before
      <3> TAKE j \in 1..i
      <3>1. i \in 1..Len(list) /\ j \in 1..Len(list) /\ Key(list[i]) < n
        BY <1>1, <1>4
      <3>2. Key(list[j]) < n
        <4>1. CASE j = i
          BY <3>1, <4>1
        <4>2. CASE j < i
          <5>1. Key(list[j]) < Key(list[i])
            BY <1>1, <3>1, <4>2 DEF Order, Sorted
          <5>2. QED
            BY <1>1, <1>2, <3>1, <5>1
        <4>3. QED
          BY <3>1, <4>1, <4>2
      <3>3. QED
        BY <1>1, <1>4, <3>1, <3>2
    <2> HIDE DEF before
    <2>3. QED
      BY <1>1, <2>1, <2>2, InitialSegment
  <1>7. \A i \in 1..Len(list) : IF i <= k THEN Key(list[i]) < n ELSE n < Key(list[i])
    <2> HIDE DEF k
    <2> TAKE i \in 1..Len(list)
    <2>1. i <= k <=> Less(list[i].seq, p.seq)
      BY <1>1, <1>5, <1>6
    <2>2. QED
      BY <1>1, <1>2, <1>4, <2>1
  <1> HIDE DEF p, k, before
  <1> DEFINE m == l
  <1>8. /\ m \in Seq(Filled) /\ Len(m) = Len(list) + 1
        /\ \A j \in 1..k : m[j] = list[j]
        /\ m[k + 1] = p
        /\ \A j \in (k + 2)..(Len(list) + 1) : m[j] = list[j - 1]
    BY <1>5
  <1> HIDE DEF m
  <1>9. DOMAIN m = 1..(Len(list) + 1)
    BY <1>1, <1>8
  <1>10. \A j \in DOMAIN m : \/ j \in 1..k /\ j \in 1..Len(list) /\ m[j] = list[j]
                             \/ j = k + 1 /\ m[j] = p
                             \/ j \in (k + 2)..(Len(list) + 1) /\ j - 1 \in 1..Len(list) /\ m[j] = list[j - 1]
    BY <1>1, <1>5, <1>8, <1>9
  <1>11. \A j \in DOMAIN m : m[j] = p \/ \E i \in DOMAIN list : m[j] = list[i]
    BY <1>1, <1>10
  <1>12. AllKnown(m)
    BY <1>2, <1>11 DEF AllKnown, Order
  <1>13. AllClose(m)
    <2>1. \A j \in DOMAIN m : Key(m[j]) \in net \cup Keys(list)
      BY <1>2, <1>11 DEF Keys
    <2>2. QED
      BY <2>1 DEF AllClose, Close
  <1>14. Sorted(m)
    <2> SUFFICES ASSUME NEW i \in DOMAIN m, NEW j \in DOMAIN m, i < j PROVE Key(m[i]) < Key(m[j])
      BY DEF Sorted
    <2>1. \A a, b \in 1..Len(list) : a < b => Key(list[a]) < Key(list[b])
      BY <1>1 DEF Order, Sorted
    <2>2. i \in Nat /\ j \in Nat /\ k \in Nat
      BY <1>1, <1>5, <1>9
    <2>3. CASE i \in 1..k /\ i \in 1..Len(list) /\ m[i] = list[i]
      <3>1. Key(m[i]) < n
        BY <1>7, <2>2, <2>3
      <3>2. CASE j \in 1..k /\ j \in 1..Len(list) /\ m[j] = list[j]
        BY <2>1, <2>3, <3>2
      <3>3. CASE j = k + 1 /\ m[j] = p
        BY <1>2, <3>1, <3>3
      <3>4. CASE j \in (k + 2)..(Len(list) + 1) /\ j - 1 \in 1..Len(list) /\ m[j] = list[j - 1]
        <4>1. i < j - 1
          BY <2>2, <2>3, <3>4
        <4>2. QED
          BY <2>1, <2>3, <3>4, <4>1
      <3>5. QED
        BY <1>10, <3>2, <3>3, <3>4
    <2>4. CASE i = k + 1 /\ m[i] = p
      <3>1. j \in (k + 2)..(Len(list) + 1) /\ j - 1 \in 1..Len(list) /\ m[j] = list[j - 1] /\ ~(j - 1 <= k)
        BY <1>10, <2>2, <2>4
      <3>2. QED
        BY <1>2, <1>7, <2>4, <3>1
    <2>5. CASE i \in (k + 2)..(Len(list) + 1) /\ i - 1 \in 1..Len(list) /\ m[i] = list[i - 1]
      <3>1. j \in (k + 2)..(Len(list) + 1) /\ j - 1 \in 1..Len(list) /\ m[j] = list[j - 1] /\ i - 1 < j - 1
        BY <1>10, <2>2, <2>5
      <3>2. QED
        BY <2>1, <2>5, <3>1
    <2>6. QED
      BY <1>10, <2>3, <2>4, <2>5
  <1>15. l = m
    BY <1>5 DEF m
  <1> HIDE DEF l
  <1>16. AllKnown(l) /\ Sorted(l) /\ AllClose(l)
    BY <1>12, <1>13, <1>14, <1>15
  <1>17. QED
    BY <1>16 DEF l, p

(* The entries from a PS header to the next one or to a joined frame, when *)
(* no sequence number is missing, are a whole frame.                       *)
LEMMA FrameIsWhole ==
    ASSUME NEW l \in Seq(Filled), AllKnown(l), Sorted(l), AllClose(l),
           NEW first \in 1..Len(l), NEW last \in 1..Len(l), <<first, last>> \in Complete(l)
    PROVE  /\ Known(Frame(l, first, last - 1))
           /\ Key(Frame(l, first, last - 1)) = Key(l[first])
           /\ Len(Frame(l, first, last - 1).packets) = last - first
           /\ \A i \in first..last : Key(l[i]) = Key(l[first]) + (i - first)
  <1>1. /\ Len(l) \in Nat /\ DOMAIN l = 1..Len(l)
        /\ \A i \in DOMAIN l : Key(l[i]) \in Packets /\ Key(l[i]) \in Int
    BY KeyTypes
  <1>2. /\ first < last /\ Begins(l[first]) /\ Ends(l[last])
        /\ \A i \in (first + 1)..(last - 1) : ~Ends(l[i])
        /\ \A i \in first..(last - 1) : Contiguous(l[i].seq, l[i + 1].seq)
    BY DEF Complete
  <1>3. \A i \in first..(last - 1) : Key(l[i + 1]) = Key(l[i]) + 1
    <2> TAKE i \in first..(last - 1)
    <2>1. i \in DOMAIN l /\ i + 1 \in DOMAIN l /\ i < i + 1
      BY <1>1
    <2>2. RtpSeq(Key(l[i + 1])) = Succ(RtpSeq(Key(l[i])))
      BY <1>2, <2>1 DEF Contiguous, AllKnown, Known
    <2>3. Key(l[i]) < Key(l[i + 1]) /\ Key(l[i + 1]) - Key(l[i]) < Half
      BY <2>1 DEF Sorted, AllClose, IsClose
    <2>4. QED
      BY <1>1, <2>1, <2>2, <2>3, SuccessorFacts
  <1> DEFINE f == Frame(l, first, last - 1)
             ps == f.packets
  <1>4. /\ f \in Filled /\ f.ps /\ f.seq = l[first].seq
        /\ ps \in Seq(Packets) /\ Len(ps) = last - first
        /\ \A i \in 1..(last - first) : ps[i] = Key(l[first + i - 1])
    BY <1>2, FrameFacts DEF Key
  <1> HIDE DEF f, ps
  <1>5. PICK n \in Nat : n = last - first /\ n > 0 /\ last = first + n
    BY <1>1, <1>2
  <1>6. /\ Len(ps) = n /\ DOMAIN ps = 1..n
        /\ \A i \in 1..n : first + i - 1 \in DOMAIN l /\ ps[i] = Key(l[first + i - 1])
    <2>1. Len(ps) = n /\ DOMAIN ps = 1..n
      BY <1>4, <1>5
    <2>2. \A i \in 1..n : first + i - 1 \in DOMAIN l
      BY <1>1, <1>5
    <2>3. \A i \in 1..n : ps[i] = Key(l[first + i - 1])
      BY <1>4, <1>5
    <2>4. QED
      BY <2>1, <2>2, <2>3
  <1>7. \A i \in 1..n : ps[i] \in Int
    BY <1>1, <1>6
  <1>8. \A i \in 1..n : i + 1 <= n => ps[i + 1] = ps[i] + 1
    <2> TAKE i \in 1..n
    <2> HAVE i + 1 <= n
    <2>1. /\ first + i - 1 \in first..(last - 1) /\ (first + i - 1) + 1 = first + (i + 1) - 1
          /\ i + 1 \in 1..n
      BY <1>5
    <2>2. QED
      BY <1>3, <1>6, <2>1
  <1>9. \A i \in 1..n : ps[i] = ps[1] + i - 1
    BY <1>7, <1>8, UpByOne
  <1>10. ps[1] = Key(l[first])
    <2>1. 1 \in 1..n /\ first + 1 - 1 = first
      BY <1>5
    <2>2. QED
      BY <1>6, <2>1
  <1>11. ps[1] \in Heads
    BY <1>1, <1>2, <1>10 DEF Begins, AllKnown, Known
  <1>12. \A i \in 1..n : i > 1 => ps[i] \notin Heads
    <2> TAKE i \in 1..n
    <2> HAVE i > 1
    <2>1. first + i - 1 \in (first + 1)..(last - 1) /\ first + i - 1 \in DOMAIN l
      BY <1>5, <1>6
    <2>2. ~Ends(l[first + i - 1])
      BY <1>2, <2>1
    <2>3. QED
      BY <1>6, <2>1, <2>2 DEF Ends, AllKnown, Known
  <1>13. ps[n] + 1 \in Heads
    <2>1. last - 1 \in first..(last - 1) /\ (last - 1) + 1 = last /\ first + n - 1 = last - 1 /\ n \in 1..n
      BY <1>5
    <2>2. Key(l[last]) = ps[n] + 1
      BY <1>3, <1>6, <2>1
    <2>3. Key(l[last]) \in Heads
      BY <1>1, <1>2 DEF Ends, AllKnown, Known, Whole, Key
    <2>4. QED
      BY <2>2, <2>3
  <1>14. ps # << >>
    BY <1>4, <1>5, <1>6
  <1>15. Whole(ps)
    BY <1>6, <1>9, <1>11, <1>12, <1>13, <1>14 DEF Whole
  <1>16. Key(f) = Key(l[first])
    BY <1>10 DEF Key, ps
  <1>17. f.seq = RtpSeq(Key(f))
    BY <1>1, <1>4, <1>16 DEF AllKnown, Known
  <1>18. Known(f)
    BY <1>4, <1>15, <1>17 DEF Known, ps
  <1>19. \A i \in first..last : Key(l[i]) = Key(l[first]) + (i - first)
    <2> TAKE i \in first..last
    <2>1. PICK j \in 1..(n + 1) : j = i - first + 1 /\ i = first + j - 1
      BY <1>5
    <2>2. \A j1 \in 1..n : Key(l[first + j1 - 1]) = Key(l[first]) + j1 - 1
      BY <1>6, <1>9, <1>10
    <2>3. PICK a \in Int : a = Key(l[first])
      BY <1>1
    <2>4. CASE j \in 1..n
      <3>1. Key(l[i]) = a + j - 1
        BY <2>1, <2>2, <2>3, <2>4
      <3>2. j - 1 = i - first
        BY <2>1
      <3>3. a + j - 1 = a + (i - first)
        BY <2>1, <2>3, <3>2
      <3>4. QED
        BY <2>3, <3>1, <3>3
    <2>5. CASE j = n + 1
      <3>1. n \in 1..n /\ first + n - 1 \in first..(last - 1) /\ (first + n - 1) + 1 = i
        BY <1>5, <2>1, <2>5
      <3>2. Key(l[i]) = (a + n - 1) + 1
        BY <1>3, <2>2, <2>3, <3>1
      <3>3. (a + n - 1) + 1 = a + (i - first)
        BY <2>1, <2>3, <2>5
      <3>4. QED
        BY <2>3, <3>2, <3>3
    <2>6. QED
      BY <1>5, <2>1, <2>4, <2>5
  <1>20. Len(f.packets) = last - first
    BY <1>4 DEF ps
  <1>21. QED
    BY <1>16, <1>18, <1>19, <1>20 DEF f

(* Joining keeps the order: the frame takes the place of its first packet. *)
LEMMA JoinedOrder ==
    ASSUME NEW l \in Seq(Filled), AllKnown(l), Sorted(l), AllClose(l)
    PROVE  AllKnown(Joined(l)) /\ Sorted(Joined(l))
  <1>1. CASE Complete(l) = {}
    BY <1>1 DEF Joined
  <1>2. CASE Complete(l) # {}
    <2> DEFINE m == Joined(l)
    <2>1. PICK first, last \in 1..Len(l) : <<first, last>> \in Complete(l) /\ JoinedAt(m, l, first, last)
      BY <1>2, JoinStep
    <2> HIDE DEF m
    <2>2. /\ Len(l) \in Nat /\ DOMAIN l = 1..Len(l) /\ \A i \in DOMAIN l : Key(l[i]) \in Int
      BY KeyTypes
    <2>3. /\ first < last
          /\ m \in Seq(Filled) /\ Len(m) = Len(l) - (last - first) + 1
          /\ \A j \in 1..(first - 1) : m[j] = l[j]
          /\ m[first] = Frame(l, first, last - 1)
          /\ \A j \in (first + 1)..Len(m) : m[j] = l[j + (last - first) - 1]
      BY <2>1 DEF JoinedAt
    <2>4. Known(m[first]) /\ Key(m[first]) = Key(l[first])
      BY <2>1, <2>3, FrameIsWhole
    <2>5. DOMAIN m = 1..Len(m) /\ Len(m) \in Nat
      BY <2>3
    <2> DEFINE at(j) == IF j <= first THEN j ELSE j + (last - first) - 1
    <2>6. \A j \in DOMAIN m : at(j) \in DOMAIN l /\ Key(m[j]) = Key(l[at(j)]) /\ Known(m[j])
      <3> TAKE j \in DOMAIN m
      <3>1. CASE j \in 1..(first - 1)
        <4>1. at(j) = j /\ j \in DOMAIN l
          BY <2>2, <3>1
        <4>2. QED
          BY <2>3, <3>1, <4>1 DEF AllKnown
      <3>2. CASE j = first
        <4>1. at(j) = first /\ first \in DOMAIN l
          BY <2>2, <3>2
        <4>2. QED
          BY <2>4, <3>2, <4>1
      <3>3. CASE j \in (first + 1)..Len(m)
        <4>1. at(j) = j + (last - first) - 1 /\ j + (last - first) - 1 \in DOMAIN l
          BY <2>2, <2>3, <3>3
        <4>2. QED
          BY <2>3, <3>3, <4>1 DEF AllKnown
      <3>4. QED
        BY <2>5, <3>1, <3>2, <3>3
    <2>7. \A i, j \in DOMAIN m : i < j => at(i) < at(j)
      BY <2>3, <2>5
    <2> HIDE DEF at
    <2>8. AllKnown(m)
      BY <2>6 DEF AllKnown
    <2>9. Sorted(m)
      BY <2>6, <2>7 DEF Sorted
    <2>10. QED
      BY <2>8, <2>9 DEF m
  <1>3. QED
    BY <1>1, <1>2

LEMMA AddOrder ==
    ASSUME ListTypes, Order, Close, NEW n \in net, n \in Packets, AddPacket(n)
    PROVE  Order'
  <1>1. CASE Listed(n)
    BY <1>1 DEF AddPacket, Order, AllKnown, Sorted
  <1>2. CASE ~Listed(n)
    <2> DEFINE i1 == Inserted(Parse(n))
               l == Joined(i1)
    <2>1. i1 \in Seq(Filled) /\ PacketLast(i1)
      BY InsertedTypes
    <2>2. AllKnown(i1) /\ Sorted(i1) /\ AllClose(i1)
      BY <1>2, InsertedOrder
    <2> HIDE DEF i1
    <2>3. l \in Seq(Filled) /\ AllKnown(l) /\ Sorted(l)
      BY <2>1, <2>2, JoinedTypes, JoinedOrder
    <2>4. list' = SubSeq(l, Leaving(l) + 1, Len(l))
          /\ \E order \in FramesAmong(l, Leaving(l)) :
                  pushed' = pushed \o [i \in DOMAIN order |-> l[order[i]].packets]
      BY <1>2 DEF AddPacket, i1
    <2> HIDE DEF l
    <2>5. PICK k \in 0..Len(l) : k = Leaving(l)
      BY <2>3, LeaveStep
    <2>6. Len(l) \in Nat /\ DOMAIN l = 1..Len(l) /\ \A i \in DOMAIN l : Key(l[i]) \in Int
      BY <2>3, KeyTypes
    <2>7. /\ list' \in Seq(Filled) /\ Len(list') = Len(l) - k
          /\ \A j \in 1..(Len(l) - k) : list'[j] = l[k + j]
      BY <2>3, <2>4, <2>5, RestFacts
    <2>8. \A j \in DOMAIN list' : k + j \in DOMAIN l /\ list'[j] = l[k + j] /\ j \in Nat
      BY <2>5, <2>6, <2>7
    <2>9. AllKnown(list)'
      BY <2>3, <2>8 DEF AllKnown, Known, Key
    <2>10. Sorted(list)'
      <3>1. \A i, j \in DOMAIN list' : i < j => k + i < k + j
        BY <2>5, <2>8
      <3>2. \A i, j \in DOMAIN list' : i < j => Key(list'[i]) < Key(list'[j])
        BY <2>3, <2>8, <3>1 DEF Sorted
      <3>3. QED
        BY <3>2 DEF Sorted, Key
    <2>11. PICK order \in FramesAmong(l, k) :
                  pushed' = pushed \o [i \in DOMAIN order |-> l[order[i]].packets]
      BY <2>4, <2>5
    <2>12. \A j \in DOMAIN pushed' : Whole(pushed'[j])
      <3> DEFINE c == Cardinality({ i \in 1..k : IsFrame(l[i]) })
                 add == [i \in DOMAIN order |-> l[order[i]].packets]
      <3>1. c \in Nat /\ DOMAIN order = 1..c /\ \A i \in DOMAIN order : order[i] \in 1..k /\ l[order[i]].ps
        BY <2>3, <2>5, LeavingFrames
      <3> HIDE DEF c
      <3>2. \A i \in 1..c : order[i] \in DOMAIN l /\ l[order[i]].ps
        BY <2>5, <2>6, <3>1
      <3>3. \A i \in 1..c : Whole(add[i])
        BY <2>3, <3>1, <3>2 DEF AllKnown, Known
      <3>4. \A i \in 1..c : l[order[i]].packets \in Seq(Packets)
        <4>1. \A e \in Filled : e.packets \in Seq(Packets)
          BY DEF Filled, Entry
        <4>2. QED
          BY <2>3, <2>6, <3>2, <4>1
      <3>5. add \in [1..c -> Seq(Packets)]
        BY <3>1, <3>4
      <3> HIDE DEF add
      <3>6. add \in Seq(Seq(Packets)) /\ Len(add) = c
        BY <3>1, <3>5
      <3>7. pushed \in Seq(Seq(Packets)) /\ \A j \in DOMAIN pushed : Whole(pushed[j])
        BY DEF ListTypes, Order
      <3>8. pushed' = pushed \o add
        BY <2>11 DEF add
      <3>9. /\ DOMAIN pushed' = 1..(Len(pushed) + c) /\ Len(pushed) \in Nat /\ DOMAIN pushed = 1..Len(pushed)
            /\ \A j \in 1..(Len(pushed) + c) : pushed'[j] = IF j <= Len(pushed) THEN pushed[j] ELSE add[j - Len(pushed)]
        <4>1. /\ Len(pushed \o add) = Len(pushed) + Len(add)
              /\ \A j \in 1..(Len(pushed) + Len(add)) :
                    (pushed \o add)[j] = IF j <= Len(pushed) THEN pushed[j] ELSE add[j - Len(pushed)]
              /\ pushed \o add \in Seq(Seq(Packets))
          BY <3>6, <3>7, ConcatProperties
        <4>2. Len(pushed) \in Nat /\ DOMAIN pushed = 1..Len(pushed)
          BY <3>7
        <4>3. DOMAIN pushed' = 1..(Len(pushed) + c)
          BY <3>6, <3>8, <4>1
        <4>4. QED
          BY <3>6, <3>8, <4>1, <4>2, <4>3
      <3> SUFFICES ASSUME NEW j \in 1..(Len(pushed) + c) PROVE Whole(pushed'[j])
        BY <3>9
      <3>10. CASE j <= Len(pushed)
        <4>1. j \in DOMAIN pushed /\ pushed'[j] = pushed[j]
          BY <3>9, <3>10
        <4>2. QED
          BY <3>7, <4>1
      <3>11. CASE ~(j <= Len(pushed))
        <4>1. j - Len(pushed) \in 1..c /\ pushed'[j] = add[j - Len(pushed)]
          BY <3>1, <3>9, <3>11
        <4>2. QED
          BY <3>3, <4>1
      <3>12. QED
        BY <3>10, <3>11
    <2>13. QED
      BY <2>9, <2>10, <2>12 DEF Order
  <1>3. QED
    BY <1>1, <1>2

LEMMA OrderStep ==
    ASSUME NetTypes, ListTypes, Order, Close, [RtpNext]_rtpVars
    PROVE  Order'
  <1>1. ASSUME UNCHANGED <<list, pushed>> PROVE Order'
    BY <1>1 DEF Order, AllKnown, Sorted
  <1>2. ASSUME NEW n \in Packets, Arrives(n) PROVE Order'
    BY <1>2, AddOrder DEF Arrives
  <1>3. CASE CameraSends
    BY <1>1, <1>3 DEF CameraSends
  <1>4. ASSUME NEW n \in Packets, PacketLost(n) PROVE Order'
    BY <1>1, <1>4 DEF PacketLost
  <1>5. CASE UNCHANGED rtpVars
    BY <1>1, <1>5 DEF rtpVars
  <1>6. QED
    BY <1>2, <1>3, <1>4, <1>5 DEF RtpNext

LEMMA OrderInvariant == RtpSpec /\ []Close => []Order
  <1>1. RtpInit => Order
    BY DEF RtpInit, Order, AllKnown, Sorted
  <1>2. QED
    BY <1>1, OrderStep, TypesInvariant, PTL DEF RtpSpec

(* operator< keeps m_PacketList in the order of the camera while the       *)
(* packets compared are less than half the space apart, and then every     *)
(* frame that leaves it is whole.                                          *)
LEMMA SortedWhileClose == RtpSpec /\ []Close => []ListSorted
  <1>1. Order => ListSorted
    BY DEF Order, Sorted, Key, ListSorted
  <1>2. QED
    BY <1>1, OrderInvariant, PTL

LEMMA WholeWhileClose == RtpSpec /\ []Close => []FramesAreWhole
  <1>1. Order => FramesAreWhole
    BY DEF Order, Whole, FramesAreWhole
  <1>2. QED
    BY <1>1, OrderInvariant, PTL

-----------------------------------------------------------------------------
(* Which packets an entry of the list, or a frame that was pushed, stands  *)
(* for: the ones from its first on.                                        *)
Until(e) == Key(e) + (IF e.ps THEN Len(e.packets) ELSE 1)
In(e, x) == Key(e) <= x /\ x < Until(e)

InList(l, x)   == \E i \in DOMAIN l : In(l[i], x)
InPushed(s, x) == \E k \in DOMAIN s : s[k][1] <= x /\ x < s[k][1] + Len(s[k])

(* The packets that are in two places at once: under way, in one entry of  *)
(* the list, in another one, and pushed.                                   *)
Twice(N, l, s) ==
    { x \in Packets :
        \/ x \in N /\ (InList(l, x) \/ InPushed(s, x))
        \/ InList(l, x) /\ InPushed(s, x)
        \/ \E i, j \in DOMAIN l : i < j /\ In(l[i], x) /\ In(l[j], x) }

(* Only repetitions bring a packet to a second place; no packet is         *)
(* overtaken by more than Window, and what was received has been sent.     *)
FewTwice == Cardinality(Twice(net, list, pushed)) <= dups

NotLate == \A x \in net : packetsSent - x <= Window

SentBefore(l) ==
    \A i \in DOMAIN l : /\ Until(l[i]) <= packetsSent + 1
                        /\ l[i].ps => Until(l[i]) <= packetsSent

PushedBefore == \A k \in DOMAIN pushed : pushed[k][1] + Len(pushed[k]) <= packetsSent

(* When a frame has been pushed, neither it nor one before it can come     *)
(* again, since some packet of it is neither under way nor in the list --  *)
(* but for a frame as short as the network's repetitions, or so near that  *)
(* its packets may have been overtaken.                                    *)
Missing(N, l, h, e) == \E x \in h..(e - 1) : x \notin N /\ ~InList(l, x)
Short(f, h, e)      == h = f[1] /\ e - h <= dups
Within(f, h)          == h < f[1] /\ f[1] + Len(f) - h <= Window

NothingBehind ==
    \A k \in DOMAIN pushed : \A h, e \in Heads :
        NextHead(h, e) /\ h <= pushed[k][1] =>
            Missing(net, list, h, e) \/ Short(pushed[k], h, e) \/ Within(pushed[k], h)

InOrder == FewTwice /\ NotLate /\ SentBefore(list) /\ PushedBefore /\ NothingBehind /\ FramesInOrder

LEMMA HeadTypes == Heads \subseteq Int /\ Packets \subseteq Int /\ Heads \subseteq Packets
  BY ConstantFacts, RtpAssumption DEF Packets

LEMMA BetweenHeads ==
    ASSUME NEW h \in Heads, NEW e \in Heads
    PROVE  h \in Int /\ e \in Int /\ \A x \in h..(e - 1) : x \in Packets
  <1>1. MaxPackets \in Nat /\ Heads \subseteq 1..MaxPackets
    BY RtpAssumption
  <1>2. h \in 1..MaxPackets /\ e \in 1..MaxPackets
    BY <1>1
  <1>3. QED
    BY <1>1, <1>2 DEF Packets

LEMMA EntryFacts ==
    ASSUME NEW e \in Filled
    PROVE  /\ Key(e) \in Packets /\ Key(e) \in Int /\ Until(e) \in Int /\ Key(e) < Until(e)
           /\ e.packets \in Seq(Packets) /\ Len(e.packets) \in Nat \ {0} /\ In(e, Key(e))
  <1>1. e.packets \in Seq(Packets) /\ e.packets # << >> /\ e.ps \in BOOLEAN
    BY DEF Filled, Entry
  <1>2. Len(e.packets) \in Nat \ {0} /\ e.packets[1] \in Packets
    BY <1>1
  <1>3. Key(e) \in Packets /\ Key(e) \in Int
    BY <1>2, HeadTypes DEF Key
  <1>4. Until(e) \in Int /\ Key(e) < Until(e)
    BY <1>1, <1>2, <1>3 DEF Until
  <1>5. QED
    BY <1>1, <1>2, <1>3, <1>4 DEF In

LEMMA TwiceFinite ==
    ASSUME NEW N, NEW l, NEW s
    PROVE  IsFiniteSet(Twice(N, l, s)) /\ Cardinality(Twice(N, l, s)) \in Nat
  <1>1. Twice(N, l, s) \in SUBSET (1..MaxPackets) /\ MaxPackets \in Int
    BY ConstantFacts DEF Twice, Packets
  <1>2. IsFiniteSet(1..MaxPackets)
    BY <1>1, FS_Interval
  <1>3. IsFiniteSet(Twice(N, l, s))
    BY <1>1, <1>2, FS_Subset
  <1>4. QED
    BY <1>3, FS_CardinalityType

(* A whole frame goes from a PS header to the next one.                    *)
LEMMA WholeFacts ==
    ASSUME NEW f \in Seq(Packets), Whole(f)
    PROVE  /\ f[1] \in Heads /\ f[1] \in Int /\ Len(f) \in Nat \ {0}
           /\ f[1] + Len(f) \in Heads /\ NextHead(f[1], f[1] + Len(f))
  <1>1. /\ Len(f) \in Nat \ {0} /\ DOMAIN f = 1..Len(f)
        /\ f[1] \in Heads /\ f[Len(f)] + 1 \in Heads
        /\ \A i \in 1..Len(f) : f[i] = f[1] + i - 1
        /\ \A i \in 1..Len(f) : i > 1 => f[i] \notin Heads
    BY DEF Whole
  <1>2. PICK a \in Int : a = f[1]
    BY <1>1, HeadTypes
  <1>3. PICK n \in Nat \ {0} : n = Len(f)
    BY <1>1
  <1>4. a + n \in Heads
    <2>1. f[n] = a + n - 1
      BY <1>1, <1>2, <1>3
    <2>2. f[n] + 1 = a + n
      BY <2>1
    <2>3. QED
      BY <1>1, <1>3, <2>2
  <1>5. ASSUME NEW g \in Heads, a < g, g < a + n PROVE FALSE
    <2>1. g \in Int
      BY HeadTypes
    <2>2. g - a + 1 \in 1..n /\ g - a + 1 > 1 /\ a + (g - a + 1) - 1 = g
      BY <1>5, <2>1
    <2>3. f[g - a + 1] = g
      BY <1>1, <1>2, <1>3, <2>2
    <2>4. QED
      BY <1>1, <1>3, <2>2, <2>3
  <1>6. NextHead(a, a + n)
    BY <1>5 DEF NextHead
  <1>7. QED
    BY <1>1, <1>2, <1>3, <1>4, <1>6

(* A packet sorted in leaves the network.                                  *)
LEMMA TwiceInserted ==
    ASSUME ListTypes, NEW n \in Packets, NEW N, n \in N, NEW m, m = Inserted(Parse(n))
    PROVE  /\ \A x \in Packets : InList(m, x) => x = n \/ InList(list, x)
           /\ Twice(N \ {n}, m, pushed) \subseteq Twice(N, list, pushed)
  <1> DEFINE p == Parse(n)
  <1>1. p \in Filled /\ list \in Seq(Filled) /\ Len(list) \in Nat /\ DOMAIN list = 1..Len(list)
    BY ParseFacts DEF ListTypes
  <1>2. Key(p) = n /\ Until(p) = n + 1 /\ n \in Int
    BY ParseFacts, HeadTypes DEF Key, Until
  <1>3. PICK k \in Nat : InsertedAt(m, k, p)
    BY <1>1, InsertStep
  <1> HIDE DEF p
  <1>4. /\ k <= Len(list)
        /\ m \in Seq(Filled) /\ Len(m) = Len(list) + 1 /\ DOMAIN m = 1..(Len(list) + 1)
        /\ \A j \in 1..k : m[j] = list[j]
        /\ m[k + 1] = p
        /\ \A j \in (k + 2)..(Len(list) + 1) : m[j] = list[j - 1]
    BY <1>1, <1>3 DEF InsertedAt
  <1>5. \A x \in Packets : In(p, x) <=> x = n
    BY <1>2, HeadTypes DEF In
  <1> DEFINE at(j) == IF j <= k THEN j ELSE j - 1
  <1>6. \A j \in DOMAIN m : j # k + 1 => at(j) \in DOMAIN list /\ m[j] = list[at(j)]
    BY <1>1, <1>4
  <1>7. \A i, j \in DOMAIN m : i # k + 1 /\ j # k + 1 /\ i < j => at(i) < at(j)
    BY <1>4
  <1> HIDE DEF at
  <1>8. \A x \in Packets : \A j \in DOMAIN m : In(m[j], x) =>
           \/ j = k + 1 /\ x = n
           \/ j # k + 1 /\ at(j) \in DOMAIN list /\ In(list[at(j)], x)
    BY <1>4, <1>5, <1>6
  <1>9. \A x \in Packets : InList(m, x) => x = n \/ InList(list, x)
    BY <1>8 DEF InList
  <1>10. ASSUME NEW x \in Twice(N \ {n}, m, pushed) PROVE x \in Twice(N, list, pushed)
    <2>1. x \in Packets
      BY <1>10 DEF Twice
    <2>2. CASE x \in N \ {n} /\ (InList(m, x) \/ InPushed(pushed, x))
      BY <1>9, <2>1, <2>2 DEF Twice
    <2>3. CASE InList(m, x) /\ InPushed(pushed, x)
      BY <1>9, <2>1, <2>3 DEF Twice
    <2>4. ASSUME NEW i \in DOMAIN m, NEW j \in DOMAIN m, i < j, In(m[i], x), In(m[j], x)
          PROVE  x \in Twice(N, list, pushed)
      <3>1. CASE i # k + 1 /\ j # k + 1
        BY <1>7, <1>8, <2>1, <2>4, <3>1 DEF Twice
      <3>2. CASE i = k + 1
        <4>1. x = n /\ j # k + 1
          BY <1>4, <1>8, <2>1, <2>4, <3>2
        <4>2. InList(list, x)
          BY <1>8, <2>1, <2>4, <4>1 DEF InList
        <4>3. QED
          BY <2>1, <4>1, <4>2 DEF Twice
      <3>3. CASE j = k + 1
        <4>1. x = n /\ i # k + 1
          BY <1>4, <1>8, <2>1, <2>4, <3>3
        <4>2. InList(list, x)
          BY <1>8, <2>1, <2>4, <4>1 DEF InList
        <4>3. QED
          BY <2>1, <4>1, <4>2 DEF Twice
      <3>4. QED
        BY <3>1, <3>2, <3>3
    <2>5. QED
      BY <1>10, <2>2, <2>3, <2>4 DEF Twice
  <1>11. QED
    BY <1>9, <1>10

(* Joining gathers packets of several entries in one.                      *)
LEMMA TwiceJoined ==
    ASSUME NEW l \in Seq(Filled), AllKnown(l), Sorted(l), AllClose(l), NEW N, NEW s, NEW m, m = Joined(l)
    PROVE  /\ \A x \in Packets : InList(m, x) => InList(l, x)
           /\ Twice(N, m, s) \subseteq Twice(N, l, s)
  <1>1. CASE Complete(l) = {}
    BY <1>1 DEF Joined
  <1>2. CASE Complete(l) # {}
    <2>1. PICK first, last \in 1..Len(l) : <<first, last>> \in Complete(l) /\ JoinedAt(m, l, first, last)
      BY <1>2, JoinStep
    <2>2. Len(l) \in Nat /\ DOMAIN l = 1..Len(l) /\ \A i \in DOMAIN l : Key(l[i]) \in Int /\ In(l[i], Key(l[i]))
      BY KeyTypes, EntryFacts
    <2>3. /\ first < last
          /\ m \in Seq(Filled) /\ Len(m) = Len(l) - (last - first) + 1 /\ DOMAIN m = 1..Len(m)
          /\ \A j \in 1..(first - 1) : m[j] = l[j]
          /\ m[first] = Frame(l, first, last - 1)
          /\ \A j \in (first + 1)..Len(m) : m[j] = l[j + (last - first) - 1]
      BY <2>1 DEF JoinedAt
    <2>4. /\ Key(m[first]) = Key(l[first]) /\ m[first].ps /\ Len(m[first].packets) = last - first
          /\ \A i \in first..last : Key(l[i]) = Key(l[first]) + (i - first)
      BY <2>1, <2>3, FrameIsWhole, FrameFacts
    <2> DEFINE Comes(j, i) == /\ j < first => i = j
                              /\ j = first => first <= i /\ i < last
                              /\ j > first => i = j + (last - first) - 1
    <2>5. \A x \in Packets : \A j \in DOMAIN m : In(m[j], x) => \E i \in DOMAIN l : Comes(j, i) /\ In(l[i], x)
      <3> SUFFICES ASSUME NEW x \in Packets, NEW j \in DOMAIN m, In(m[j], x)
                   PROVE  \E i \in DOMAIN l : Comes(j, i) /\ In(l[i], x)
        OBVIOUS
      <3>1. CASE j < first
        <4>1. j \in DOMAIN l /\ j \in 1..(first - 1)
          BY <2>2, <2>3, <3>1
        <4>2. QED
          BY <2>3, <3>1, <4>1
      <3>2. CASE j > first
        <4> DEFINE i == j + (last - first) - 1
        <4>1. i \in DOMAIN l /\ j \in (first + 1)..Len(m)
          BY <2>2, <2>3, <3>2
        <4>2. m[j] = l[i]
          BY <2>3, <4>1
        <4>3. Comes(j, i)
          <5>1. j \in Int /\ first \in Int
            BY <4>1
          <5> HIDE DEF i
          <5>2. ~(j < first) /\ j # first
            BY <3>2, <5>1
          <5>3. QED
            BY <5>2 DEF i
        <4> HIDE DEF i, Comes
        <4>4. QED
          BY <4>1, <4>2, <4>3
      <3>3. CASE j = first
        <4>1. Key(l[first]) <= x /\ x < Key(l[first]) + (last - first) /\ x \in Int /\ Key(l[first]) \in Int
          BY <2>2, <2>4, <3>3, HeadTypes DEF In, Until
        <4> DEFINE i == first + (x - Key(l[first]))
        <4>2. i \in first..last /\ i < last /\ i \in DOMAIN l /\ i - first = x - Key(l[first])
          BY <2>2, <4>1
        <4> HIDE DEF i
        <4>3. Key(l[i]) = x
          BY <2>4, <4>1, <4>2
        <4>4. In(l[i], x)
          BY <2>2, <4>2, <4>3
        <4>5. QED
          BY <3>3, <4>2, <4>4
      <3>4. QED
        BY <2>3, <3>1, <3>2, <3>3
    <2>6. \A j1, j2 \in DOMAIN m : \A i1, i2 \in DOMAIN l :
             j1 < j2 /\ Comes(j1, i1) /\ Comes(j2, i2) => i1 < i2
      <3>1. first < last /\ DOMAIN m \subseteq Int /\ DOMAIN l \subseteq Int
        BY <2>2, <2>3
      <3>2. \A j1, j2, i1, i2 \in Int : j1 < j2 /\ Comes(j1, i1) /\ Comes(j2, i2) => i1 < i2
        BY <3>1
      <3>3. QED
        BY <3>1, <3>2
    <2> HIDE DEF Comes
    <2>7. \A x \in Packets : InList(m, x) => InList(l, x)
      BY <2>5 DEF InList
    <2>8. ASSUME NEW x \in Packets, NEW i \in DOMAIN m, NEW j \in DOMAIN m, i < j, In(m[i], x), In(m[j], x)
          PROVE  \E i1, i2 \in DOMAIN l : i1 < i2 /\ In(l[i1], x) /\ In(l[i2], x)
      <3>1. PICK i1 \in DOMAIN l : Comes(i, i1) /\ In(l[i1], x)
        BY <2>5, <2>8
      <3>2. PICK i2 \in DOMAIN l : Comes(j, i2) /\ In(l[i2], x)
        BY <2>5, <2>8
      <3>3. QED
        BY <2>6, <2>8, <3>1, <3>2
    <2>9. Twice(N, m, s) \subseteq Twice(N, l, s)
      BY <2>7, <2>8 DEF Twice
    <2>10. QED
      BY <2>7, <2>9
  <1>3. QED
    BY <1>1, <1>2

(* What was received has been sent.                                        *)
LEMMA SentInserted ==
    ASSUME NetTypes, ListTypes, NEW n \in net, n \in Packets, SentBefore(list), NEW m, m = Inserted(Parse(n))
    PROVE  SentBefore(m)
  <1> DEFINE p == Parse(n)
  <1>1. p \in Filled /\ ~p.ps /\ list \in Seq(Filled) /\ Len(list) \in Nat /\ DOMAIN list = 1..Len(list)
    BY ParseFacts DEF ListTypes
  <1>2. Until(p) = n + 1 /\ n \in Int /\ n <= packetsSent /\ packetsSent \in Int
    BY ParseFacts, HeadTypes, ConstantFacts DEF Key, Until, NetTypes
  <1>3. PICK k \in Nat : InsertedAt(m, k, p)
    BY <1>1, InsertStep
  <1> HIDE DEF p
  <1>4. \A j \in DOMAIN m : m[j] = p \/ \E i \in DOMAIN list : m[j] = list[i]
    <2>1. /\ k <= Len(list) /\ DOMAIN m = 1..(Len(list) + 1)
          /\ \A j \in 1..k : m[j] = list[j]
          /\ m[k + 1] = p
          /\ \A j \in (k + 2)..(Len(list) + 1) : m[j] = list[j - 1]
      BY <1>1, <1>3 DEF InsertedAt
    <2>2. QED
      BY <1>1, <2>1
  <1>5. QED
    BY <1>1, <1>2, <1>4 DEF SentBefore

LEMMA SentJoined ==
    ASSUME NEW l \in Seq(Filled), AllKnown(l), Sorted(l), AllClose(l), packetsSent \in Nat, SentBefore(l)
    PROVE  SentBefore(Joined(l))
  <1> DEFINE m == Joined(l)
  <1>1. CASE Complete(l) = {}
    BY <1>1 DEF Joined
  <1>2. CASE Complete(l) # {}
    <2>1. PICK first, last \in 1..Len(l) : <<first, last>> \in Complete(l) /\ JoinedAt(m, l, first, last)
      BY <1>2, JoinStep
    <2> HIDE DEF m
    <2>2. Len(l) \in Nat /\ DOMAIN l = 1..Len(l)
      OBVIOUS
    <2>3. /\ first < last
          /\ m \in Seq(Filled) /\ Len(m) = Len(l) - (last - first) + 1 /\ DOMAIN m = 1..Len(m)
          /\ \A j \in 1..(first - 1) : m[j] = l[j]
          /\ m[first] = Frame(l, first, last - 1)
          /\ \A j \in (first + 1)..Len(m) : m[j] = l[j + (last - first) - 1]
      BY <2>1 DEF JoinedAt
    <2>4. /\ Key(m[first]) = Key(l[first]) /\ m[first].ps /\ Len(m[first].packets) = last - first
          /\ Key(l[last]) = Key(l[first]) + (last - first)
      <3>1. \A i \in first..last : Key(l[i]) = Key(l[first]) + (i - first)
        BY <2>1, FrameIsWhole
      <3>2. last \in first..last
        BY <2>3
      <3>3. LET f == Frame(l, first, last - 1)
            IN Key(f) = Key(l[first]) /\ f.ps /\ Len(f.packets) = last - first
        BY <2>1, <2>3, FrameIsWhole, FrameFacts
      <3>4. QED
        BY <2>3, <3>1, <3>2, <3>3
    <2>5. Until(m[first]) = Key(l[last])
      BY <2>4 DEF Until
    <2>6. Key(l[last]) \in Int /\ Until(l[last]) \in Int /\ Key(l[last]) < Until(l[last])
          /\ Until(l[last]) <= packetsSent + 1
      BY <2>2, EntryFacts DEF SentBefore
    <2>7. Until(m[first]) <= packetsSent
      BY <2>5, <2>6
    <2>8. \A j \in DOMAIN m : j = first \/ \E i \in DOMAIN l : m[j] = l[i]
      <3> TAKE j \in DOMAIN m
      <3>1. CASE j \in 1..(first - 1)
        BY <2>2, <2>3, <3>1
      <3>2. CASE j \in (first + 1)..Len(m)
        <4>1. j + (last - first) - 1 \in DOMAIN l
          BY <2>2, <2>3, <3>2
        <4>2. QED
          BY <2>3, <3>2, <4>1
      <3>3. QED
        BY <2>3, <3>1, <3>2
    <2>9. packetsSent + 1 \in Int /\ packetsSent <= packetsSent + 1
      OBVIOUS
    <2>10. Until(m[first]) <= packetsSent + 1
      BY <2>5, <2>6, <2>7, <2>9
    <2>11. SentBefore(m)
      <3> SUFFICES ASSUME NEW j \in DOMAIN m
                   PROVE  Until(m[j]) <= packetsSent + 1 /\ (m[j].ps => Until(m[j]) <= packetsSent)
        BY DEF SentBefore
      <3>1. CASE j = first
        BY <2>7, <2>10, <3>1
      <3>2. CASE \E i \in DOMAIN l : m[j] = l[i]
        BY <3>2 DEF SentBefore
      <3>3. QED
        BY <2>8, <3>1, <3>2
    <2>12. QED
      BY <2>11 DEF m
  <1>3. QED
    BY <1>1, <1>2

(* What AddPacket does when its packet is not listed: of the list l with   *)
(* the packet sorted in, and a frame joined where one is complete, the     *)
(* first k entries leave, and the c frames among them are pushed.          *)
Cut(l, k, c, order, m, s, t) ==
    /\ m \in Seq(Filled) /\ Len(m) = Len(l) - k /\ \A j \in 1..(Len(l) - k) : m[j] = l[k + j]
    /\ order \in [1..c -> 1..k]
    /\ \A i \in 1..c : l[order[i]].ps
    /\ \A i, j \in 1..c : i < j => order[i] < order[j]
    /\ DOMAIN t = 1..(Len(s) + c)
    /\ \A j \in 1..Len(s) : t[j] = s[j]
    /\ \A i \in 1..c : t[Len(s) + i] = l[order[i]].packets

LEMMA AddSteps ==
    ASSUME ListTypes, Order, Close, NEW n \in net, n \in Packets, AddPacket(n), ~Listed(n),
           NEW l, l = Joined(Inserted(Parse(n)))
    PROVE  /\ l \in Seq(Filled) /\ AllKnown(l) /\ Sorted(l)
           /\ \E k \in 0..Len(l), c \in Nat : \E order : Cut(l, k, c, order, list', pushed, pushed')
  <1> DEFINE i1 == Inserted(Parse(n))
  <1>1. i1 \in Seq(Filled) /\ PacketLast(i1) /\ AllKnown(i1) /\ Sorted(i1) /\ AllClose(i1)
    BY InsertedTypes, InsertedOrder
  <1>2. l = Joined(i1)
    OBVIOUS
  <1> HIDE DEF i1
  <1>3. l \in Seq(Filled) /\ AllKnown(l) /\ Sorted(l)
    BY <1>1, <1>2, JoinedTypes, JoinedOrder
  <1>4. list' = SubSeq(l, Leaving(l) + 1, Len(l))
        /\ \E order \in FramesAmong(l, Leaving(l)) :
                pushed' = pushed \o [i \in DOMAIN order |-> l[order[i]].packets]
    BY DEF AddPacket
  <1>5. PICK k \in 0..Len(l) : k = Leaving(l)
    BY <1>3, LeaveStep
  <1>6. /\ list' \in Seq(Filled) /\ Len(list') = Len(l) - k
        /\ \A j \in 1..(Len(l) - k) : list'[j] = l[k + j]
    BY <1>3, <1>4, <1>5, RestFacts
  <1>7. PICK order \in FramesAmong(l, k) : pushed' = pushed \o [i \in DOMAIN order |-> l[order[i]].packets]
    BY <1>4, <1>5
  <1>8. PICK c \in Nat : DOMAIN order = 1..c /\ \A i \in DOMAIN order : order[i] \in 1..k /\ l[order[i]].ps
    BY <1>3, LeavingFrames
  <1>9. \A i, j \in 1..c : i < j => order[i] < order[j]
    BY <1>8 DEF FramesAmong, Ascending
  <1>10. order \in [1..c -> 1..k]
    <2> DEFINE T == { i \in 1..k : IsFrame(l[i]) }
    <2>1. order \in Bijection(1..Cardinality(T), T)
      BY DEF FramesAmong, Ascending
    <2> HIDE DEF T
    <2>2. order \in [1..Cardinality(T) -> T]
      BY <2>1 DEF Bijection, Injection
    <2>3. QED
      BY <1>8, <2>2
  <1> DEFINE add == [i \in 1..c |-> l[order[i]].packets]
  <1>11. \A e \in Filled : e.packets \in Seq(Packets)
    BY DEF Filled, Entry
  <1>12. \A i \in 1..c : order[i] \in 1..Len(l) /\ l[order[i]] \in Filled
    BY <1>3, <1>8
  <1>13. add \in [1..c -> Seq(Packets)]
    BY <1>11, <1>12
  <1>14. pushed' = pushed \o add /\ \A i \in 1..c : add[i] = l[order[i]].packets
    BY <1>7, <1>8
  <1> HIDE DEF add
  <1>15. add \in Seq(Seq(Packets)) /\ Len(add) = c /\ pushed \in Seq(Seq(Packets)) /\ Len(pushed) \in Nat
    BY <1>13 DEF ListTypes
  <1>16. /\ pushed \o add \in Seq(Seq(Packets)) /\ Len(pushed \o add) = Len(pushed) + Len(add)
         /\ \A j \in 1..(Len(pushed) + Len(add)) :
                (pushed \o add)[j] = IF j <= Len(pushed) THEN pushed[j] ELSE add[j - Len(pushed)]
    BY <1>15, ConcatProperties
  <1>17. /\ DOMAIN pushed' = 1..(Len(pushed) + c)
         /\ \A j \in 1..(Len(pushed) + c) :
                pushed'[j] = IF j <= Len(pushed) THEN pushed[j] ELSE add[j - Len(pushed)]
    BY <1>14, <1>15, <1>16
  <1>18. \A j \in 1..Len(pushed) : pushed'[j] = pushed[j]
    BY <1>15, <1>17
  <1>19. \A i \in 1..c : pushed'[Len(pushed) + i] = l[order[i]].packets
    <2> TAKE i \in 1..c
    <2>1. /\ Len(pushed) + i \in 1..(Len(pushed) + c) /\ ~(Len(pushed) + i <= Len(pushed))
          /\ (Len(pushed) + i) - Len(pushed) = i
      BY <1>15
    <2>2. QED
      BY <1>14, <1>17, <2>1
  <1>20. Cut(l, k, c, order, list', pushed, pushed')
    BY <1>6, <1>8, <1>9, <1>10, <1>17, <1>18, <1>19 DEF Cut
  <1>21. QED
    BY <1>3, <1>20

(* A frame that is pushed leaves the list.                                 *)
LEMMA TwiceCut ==
    ASSUME NEW l \in Seq(Filled), AllKnown(l), NEW k \in 0..Len(l), NEW c \in Nat, NEW order,
           NEW m, NEW s \in Seq(Seq(Packets)), NEW t, Cut(l, k, c, order, m, s, t), NEW N
    PROVE  /\ \A x \in Packets : InList(m, x) => InList(l, x)
           /\ Twice(N, m, t) \subseteq Twice(N, l, s)
  <1>1. /\ Len(l) \in Nat /\ DOMAIN l = 1..Len(l) /\ Len(s) \in Nat /\ DOMAIN s = 1..Len(s)
        /\ DOMAIN m = 1..(Len(l) - k) /\ k \in Nat
        /\ \A j \in 1..(Len(l) - k) : m[j] = l[k + j]
    BY DEF Cut
  <1>2. \A j \in DOMAIN m : k + j \in DOMAIN l /\ m[j] = l[k + j] /\ j \in Nat
    BY <1>1
  <1>3. \A j \in DOMAIN t : \/ j \in DOMAIN s /\ t[j] = s[j]
                            \/ \E i \in 1..k : i \in DOMAIN l /\ l[i].ps /\ t[j] = l[i].packets
    <2> TAKE j \in DOMAIN t
    <2>1. j \in 1..(Len(s) + c)
      BY DEF Cut
    <2>2. CASE j <= Len(s)
      BY <1>1, <2>1, <2>2 DEF Cut
    <2>3. CASE ~(j <= Len(s))
      <3>1. PICK i \in 1..c : j = Len(s) + i
        <4>1. j - Len(s) \in 1..c /\ j = Len(s) + (j - Len(s))
          BY <1>1, <2>1, <2>3
        <4>2. QED
          BY <4>1
      <3>2. order[i] \in 1..k /\ l[order[i]].ps /\ t[j] = l[order[i]].packets
        BY <3>1 DEF Cut
      <3>3. order[i] \in DOMAIN l
        BY <1>1, <3>2
      <3>4. QED
        BY <3>2, <3>3
    <2>4. QED
      BY <2>2, <2>3
  <1>4. \A x \in Packets : InPushed(t, x) => InPushed(s, x) \/ \E i \in 1..k : i \in DOMAIN l /\ In(l[i], x)
    BY <1>3 DEF InPushed, In, Until, Key
  <1>5. \A x \in Packets : InList(m, x) => InList(l, x) /\ \E j \in DOMAIN l : j > k /\ In(l[j], x)
    <2>1. \A j \in DOMAIN m : k + j \in DOMAIN l /\ m[j] = l[k + j] /\ k + j > k
      BY <1>1
    <2>2. QED
      BY <2>1 DEF InList
  <1>6. ASSUME NEW x \in Twice(N, m, t) PROVE x \in Twice(N, l, s)
    <2>1. x \in Packets
      BY <1>6 DEF Twice
    <2>2. CASE x \in N /\ InList(m, x)
      BY <1>5, <2>1, <2>2 DEF Twice
    <2>3. CASE x \in N /\ InPushed(t, x)
      BY <1>4, <2>1, <2>3 DEF Twice, InList
    <2>4. CASE InList(m, x) /\ InPushed(t, x)
      <3>1. PICK j \in DOMAIN l : j > k /\ In(l[j], x)
        BY <1>5, <2>1, <2>4
      <3>2. CASE InPushed(s, x)
        BY <2>1, <3>1, <3>2 DEF Twice, InList
      <3>3. ASSUME NEW i \in 1..k, i \in DOMAIN l, In(l[i], x) PROVE x \in Twice(N, l, s)
        <4>1. i < j
          BY <1>1, <3>1
        <4>2. QED
          BY <2>1, <3>1, <3>3, <4>1 DEF Twice
      <3>4. QED
        BY <1>4, <2>1, <2>4, <3>2, <3>3
    <2>5. ASSUME NEW i \in DOMAIN m, NEW j \in DOMAIN m, i < j, In(m[i], x), In(m[j], x)
          PROVE  x \in Twice(N, l, s)
      <3>1. /\ k + i \in DOMAIN l /\ k + j \in DOMAIN l /\ k + i < k + j
            /\ In(l[k + i], x) /\ In(l[k + j], x)
        BY <1>1, <1>2, <2>5
      <3>2. QED
        BY <2>1, <3>1 DEF Twice
    <2>6. QED
      BY <1>6, <2>2, <2>3, <2>4, <2>5 DEF Twice
  <1>7. QED
    BY <1>5, <1>6

(* An arriving packet breaks neither: a frame that leaves the list is      *)
(* later than all that were pushed, or NothingBehind tells of it, and what *)
(* is left behind it are repetitions and what it has overtaken.            *)
LEMMA AddInOrder ==
    ASSUME NetTypes, ListTypes, ListTypes', Order, Order', Close, InOrder,
           NEW n \in net, n \in Packets, AddPacket(n), ~Listed(n),
           NEW N, N \subseteq net, packetsSent' = packetsSent,
           dups' \in Nat, dups <= dups', Cardinality(Twice(N, list', pushed')) <= dups'
    PROVE  /\ SentBefore(list)' /\ PushedBefore' /\ FramesInOrder'
           /\ \A k \in DOMAIN pushed' : \A h, e \in Heads :
                 NextHead(h, e) /\ h <= pushed'[k][1] =>
                    \/ Missing(N, list', h, e)
                    \/ h = pushed'[k][1] /\ e - h <= dups'
                    \/ Within(pushed'[k], h)
  <1> DEFINE i1 == Inserted(Parse(n))
             l == Joined(i1)
  <1>1. i1 \in Seq(Filled) /\ AllKnown(i1) /\ Sorted(i1) /\ AllClose(i1) /\ SentBefore(i1)
    BY InsertedTypes, InsertedOrder, SentInserted DEF InOrder
  <1>2. \A x \in Packets : InList(i1, x) => x = n \/ InList(list, x)
    BY TwiceInserted
  <1>3. l \in Seq(Filled) /\ AllKnown(l) /\ Sorted(l)
        /\ \E k \in 0..Len(l), c \in Nat : \E order : Cut(l, k, c, order, list', pushed, pushed')
    BY AddSteps
  <1> HIDE DEF i1
  <1>4. SentBefore(l)
    BY <1>1, SentJoined, ConstantFacts DEF NetTypes
  <1>5. \A x \in Packets : InList(l, x) => InList(i1, x)
    BY <1>1, TwiceJoined
  <1> HIDE DEF l
  <1>6. PICK k \in 0..Len(l), c \in Nat : \E order : Cut(l, k, c, order, list', pushed, pushed')
    BY <1>3
  <1>7. PICK order : Cut(l, k, c, order, list', pushed, pushed')
    BY <1>6
  <1>8. \A x \in Packets : InList(list', x) => InList(l, x)
    BY <1>3, <1>7, TwiceCut DEF ListTypes
  <1>9. \A x \in Packets : InList(l, x) => x \in net \/ InList(list, x)
    BY <1>2, <1>5
  <1>10. /\ Len(l) \in Nat /\ DOMAIN l = 1..Len(l) /\ k \in Nat /\ packetsSent \in Nat
         /\ list' \in Seq(Filled) /\ DOMAIN list' = 1..(Len(l) - k)
         /\ \A j \in 1..(Len(l) - k) : list'[j] = l[k + j]
         /\ Len(pushed) \in Nat /\ DOMAIN pushed = 1..Len(pushed) /\ DOMAIN pushed' = 1..(Len(pushed) + c)
         /\ pushed \in Seq(Seq(Packets)) /\ pushed' \in Seq(Seq(Packets))
    <2>1. Len(l) \in Nat /\ DOMAIN l = 1..Len(l) /\ k \in Nat
      BY <1>3
    <2>2. pushed \in Seq(Seq(Packets)) /\ pushed' \in Seq(Seq(Packets)) /\ Len(pushed) \in Nat
          /\ DOMAIN pushed = 1..Len(pushed)
      BY DEF ListTypes
    <2>3. /\ list' \in Seq(Filled) /\ Len(list') = Len(l) - k
          /\ \A j \in 1..(Len(l) - k) : list'[j] = l[k + j]
          /\ DOMAIN pushed' = 1..(Len(pushed) + c)
      BY <1>7 DEF Cut
    <2>4. packetsSent \in Nat
      BY ConstantFacts DEF NetTypes
    <2>5. QED
      BY <2>1, <2>2, <2>3, <2>4
  <1>11. \A j \in DOMAIN list' : k + j \in DOMAIN l /\ list'[j] = l[k + j]
    <2> TAKE j \in DOMAIN list'
    <2>1. j \in 1..(Len(l) - k)
      BY <1>10
    <2>2. k + j \in 1..Len(l)
      BY <1>10, <2>1
    <2>3. QED
      BY <1>10, <2>1, <2>2
  <1>12. \A i \in 1..c : /\ order[i] \in 1..k /\ order[i] \in DOMAIN l /\ l[order[i]].ps
                         /\ pushed'[Len(pushed) + i] = l[order[i]].packets
    <2>1. \A i \in 1..c : order[i] \in 1..k /\ l[order[i]].ps /\ pushed'[Len(pushed) + i] = l[order[i]].packets
      BY <1>7 DEF Cut
    <2>2. 1..k \subseteq DOMAIN l
      BY <1>10
    <2>3. QED
      BY <2>1, <2>2
  <1>13. \A j \in 1..(Len(pushed) + c) :
            \/ j \in DOMAIN pushed /\ pushed'[j] = pushed[j]
            \/ \E i \in 1..c : j = Len(pushed) + i
    <2> TAKE j \in 1..(Len(pushed) + c)
    <2>1. CASE j <= Len(pushed)
      BY <1>7, <1>10, <2>1 DEF Cut
    <2>2. CASE ~(j <= Len(pushed))
      <3>1. j - Len(pushed) \in 1..c /\ j = Len(pushed) + (j - Len(pushed))
        BY <1>10, <2>2
      <3>2. QED
        BY <3>1
    <2>3. QED
      BY <2>1, <2>2
  <1>14. \A j \in DOMAIN pushed' :
            LET f == pushed'[j]
            IN /\ f \in Seq(Packets) /\ Whole(f)
               /\ f[1] \in Heads /\ f[1] \in Int /\ Len(f) \in Nat \ {0}
               /\ f[1] + Len(f) \in Heads /\ NextHead(f[1], f[1] + Len(f))
    <2> TAKE j \in DOMAIN pushed'
    <2>1. pushed'[j] \in Seq(Packets)
      BY <1>10
    <2>2. Whole(pushed'[j])
      BY DEF Order
    <2>3. QED
      BY <2>1, <2>2, WholeFacts
  <1>15. \A i \in 1..c :
            LET f == pushed'[Len(pushed) + i]
            IN /\ f[1] = Key(l[order[i]]) /\ f[1] + Len(f) = Until(l[order[i]])
               /\ Len(pushed) + i \in DOMAIN pushed'
    <2> TAKE i \in 1..c
    <2>1. Len(pushed) + i \in 1..(Len(pushed) + c)
      BY <1>10
    <2>2. pushed'[Len(pushed) + i] = l[order[i]].packets /\ l[order[i]].ps
      BY <1>12
    <2>3. QED
      BY <1>10, <2>1, <2>2 DEF Key, Until
  <1>16. SentBefore(list)'
    BY <1>4, <1>11 DEF SentBefore, Until, Key
  <1>17. PushedBefore'
    <2> SUFFICES ASSUME NEW j \in DOMAIN pushed' PROVE pushed'[j][1] + Len(pushed'[j]) <= packetsSent
      BY DEF PushedBefore
    <2>1. CASE j \in DOMAIN pushed /\ pushed'[j] = pushed[j]
      BY <2>1 DEF InOrder, PushedBefore
    <2>2. ASSUME NEW i \in 1..c, j = Len(pushed) + i PROVE pushed'[j][1] + Len(pushed'[j]) <= packetsSent
      BY <1>4, <1>12, <1>15, <2>2 DEF SentBefore
    <2>3. QED
      BY <1>10, <1>13, <2>1, <2>2
  <1>0. dups \in Nat /\ Window \in Nat
    BY RtpAssumption DEF NetTypes
  <1>18. ASSUME NEW j \in DOMAIN pushed, NEW i \in 1..c
         PROVE  \/ pushed[j][1] < pushed'[Len(pushed) + i][1]
                \/ pushed'[Len(pushed) + i][1] = pushed[j][1] /\ Len(pushed'[Len(pushed) + i]) <= dups'
                \/ Overtaken(pushed[j], pushed'[Len(pushed) + i])
    <2> DEFINE h == pushed'[Len(pushed) + i][1]
               e == h + Len(pushed'[Len(pushed) + i])
    <2>1. /\ h = Key(l[order[i]]) /\ e = Until(l[order[i]]) /\ h \in Heads /\ e \in Heads
          /\ NextHead(h, e) /\ h \in Int
      BY <1>14, <1>15
    <2> HIDE DEF h, e
    <2>2. \A x \in h..(e - 1) : InList(l, x)
      <3> TAKE x \in h..(e - 1)
      <3>1. e \in Int /\ Key(l[order[i]]) <= x /\ x < Until(l[order[i]])
        BY <2>1, HeadTypes
      <3>2. QED
        BY <1>12, <3>1 DEF InList, In
    <2>3. \A x \in h..(e - 1) : x \in Packets
      BY <2>1, BetweenHeads
    <2>4. \A x \in h..(e - 1) : x \in net \/ InList(list, x)
      BY <1>9, <2>2, <2>3
    <2>5. pushed[j][1] \in Int
      <3>1. pushed[j] \in Seq(Packets) /\ Whole(pushed[j])
        BY <1>10 DEF Order
      <3>2. QED
        BY <3>1, WholeFacts
    <2>6. CASE ~(h <= pushed[j][1])
      BY <2>1, <2>5, <2>6 DEF h
    <2>7. CASE h <= pushed[j][1]
      <3>1. Short(pushed[j], h, e) \/ Within(pushed[j], h)
        BY <2>1, <2>4, <2>7 DEF InOrder, NothingBehind, Missing
      <3>2. e - h = Len(pushed'[Len(pushed) + i])
        <4>1. Len(pushed'[Len(pushed) + i]) \in Int
          BY <1>14, <1>15
        <4>2. QED
          BY <2>1, <4>1 DEF e
      <3>3. Short(pushed[j], h, e) => Len(pushed'[Len(pushed) + i]) <= dups'
        BY <1>0, <2>1, <3>2, HeadTypes DEF Short
      <3>4. CASE Short(pushed[j], h, e)
        BY <3>3, <3>4 DEF Short, h
      <3>5. CASE Within(pushed[j], h)
        BY <3>5 DEF Within, Overtaken, h
      <3>6. QED
        BY <3>1, <3>4, <3>5
    <2>8. QED
      BY <2>6, <2>7
  <1>19. FramesInOrder'
    <2> SUFFICES ASSUME NEW j1 \in DOMAIN pushed', NEW j2 \in DOMAIN pushed', j1 < j2
                 PROVE  \/ pushed'[j1][1] < pushed'[j2][1]
                        \/ Repeated(pushed[j1], pushed[j2])'
                        \/ Overtaken(pushed[j1], pushed[j2])'
      BY DEF FramesInOrder
    <2>1. CASE j2 \in DOMAIN pushed /\ pushed'[j2] = pushed[j2]
      <3>1. j1 \in DOMAIN pushed /\ pushed'[j1] = pushed[j1]
        <4>1. j1 \in 1..Len(pushed)
          BY <1>10, <2>1
        <4>2. QED
          BY <1>7, <1>10, <4>1 DEF Cut
      <3>2. Len(pushed[j2]) \in Nat
        BY <1>14, <2>1
      <3>3. \/ pushed[j1][1] < pushed[j2][1]
            \/ Repeated(pushed[j1], pushed[j2])
            \/ Overtaken(pushed[j1], pushed[j2])
        BY <2>1, <3>1 DEF InOrder, FramesInOrder
      <3>4. QED
        BY <1>0, <2>1, <3>1, <3>2, <3>3 DEF Repeated, Overtaken
    <2>2. ASSUME NEW i2 \in 1..c, j2 = Len(pushed) + i2
          PROVE  \/ pushed'[j1][1] < pushed'[j2][1]
                 \/ Repeated(pushed[j1], pushed[j2])'
                 \/ Overtaken(pushed[j1], pushed[j2])'
      <3>1. CASE j1 \in DOMAIN pushed /\ pushed'[j1] = pushed[j1]
        <4>1. \/ pushed[j1][1] < pushed'[j2][1]
              \/ pushed'[j2][1] = pushed[j1][1] /\ Len(pushed'[j2]) <= dups'
              \/ Overtaken(pushed[j1], pushed'[j2])
          BY <1>18, <2>2, <3>1
        <4>2. QED
          BY <3>1, <4>1 DEF Repeated, Overtaken
      <3>2. ASSUME NEW i0 \in 1..c, j1 = Len(pushed) + i0 PROVE pushed'[j1][1] < pushed'[j2][1]
        <4>1. i0 < i2
          BY <1>10, <2>2, <3>2
        <4>2. order[i0] < order[i2]
          BY <1>7, <4>1 DEF Cut
        <4>3. Key(l[order[i0]]) < Key(l[order[i2]])
          BY <1>3, <1>12, <4>2 DEF Sorted
        <4>4. QED
          BY <1>15, <2>2, <3>2, <4>3
      <3>3. QED
        BY <1>10, <1>13, <3>1, <3>2
    <2>3. QED
      BY <1>10, <1>13, <2>1, <2>2
  <1>20. ASSUME NEW j \in DOMAIN pushed', NEW h \in Heads, NEW e \in Heads,
                NextHead(h, e), h <= pushed'[j][1], ~Missing(N, list', h, e)
         PROVE  (h = pushed'[j][1] /\ e - h <= dups') \/ Within(pushed'[j], h)
    <2>0. \A x \in h..(e - 1) : x \in N \/ InList(list', x)
      BY <1>20 DEF Missing
    <2>1. h \in Int /\ e \in Int /\ h < e /\ \A x \in h..(e - 1) : x \in Packets
      BY <1>20, BetweenHeads DEF NextHead
    <2>2. CASE j \in DOMAIN pushed /\ pushed'[j] = pushed[j]
      <3>1. \A x \in h..(e - 1) : x \in net \/ InList(list, x)
        BY <1>8, <1>9, <2>0, <2>1
      <3>2. h <= pushed[j][1]
        BY <1>20, <2>2
      <3>3. QED
        BY <1>0, <1>20, <2>1, <2>2, <3>1, <3>2 DEF InOrder, NothingBehind, Missing, Short
    <2>3. ASSUME NEW i \in 1..c, j = Len(pushed) + i
          PROVE  (h = pushed'[j][1] /\ e - h <= dups') \/ Within(pushed'[j], h)
      <3> DEFINE g == pushed'[j][1]
                 d == g + Len(pushed'[j])
      <3>1. g = Key(l[order[i]]) /\ g \in Heads /\ d \in Heads /\ g \in Int /\ d \in Int /\ NextHead(g, d) /\ h <= g
        BY <1>14, <1>15, <1>20, <2>3, HeadTypes
      <3>3. \A x \in g..(d - 1) : InPushed(pushed', x)
        BY <3>1 DEF InPushed
      <3>4. d <= packetsSent
        BY <1>17 DEF PushedBefore
      <3>8. g = pushed'[j][1] /\ d = pushed'[j][1] + Len(pushed'[j])
        OBVIOUS
      <3> HIDE DEF g, d
      <3>5. CASE h = g
        <4>1. e = d
          BY <1>20, <2>1, <3>1, <3>5 DEF NextHead
        <4>2. h..(e - 1) \subseteq Twice(N, list', pushed')
          BY <2>0, <2>1, <3>3, <3>5, <4>1 DEF Twice
        <4>3. IsFiniteSet(Twice(N, list', pushed')) /\ Cardinality(Twice(N, list', pushed')) \in Nat
          BY TwiceFinite
        <4>4. Cardinality(h..(e - 1)) <= Cardinality(Twice(N, list', pushed'))
          BY <4>2, <4>3, FS_Subset
        <4>5. Cardinality(h..(e - 1)) = e - h
          BY <2>1, FS_Interval
        <4>6. e - h <= dups'
          BY <2>1, <4>3, <4>4, <4>5
        <4>7. QED
          BY <3>5, <4>6 DEF g
      <3>6. CASE h < g
        <4>1. e <= g
          BY <1>20, <2>1, <3>1, <3>6 DEF NextHead
        <4>2. h \in h..(e - 1) /\ h \in Packets
          BY <2>1
        <4>3. ~InList(list', h)
          <5> SUFFICES ASSUME NEW b \in DOMAIN list', In(list'[b], h) PROVE FALSE
            BY DEF InList
          <5>1. k + b \in DOMAIN l /\ list'[b] = l[k + b] /\ order[i] \in DOMAIN l /\ order[i] < k + b
            <6>1. order[i] \in 1..k /\ order[i] \in DOMAIN l /\ b \in 1..(Len(l) - k)
              BY <1>10, <1>12
            <6>2. k + b \in DOMAIN l /\ list'[b] = l[k + b]
              BY <1>11
            <6>3. order[i] < k + b
              BY <1>10, <6>1
            <6>4. QED
              BY <6>1, <6>2, <6>3
          <5>2. Key(l[order[i]]) < Key(l[k + b])
            BY <1>3, <5>1 DEF Sorted
          <5>3. Key(l[k + b]) <= h /\ Key(l[k + b]) \in Int
            BY <1>3, <5>1, EntryFacts DEF In
          <5>4. QED
            BY <2>1, <3>1, <3>6, <5>2, <5>3
        <4>4. h \in net
          BY <2>0, <4>2, <4>3
        <4>5. packetsSent - h <= Window
          BY <4>4 DEF InOrder, NotLate
        <4>6. d - h <= Window
          BY <1>0, <1>10, <2>1, <3>1, <3>4, <4>5
        <4>7. h < pushed'[j][1]
          BY <3>6, <3>8
        <4>8. pushed'[j][1] + Len(pushed'[j]) - h <= Window
          <5>1. pushed'[j][1] \in Int /\ Len(pushed'[j]) \in Int
            BY <1>14
          <5>2. QED
            BY <1>0, <2>1, <3>1, <3>8, <4>6, <5>1
        <4>9. Within(pushed'[j], h)
          BY <4>7, <4>8, Zenon DEF Within
        <4>10. QED
          BY <4>9
      <3>7. QED
        BY <2>1, <3>1, <3>5, <3>6
    <2>4. QED
      BY <1>10, <1>13, <2>2, <2>3
  <1>21. QED
    BY <1>16, <1>17, <1>19, <1>20

LEMMA PushedLengths == ASSUME ListTypes PROVE \A k \in DOMAIN pushed : Len(pushed[k]) \in Nat
  BY DEF ListTypes

(* Every arrival is in order.                                              *)
LEMMA ArrivesInOrder ==
    ASSUME NetTypes, ListTypes, ListTypes', Order, Order', Close, InOrder,
           NEW n \in Packets, Arrives(n)
    PROVE  InOrder'
  <1>1. /\ n \in net /\ AddPacket(n) /\ UNCHANGED <<packetsSent, lost>>
        /\ \/ net' = net \ {n} /\ dups' = dups
           \/ net' = net /\ dups < MaxDups /\ dups' = dups + 1
    BY DEF Arrives
  <1>2. dups \in Nat /\ dups <= MaxDups /\ MaxDups \in Nat /\ net' \subseteq net
    BY <1>1, ConstantFacts DEF NetTypes
  <1>3. Twice(net \ {n}, list', pushed') \subseteq Twice(net, list, pushed)
    <2>1. CASE Listed(n)
      <3>1. list' = list /\ pushed' = pushed
        BY <1>1, <2>1 DEF AddPacket
      <3>2. Twice(net \ {n}, list, pushed) \subseteq Twice(net, list, pushed)
        BY DEF Twice
      <3>3. QED
        BY <3>1, <3>2
    <2>2. CASE ~Listed(n)
      <3> DEFINE i1 == Inserted(Parse(n))
                 l == Joined(i1)
      <3>1. i1 \in Seq(Filled) /\ AllKnown(i1) /\ Sorted(i1) /\ AllClose(i1)
        BY <1>1, <2>2, InsertedTypes, InsertedOrder
      <3>2. Twice(net \ {n}, i1, pushed) \subseteq Twice(net, list, pushed)
        BY <1>1, TwiceInserted
      <3>3. l \in Seq(Filled) /\ AllKnown(l) /\ Sorted(l)
            /\ \E k \in 0..Len(l), c \in Nat : \E order : Cut(l, k, c, order, list', pushed, pushed')
        BY <1>1, <2>2, AddSteps
      <3> HIDE DEF i1
      <3>4. Twice(net \ {n}, l, pushed) \subseteq Twice(net \ {n}, i1, pushed)
        BY <3>1, TwiceJoined
      <3> HIDE DEF l
      <3>5. Twice(net \ {n}, list', pushed') \subseteq Twice(net \ {n}, l, pushed)
        BY <3>3, TwiceCut DEF ListTypes
      <3>6. QED
        BY <3>2, <3>4, <3>5
    <2>3. QED
      BY <2>1, <2>2
  <1>4. Cardinality(Twice(net', list', pushed')) <= dups'
    <2> DEFINE T == Twice(net, list, pushed)
               U == Twice(net', list', pushed')
    <2>1. IsFiniteSet(T) /\ Cardinality(T) \in Nat /\ IsFiniteSet(U) /\ Cardinality(U) \in Nat
          /\ Cardinality(T) <= dups
      BY TwiceFinite DEF InOrder, FewTwice
    <2>2. CASE net' = net \ {n} /\ dups' = dups
      <3>1. U \subseteq T
        BY <1>3, <2>2
      <3> HIDE DEF T, U
      <3>2. Cardinality(U) <= Cardinality(T)
        BY <2>1, <3>1, FS_Subset
      <3>3. Cardinality(U) <= dups'
        BY <1>2, <2>1, <2>2, <3>2
      <3>4. QED
        BY <3>3 DEF U
    <2>3. CASE net' = net /\ dups' = dups + 1
      <3>1. U \subseteq Twice(net \ {n}, list', pushed') \cup {n}
        BY <2>3 DEF Twice
      <3>2. U \subseteq T \cup {n}
        BY <1>3, <3>1
      <3> HIDE DEF T, U
      <3>3. /\ IsFiniteSet(T \cup {n})
            /\ Cardinality(T \cup {n}) = IF n \in T THEN Cardinality(T) ELSE Cardinality(T) + 1
        BY <2>1, FS_AddElement
      <3>4. Cardinality(U) <= Cardinality(T \cup {n})
        BY <3>2, <3>3, FS_Subset
      <3>5. Cardinality(U) <= dups'
        BY <1>2, <2>1, <2>3, <3>3, <3>4
      <3>6. QED
        BY <3>5 DEF U
    <2>4. QED
      BY <1>1, <2>2, <2>3
  <1>5. FewTwice' /\ dups' \in Nat /\ dups <= dups'
    <2>1. dups' \in Nat /\ dups <= dups'
      BY <1>1, <1>2
    <2>2. FewTwice'
      BY <1>4 DEF FewTwice, Twice, InList, InPushed, In, Until, Key
    <2>3. QED
      BY <2>1, <2>2
  <1>6. NotLate'
    BY <1>1, <1>2 DEF InOrder, NotLate
  <1>7. CASE Listed(n)
    <2>1. list' = list /\ pushed' = pushed
      BY <1>1, <1>7 DEF AddPacket
    <2>2. SentBefore(list)' /\ PushedBefore'
      BY <1>1, <2>1 DEF InOrder, SentBefore, PushedBefore, Until, Key
    <2>3. FramesInOrder'
      BY <1>2, <1>5, <2>1, PushedLengths DEF InOrder, FramesInOrder, Repeated, Overtaken
    <2>4. NothingBehind'
      <3>1. \A h, e \in Heads : Missing(net, list, h, e) => Missing(net', list', h, e)
        BY <1>2, <2>1 DEF Missing
      <3>2. \A f : \A h, e \in Heads : Short(f, h, e) => h = f[1] /\ e - h <= dups'
        BY <1>2, <1>5, HeadTypes DEF Short
      <3>3. QED
        BY <2>1, <3>1, <3>2 DEF InOrder, NothingBehind, Missing, Short, Within, InList, In, Until, Key
    <2>5. QED
      BY <1>5, <1>6, <2>2, <2>3, <2>4 DEF InOrder
  <1>8. CASE ~Listed(n)
    <2>1. /\ SentBefore(list)' /\ PushedBefore' /\ FramesInOrder'
          /\ \A k \in DOMAIN pushed' : \A h, e \in Heads :
                NextHead(h, e) /\ h <= pushed'[k][1] =>
                   \/ Missing(net', list', h, e)
                   \/ h = pushed'[k][1] /\ e - h <= dups'
                   \/ Within(pushed'[k], h)
      BY <1>1, <1>2, <1>4, <1>5, <1>8, AddInOrder
    <2>2. NothingBehind'
      BY <2>1 DEF NothingBehind, Missing, Short, Within, InList, In, Until, Key
    <2>3. QED
      BY <1>5, <1>6, <2>1, <2>2 DEF InOrder
  <1>9. QED
    BY <1>7, <1>8

(* A packet that is sent is later than everything received.                *)
LEMMA SendsInOrder ==
    ASSUME NetTypes, ListTypes, Order, InOrder, CameraSends
    PROVE  InOrder'
  <1> DEFINE new == packetsSent + 1
  <1>1. /\ packetsSent \in Nat /\ packetsSent < MaxPackets /\ \A x \in net : packetsSent - x < Window
        /\ packetsSent' = new /\ net' = net \cup {new} /\ UNCHANGED <<lost, dups, list, pushed>>
    BY ConstantFacts DEF CameraSends, NetTypes
  <1>2. \A x \in net : x \in Int
    BY <1>1, ConstantFacts DEF NetTypes
  <1>3. Window \in Nat
    BY RtpAssumption
  <1>4. /\ list \in Seq(Filled) /\ \A i \in DOMAIN list : Until(list[i]) \in Int
    BY EntryFacts DEF ListTypes
  <1>5. \A k \in DOMAIN pushed :
           /\ pushed[k][1] \in Heads /\ pushed[k][1] \in Int /\ Len(pushed[k]) \in Nat \ {0}
           /\ pushed[k][1] + Len(pushed[k]) \in Heads
           /\ NextHead(pushed[k][1], pushed[k][1] + Len(pushed[k]))
    <2> TAKE k \in DOMAIN pushed
    <2>1. pushed[k] \in Seq(Packets) /\ Whole(pushed[k])
      BY DEF ListTypes, Order
    <2>2. QED
      BY <2>1, WholeFacts
  <1>6. NotLate'
    <2> SUFFICES ASSUME NEW x \in net' PROVE packetsSent' - x <= Window
      BY DEF NotLate
    <2>1. CASE x \in net
      BY <1>1, <1>2, <1>3, <2>1
    <2>2. CASE x = new
      BY <1>1, <1>3, <2>2
    <2>3. QED
      BY <1>1, <2>1, <2>2
  <1>7. SentBefore(list)' /\ PushedBefore' /\ FramesInOrder'
    <2>1. \A i \in DOMAIN list : Until(list[i]) <= new + 1 /\ (list[i].ps => Until(list[i]) <= new)
      BY <1>1, <1>4 DEF InOrder, SentBefore
    <2>2. \A k \in DOMAIN pushed : pushed[k][1] + Len(pushed[k]) <= new
      BY <1>1, <1>5 DEF InOrder, PushedBefore
    <2>3. QED
      BY <1>1, <2>1, <2>2 DEF InOrder, SentBefore, PushedBefore, FramesInOrder, Repeated, Overtaken, Until, Key
  <1>8. ~InList(list, new)
    BY <1>1, <1>4 DEF InOrder, SentBefore, InList, In
  <1>9. ~InPushed(pushed, new)
    BY <1>1, <1>5 DEF InOrder, PushedBefore, InPushed
  <1>10. Twice(net \cup {new}, list, pushed) \subseteq Twice(net, list, pushed)
    BY <1>8, <1>9 DEF Twice
  <1>11. FewTwice'
    <2>1. Cardinality(Twice(net \cup {new}, list, pushed)) <= Cardinality(Twice(net, list, pushed))
      BY <1>10, TwiceFinite, FS_Subset
    <2>2. Cardinality(Twice(net \cup {new}, list, pushed)) <= dups
      BY <2>1, TwiceFinite, ConstantFacts DEF InOrder, FewTwice, NetTypes
    <2>3. QED
      BY <1>1, <2>2 DEF FewTwice, Twice, InList, InPushed, In, Until, Key
  <1>12. NothingBehind'
    <2> SUFFICES ASSUME NEW k \in DOMAIN pushed, NEW h \in Heads, NEW e \in Heads,
                        NextHead(h, e), h <= pushed[k][1],
                        ~Short(pushed[k], h, e), ~Within(pushed[k], h)
                 PROVE  \E x \in h..(e - 1) : x \notin net' /\ ~InList(list, x)
      BY <1>1 DEF NothingBehind, Missing, Short, Within, InList, In, Until, Key
    <2>1. PICK x \in h..(e - 1) : x \notin net /\ ~InList(list, x)
      BY DEF InOrder, NothingBehind, Missing
    <2> DEFINE g == pushed[k][1]
               d == g + Len(pushed[k])
    <2>2. g \in Int /\ d \in Int /\ g \in Heads /\ d \in Heads /\ NextHead(g, d) /\ d <= packetsSent /\ h <= g
      BY <1>5 DEF InOrder, PushedBefore
    <2> HIDE DEF g, d
    <2>3. h \in Int /\ e \in Int
      BY BetweenHeads
    <2>4. e <= d
      BY <2>2, <2>3 DEF NextHead
    <2>5. x # new
      BY <1>1, <2>2, <2>3, <2>4
    <2>6. QED
      BY <1>1, <2>1, <2>5
  <1>13. QED
    BY <1>6, <1>7, <1>11, <1>12 DEF InOrder

LEMMA InOrderStep ==
    ASSUME NetTypes, ListTypes, ListTypes', Order, Order', Close, InOrder, [RtpNext]_rtpVars
    PROVE  InOrder'
  <1>1. ASSUME UNCHANGED <<packetsSent, dups, list, pushed>>, net' \subseteq net PROVE InOrder'
    <2>1. Twice(net', list, pushed) \subseteq Twice(net, list, pushed)
      BY <1>1 DEF Twice
    <2>2. Cardinality(Twice(net', list, pushed)) <= Cardinality(Twice(net, list, pushed))
      BY <2>1, TwiceFinite, FS_Subset
    <2>3. Cardinality(Twice(net', list, pushed)) <= dups
      BY <2>2, TwiceFinite, ConstantFacts DEF InOrder, FewTwice, NetTypes
    <2>4. FewTwice'
      BY <1>1, <2>3 DEF FewTwice, Twice, InList, InPushed, In, Until, Key
    <2>5. NotLate'
      BY <1>1 DEF InOrder, NotLate
    <2>6. SentBefore(list)' /\ PushedBefore' /\ FramesInOrder'
      BY <1>1 DEF InOrder, SentBefore, PushedBefore, FramesInOrder, Repeated, Overtaken, Until, Key
    <2>7. NothingBehind'
      BY <1>1 DEF InOrder, NothingBehind, Missing, Short, Within, InList, In, Until, Key
    <2>8. QED
      BY <2>4, <2>5, <2>6, <2>7 DEF InOrder
  <1>2. CASE CameraSends
    BY <1>2, SendsInOrder
  <1>3. ASSUME NEW n \in Packets, PacketLost(n) PROVE InOrder'
    BY <1>1, <1>3 DEF PacketLost
  <1>4. ASSUME NEW n \in Packets, Arrives(n) PROVE InOrder'
    BY <1>4, ArrivesInOrder
  <1>5. CASE UNCHANGED rtpVars
    BY <1>1, <1>5 DEF rtpVars
  <1>6. QED
    BY <1>2, <1>3, <1>4, <1>5 DEF RtpNext

(* Frames leave the list in order while packets are close: InOrder is the  *)
(* inductive invariant.                                                    *)
LEMMA OrderedWhileClose == RtpSpec /\ []Close => []FramesInOrder
  <1>1. RtpInit => InOrder
    <2> SUFFICES ASSUME RtpInit PROVE InOrder
      OBVIOUS
    <2>1. net = {} /\ list = << >> /\ pushed = << >> /\ dups = 0 /\ DOMAIN list = {} /\ DOMAIN pushed = {}
      BY DEF RtpInit
    <2>2. Twice(net, list, pushed) = {}
      BY <2>1 DEF Twice, InList, InPushed
    <2>3. Cardinality({}) = 0
      BY FS_EmptySet
    <2>4. FewTwice
      <3>1. Cardinality(Twice(net, list, pushed)) = 0
        BY <2>2, <2>3
      <3>2. QED
        BY <2>1, <3>1 DEF FewTwice
    <2>5. NotLate /\ SentBefore(list) /\ PushedBefore /\ NothingBehind /\ FramesInOrder
      BY <2>1 DEF NotLate, SentBefore, PushedBefore, NothingBehind, FramesInOrder
    <2>6. QED
      BY <2>4, <2>5 DEF InOrder
  <1>2. NetTypes /\ ListTypes /\ ListTypes' /\ Order /\ Order' /\ Close /\ InOrder /\ [RtpNext]_rtpVars => InOrder'
    BY InOrderStep
  <1>3. InOrder => FramesInOrder
    BY DEF InOrder
  <1>4. QED
    BY <1>1, <1>2, <1>3, TypesInvariant, OrderInvariant, PTL DEF RtpSpec
-----------------------------------------------------------------------------
(* The packets in the list are close because old ones leave it, and those  *)
(* under way because none is overtaken by more than Window: Close is not   *)
(* only a hypothesis but an invariant, when the numbers are WideEnough.    *)

LEMMA FrameNumbers ==
    ASSUME NEW m \in Packets, NEW n \in Packets, n <= m
    PROVE  FrameOf(m) \in Nat /\ FrameOf(n) \in Nat /\ FrameOf(n) <= FrameOf(m)
  <1> DEFINE S(x) == { h \in Heads : h <= x }
  <1>1. \A x \in Packets : IsFiniteSet(S(x)) /\ FrameOf(x) = Cardinality(S(x)) /\ FrameOf(x) \in Nat
    <2> TAKE x \in Packets
    <2>1. IsFiniteSet(1..MaxPackets)
      BY ConstantFacts, FS_Interval
    <2>2. S(x) \in SUBSET (1..MaxPackets)
      BY ConstantFacts DEF Packets
    <2>3. IsFiniteSet(S(x))
      BY <2>1, <2>2, FS_Subset
    <2>4. QED
      BY <2>3, FS_CardinalityType DEF FrameOf
  <1>2. S(n) \in SUBSET S(m)
    <2>1. m \in Int /\ n \in Int /\ \A h \in Heads : h \in Int
      BY HeadTypes
    <2>2. \A h \in S(n) : h \in S(m)
      BY <2>1
    <2>3. QED
      BY <2>2
  <1> HIDE DEF S
  <1>3. Cardinality(S(n)) <= Cardinality(S(m))
    BY <1>1, <1>2, FS_Subset
  <1>4. QED
    BY <1>1, <1>3

LEMMA SmallRemainder ==
    ASSUME NEW s \in Nat, s > 0, NEW x \in Int, x < s
    PROVE  /\ 0 <= x => x % s = x
           /\ x < 0 /\ 0 <= x + s => x % s = x + s
  OBVIOUS

(* The age of a packet with regard to a later one, around the wrap of the  *)
(* time stamps.                                                            *)
LEMMA AgeFacts ==
    ASSUME NEW a \in Nat, NEW b \in Nat, a <= b, b - a < TsSpace
    PROVE  ((b % TsSpace) - (a % TsSpace)) % TsSpace = b - a
  <1> DEFINE x == (b % TsSpace) - (a % TsSpace)
  <1>1. x = b - a \/ x + TsSpace = b - a
    BY ConstantFacts, CloseQuotients
  <1>2. x \in Int /\ x < TsSpace
    <2>1. a % TsSpace \in 0..(TsSpace - 1) /\ b % TsSpace \in 0..(TsSpace - 1)
      BY ConstantFacts, DivMod
    <2>2. QED
      BY <2>1, ConstantFacts
  <1> HIDE DEF x
  <1>3. CASE x = b - a
    BY <1>2, <1>3, ConstantFacts, SmallRemainder DEF x
  <1>4. CASE x + TsSpace = b - a
    <2>1. 0 <= x + TsSpace
      BY <1>4
    <2>2. CASE 0 <= x
      BY <1>2, <1>4, <2>2, ConstantFacts
    <2>3. CASE x < 0
      BY <1>2, <1>4, <2>1, <2>3, ConstantFacts, SmallRemainder DEF x
    <2>4. QED
      BY <1>2, <2>2, <2>3
  <1>5. QED
    BY <1>1, <1>3, <1>4

Frontier(l) == IF l = << >> THEN 0 ELSE Key(l[Len(l)])

(* A packet beyond the last one in the list is under way or lost.          *)
Unseen == { x \in 1..packetsSent : x > Frontier(list) /\ x \notin net }

Dated(l) == \A i \in DOMAIN l : ~l[i].ps => l[i].ts = FrameOf(Key(l[i])) % TsSpace

Recent(reach, l) == \A i \in DOMAIN l : Frontier(l) - Key(l[i]) < reach

Near(reach) ==
    /\ Dated(list) /\ Recent(reach, list) /\ Frontier(list) <= packetsSent
    /\ NotLate /\ Cardinality(Unseen) <= lost

LEMMA FrontierFacts ==
    ASSUME NEW l \in Seq(Filled), Sorted(l)
    PROVE  /\ Frontier(l) \in Nat
           /\ \A i \in DOMAIN l : Key(l[i]) \in Int /\ 0 < Key(l[i]) /\ Key(l[i]) <= Frontier(l)
           /\ l # << >> => Frontier(l) \in Keys(l)
  <1>1. Len(l) \in Nat /\ DOMAIN l = 1..Len(l) /\ \A i \in DOMAIN l : Key(l[i]) \in Packets
    BY KeyTypes
  <1>2. \A x \in Packets : x \in Nat /\ 0 < x
    BY DEF Packets
  <1>3. CASE l = << >>
    BY <1>3 DEF Frontier
  <1>4. CASE l # << >>
    <2>1. Len(l) \in DOMAIN l /\ Frontier(l) = Key(l[Len(l)])
      BY <1>1, <1>4 DEF Frontier
    <2>2. \A i \in DOMAIN l : Key(l[i]) <= Frontier(l)
      <3> TAKE i \in DOMAIN l
      <3>1. CASE i = Len(l)
        BY <1>1, <1>2, <2>1, <3>1
      <3>2. CASE i # Len(l)
        <4>1. i < Len(l)
          BY <1>1, <3>2
        <4>2. Key(l[i]) < Key(l[Len(l)])
          BY <2>1, <4>1 DEF Sorted
        <4>3. Key(l[i]) \in Int /\ Key(l[Len(l)]) \in Int
          BY <1>1, <1>2, <2>1
        <4>4. QED
          BY <2>1, <4>2, <4>3
      <3>3. QED
        BY <3>1, <3>2
    <2>3. QED
      BY <1>1, <1>2, <2>1, <2>2 DEF Keys
  <1>5. QED
    BY <1>3, <1>4

LEMMA UnseenFinite == NetTypes => IsFiniteSet(Unseen) /\ Cardinality(Unseen) \in Nat
  <1> SUFFICES ASSUME NetTypes PROVE IsFiniteSet(Unseen) /\ Cardinality(Unseen) \in Nat
    OBVIOUS
  <1>1. packetsSent \in Int
    BY ConstantFacts DEF NetTypes
  <1>2. IsFiniteSet(1..packetsSent)
    BY <1>1, FS_Interval
  <1>3. Unseen \in SUBSET (1..packetsSent)
    BY DEF Unseen
  <1>4. IsFiniteSet(Unseen)
    BY <1>2, <1>3, FS_Subset
  <1>5. QED
    BY <1>4, FS_CardinalityType

(* The camera is not far ahead of the list.                                *)
LEMMA FrontierIsNear ==
    ASSUME NetTypes, Frontier(list) \in Nat, NotLate, Cardinality(Unseen) <= lost
    PROVE  packetsSent - Frontier(list) <= Window + MaxLost + 1
  <1> DEFINE f == Frontier(list)
             b == packetsSent - Window - 1
  <1>1. packetsSent \in Nat /\ Window \in Nat /\ MaxLost \in Nat /\ lost \in Nat /\ lost <= MaxLost /\ f \in Nat
        /\ \A x \in net : x \in Int
    BY ConstantFacts DEF NetTypes
  <1>2. (f + 1)..b \subseteq Unseen
    <2> SUFFICES ASSUME NEW x \in (f + 1)..b PROVE x \in Unseen
      OBVIOUS
    <2>1. x \in 1..packetsSent /\ x > f /\ ~(packetsSent - x <= Window)
      BY <1>1
    <2>2. x \notin net
      BY <2>1 DEF NotLate
    <2>3. QED
      BY <2>1, <2>2 DEF Unseen
  <1>3. Cardinality((f + 1)..b) <= Cardinality(Unseen) /\ Cardinality(Unseen) \in Nat
    BY <1>2, UnseenFinite, FS_Subset
  <1>4. Cardinality((f + 1)..b) = IF f + 1 > b THEN 0 ELSE b - (f + 1) + 1
    <2>1. f + 1 \in Int /\ b \in Int
      BY <1>1
    <2>2. QED
      BY <2>1, FS_Interval
  <1> HIDE DEF f
  <1>5. packetsSent - f <= Window + MaxLost + 1
    <2>1. PICK c : c = Cardinality((f + 1)..b)
      OBVIOUS
    <2>2. c <= MaxLost /\ c = IF f + 1 > b THEN 0 ELSE b - (f + 1) + 1
      BY <1>1, <1>3, <1>4, <2>1
    <2>3. QED
      BY <1>1, <2>2
  <1>6. QED
    BY <1>5 DEF f

(* How far apart the packets are that are compared.                        *)
LEMMA Spread ==
    ASSUME NetTypes, ListTypes, Sorted(list), NEW reach \in Nat, Near(reach),
           NEW m \in net \cup Keys(list), NEW n \in net \cup Keys(list)
    PROVE  m \in Packets /\ n \in Packets /\ m - n <= reach + Window + MaxLost
  <1> DEFINE f == Frontier(list)
  <1>1. /\ packetsSent \in Nat /\ Window \in Nat /\ MaxLost \in Nat /\ f \in Nat
        /\ packetsSent - f <= Window + MaxLost + 1
    BY FrontierIsNear, FrontierFacts, ConstantFacts DEF Near, ListTypes, NetTypes
  <1>2. \A x \in net : x \in Packets /\ x \in Int /\ x <= packetsSent /\ packetsSent - x <= Window
    BY ConstantFacts DEF NetTypes, Near, NotLate, Packets
  <1>3. \A x \in Keys(list) : x \in Packets /\ x \in Int /\ x <= f /\ f - x < reach
    BY FrontierFacts, KeyTypes DEF ListTypes, Keys, Near, Recent
  <1>4. f <= packetsSent
    BY DEF Near
  <1>5. QED
    BY <1>1, <1>2, <1>3, <1>4

LEMMA NearIsClose ==
    ASSUME NetTypes, ListTypes, Sorted(list), NEW reach \in Nat, WideEnough(reach), Near(reach)
    PROVE  Close
  <1>1. \A m, n \in net \cup Keys(list) : m - n <= reach + Window + MaxLost /\ m \in Int /\ n \in Int
    BY Spread, HeadTypes
  <1>2. reach + Window + MaxLost < Half /\ reach + Window + MaxLost \in Int /\ Half \in Int
    BY ConstantFacts, HalfFacts DEF WideEnough, Half
  <1>3. QED
    BY <1>1, <1>2 DEF Close, IsClose

(* What a packet that is sorted in, and a frame that is joined, leave of   *)
(* the keys, the last one and the time stamps.                             *)
LEMMA InsertedNear ==
    ASSUME ListTypes, NEW n \in Packets, Dated(list), NEW m, m = Inserted(Parse(n))
    PROVE  /\ Keys(m) = Keys(list) \cup {n}
           /\ Dated(m) /\ m # << >>
  <1> DEFINE p == Parse(n)
  <1>1. p \in Filled /\ list \in Seq(Filled) /\ Len(list) \in Nat /\ DOMAIN list = 1..Len(list)
    BY ParseFacts DEF ListTypes
  <1>2. Key(p) = n /\ ~p.ps /\ p.ts = FrameOf(n) % TsSpace
    BY ParseFacts DEF Key, Parse
  <1>3. PICK k \in Nat : InsertedAt(m, k, p)
    BY <1>1, InsertStep
  <1> HIDE DEF p
  <1>4. /\ k <= Len(list) /\ m \in Seq(Filled) /\ DOMAIN m = 1..(Len(list) + 1)
        /\ \A j \in 1..k : m[j] = list[j]
        /\ m[k + 1] = p
        /\ \A j \in (k + 2)..(Len(list) + 1) : m[j] = list[j - 1]
    BY <1>1, <1>3 DEF InsertedAt
  <1>5. \A j \in DOMAIN m : m[j] = p \/ \E i \in DOMAIN list : m[j] = list[i]
    BY <1>1, <1>4
  <1>6. \A i \in DOMAIN list : \E j \in DOMAIN m : m[j] = list[i]
    <2> TAKE i \in DOMAIN list
    <2>1. CASE i <= k
      <3>1. i \in 1..k /\ i \in DOMAIN m
        BY <1>1, <1>4, <2>1
      <3>2. QED
        BY <1>4, <3>1
    <2>2. CASE ~(i <= k)
      <3>1. i + 1 \in (k + 2)..(Len(list) + 1) /\ i + 1 \in DOMAIN m /\ (i + 1) - 1 = i
        BY <1>1, <1>4, <2>2
      <3>2. m[i + 1] = list[i]
        BY <1>4, <3>1
      <3>3. QED
        BY <3>1, <3>2
    <2>3. QED
      BY <2>1, <2>2
  <1>7. k + 1 \in DOMAIN m /\ m # << >>
    BY <1>1, <1>4
  <1>8. Keys(m) = Keys(list) \cup {n}
    <2>1. n \in Keys(m)
      BY <1>2, <1>4, <1>7 DEF Keys
    <2>2. Keys(list) \subseteq Keys(m)
      BY <1>6 DEF Keys
    <2>3. Keys(m) \subseteq Keys(list) \cup {n}
      BY <1>2, <1>5 DEF Keys
    <2>4. QED
      BY <2>1, <2>2, <2>3
  <1>9. Dated(m)
    BY <1>2, <1>5 DEF Dated
  <1>10. QED
    BY <1>7, <1>8, <1>9

LEMMA JoinedNear ==
    ASSUME NEW l \in Seq(Filled), l # << >>, AllKnown(l), Sorted(l), AllClose(l), Dated(l), NEW m, m = Joined(l)
    PROVE  m # << >> /\ Keys(m) \subseteq Keys(l) /\ Frontier(m) = Frontier(l) /\ Dated(m)
  <1>1. CASE Complete(l) = {}
    BY <1>1 DEF Joined
  <1>2. CASE Complete(l) # {}
    <2>1. PICK first, last \in 1..Len(l) : <<first, last>> \in Complete(l) /\ JoinedAt(m, l, first, last)
      BY <1>2, JoinStep
    <2>2. Len(l) \in Nat /\ DOMAIN l = 1..Len(l)
      OBVIOUS
    <2>3. /\ first < last
          /\ m \in Seq(Filled) /\ Len(m) = Len(l) - (last - first) + 1 /\ DOMAIN m = 1..Len(m)
          /\ \A j \in 1..(first - 1) : m[j] = l[j]
          /\ m[first] = Frame(l, first, last - 1)
          /\ \A j \in (first + 1)..Len(m) : m[j] = l[j + (last - first) - 1]
      BY <2>1 DEF JoinedAt
    <2>4. Key(m[first]) = Key(l[first]) /\ m[first].ps
      BY <2>1, <2>3, FrameIsWhole, FrameFacts
    <2>5. \A j \in DOMAIN m : j = first \/ \E i \in DOMAIN l : m[j] = l[i]
      <3> TAKE j \in DOMAIN m
      <3>1. CASE j \in 1..(first - 1)
        BY <2>2, <2>3, <3>1
      <3>2. CASE j \in (first + 1)..Len(m)
        <4>1. j + (last - first) - 1 \in DOMAIN l
          BY <2>2, <2>3, <3>2
        <4>2. QED
          BY <2>3, <3>2, <4>1
      <3>3. QED
        BY <2>3, <3>1, <3>2
    <2>6. m # << >> /\ Len(m) \in (first + 1)..Len(m) /\ Len(m) + (last - first) - 1 = Len(l)
      BY <2>2, <2>3
    <2>7. m[Len(m)] = l[Len(l)]
      BY <2>3, <2>6
    <2>8. Frontier(m) = Frontier(l)
      BY <2>6, <2>7 DEF Frontier
    <2>9. Keys(m) \subseteq Keys(l)
      <3>1. \A j \in DOMAIN m : \E i \in DOMAIN l : Key(m[j]) = Key(l[i])
        BY <2>2, <2>4, <2>5
      <3>2. QED
        BY <3>1 DEF Keys
    <2>10. Dated(m)
      BY <2>4, <2>5 DEF Dated
    <2>11. QED
      BY <2>6, <2>8, <2>9, <2>10
  <1>3. QED
    BY <1>1, <1>2

(* What leaves is in front of a packet that stays.                         *)
LEMMA LeaveUpTo ==
    ASSUME NEW l \in Seq(Filled), NEW s \in DOMAIN l, Stays(l, s)
    PROVE  Leaving(l) + 1 \in DOMAIN l /\ Stays(l, Leaving(l) + 1)
  <1>1. Len(l) \in Nat /\ DOMAIN l = 1..Len(l)
    OBVIOUS
  <1> DEFINE T == { i \in 1..Len(l) : Stays(l, i) }
  <1>2. T \in SUBSET (1..Len(l)) /\ T # {}
    BY <1>1
  <1>3. PICK t \in T : \A u \in T : t <= u
    <2> HIDE DEF T
    <2>1. QED
      BY <1>1, <1>2, LeastIndex
  <1>4. t \in DOMAIN l /\ Stays(l, t) /\ \A j \in 1..(t - 1) : ~Stays(l, j)
    BY <1>1, <1>3
  <1> DEFINE i == CHOOSE i \in DOMAIN l : Stays(l, i) /\ \A j \in 1..(i - 1) : ~Stays(l, j)
  <1>5. i \in DOMAIN l /\ Stays(l, i)
    BY <1>4
  <1>6. Leaving(l) = i - 1
    BY DEF Leaving
  <1> HIDE DEF i
  <1>7. i \in Int /\ Leaving(l) + 1 = i
    BY <1>1, <1>5, <1>6
  <1>8. QED
    BY <1>5, <1>7

(* After a packet has arrived the list is recent: the last packet stays,   *)
(* and what is too old with regard to it leaves.                           *)
LEMMA LeavingNear ==
    ASSUME NEW l \in Seq(Filled), l # << >>, Sorted(l), Dated(l), PacketLast(l), NEW reach \in Nat, WideEnough(reach),
           \A m, n \in Keys(l) : m - n <= reach + Window + MaxLost,
           NEW r, r = SubSeq(l, Leaving(l) + 1, Len(l))
    PROVE  r # << >> /\ Frontier(r) = Frontier(l) /\ Keys(r) \subseteq Keys(l) /\ Recent(reach, r) /\ Dated(r)
  <1>1. /\ Len(l) \in Nat \ {0} /\ DOMAIN l = 1..Len(l) /\ Len(l) \in DOMAIN l
        /\ Last(l) = l[Len(l)] /\ ~Last(l).ps /\ Frontier(l) = Key(Last(l))
        /\ \A i \in DOMAIN l : Key(l[i]) \in Packets /\ Key(l[i]) \in Int /\ Key(l[i]) \in Keys(l)
    BY KeyTypes DEF PacketLast, Last, Frontier, Keys
  <1>2. Last(l).ts = FrameOf(Frontier(l)) % TsSpace
    BY <1>1 DEF Dated
  <1> DEFINE f == Frontier(l)
  <1>3. f \in Packets /\ f \in Int /\ f \in Keys(l) /\ \A i \in DOMAIN l : Key(l[i]) <= f
    BY <1>1, FrontierFacts
  <1> HIDE DEF f
  <1>4. \A i \in DOMAIN l : ~l[i].ps =>
           (Last(l).ts - l[i].ts) % TsSpace = FrameOf(f) - FrameOf(Key(l[i]))
    <2> SUFFICES ASSUME NEW i \in DOMAIN l, ~l[i].ps
                 PROVE  (Last(l).ts - l[i].ts) % TsSpace = FrameOf(f) - FrameOf(Key(l[i]))
      OBVIOUS
    <2>1. l[i].ts = FrameOf(Key(l[i])) % TsSpace
      BY DEF Dated
    <2>2. FrameOf(f) \in Nat /\ FrameOf(Key(l[i])) \in Nat /\ FrameOf(Key(l[i])) <= FrameOf(f)
      BY <1>1, <1>3, FrameNumbers
    <2>3. f - Key(l[i]) <= reach + Window + MaxLost
      BY <1>1, <1>3
    <2>4. FrameOf(f) - FrameOf(Key(l[i])) < TsSpace
      BY <1>1, <1>3, <2>3 DEF WideEnough
    <2>5. QED
      BY <1>2, <2>1, <2>2, <2>4, AgeFacts DEF f
  <1>5. Stays(l, Len(l))
    <2>1. (Last(l).ts - Last(l).ts) % TsSpace = FrameOf(f) - FrameOf(f)
      BY <1>1, <1>4 DEF f
    <2>2. FrameOf(f) - FrameOf(f) = 0
      BY <1>3, FrameNumbers
    <2>3. ~TooOld(Last(l), Last(l))
      BY <2>1, <2>2, ConstantFacts DEF TooOld
    <2>4. QED
      BY <1>1, <2>3 DEF Stays
  <1>6. PICK k \in Nat : k = Leaving(l) /\ k + 1 \in DOMAIN l /\ Stays(l, k + 1)
    <2>1. Leaving(l) \in Nat
      BY LeaveStep
    <2>2. QED
      BY <1>1, <1>5, <2>1, LeaveUpTo
  <1>7. f - Key(l[k + 1]) < reach
    <2>1. FrameOf(f) - FrameOf(Key(l[k + 1])) <= MaxAge
      <3>1. ~l[k + 1].ps /\ ~TooOld(l[k + 1], Last(l))
        BY <1>6 DEF Stays
      <3>2. (Last(l).ts - l[k + 1].ts) % TsSpace = FrameOf(f) - FrameOf(Key(l[k + 1]))
        BY <1>4, <1>6, <3>1
      <3>3. FrameOf(f) \in Nat /\ FrameOf(Key(l[k + 1])) \in Nat
        BY <1>1, <1>3, <1>6, FrameNumbers
      <3>4. QED
        BY <3>1, <3>2, <3>3, ConstantFacts DEF TooOld
    <2>2. FrameOf(f) \in Nat /\ FrameOf(Key(l[k + 1])) \in Nat
      BY <1>1, <1>3, <1>6, FrameNumbers
    <2>3. ~(f - Key(l[k + 1]) >= reach)
      <3>1. ~(FrameOf(f) - FrameOf(Key(l[k + 1])) > MaxAge)
        BY <2>1, <2>2, ConstantFacts
      <3>2. QED
        BY <1>1, <1>3, <1>6, <3>1 DEF WideEnough
    <2>4. QED
      BY <1>1, <1>3, <1>6, <2>3
  <1>8. /\ r \in Seq(Filled) /\ Len(r) = Len(l) - k /\ DOMAIN r = 1..(Len(l) - k)
        /\ \A j \in 1..(Len(l) - k) : r[j] = l[k + j]
    <2>1. k \in 0..Len(l)
      BY <1>1, <1>6
    <2>2. QED
      BY <1>6, <2>1, RestFacts
  <1>9. \A j \in DOMAIN r : k + j \in DOMAIN l /\ r[j] = l[k + j] /\ j \in Nat /\ j >= 1
    <2> TAKE j \in DOMAIN r
    <2>1. j \in 1..(Len(l) - k) /\ j \in Nat /\ j >= 1
      BY <1>8
    <2>2. k + j \in 1..Len(l)
      BY <1>1, <2>1
    <2>3. QED
      BY <1>1, <1>8, <2>1, <2>2
  <1>10. r # << >> /\ Len(r) \in DOMAIN r /\ r[Len(r)] = l[Len(l)]
    <2>1. k + 1 \in 1..Len(l)
      BY <1>1, <1>6
    <2>2. Len(l) - k \in 1..(Len(l) - k) /\ k + (Len(l) - k) = Len(l)
      BY <1>1, <2>1
    <2>3. r # << >> /\ Len(r) \in DOMAIN r
      <3>1. Len(r) \in DOMAIN r
        <4>1. Len(r) \in 1..(Len(l) - k)
          BY <1>8, <2>2
        <4>2. QED
          BY <1>8, <4>1
      <3>2. Len(r) # 0
        <4>1. Len(l) - k >= 1
          BY <1>1, <2>1
        <4>2. QED
          BY <1>8, <4>1
      <3>3. Len(<< >>) = 0
        OBVIOUS
      <3>4. QED
        BY <3>1, <3>2, <3>3
    <2>4. r[Len(r)] = l[k + (Len(l) - k)]
      BY <1>8, <2>2
    <2>5. QED
      BY <2>2, <2>3, <2>4
  <1>11. Frontier(r) = f
    BY <1>1, <1>10 DEF Frontier, f
  <1>12. Keys(r) \subseteq Keys(l)
    BY <1>9 DEF Keys
  <1>13. Recent(reach, r)
    <2> SUFFICES ASSUME NEW j \in DOMAIN r PROVE f - Key(r[j]) < reach
      BY <1>11 DEF Recent
    <2>1. /\ k + j \in DOMAIN l /\ r[j] = l[k + j] /\ k + 1 \in DOMAIN l /\ j \in Nat /\ j >= 1
          /\ Key(l[k + 1]) \in Int /\ Key(l[k + j]) \in Int
      BY <1>1, <1>6, <1>9
    <2>2. ASSUME j = 1 PROVE f - Key(r[j]) < reach
      BY <1>7, <2>1, <2>2
    <2>3. ASSUME j > 1 PROVE f - Key(r[j]) < reach
      <3>1. k + 1 < k + j
        BY <2>1, <2>3
      <3>2. Key(l[k + 1]) < Key(l[k + j])
        BY <2>1, <3>1 DEF Sorted
      <3>3. f - Key(l[k + j]) < reach
        BY <1>3, <1>7, <2>1, <3>2
      <3>4. QED
        BY <2>1, <3>3
    <2>4. j = 1 \/ j > 1
      BY <2>1
    <2>5. QED
      BY <2>2, <2>3, <2>4
  <1>14. Dated(r)
    BY <1>9 DEF Dated
  <1>15. QED
    BY <1>10, <1>11, <1>12, <1>13, <1>14 DEF f

(* An arriving packet.                                                     *)
LEMMA ArrivesNear ==
    ASSUME NetTypes, ListTypes, Order, Close, NEW reach \in Nat, WideEnough(reach), Near(reach),
           NEW n \in Packets, Arrives(n)
    PROVE  Near(reach)'
  <1>1. /\ n \in net /\ AddPacket(n) /\ UNCHANGED <<packetsSent, lost>>
        /\ net' = net \ {n} \/ net' = net
    BY DEF Arrives
  <1>2. /\ list \in Seq(Filled) /\ Sorted(list) /\ packetsSent \in Nat /\ lost \in Nat
        /\ n \in Int /\ n <= packetsSent
        /\ Dated(list) /\ Recent(reach, list) /\ Frontier(list) <= packetsSent
        /\ \A x \in net : packetsSent - x <= Window
        /\ Cardinality(Unseen) <= lost
    BY <1>1, ConstantFacts DEF ListTypes, Order, NetTypes, Near, NotLate
  <1>3. NotLate'
    BY <1>1, <1>2 DEF NotLate
  <1>4. Frontier(list) \in Nat /\ \A i \in DOMAIN list : Key(list[i]) \in Int /\ Key(list[i]) <= Frontier(list)
    BY <1>2, FrontierFacts
  <1>5. ASSUME Frontier(list)' \in Nat, Frontier(list) <= Frontier(list)', n <= Frontier(list)'
        PROVE  Cardinality(Unseen)' <= lost'
    <2>1. Unseen' \subseteq Unseen
      <3> SUFFICES ASSUME NEW x \in Unseen' PROVE x \in Unseen
        OBVIOUS
      <3>1. x \in 1..packetsSent /\ x > Frontier(list)' /\ x \notin net'
        BY <1>1 DEF Unseen
      <3>2. x > Frontier(list) /\ x # n
        BY <1>2, <1>4, <1>5, <3>1
      <3>3. x \notin net
        BY <1>1, <3>1, <3>2
      <3>4. QED
        BY <3>1, <3>2, <3>3 DEF Unseen
    <2>2. Cardinality(Unseen') <= Cardinality(Unseen) /\ Cardinality(Unseen) \in Nat
      BY <2>1, UnseenFinite, FS_Subset
    <2>3. Cardinality(Unseen') <= lost
      <3>1. IsFiniteSet(Unseen') /\ Cardinality(Unseen') \in Nat
        BY <2>1, UnseenFinite, FS_Subset, FS_CardinalityType
      <3>2. QED
        BY <1>2, <2>2, <3>1
    <2>4. QED
      BY <1>1, <2>3
  <1>6. CASE Listed(n)
    <2>1. list' = list
      BY <1>1, <1>6 DEF AddPacket
    <2>2. Frontier(list)' = Frontier(list)
      BY <2>1 DEF Frontier, Key
    <2>3. Dated(list)' /\ Recent(reach, list)'
      BY <1>2, <2>1, <2>2 DEF Dated, Recent, Key
    <2>4. n <= Frontier(list)
      <3>1. PICK i \in DOMAIN list : list[i].seq = RtpSeq(n)
        BY <1>6 DEF Listed
      <3>2. RtpSeq(Key(list[i])) = RtpSeq(n)
        BY <3>1 DEF Order, AllKnown, Known
      <3>3. IsClose(Key(list[i]), n) /\ Key(list[i]) \in Packets
        BY <1>1, <1>2, KeyTypes DEF Close, Keys
      <3>4. Key(list[i]) = n
        BY <3>2, <3>3, SeqNumberFacts
      <3>5. QED
        BY <1>4, <3>4
    <2>5. Cardinality(Unseen)' <= lost'
      BY <1>4, <1>5, <2>2, <2>4
    <2>6. QED
      BY <1>1, <1>2, <1>3, <2>2, <2>3, <2>5 DEF Near
  <1>7. CASE ~Listed(n)
    <2> DEFINE i1 == Inserted(Parse(n))
               l == Joined(i1)
    <2>1. i1 \in Seq(Filled) /\ PacketLast(i1) /\ AllKnown(i1) /\ Sorted(i1) /\ AllClose(i1)
      BY <1>1, <1>7, InsertedTypes, InsertedOrder
    <2>2. i1 # << >> /\ Dated(i1) /\ Keys(i1) = Keys(list) \cup {n}
      BY <1>2, InsertedNear
    <2>3. list' = SubSeq(l, Leaving(l) + 1, Len(l))
      BY <1>1, <1>7 DEF AddPacket
    <2> HIDE DEF i1
    <2>4. l \in Seq(Filled) /\ PacketLast(l) /\ Sorted(l)
      BY <2>1, JoinedTypes, JoinedOrder
    <2>5. l # << >> /\ Keys(l) \subseteq Keys(i1) /\ Frontier(l) = Frontier(i1) /\ Dated(l)
      BY <2>1, <2>2, JoinedNear
    <2> HIDE DEF l
    <2>6. \A x, y \in Keys(l) : x - y <= reach + Window + MaxLost
      <3>1. Keys(l) \subseteq net \cup Keys(list)
        BY <1>1, <2>2, <2>5
      <3>2. QED
        BY <1>2, <3>1, Spread
    <2>7. list' # << >> /\ Frontier(list') = Frontier(l) /\ Recent(reach, list') /\ Dated(list')
      BY <2>3, <2>4, <2>5, <2>6, LeavingNear
    <2>8. Frontier(i1) \in Nat /\ Frontier(i1) \in Keys(i1) /\ \A x \in Keys(i1) : x <= Frontier(i1)
      BY <2>1, <2>2, FrontierFacts DEF Keys
    <2>9. n <= Frontier(i1) /\ Frontier(list) <= Frontier(i1) /\ Frontier(i1) <= packetsSent
      <3>1. n <= Frontier(i1)
        BY <2>2, <2>8
      <3>2. Frontier(list) <= Frontier(i1)
        <4>1. CASE list = << >>
          BY <2>8, <4>1 DEF Frontier
        <4>2. CASE list # << >>
          <5>1. Frontier(list) \in Keys(list)
            BY <1>2, <4>2, FrontierFacts
          <5>2. QED
            BY <2>2, <2>8, <5>1
        <4>3. QED
          BY <4>1, <4>2
      <3>3. Frontier(i1) <= packetsSent
        <4>1. \A x \in Keys(list) : x \in Int /\ x <= packetsSent
          BY <1>2, <1>4 DEF Keys
        <4>2. QED
          BY <1>2, <2>2, <2>8, <4>1
      <3>4. QED
        BY <3>1, <3>2, <3>3
    <2>10. Frontier(list)' = Frontier(list') /\ Recent(reach, list)' /\ Dated(list)'
      BY <2>7 DEF Frontier, Recent, Dated, Key
    <2>11. Cardinality(Unseen)' <= lost'
      BY <1>5, <2>5, <2>7, <2>8, <2>9, <2>10
    <2>12. QED
      BY <1>1, <1>3, <2>5, <2>7, <2>9, <2>10, <2>11 DEF Near
  <1>8. QED
    BY <1>6, <1>7

LEMMA NearStep ==
    ASSUME NetTypes, ListTypes, Order, Close, NEW reach \in Nat, WideEnough(reach), Near(reach),
           [RtpNext]_rtpVars
    PROVE  Near(reach)'
  <1>1. /\ packetsSent \in Nat /\ lost \in Nat /\ Window \in Nat /\ Frontier(list) \in Nat
        /\ \A x \in net : x \in Int /\ x <= packetsSent
        /\ Dated(list) /\ Recent(reach, list) /\ Frontier(list) <= packetsSent
        /\ \A x \in net : packetsSent - x <= Window
        /\ Cardinality(Unseen) <= lost
    BY FrontierFacts, ConstantFacts DEF ListTypes, Order, NetTypes, Near, NotLate
  <1>2. ASSUME UNCHANGED list
        PROVE  Dated(list)' /\ Recent(reach, list)' /\ Frontier(list)' = Frontier(list)
    BY <1>1, <1>2 DEF Dated, Recent, Frontier, Key
  <1>3. CASE CameraSends
    <2>1. /\ packetsSent' = packetsSent + 1 /\ net' = net \cup {packetsSent + 1} /\ UNCHANGED <<lost, list>>
          /\ \A x \in net : packetsSent - x < Window
      BY <1>3 DEF CameraSends
    <2>2. Unseen' \subseteq Unseen
      <3> SUFFICES ASSUME NEW x \in Unseen' PROVE x \in Unseen
        OBVIOUS
      <3>1. x \in 1..(packetsSent + 1) /\ x > Frontier(list) /\ x \notin net /\ x # packetsSent + 1
        BY <1>2, <2>1 DEF Unseen
      <3>2. QED
        BY <1>1, <3>1 DEF Unseen
    <2>3. Cardinality(Unseen') <= Cardinality(Unseen) /\ Cardinality(Unseen) \in Nat /\ Cardinality(Unseen') \in Nat
      BY <2>2, UnseenFinite, FS_Subset, FS_CardinalityType
    <2>4. Cardinality(Unseen)' <= lost'
      BY <1>1, <2>1, <2>3
    <2>5. NotLate'
      <3> SUFFICES ASSUME NEW x \in net' PROVE packetsSent' - x <= Window
        BY DEF NotLate
      <3>1. CASE x \in net
        BY <1>1, <2>1, <3>1
      <3>2. CASE x = packetsSent + 1
        BY <1>1, <2>1, <3>2
      <3>3. QED
        BY <2>1, <3>1, <3>2
    <2>6. Frontier(list)' <= packetsSent'
      BY <1>1, <1>2, <2>1
    <2>7. QED
      BY <1>2, <2>1, <2>4, <2>5, <2>6 DEF Near
  <1>4. ASSUME NEW n \in Packets, PacketLost(n) PROVE Near(reach)'
    <2>1. net' = net \ {n} /\ lost' = lost + 1 /\ UNCHANGED <<packetsSent, list>>
      BY <1>4 DEF PacketLost
    <2>2. Unseen' \subseteq Unseen \cup {n}
      BY <1>2, <2>1 DEF Unseen
    <2>3. /\ IsFiniteSet(Unseen \cup {n}) /\ Cardinality(Unseen) \in Nat
          /\ Cardinality(Unseen \cup {n}) = IF n \in Unseen THEN Cardinality(Unseen) ELSE Cardinality(Unseen) + 1
      BY UnseenFinite, FS_AddElement
    <2>4. Cardinality(Unseen') <= Cardinality(Unseen \cup {n}) /\ Cardinality(Unseen') \in Nat
      BY <2>2, <2>3, FS_Subset, FS_CardinalityType
    <2>5. Cardinality(Unseen)' <= lost'
      BY <1>1, <2>1, <2>3, <2>4
    <2>6. NotLate'
      BY <1>1, <2>1 DEF NotLate
    <2>7. QED
      BY <1>1, <1>2, <2>1, <2>5, <2>6 DEF Near
  <1>5. ASSUME NEW n \in Packets, Arrives(n) PROVE Near(reach)'
    BY <1>5, ArrivesNear
  <1>6. CASE UNCHANGED rtpVars
    <2>1. UNCHANGED <<packetsSent, net, lost, list>>
      BY <1>6 DEF rtpVars
    <2>2. Unseen' = Unseen /\ NotLate'
      BY <1>1, <1>2, <2>1 DEF Unseen, NotLate
    <2>3. QED
      BY <1>1, <1>2, <2>1, <2>2 DEF Near
  <1>7. QED
    BY <1>3, <1>4, <1>5, <1>6 DEF RtpNext

(* The packets under way and in the list always have sequence numbers less *)
(* than half the space apart, which operator< (Sequence, rtp.cpp) takes    *)
(* for granted, however long the stream and however often the number       *)
(* wraps: the age limit and the front-first leaving of AddPacket keep the  *)
(* list short.  The condition is on the constants alone.                   *)
THEOREM StaysClose ==
    ASSUME NEW reach \in Nat, WideEnough(reach)
    PROVE  RtpSpec => []Close
  <1>1. RtpInit => Order /\ Near(reach)
    <2> SUFFICES ASSUME RtpInit PROVE Order /\ Near(reach)
      OBVIOUS
    <2>1. packetsSent = 0 /\ net = {} /\ lost = 0 /\ list = << >> /\ DOMAIN list = {} /\ pushed = << >> /\ DOMAIN pushed = {}
      BY DEF RtpInit
    <2>2. Order
      BY <2>1 DEF Order, AllKnown, Sorted
    <2>3. Frontier(list) = 0 /\ Dated(list) /\ Recent(reach, list) /\ NotLate
      BY <2>1 DEF Frontier, Dated, Recent, NotLate
    <2>4. Unseen = {}
      BY <2>1 DEF Unseen
    <2>5. Cardinality(Unseen) = 0
      BY <2>4, FS_EmptySet
    <2>6. QED
      BY <2>1, <2>2, <2>3, <2>5 DEF Near
  <1>2. NetTypes /\ ListTypes /\ Order /\ Near(reach) => Close
    BY NearIsClose DEF Order
  <1>3. NetTypes /\ ListTypes /\ Order /\ Near(reach) /\ Close /\ [RtpNext]_rtpVars => Order' /\ Near(reach)'
    BY OrderStep, NearStep
  <1>4. QED
    BY <1>1, <1>2, <1>3, TypesInvariant, PTL DEF RtpSpec

(* operator< keeps m_PacketList in the order in which the camera sent,     *)
(* around every wrap of the sequence number, whatever is lost, delayed or  *)
(* repeated.                                                               *)
THEOREM ListIsSorted ==
    ASSUME NEW reach \in Nat, WideEnough(reach)
    PROVE  RtpSpec => []ListSorted
  BY StaysClose, SortedWhileClose, PTL

(* ... and ffmpeg is fed whole frames only.                                *)
THEOREM PushedAreWhole ==
    ASSUME NEW reach \in Nat, WideEnough(reach)
    PROVE  RtpSpec => []FramesAreWhole
  BY StaysClose, WholeWhileClose, PTL

(* Frames reach ffmpeg in the order of the camera, each once, but for the  *)
(* repetitions and the overtaking that m_bDoneFirst, never set, lets pass  *)
(* (rtp.cpp:441): a frame comes twice only if the network has repeated as  *)
(* many packets as it has, and after a later one only if both lie within   *)
(* what may overtake a packet.                                             *)
THEOREM PushedInOrder ==
    ASSUME NEW reach \in Nat, WideEnough(reach)
    PROVE  RtpSpec => []FramesInOrder
  BY StaysClose, OrderedWhileClose, PTL
=============================================================================
