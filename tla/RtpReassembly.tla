--------------------------- MODULE RtpReassembly ---------------------------
(***************************************************************************)
(* CRtpStream::AddPacket of live_server (rtp.cpp): RTP packets of a camera *)
(* are sorted by their 16-bit sequence number in m_PacketList, the packets *)
(* of one PS frame are joined when the next frame begins, and frames leave *)
(* the list from its front, as do packets that have become too old.        *)
(*                                                                         *)
(* Packets are numbered 1, 2, ... by the camera; the program sees a number *)
(* only modulo SeqSpace.  The network may lose, delay and repeat packets,  *)
(* within bounds.                                                          *)
(***************************************************************************)
EXTENDS Integers, FiniteSets, Sequences, SequencesExt

CONSTANTS
    Heads,      \* numbers of the packets that begin a frame (a PS header)
    MaxPackets, \* bound: packets the camera sends
    SeqSpace,   \* 2^16 in the code
    FirstSeq,   \* sequence number of packet 1
    TsSpace,    \* 2^32 in the code
    MaxAge,     \* 90000 * outtime; here in frames
    Window,     \* bound: how many packets may overtake a packet
    MaxLost,    \* bound: lost packets
    MaxDups     \* bound: repeated packets

ASSUME RtpAssumption ==
    /\ MaxPackets \in Nat /\ Heads \subseteq 1..MaxPackets
    /\ SeqSpace \in Nat /\ SeqSpace > 2 /\ FirstSeq \in 0..(SeqSpace - 1)
    /\ TsSpace \in Nat \ {0} /\ MaxAge \in Nat
    /\ {Window, MaxLost, MaxDups} \subseteq Nat

VARIABLES
    packetsSent, \* packets the camera has sent
    net,    \* the numbers under way
    lost, dups, \* bound: losses and repetitions so far
    list,   \* m_PacketList, in the order of its keys
    pushed  \* the PS frames given to push_ps_data, as packet numbers

rtpVars == <<packetsSent, net, lost, dups, list, pushed>>

Packets == 1..MaxPackets
FrameOf(n) == Cardinality({ h \in Heads : h <= n })

SeqAsInt(n) == FirstSeq + n - 1
RtpSeq(n) == (FirstSeq + n - 1) % SeqSpace

(* What Parse makes of a packet: m_nType 0, seq, m_bIsPsHeader, ts.        *)
Parse(n) == [ps |-> FALSE, seq |-> RtpSeq(n), head |-> n \in Heads,
             ts |-> FrameOf(n) % TsSpace, packets |-> <<n>>]

(* Sequence::operator<, around the wrap.                                   *)
PlainLess(s, t) == s < t
Less(s, t) ==
    \/ s < t /\ t - s <= SeqSpace \div 2 - 1
    \/ t < s /\ s - t > SeqSpace \div 2 - 1

Succ(s) == (s + 1) % SeqSpace

RtpInit == packetsSent = 0 /\ net = {} /\ lost = 0 /\ dups = 0 /\ list = << >> /\ pushed = << >>

-----------------------------------------------------------------------------
(* The network.                                                            *)
CameraSends ==
    /\ packetsSent < MaxPackets
    /\ \A n \in net : packetsSent - n < Window
    /\ packetsSent' = packetsSent + 1
    /\ net' = net \cup {packetsSent + 1}
    /\ UNCHANGED <<lost, dups, list, pushed>>

PacketLost(n) ==
    /\ n \in net
    /\ lost < MaxLost /\ lost' = lost + 1
    /\ net' = net \ {n}
    /\ UNCHANGED <<packetsSent, dups, list, pushed>>

-----------------------------------------------------------------------------
(* m_PacketList.insert.                                                    *)
Inserted(p) == InsertAt(list, 1 + Cardinality({ i \in DOMAIN list : Less(list[i].seq, p.seq) }), p)

(* A frame is complete from a PS header to the next header, or to a frame  *)
(* already joined, when no sequence number is missing in between.  The     *)
(* scan stops at the first complete one.                                   *)
Begins(p) == ~p.ps /\ p.head
Ends(p)   == p.ps \/ p.head

AnyGap(s, t)     == TRUE
Contiguous(s, t) == t = Succ(s)

Complete(l) ==
    { r \in (DOMAIN l) \X (DOMAIN l) :
        /\ r[1] < r[2] /\ Begins(l[r[1]]) /\ Ends(l[r[2]])
        /\ \A i \in (r[1] + 1)..(r[2] - 1) : ~Ends(l[i])
        /\ \A i \in r[1]..(r[2] - 1) : Contiguous(l[i].seq, l[i + 1].seq) }

(* The joined frame takes the place of its packets, under the first one's  *)
(* key.  Its ts is never set.                                              *)
UpToEnd(r)    == r[2]
UpToNotEnd(r) == r[2] - 1

Frame(l, first, last) ==
    [ps |-> TRUE, seq |-> l[first].seq, head |-> FALSE, ts |-> -1,
     packets |-> [i \in 1..(last - first + 1) |-> l[first + i - 1].packets[1]]]

Joined(l) ==
    IF Complete(l) = {} THEN l
    ELSE LET r == CHOOSE r \in Complete(l) : \A q \in Complete(l) : r[2] <= q[2]
         IN SubSeq(l, 1, r[1] - 1) \o <<Frame(l, r[1], UpToNotEnd(r))>>
               \o SubSeq(l, UpToNotEnd(r) + 1, Len(l))

(* From the front, frames are given to the worker and packets too old with *)
(* regard to the last one are dropped, up to the first that is neither.    *)
TooOld(p, last) == (last.ts - p.ts) % TsSpace > MaxAge

Stays(l, i) == ~l[i].ps /\ ~TooOld(l[i], Last(l))

Leaving(l) ==
    IF \E i \in DOMAIN l : Stays(l, i)
    THEN (CHOOSE i \in DOMAIN l : Stays(l, i) /\ \A j \in 1..(i - 1) : ~Stays(l, j)) - 1
    ELSE Len(l)

(* The frames among the first n entries, in the order of the list.         *)
IsFrame(p) == p.ps
Ascending(S) ==
    { s \in Bijection(1..Cardinality(S), S) : \A i, j \in DOMAIN s : i < j => s[i] < s[j] }
FramesAmong(l, n) == Ascending({ i \in 1..n : IsFrame(l[i]) })

Listed(n) == \E i \in DOMAIN list : list[i].seq = RtpSeq(n)

(* AddPacket: a sequence number that is listed already is dropped.         *)
(* m_bDoneFirst is never set, so no packet counts as older than what has   *)
(* been pushed.                                                            *)
AddPacket(n) ==
    IF Listed(n)
    THEN UNCHANGED <<list, pushed>>
    ELSE LET l == Joined(Inserted(Parse(n)))
         IN /\ list' = SubSeq(l, Leaving(l) + 1, Len(l))
            /\ \E order \in FramesAmong(l, Leaving(l)) :
                  pushed' = pushed \o [i \in DOMAIN order |-> l[order[i]].packets]

Arrives(n) ==
    /\ n \in net
    /\ AddPacket(n)
    /\ \/ net' = net \ {n} /\ UNCHANGED dups
       \/ dups < MaxDups /\ dups' = dups + 1 /\ UNCHANGED net
    /\ UNCHANGED <<packetsSent, lost>>

RtpNext == CameraSends \/ \E n \in Packets : PacketLost(n) \/ Arrives(n)

RtpSpec == RtpInit /\ [][RtpNext]_rtpVars

-----------------------------------------------------------------------------
Entry == [ps : BOOLEAN, seq : 0..(SeqSpace - 1), head : BOOLEAN, ts : -1..(TsSpace - 1),
          packets : Seq(Packets)]

(* Every variable stays in its type.                                       *)
RtpTypeOK ==
    /\ packetsSent \in 0..MaxPackets /\ net \subseteq 1..packetsSent /\ lost \in 0..MaxLost /\ dups \in 0..MaxDups
    /\ list \in Seq(Entry)
    /\ pushed \in Seq(Seq(Packets))

(* ffmpeg is fed only whole frames: every frame pushed begins with a PS    *)
(* header and is every packet up to the next one, in order, whatever the   *)
(* network loses, delays or repeats.                                       *)
FramesAreWhole ==
    \A k \in DOMAIN pushed :
        LET f == pushed[k]
        IN /\ f # << >> /\ f[1] \in Heads
           /\ \A i \in DOMAIN f : f[i] = f[1] + i - 1
           /\ \A i \in DOMAIN f : i > 1 => f[i] \notin Heads
           /\ f[Len(f)] + 1 \in Heads

(* m_nDoneSeq and m_bDoneFirst are never set (rtp.cpp:119, 441), so what   *)
(* has been pushed may be received again, or be overtaken: a frame when    *)
(* the network has repeated as many packets as it has, and a frame before  *)
(* the one pushed when both lie within what may overtake a packet.         *)
NextHead(h, e)  == h < e /\ ~\E g \in Heads : h < g /\ g < e
Repeated(f, g)  == g[1] = f[1] /\ Len(g) <= dups
Overtaken(f, g) == g[1] < f[1] /\ f[1] + Len(f) - g[1] <= Window

(* But for that, frames reach ffmpeg in the order of the camera, each      *)
(* once.                                                                   *)
FramesInOrder ==
    \A j, k \in DOMAIN pushed : j < k =>
        \/ pushed[j][1] < pushed[k][1]
        \/ Repeated(pushed[j], pushed[k])
        \/ Overtaken(pushed[j], pushed[k])

(* std::map needs an order: operator< keeps the list in the order in which *)
(* the camera sent, also around the wrap of the sequence number.           *)
ListSorted ==
    \A i, j \in DOMAIN list : i < j => list[i].packets[1] < list[j].packets[1]

(* What ListSorted takes for granted: that many packets are too many       *)
(* frames to be kept, and together with those that may overtake a packet   *)
(* or be lost they are less than half the sequence numbers, and no more    *)
(* frames than there are time stamps.                                      *)
WideEnough(reach) ==
    /\ reach + Window + MaxLost < SeqSpace \div 2
    /\ \A m, n \in Packets :
          /\ m - n >= reach => FrameOf(m) - FrameOf(n) > MaxAge
          /\ m - n <= reach + Window + MaxLost => FrameOf(m) - FrameOf(n) < TsSpace

(* The age of packets is taken from the last entry, and the ts of a joined *)
(* frame is not initialised: a joined frame is never last.                 *)
LastIsPacket == list # << >> => ~Last(list).ps
=============================================================================
