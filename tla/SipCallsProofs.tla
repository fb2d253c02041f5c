--------------------------- MODULE SipCallsProofs ---------------------------
(***************************************************************************)
(* Theorems about SipCalls for every set of processes and ports and every  *)
(* bound: its types, the conservation of the RTP ports, the refinement of  *)
(* RtpPortPool, and what the two call tables say.                          *)
(***************************************************************************)
EXTENDS SipCalls, SipServerProofs

-----------------------------------------------------------------------------
(* Types.                                                                  *)

(* ClientInit sends one live_init.                                         *)
LEMMA ClientInitSends ==
    ASSUME NEW c \in Procs, ClientInit(c)
    PROVE  \E m \in Msg : m.type = "live_init" /\ SendToSip(c, m)
  <1>1. PICK id \in ReqIds : SendToSip(c, LiveInit(id))
    BY DEF ClientInit
  <1>2. LiveInit(id) \in Msg /\ LiveInit(id).type = "live_init"
    BY MessageTypes DEF LiveInit
  <1>3. QED
    BY <1>1, <1>2

(* The processes keep the state well-typed.                                *)
LEMMA ClientType ==
    ASSUME TypeOK, NEW c \in Procs, Client(c)
    PROVE  TypeOK'
  <1> USE DEF TypeOK, SipTypeOK
  <1>1. CASE ClientInit(c)
    <2>1. PICK m \in Msg : SendToSip(c, m)
      BY <1>1, ClientInitSends
    <2>2. toSip' \in [Procs -> Seq(Msg)]
      BY <2>1, SendFacts DEF SendToSip
    <2>3. sent' \in 0..MaxCalls
      BY <1>1, ConstantFacts DEF ClientInit
    <2>4. QED
      BY <1>1, <2>2, <2>3 DEF ClientInit, sipVars
  <1>2. CASE ClientReceives(c)
    <2>1. toLive' \in [Procs -> Seq(Msg)]
      BY <1>2, TailFacts DEF ClientReceives
    <2>2. hold' \in [Procs -> [Ports -> HoldStates]]
      BY <1>2 DEF ClientReceives, HoldStates
    <2>3. QED
      BY <1>2, <2>1, <2>2 DEF ClientReceives, sipVars
  <1>3. ASSUME NEW p \in Ports, ClientPlays(c, p)
        PROVE  TypeOK'
    <2>1. LivePlay(0, p) \in Msg
      BY ConstantFacts, MessageTypes
    <2>2. toSip' \in [Procs -> Seq(Msg)]
      BY <1>3, <2>1, SendFacts DEF ClientPlays, SendToSip
    <2>3. hold' \in [Procs -> [Ports -> HoldStates]]
      BY <1>3 DEF ClientPlays, HoldStates
    <2>4. QED
      BY <1>3, <2>2, <2>3 DEF ClientPlays, sipVars
  <1>4. ASSUME NEW p \in Ports, ClientStops(c, p)
        PROVE  TypeOK'
    <2>1. StopPlayMsg(p) \in Msg
      BY ConstantFacts, MessageTypes
    <2>2. toSip' \in [Procs -> Seq(Msg)]
      BY <1>4, <2>1, SendFacts DEF ClientStops, SendToSip
    <2>3. hold' \in [Procs -> [Ports -> HoldStates]]
      BY <1>4 DEF ClientStops, HoldStates, AfterStop
    <2>4. QED
      BY <1>4, <2>2, <2>3 DEF ClientStops, sipVars
  <1>5. CASE ClientCrashes(c)
    <2>1. toSip' \in [Procs -> Seq(Msg)]
      BY <1>5, MessageTypes, SendFacts DEF ClientCrashes, Disconnect
    <2>2. toLive' \in [Procs -> Seq(Msg)] /\ connected' \in SUBSET Procs
      BY <1>5 DEF ClientCrashes, Disconnect
    <2>3. hold' \in [Procs -> [Ports -> HoldStates]]
      BY <1>5 DEF ClientCrashes, HoldStates
    <2>4. crashes' \in 0..MaxCrashes
      BY <1>5, ClientAssumption DEF ClientCrashes
    <2>5. QED
      BY <1>5, <2>1, <2>2, <2>3, <2>4 DEF ClientCrashes, sipVars
  <1>6. CASE ClientRestarts(c)
    BY <1>6, ConstantFacts DEF ClientRestarts, sipVars
  <1>7. CASE ClientTakesId(c)
    <2>1. nextReq' \in [Procs -> 0..MaxReqs]
      BY <1>7, ConstantFacts DEF ClientTakesId
    <2>2. QED
      BY <1>7, <2>1 DEF ClientTakesId, baseVars
  <1>8. QED
    BY <1>1, <1>2, <1>3, <1>4, <1>5, <1>6, <1>7 DEF Client

(* The initial states are well-typed.                                      *)
LEMMA InitType == Init => TypeOK
  BY SipInitType, ConstantFacts, ClientAssumption DEF Init, TypeOK, HoldStates

(* Every step keeps the state well-typed.                                  *)
LEMMA NextType ==
    ASSUME TypeOK, [Next]_vars
    PROVE  TypeOK'
  <1>1. CASE SipServerStep /\ UNCHANGED clientVars
    BY <1>1, IpcThreadType, SipThreadType DEF SipServerStep, TypeOK, clientVars
  <1>2. CASE Device /\ UNCHANGED clientVars
    BY <1>2, DeviceType DEF Device, TypeOK, clientVars
  <1>3. CASE \E c \in Procs : Client(c)
    BY <1>3, ClientType
  <1>4. CASE UNCHANGED vars
    BY <1>4 DEF vars, baseVars, clientVars, TypeOK, SipTypeOK
  <1>5. QED
    BY <1>1, <1>2, <1>3, <1>4 DEF Next

(* Every state of the call handling, with any number of processes, ports,  *)
(* calls and crashes, is well-typed: the tables hold SipCall objects, what *)
(* a channel carries is a message, and the SIP thread never works without  *)
(* an object (SipInvite.cpp).                                              *)
THEOREM TypeCorrect == Spec => []TypeOK
  BY InitType, NextType, PTL DEF Spec

-----------------------------------------------------------------------------
(***************************************************************************)
(* The RTP ports of sip_server are conserved, for every set of processes   *)
(* and ports: IInv is inductive as long as a process that crashed is not   *)
(* back before its last messages have been handled.                        *)
(***************************************************************************)

-----------------------------------------------------------------------------
(* Messages in lists.                                                      *)

(* Taking the first message off.                                           *)
LEMMA TailMsg ==
    ASSUME NEW s \in Seq(Msg), s # << >>, NEW type, NEW p
    PROVE  /\ HasMsg(Tail(s), type, p) => HasMsg(s, type, p)
           /\ OneMsg(s, type, p) => OneMsg(Tail(s), type, p)
           /\ Head(s).type = type /\ Head(s).port = p => HasMsg(s, type, p)
           /\ OneMsg(s, type, p) /\ Head(s).type = type /\ Head(s).port = p
                => ~HasMsg(Tail(s), type, p)
  <1> DEFINE n == Len(s)
  <1>1. n \in Nat \ {0} /\ Head(s) = s[1] /\ Tail(s) \in Seq(Msg) /\ Len(Tail(s)) = n - 1
        /\ \A i \in 1..n - 1 : Tail(s)[i] = s[i + 1]
    BY TailFacts
  <1>2. DOMAIN s = 1..n /\ DOMAIN Tail(s) = 1..n - 1
    BY <1>1, LenProperties
  <1> HIDE DEF n
  <1>3. \A i \in 1..n - 1 : i + 1 \in 1..n /\ i + 1 # 1
    BY <1>1
  <1>4. 1 \in 1..n
    BY <1>1
  <1>5. \A i, j \in 1..n - 1 : i + 1 = j + 1 => i = j
    BY <1>1
  <1>6. HasMsg(Tail(s), type, p) => HasMsg(s, type, p)
    BY <1>1, <1>2, <1>3 DEF HasMsg
  <1>7. OneMsg(s, type, p) => OneMsg(Tail(s), type, p)
    BY <1>1, <1>2, <1>3, <1>5 DEF OneMsg
  <1>8. Head(s).type = type /\ Head(s).port = p => HasMsg(s, type, p)
    BY <1>1, <1>2, <1>4 DEF HasMsg
  <1>9. OneMsg(s, type, p) /\ Head(s).type = type /\ Head(s).port = p
          => ~HasMsg(Tail(s), type, p)
    BY <1>1, <1>2, <1>3, <1>4 DEF OneMsg, HasMsg
  <1>10. QED
    BY <1>6, <1>7, <1>8, <1>9

(* Adding messages at the end.                                             *)
LEMMA ConcatMsg ==
    ASSUME NEW s \in Seq(Msg), NEW u \in Seq(Msg), NEW type, NEW p
    PROVE  /\ HasMsg(s \o u, type, p) => HasMsg(s, type, p) \/ HasMsg(u, type, p)
           /\ OneMsg(s, type, p) /\ ~HasMsg(u, type, p) => OneMsg(s \o u, type, p)
           /\ ~HasMsg(s, type, p) /\ OneMsg(u, type, p) => OneMsg(s \o u, type, p)
  <1> DEFINE n == Len(s)
             k == Len(u)
  <1>1. n \in Nat /\ k \in Nat /\ DOMAIN s = 1..n /\ DOMAIN u = 1..k
    BY LenProperties
  <1>2. DOMAIN (s \o u) = 1..n + k
    BY ConcatProperties, LenProperties
  <1>3. \A i \in 1..n + k : (s \o u)[i] = IF i <= n THEN s[i] ELSE u[i - n]
    BY ConcatProperties
  <1> HIDE DEF n, k
  <1>4. \A i \in 1..n + k : IF i <= n THEN i \in 1..n ELSE i - n \in 1..k
    BY <1>1
  <1>5. \A i, j \in 1..n + k : i - n = j - n => i = j
    BY <1>1
  <1>6. HasMsg(s \o u, type, p) => HasMsg(s, type, p) \/ HasMsg(u, type, p)
    BY <1>1, <1>2, <1>3, <1>4 DEF HasMsg
  <1>7. OneMsg(s, type, p) /\ ~HasMsg(u, type, p) => OneMsg(s \o u, type, p)
    BY <1>1, <1>2, <1>3, <1>4 DEF HasMsg, OneMsg
  <1>8. ~HasMsg(s, type, p) /\ OneMsg(u, type, p) => OneMsg(s \o u, type, p)
    BY <1>1, <1>2, <1>3, <1>4, <1>5 DEF HasMsg, OneMsg
  <1>9. QED
    BY <1>6, <1>7, <1>8

(* A list of one message.                                                  *)
LEMMA SingleMsg ==
    ASSUME NEW m \in Msg, NEW type, NEW p
    PROVE  /\ << m >> \in Seq(Msg)
           /\ HasMsg(<< m >>, type, p) <=> m.type = type /\ m.port = p
           /\ OneMsg(<< m >>, type, p)
  BY DEF HasMsg, OneMsg

(* Appending one message.                                                  *)
LEMMA AppendMsg ==
    ASSUME NEW s \in Seq(Msg), NEW m \in Msg, NEW type, NEW p
    PROVE  /\ HasMsg(Append(s, m), type, p) => HasMsg(s, type, p) \/ (m.type = type /\ m.port = p)
           /\ OneMsg(s, type, p) /\ ~(m.type = type /\ m.port = p) => OneMsg(Append(s, m), type, p)
           /\ ~HasMsg(s, type, p) => OneMsg(Append(s, m), type, p)
  <1> DEFINE u == << m >>
  <1>1. Append(s, m) = s \o u
    BY AppendIsConcat
  <1>2. /\ u \in Seq(Msg)
        /\ HasMsg(u, type, p) <=> m.type = type /\ m.port = p
        /\ OneMsg(u, type, p)
    BY SingleMsg
  <1> HIDE DEF u
  <1>3. QED
    BY <1>1, <1>2, ConcatMsg

-----------------------------------------------------------------------------
(* Steps that lend no port and take none back.                             *)

Owned == DeviceTable /\ PortsConserved /\ RightToStop

(* The list u tells of no right to stop p that the list s did not tell of. *)
NoNewMsg(u, s, type, p) ==
    /\ HasMsg(u, type, p) => HasMsg(s, type, p)
    /\ OneMsg(s, type, p) => OneMsg(u, type, p)

(* A step that leaves the lent ports, the pool and the holdings alone, and *)
(* that sends nothing new about a port, keeps the four parts of IInv about *)
(* ports.                                                                  *)
LEMMA Frame ==
    ASSUME TypeOK, TypeOK', Owned,
           ports' = ports, deviceCall' = deviceCall,
           \A k \in Calls : /\ call'[k].st = call[k].st
                            /\ call'[k].proc = call[k].proc
                            /\ call'[k].port = call[k].port,
           \A c \in Procs, p \in Ports : hold'[c][p] = "none" <=> hold[c][p] = "none",
           \A c \in Procs, p \in PortKeys : NoNewMsg(toSip'[c], toSip[c], "stop_play", p),
           \A c \in Procs, p \in Ports :
              NoNewMsg(toLive'[c], toLive[c], "live_init_answer", p)
    PROVE  Owned'
  <1> USE DEF Owned
  <1>1. \A p \in PortKeys : deviceCall[p] # NoCall => deviceCall[p] \in Calls
    BY DEF TypeOK, SipTypeOK
  <1>2. DeviceTable'
    BY <1>1 DEF DeviceTable
  <1>3. PortsConserved'
    BY DEF PortsConserved, InPool
  <1>4. \A c \in Procs, p \in PortKeys : Lent(c, p)' <=> Lent(c, p)
    BY <1>1 DEF Lent
  <1>5. RightToStop'
    <2> SUFFICES ASSUME NEW c \in Procs, NEW p \in PortKeys
                 PROVE  /\ HasMsg(toSip'[c], "stop_play", p) =>
                              p \in Ports /\ Lent(c, p)' /\ hold'[c][p] = "none"
                                         /\ ~HasMsg(toLive'[c], "live_init_answer", p)
                        /\ OneMsg(toSip'[c], "stop_play", p)
                        /\ p \in Ports =>
                              /\ HasMsg(toLive'[c], "live_init_answer", p) => Lent(c, p)' /\ hold'[c][p] = "none"
                              /\ OneMsg(toLive'[c], "live_init_answer", p)
                              /\ hold'[c][p] # "none" => Lent(c, p)'
      BY DEF RightToStop
    <2>1. QED
      BY <1>4 DEF RightToStop, NoNewMsg
  <1>6. QED
    BY <1>2, <1>3, <1>5

-----------------------------------------------------------------------------
(* "close" in a list of messages.                                          *)

(* Taking the first message off leaves "close" the last.                   *)
LEMMA TailClose ==
    ASSUME NEW s \in Seq(Msg), s # << >>
    PROVE  /\ CloseLast(s) => CloseLast(Tail(s))
           /\ HasClose(Tail(s)) => HasClose(s)
           /\ CloseLast(s) /\ Head(s).type = "close" => HasClose(s) /\ Tail(s) = << >>
  <1> DEFINE n == Len(s)
  <1>1. n \in Nat \ {0} /\ Head(s) = s[1] /\ Tail(s) \in Seq(Msg) /\ Len(Tail(s)) = n - 1
        /\ \A i \in 1..n - 1 : Tail(s)[i] = s[i + 1]
    BY TailFacts
  <1>2. DOMAIN s = 1..n /\ DOMAIN Tail(s) = 1..n - 1
    BY <1>1, LenProperties
  <1>3. CloseLast(s) => \A i \in 1..n : s[i].type = "close" => i = n
    BY <1>2 DEF CloseLast
  <1>4. CloseLast(s) => CloseLast(Tail(s))
    <2> SUFFICES ASSUME CloseLast(s), NEW i \in 1..n - 1, Tail(s)[i].type = "close"
                 PROVE  i = n - 1
      BY <1>1, <1>2 DEF CloseLast
    <2>1. i + 1 \in 1..n /\ s[i + 1].type = "close"
      BY <1>1
    <2>2. i + 1 = n
      BY <2>1, <1>3
    <2>3. i \in Int /\ n \in Int
      BY <1>1
    <2> HIDE DEF n
    <2>4. QED
      BY <2>2, <2>3
  <1>5. HasClose(Tail(s)) => HasClose(s)
    <2> SUFFICES ASSUME NEW i \in 1..n - 1, Tail(s)[i].type = "close"
                 PROVE  HasClose(s)
      BY <1>2 DEF HasClose
    <2>1. i + 1 \in 1..n /\ s[i + 1].type = "close"
      BY <1>1
    <2>2. QED
      BY <2>1, <1>2 DEF HasClose
  <1>6. CloseLast(s) /\ Head(s).type = "close" => HasClose(s) /\ Tail(s) = << >>
    <2> SUFFICES ASSUME CloseLast(s), Head(s).type = "close"
                 PROVE  HasClose(s) /\ Tail(s) = << >>
      OBVIOUS
    <2>1. 1 \in 1..n
      BY <1>1
    <2>2. n = 1
      BY <1>1, <1>3, <2>1
    <2>3. HasClose(s)
      BY <1>1, <1>2, <2>1 DEF HasClose
    <2>4. Len(Tail(s)) = 0
      BY <1>1, <2>2
    <2>5. Tail(s) = << >>
      BY <1>1, <2>4, EmptySeq
    <2>6. QED
      BY <2>3, <2>5
  <1>7. QED
    BY <1>4, <1>5, <1>6

(* Appending a message to a list without "close".                          *)
LEMMA AppendClose ==
    ASSUME NEW s \in Seq(Msg), NEW m \in Msg
    PROVE  /\ ~HasClose(s) => CloseLast(Append(s, m))
           /\ HasClose(Append(s, m)) => HasClose(s) \/ m.type = "close"
  <1> DEFINE n == Len(s)
             t == Append(s, m)
  <1>1. n \in Nat /\ DOMAIN s = 1..n
    BY LenProperties
  <1>2. t \in Seq(Msg) /\ Len(t) = n + 1 /\ (\A i \in 1..n : t[i] = s[i]) /\ t[n + 1] = m
    BY AppendProperties
  <1>3. DOMAIN t = 1..n + 1
    BY <1>2, LenProperties
  <1> HIDE DEF n, t
  <1>4. \A i \in 1..n + 1 : i \in 1..n \/ i = n + 1
    BY <1>1
  <1>5. ~HasClose(s) => CloseLast(t)
    BY <1>1, <1>2, <1>3, <1>4 DEF HasClose, CloseLast
  <1>6. HasClose(t) => HasClose(s) \/ m.type = "close"
    BY <1>1, <1>2, <1>3, <1>4 DEF HasClose
  <1>7. QED
    BY <1>5, <1>6 DEF t

(* Steps that tell of no new close and touch no process that is gone.      *)
LEMMA CloseFrame ==
    ASSUME CloseIsLast, connected' = connected,
           \A c \in Procs : /\ HasClose(toSip'[c]) => HasClose(toSip[c])
                            /\ CloseLast(toSip[c]) => CloseLast(toSip'[c]),
           \A c \in Procs : c \notin connected =>
              toLive'[c] = toLive[c] /\ \A p \in Ports : hold'[c][p] = hold[c][p]
    PROVE  CloseIsLast'
  BY DEF CloseIsLast

-----------------------------------------------------------------------------
(* What taking a request and sending an answer keep.                       *)

(* What the IPC thread takes leaves less to handle, of its sender only.    *)
LEMMA ReceiveKeeps ==
    ASSUME toSip \in [Procs -> Seq(Msg)], NEW c \in Procs, NEW type, Receive(c, type)
    PROVE  \A d \in Procs :
              /\ \A p : NoNewMsg(toSip'[d], toSip[d], "stop_play", p)
              /\ HasClose(toSip'[d]) => HasClose(toSip[d])
              /\ CloseLast(toSip[d]) => CloseLast(toSip'[d])
  <1> TAKE d \in Procs
  <1>1. CASE d = c
    <2>1. toSip[c] \in Seq(Msg) /\ toSip[c] # << >> /\ toSip'[c] = Tail(toSip[c])
      BY ReceiveFacts
    <2>2. QED
      BY <1>1, <2>1, TailMsg, TailClose DEF NoNewMsg
  <1>2. CASE d # c
    <2>1. toSip'[d] = toSip[d]
      BY <1>2, ReceiveFacts
    <2>2. QED
      BY <2>1 DEF NoNewMsg
  <1>3. QED
    BY <1>1, <1>2

(* What ipc_server relays reaches connected processes only.                *)
LEMMA RelayKeeps ==
    ASSUME toLive \in [Procs -> Seq(Msg)], NEW c, NEW msgs \in Seq(Msg), Relay(c, msgs)
    PROVE  /\ \A d \in Procs : d # c \/ d \notin connected => toLive'[d] = toLive[d]
           /\ \A p : ~HasMsg(msgs, "live_init_answer", p) =>
                 \A d \in Procs : NoNewMsg(toLive'[d], toLive[d], "live_init_answer", p)
  <1>1. \A d \in Procs : d # c \/ d \notin connected => toLive'[d] = toLive[d]
    BY DEF Relay
  <1>2. ASSUME NEW p, ~HasMsg(msgs, "live_init_answer", p), NEW d \in Procs
        PROVE  NoNewMsg(toLive'[d], toLive[d], "live_init_answer", p)
    <2>1. CASE toLive'[d] = toLive[d]
      BY <2>1 DEF NoNewMsg
    <2>2. CASE toLive'[d] = toLive[d] \o msgs
      BY <1>2, <2>2, ConcatMsg DEF NoNewMsg
    <2>3. QED
      BY <2>1, <2>2 DEF Relay
  <1>3. QED
    BY <1>1, <1>2

-----------------------------------------------------------------------------
(* Steps of sip_server and of the cameras that leave the ports where they  *)
(* are.                                                                    *)

(* A list is no news to itself.                                            *)
LEMMA NoNews == \A s, type, p : NoNewMsg(s, s, type, p)
  BY DEF NoNewMsg

(* A request that changes no port and no call, whatever it is answered.    *)
LEMMA ReceiveOnly ==
    ASSUME IInv, TypeOK', NEW c \in Procs, NEW type, Receive(c, type),
           UNCHANGED <<ports, deviceCall, call, connected, clientVars>>,
           \A d \in Procs : d \notin connected => toLive'[d] = toLive[d],
           \A d \in Procs, p \in Ports : NoNewMsg(toLive'[d], toLive[d], "live_init_answer", p)
    PROVE  IInv'
  <1>1. toSip \in [Procs -> Seq(Msg)]
    BY DEF IInv, TypeOK, SipTypeOK
  <1>2. \A d \in Procs :
           /\ \A p \in PortKeys : NoNewMsg(toSip'[d], toSip[d], "stop_play", p)
           /\ HasClose(toSip'[d]) => HasClose(toSip[d])
           /\ CloseLast(toSip[d]) => CloseLast(toSip'[d])
    BY <1>1, ReceiveKeeps
  <1>3. Owned'
    BY <1>2, Frame DEF IInv, Owned, clientVars
  <1>4. CloseIsLast'
    BY <1>2, CloseFrame DEF IInv, clientVars
  <1>5. QED
    BY <1>3, <1>4 DEF IInv, Owned

(* A step of sip_server that takes no message keeps IInv.                  *)
LEMMA NoReceive ==
    ASSUME IInv, TypeOK',
           UNCHANGED <<ports, deviceCall, connected, toSip, clientVars>>,
           \A k \in Calls : /\ call'[k].st = call[k].st
                            /\ call'[k].proc = call[k].proc
                            /\ call'[k].port = call[k].port,
           \A d \in Procs : d \notin connected => toLive'[d] = toLive[d],
           \A d \in Procs, p \in Ports : NoNewMsg(toLive'[d], toLive[d], "live_init_answer", p)
    PROVE  IInv'
  <1>1. Owned'
    BY NoNews, Frame DEF IInv, Owned, clientVars
  <1>2. CloseIsLast'
    BY CloseFrame DEF IInv, clientVars
  <1>3. QED
    BY <1>1, <1>2 DEF IInv, Owned

(* live_play, and the answers to a live_init that finds no port.           *)
LEMMA QuietIpcInv ==
    ASSUME IInv, TypeOK', NEW c \in Procs, UNCHANGED clientVars,
           \/ PlayInitNoPort(c) \/ RealPlayUnsent(c) \/ SendInvite(c) \/ StopPlayThrows(c)
    PROVE  IInv'
  <1>1. toSip \in [Procs -> Seq(Msg)] /\ toLive \in [Procs -> Seq(Msg)]
    BY DEF IInv, TypeOK, SipTypeOK
  <1>2. CASE PlayInitNoPort(c)
    <2> DEFINE id == Head(toSip[c]).id
               msgs == << InitAnswer(id, NoPort, 0), InitAnswer(id, NullPort, -1) >>
    <2>1. Receive(c, "live_init") /\ Relay(c, msgs)
      BY <1>2 DEF PlayInitNoPort
    <2>2. id \in ReqIds
      BY <1>1, <2>1, ReceiveFacts
    <2>3. msgs \in Seq(Msg)
      BY <2>2, ConstantFacts, MessageTypes
    <2>4. \A p \in Ports : ~HasMsg(msgs, "live_init_answer", p)
      BY ConstantFacts DEF HasMsg, InitAnswer
    <2> HIDE DEF msgs
    <2>5. /\ \A d \in Procs : d \notin connected => toLive'[d] = toLive[d]
          /\ \A d \in Procs, p \in Ports : NoNewMsg(toLive'[d], toLive[d], "live_init_answer", p)
      BY <1>1, <2>1, <2>3, <2>4, RelayKeeps
    <2>6. QED
      BY <1>2, <2>1, <2>5, ReceiveOnly DEF PlayInitNoPort, sipVars
  <1>3. CASE RealPlayUnsent(c)
    BY <1>3, NoNews, ReceiveOnly DEF RealPlayUnsent, sipVars
  <1>4. CASE SendInvite(c)
    BY <1>4, NoNews, ReceiveOnly DEF SendInvite
  <1>5. CASE StopPlayThrows(c)
    BY <1>5, NoNews, ReceiveOnly DEF StopPlayThrows
  <1>6. QED
    BY <1>2, <1>3, <1>4, <1>5

(* The call-id index, the SIP thread and the cameras.                      *)
LEMMA SignallingInv ==
    ASSUME IInv, TypeOK', UNCHANGED clientVars, IndexCall \/ SipThread \/ Device
    PROVE  IInv'
  <1>1. call \in [Calls -> SipCall] /\ toLive \in [Procs -> Seq(Msg)]
        /\ (sip.at = "acked" => sip.obj \in Calls)
    BY DEF IInv, TypeOK, SipTypeOK
  <1>2. CASE UNCHANGED call
    <2>1. CASE UNCHANGED toLive
      BY <1>2, <2>1, NoNews, NoReceive
         DEF IndexCall, SipThread, Device, DropEvent, FindByCallID, OnInviteOK, OnInviteOKThrows,
             OnPlayCb, OnInviteFailed, DeviceAnswers, DeviceHangsUp, ipcVars
    <2>2. CASE OnPlayCb /\ ~UNCHANGED toLive
      <3>1. PICK j \in Touched(sip.obj) :
               Relay(call[j].proc, << PlayAnswer(call[j].id, call[j].port, 0) >>)
        BY <2>2 DEF OnPlayCb
      <3> DEFINE m == PlayAnswer(call[j].id, call[j].port, 0)
                 msgs == << m >>
      <3>2. j \in Calls
        BY <1>1, <2>2 DEF OnPlayCb, Touched
      <3>3. m \in Msg /\ m.type = "live_play_answer"
        BY <1>1, <3>2, MessageTypes DEF SipCall, PlayAnswer
      <3>4. msgs \in Seq(Msg) /\ \A p : ~HasMsg(msgs, "live_init_answer", p)
        BY <3>3, SingleMsg
      <3> HIDE DEF msgs
      <3>5. Relay(call[j].proc, msgs)
        BY <3>1 DEF msgs
      <3>6. /\ \A d \in Procs : d \notin connected => toLive'[d] = toLive[d]
            /\ \A d \in Procs, p \in Ports : NoNewMsg(toLive'[d], toLive[d], "live_init_answer", p)
        BY <1>1, <3>4, <3>5, RelayKeeps
      <3>7. QED
        BY <2>2, <3>6, NoReceive DEF OnPlayCb
    <2>3. QED
      BY <2>1, <2>2
         DEF IndexCall, SipThread, Device, DropEvent, FindByCallID, OnInviteOK, OnInviteOKThrows,
             OnInviteFailed, DeviceAnswers, DeviceHangsUp, ipcVars
  <1>3. CASE IndexCall \/ OnInviteOK \/ OnInviteFailed
    <2>1. \A k \in Calls : /\ call'[k].st = call[k].st
                           /\ call'[k].proc = call[k].proc
                           /\ call'[k].port = call[k].port
      <3>1. CASE IndexCall
        BY <1>1, <3>1 DEF IndexCall, SipCall
      <3>2. CASE OnInviteOK \/ OnInviteFailed
        <4>1. PICK j, did : call' = [call EXCEPT ![j].did = did]
          BY <3>2 DEF OnInviteOK, OnInviteFailed, SetDialog
        <4>2. QED
          BY <1>1, <4>1 DEF SipCall
      <3>3. QED
        BY <1>3, <3>1, <3>2
    <2>2. UNCHANGED <<ports, deviceCall, connected, toSip, toLive>>
      BY <1>3 DEF IndexCall, OnInviteOK, OnInviteFailed, ipcVars
    <2>3. QED
      BY <2>1, <2>2, NoNews, NoReceive
  <1>4. QED
    BY <1>2, <1>3
       DEF SipThread, Device, DropEvent, FindByCallID, OnInviteOKThrows, OnPlayCb, DeviceAnswers, DeviceHangsUp

-----------------------------------------------------------------------------
(* Steps that lend a port or take ports back.                              *)

(* PlayInit lends the first port of the pool.                              *)
LEMMA PlayInitInv ==
    ASSUME IInv, TypeOK', NEW c \in Procs, PlayInit(c), UNCHANGED clientVars
    PROVE  IInv'
  <1> PICK p : p = Head(ports)
    OBVIOUS
  <1> DEFINE n  == Len(ports)
             id == Head(toSip[c]).id
             m  == InitAnswer(id, p, 0)
  <1>1. /\ toSip \in [Procs -> Seq(Msg)] /\ toLive \in [Procs -> Seq(Msg)]
        /\ call \in [Calls -> SipCall] /\ deviceCall \in [PortKeys -> Calls \cup {NoCall}]
        /\ ports \in Seq(PortKeys) /\ hold \in [Procs -> [Ports -> HoldStates]]
    BY DEF IInv, TypeOK, SipTypeOK
  <1>2. Receive(c, "live_init") /\ ports # << >> /\ ports' = Tail(ports) /\ Relay(c, << m >>)
    BY DEF PlayInit
  <1>3. /\ n \in Nat \ {0} /\ p = ports[1] /\ Len(Tail(ports)) = n - 1
        /\ \A i \in 1..n - 1 : Tail(ports)[i] = ports[i + 1]
        /\ DOMAIN ports = 1..n /\ DOMAIN Tail(ports) = 1..n - 1
    BY <1>1, <1>2, TailFacts, LenProperties
  <1>4. p \in Ports /\ deviceCall[p] = NoCall
    <2>1. 1 \in DOMAIN ports
      BY <1>3
    <2>2. QED
      BY <1>3, <2>1 DEF IInv, PortsConserved, InPool
  <1>5. PICK k \in Calls :
           /\ call[k].st = "new"
           /\ call' = [call EXCEPT ![k] = [st |-> "live", proc |-> c, id |-> id, port |-> p,
                                          cid |-> NoCid, did |-> -1]]
           /\ deviceCall' = [deviceCall EXCEPT ![p] = k]
    <2>1. PICK k \in Calls :
             /\ FreshCall(k)
             /\ call' = [call EXCEPT ![k] = [st |-> "live", proc |-> c, id |-> id, port |-> p,
                                            cid |-> NoCid, did |-> -1]]
             /\ deviceCall' = [deviceCall EXCEPT ![p] = IF @ = NoCall THEN k ELSE @]
      BY DEF PlayInit
    <2>2. deviceCall' = [deviceCall EXCEPT ![p] = k]
      BY <1>4, <2>1
    <2>3. QED
      BY <2>1, <2>2 DEF FreshCall
  <1>6. \A q \in PortKeys \ {p} : /\ deviceCall'[q] = deviceCall[q]
                                  /\ deviceCall[q] # NoCall => call'[deviceCall[q]] = call[deviceCall[q]]
    BY <1>1, <1>5 DEF IInv, DeviceTable
  <1>7. deviceCall'[p] = k /\ call'[k].st = "live" /\ call'[k].proc = c /\ call'[k].port = p
        /\ k # NoCall
    BY <1>1, <1>4, <1>5, ConstantFacts
  <1>8. DeviceTable'
    BY <1>4, <1>6, <1>7 DEF IInv, DeviceTable
  <1>9. PortsConserved'
    <2>1. \A i \in 1..n - 1 : i + 1 \in 1..n /\ i + 1 # 1
      BY <1>3
    <2>2. \A i, j \in 1..n - 1 : i + 1 = j + 1 => i = j
      BY <1>3
    <2>3. \A i \in 1..n : i = 1 \/ (i - 1 \in 1..n - 1 /\ (i - 1) + 1 = i)
      BY <1>3
    <2>4. \A i, j \in DOMAIN ports' : ports'[i] = ports'[j] => i = j
      <3>1. TAKE i, j \in DOMAIN ports'
      <3>2. i \in 1..n - 1 /\ j \in 1..n - 1 /\ ports'[i] = ports[i + 1] /\ ports'[j] = ports[j + 1]
        BY <1>2, <1>3
      <3>3. i + 1 \in DOMAIN ports /\ j + 1 \in DOMAIN ports
        BY <1>3, <2>1, <3>2
      <3>4. ports[i + 1] = ports[j + 1] => i + 1 = j + 1
        BY <3>3 DEF IInv, PortsConserved
      <3>5. QED
        BY <2>2, <3>2, <3>4
    <2>5. \A i \in DOMAIN ports' : ports'[i] \in Ports /\ ports'[i] # p
      <3>1. TAKE i \in DOMAIN ports'
      <3>2. i \in 1..n - 1 /\ ports'[i] = ports[i + 1] /\ i + 1 \in 1..n /\ i + 1 # 1
        BY <1>2, <1>3, <2>1
      <3>3. 1 \in DOMAIN ports /\ i + 1 \in DOMAIN ports
        BY <1>3, <3>2
      <3>4. ports[i + 1] \in Ports /\ ports[i + 1] # ports[1]
        BY <3>2, <3>3 DEF IInv, PortsConserved
      <3>5. QED
        BY <1>3, <3>2, <3>4
    <2>6. \A q \in Ports \ {p} : InPool(q)' <=> InPool(q)
      <3>1. TAKE q \in Ports \ {p}
      <3>2. ASSUME InPool(q)' PROVE InPool(q)
        <4>1. PICK i \in 1..n - 1 : ports'[i] = q
          BY <1>2, <1>3, <3>2 DEF InPool
        <4>2. i + 1 \in DOMAIN ports /\ ports[i + 1] = q
          BY <1>2, <1>3, <2>1, <4>1
        <4>3. QED
          BY <4>2 DEF InPool
      <3>3. ASSUME InPool(q) PROVE InPool(q)'
        <4>1. PICK i \in 1..n : ports[i] = q
          BY <1>3, <3>3 DEF InPool
        <4>2. i # 1
          BY <1>3, <4>1
        <4>3. i - 1 \in DOMAIN ports' /\ ports'[i - 1] = ports[i]
          BY <1>2, <1>3, <2>3, <4>1, <4>2
        <4>4. QED
          BY <4>1, <4>3 DEF InPool
      <3>4. QED
        BY <3>2, <3>3
    <2>7. \A q \in Ports : InPool(q)' <=> deviceCall'[q] = NoCall
      BY <1>6, <1>7, <2>5, <2>6, ConstantFacts DEF IInv, PortsConserved, InPool
    <2>8. QED
      BY <2>4, <2>5, <2>7 DEF PortsConserved
  <1>10. /\ \A d \in Procs, q \in PortKeys : Lent(d, q) => Lent(d, q)' /\ q # p
         /\ Lent(c, p)'
    BY <1>1, <1>4, <1>6, <1>7 DEF Lent
  <1>11. \A d \in Procs :
           /\ \A q \in PortKeys : NoNewMsg(toSip'[d], toSip[d], "stop_play", q)
           /\ HasClose(toSip'[d]) => HasClose(toSip[d])
           /\ CloseLast(toSip[d]) => CloseLast(toSip'[d])
    BY <1>1, <1>2, ReceiveKeeps
  <1>12. id \in ReqIds
    BY <1>1, <1>2, ReceiveFacts
  <1>13. m \in Msg /\ m.type = "live_init_answer" /\ m.port = p
    BY <1>4, <1>12, ConstantFacts, MessageTypes DEF InitAnswer
  <1> HIDE DEF m
  <1>14. /\ << m >> \in Seq(Msg)
         /\ \A q : HasMsg(<< m >>, "live_init_answer", q) <=> q = p
         /\ OneMsg(<< m >>, "live_init_answer", p)
    BY <1>13, SingleMsg
  <1>15. \A d \in Procs : d # c \/ d \notin connected => toLive'[d] = toLive[d]
    BY <1>1, <1>2, <1>14, RelayKeeps
  <1>16. \A d \in Procs, q \in Ports \ {p} : NoNewMsg(toLive'[d], toLive[d], "live_init_answer", q)
    BY <1>1, <1>2, <1>14, RelayKeeps
  <1>17. /\ \A d \in Procs \ {c} : NoNewMsg(toLive'[d], toLive[d], "live_init_answer", p)
         /\ OneMsg(toLive'[c], "live_init_answer", p)
    <2>1. ~HasMsg(toLive[c], "live_init_answer", p)
      BY <1>4, <1>10, ConstantFacts DEF IInv, RightToStop
    <2>2. OneMsg(toLive[c], "live_init_answer", p)
      BY <2>1 DEF HasMsg, OneMsg
    <2>3. OneMsg(toLive[c] \o << m >>, "live_init_answer", p)
      BY <1>1, <1>14, <2>1, ConcatMsg
    <2>4. OneMsg(toLive'[c], "live_init_answer", p)
      BY <1>1, <1>2, <2>2, <2>3 DEF Relay
    <2>5. QED
      BY <1>15, <2>4, NoNews
  <1>18. RightToStop'
    <2> SUFFICES ASSUME NEW d \in Procs, NEW q \in PortKeys
                 PROVE  /\ HasMsg(toSip'[d], "stop_play", q) =>
                              q \in Ports /\ Lent(d, q)' /\ hold[d][q] = "none"
                                         /\ ~HasMsg(toLive'[d], "live_init_answer", q)
                        /\ OneMsg(toSip'[d], "stop_play", q)
                        /\ q \in Ports =>
                              /\ HasMsg(toLive'[d], "live_init_answer", q) => Lent(d, q)' /\ hold[d][q] = "none"
                              /\ OneMsg(toLive'[d], "live_init_answer", q)
                              /\ hold[d][q] # "none" => Lent(d, q)'
      BY DEF RightToStop, clientVars
    <2>1. /\ HasMsg(toSip[d], "stop_play", q) =>
                 q \in Ports /\ Lent(d, q) /\ hold[d][q] = "none"
                            /\ ~HasMsg(toLive[d], "live_init_answer", q)
          /\ OneMsg(toSip[d], "stop_play", q)
          /\ q \in Ports =>
                /\ HasMsg(toLive[d], "live_init_answer", q) => Lent(d, q) /\ hold[d][q] = "none"
                /\ OneMsg(toLive[d], "live_init_answer", q)
                /\ hold[d][q] # "none" => Lent(d, q)
      BY DEF IInv, RightToStop
    <2>2. CASE q # p
      BY <2>1, <2>2, <1>10, <1>11, <1>16 DEF NoNewMsg
    <2>3. CASE q = p /\ d # c
      BY <2>1, <2>3, <1>10, <1>11, <1>17 DEF NoNewMsg
    <2>4. CASE q = p /\ d = c
      BY <2>1, <2>4, <1>4, <1>10, <1>11, <1>17 DEF NoNewMsg
    <2>5. QED
      BY <2>2, <2>3, <2>4
  <1>19. CloseIsLast'
    <2>1. connected' = connected
      BY DEF PlayInit
    <2>2. QED
      BY <1>11, <1>15, <2>1, CloseFrame DEF IInv, clientVars
  <1>20. QED
    BY <1>8, <1>9, <1>18, <1>19 DEF IInv

(* A stop_play is always for a port that is lent to its sender.            *)
LEMMA StopIsForOwnPort ==
    ASSUME IInv, NEW c \in Procs, Receive(c, "stop_play")
    PROVE  /\ Head(toSip[c]).port \in Ports /\ Lent(c, Head(toSip[c]).port)
           /\ HasMsg(toSip[c], "stop_play", Head(toSip[c]).port)
           /\ ~HasMsg(toSip'[c], "stop_play", Head(toSip[c]).port)
  <1> PICK p : p = Head(toSip[c]).port
    OBVIOUS
  <1>1. toSip \in [Procs -> Seq(Msg)]
    BY DEF IInv, TypeOK, SipTypeOK
  <1>2. /\ toSip[c] \in Seq(Msg) /\ toSip[c] # << >> /\ Head(toSip[c]).type = "stop_play"
        /\ p \in PortKeys /\ toSip'[c] = Tail(toSip[c])
    BY <1>1, ReceiveFacts
  <1>3. OneMsg(toSip[c], "stop_play", p)
    BY <1>2 DEF IInv, RightToStop
  <1>4. HasMsg(toSip[c], "stop_play", p) /\ ~HasMsg(toSip'[c], "stop_play", p)
    BY <1>2, <1>3, TailMsg
  <1>5. QED
    BY <1>2, <1>4 DEF IInv, RightToStop

(* StopPlay takes one port back.                                           *)
LEMMA StopPlayInv ==
    ASSUME IInv, TypeOK', NEW c \in Procs, StopPlay(c), UNCHANGED clientVars
    PROVE  IInv'
  <1> PICK p : p = Head(toSip[c]).port
    OBVIOUS
  <1> DEFINE n == Len(ports)
             k == deviceCall[p]
  <1>1. /\ toSip \in [Procs -> Seq(Msg)]
        /\ call \in [Calls -> SipCall] /\ deviceCall \in [PortKeys -> Calls \cup {NoCall}]
        /\ ports \in Seq(PortKeys)
    BY DEF IInv, TypeOK, SipTypeOK
  <1>2. Receive(c, "stop_play") /\ UNCHANGED <<connected, toLive>>
    BY DEF StopPlay
  <1>3. /\ p \in Ports /\ Lent(c, p)
        /\ HasMsg(toSip[c], "stop_play", p) /\ ~HasMsg(toSip'[c], "stop_play", p)
    BY <1>2, StopIsForOwnPort
  <1>4. k \in Calls /\ p \in PortKeys
    BY <1>1, <1>3, ConstantFacts DEF Lent
  <1>5. /\ deviceCall' = [deviceCall EXCEPT ![p] = NoCall]
        /\ call' = [call EXCEPT ![k].st = "freed"]
        /\ ports' = Append(ports, p)
    BY DEF StopPlay, Deleted, Returned
  <1>6. \A q \in PortKeys \ {p} :
           /\ deviceCall'[q] = deviceCall[q]
           /\ deviceCall[q] # NoCall => deviceCall[q] # k /\ call'[deviceCall[q]] = call[deviceCall[q]]
    <2>1. \A q \in PortKeys \ {p} : deviceCall[q] # NoCall => deviceCall[q] # k
      BY <1>3, <1>4 DEF IInv, DeviceTable, Lent
    <2>2. QED
      BY <1>1, <1>5, <2>1
  <1>7. deviceCall'[p] = NoCall
    BY <1>1, <1>4, <1>5
  <1>8. DeviceTable'
    BY <1>6, <1>7 DEF IInv, DeviceTable
  <1>9. PortsConserved'
    <2>1. /\ n \in Nat /\ DOMAIN ports = 1..n /\ DOMAIN ports' = 1..n + 1
          /\ \A i \in 1..n : ports'[i] = ports[i]
          /\ ports'[n + 1] = p
      BY <1>1, <1>4, <1>5, AppendProperties, LenProperties
    <2> HIDE DEF n
    <2>2. \A i \in 1..n + 1 : i \in 1..n \/ i = n + 1
      BY <2>1
    <2>3. 1..n \subseteq 1..n + 1 /\ n + 1 \in 1..n + 1
      BY <2>1
    <2>4. \A i \in 1..n : ports[i] \in Ports /\ ports[i] # p
      BY <1>3, <2>1 DEF IInv, PortsConserved, InPool, Lent
    <2>5. \A i, j \in DOMAIN ports' : ports'[i] = ports'[j] => i = j
      BY <2>1, <2>2, <2>4 DEF IInv, PortsConserved
    <2>6. \A i \in DOMAIN ports' : ports'[i] \in Ports
      BY <1>3, <2>1, <2>2, <2>4
    <2>7. \A q \in Ports : InPool(q)' <=> InPool(q) \/ q = p
      BY <2>1, <2>2, <2>3 DEF InPool
    <2>8. \A q \in Ports : InPool(q)' <=> deviceCall'[q] = NoCall
      BY <1>6, <1>7, <2>7, ConstantFacts DEF IInv, PortsConserved
    <2>9. QED
      BY <2>5, <2>6, <2>8 DEF PortsConserved
  <1>10. \A d \in Procs, q \in PortKeys \ {p} : Lent(d, q)' <=> Lent(d, q)
    BY <1>6 DEF Lent
  <1>11. \A d \in Procs \ {c} : ~Lent(d, p)
    BY <1>3 DEF Lent
  <1>12. \A d \in Procs :
           /\ \A q \in PortKeys : NoNewMsg(toSip'[d], toSip[d], "stop_play", q)
           /\ HasClose(toSip'[d]) => HasClose(toSip[d])
           /\ CloseLast(toSip[d]) => CloseLast(toSip'[d])
    BY <1>1, <1>2, ReceiveKeeps
  <1>13. RightToStop'
    <2> SUFFICES ASSUME NEW d \in Procs, NEW q \in PortKeys
                 PROVE  /\ HasMsg(toSip'[d], "stop_play", q) =>
                              q \in Ports /\ Lent(d, q)' /\ hold[d][q] = "none"
                                         /\ ~HasMsg(toLive[d], "live_init_answer", q)
                        /\ OneMsg(toSip'[d], "stop_play", q)
                        /\ q \in Ports =>
                              /\ HasMsg(toLive[d], "live_init_answer", q) => Lent(d, q)' /\ hold[d][q] = "none"
                              /\ OneMsg(toLive[d], "live_init_answer", q)
                              /\ hold[d][q] # "none" => Lent(d, q)'
      BY <1>2 DEF RightToStop, clientVars
    <2>1. /\ HasMsg(toSip[d], "stop_play", q) =>
                 q \in Ports /\ Lent(d, q) /\ hold[d][q] = "none"
                            /\ ~HasMsg(toLive[d], "live_init_answer", q)
          /\ OneMsg(toSip[d], "stop_play", q)
          /\ q \in Ports =>
                /\ HasMsg(toLive[d], "live_init_answer", q) => Lent(d, q) /\ hold[d][q] = "none"
                /\ OneMsg(toLive[d], "live_init_answer", q)
                /\ hold[d][q] # "none" => Lent(d, q)
      BY DEF IInv, RightToStop
    <2>2. CASE q # p
      BY <2>1, <2>2, <1>10, <1>12 DEF NoNewMsg
    <2>3. CASE q = p /\ d # c
      BY <2>1, <2>3, <1>11, <1>12 DEF NoNewMsg
    <2>4. CASE q = p /\ d = c
      BY <2>1, <2>4, <1>3, <1>12 DEF NoNewMsg
    <2>5. QED
      BY <2>2, <2>3, <2>4
  <1>14. CloseIsLast'
    BY <1>2, <1>12, CloseFrame DEF IInv, clientVars
  <1>15. QED
    BY <1>8, <1>9, <1>13, <1>14 DEF IInv

(* stop_play of a port that is not lent does not happen.                   *)
LEMMA StopPlayUnknownInv ==
    ASSUME IInv, NEW c \in Procs, StopPlayUnknown(c)
    PROVE  FALSE
  BY StopIsForOwnPort DEF StopPlayUnknown, Lent

(* Returning a list of ports none of which is in the pool.                 *)
LEMMA ConcatPorts ==
    ASSUME NEW s \in Seq(PortKeys), NEW u \in Seq(PortKeys),
           \A i, j \in DOMAIN s : s[i] = s[j] => i = j,
           \A i, j \in DOMAIN u : u[i] = u[j] => i = j,
           \A i \in DOMAIN s, j \in DOMAIN u : s[i] # u[j]
    PROVE  /\ \A i, j \in DOMAIN (s \o u) : (s \o u)[i] = (s \o u)[j] => i = j
           /\ \A q : (\E i \in DOMAIN (s \o u) : (s \o u)[i] = q)
                    <=> (\E i \in DOMAIN s : s[i] = q) \/ (\E i \in DOMAIN u : u[i] = q)
  <1> DEFINE n == Len(s)
             k == Len(u)
             t == s \o u
  <1>1. n \in Nat /\ k \in Nat /\ DOMAIN s = 1..n /\ DOMAIN u = 1..k
    BY LenProperties
  <1>2. DOMAIN t = 1..n + k
    BY ConcatProperties, LenProperties
  <1>3. \A i \in 1..n + k : t[i] = IF i <= n THEN s[i] ELSE u[i - n]
    BY ConcatProperties
  <1> HIDE DEF n, k, t
  <1>4. \A i \in 1..n + k : IF i <= n THEN i \in 1..n ELSE i - n \in 1..k
    BY <1>1
  <1>5. \A i, j \in 1..n + k : i - n = j - n => i = j
    BY <1>1
  <1>6. \A i \in 1..n : i \in 1..n + k /\ i <= n
    BY <1>1
  <1>7. \A i \in 1..k : i + n \in 1..n + k /\ ~(i + n <= n) /\ (i + n) - n = i
    BY <1>1
  <1>8. \A i, j \in DOMAIN t : t[i] = t[j] => i = j
    BY <1>1, <1>2, <1>3, <1>4, <1>5
  <1>9. ASSUME NEW q
        PROVE  (\E i \in DOMAIN t : t[i] = q)
                  <=> (\E i \in DOMAIN s : s[i] = q) \/ (\E i \in DOMAIN u : u[i] = q)
    BY <1>1, <1>2, <1>3, <1>4, <1>6, <1>7
  <1>10. QED
    BY <1>8, <1>9 DEF t

(* StopPlayAll takes back every port of a process that is gone.            *)
LEMMA StopPlayAllInv ==
    ASSUME IInv, TypeOK', NEW c \in Procs, StopPlayAll(c), UNCHANGED clientVars
    PROVE  IInv'
  <1> PICK gone : gone = PortsOf(c)
    OBVIOUS
  <1>1. /\ toSip \in [Procs -> Seq(Msg)]
        /\ call \in [Calls -> SipCall] /\ deviceCall \in [PortKeys -> Calls \cup {NoCall}]
        /\ ports \in Seq(PortKeys)
    BY DEF IInv, TypeOK, SipTypeOK
  <1>2. Receive(c, "close") /\ UNCHANGED <<connected, toLive>>
    BY DEF StopPlayAll
  <1>3. /\ toSip'[c] = << >> /\ c \notin connected /\ toLive[c] = << >>
        /\ \A p \in Ports : hold[c][p] = "none"
    <2>1. /\ toSip[c] \in Seq(Msg) /\ toSip[c] # << >> /\ Head(toSip[c]).type = "close"
          /\ toSip'[c] = Tail(toSip[c])
      BY <1>1, <1>2, ReceiveFacts
    <2>2. CloseLast(toSip[c])
      BY DEF IInv, CloseIsLast
    <2>3. HasClose(toSip[c]) /\ Tail(toSip[c]) = << >>
      BY <2>1, <2>2, TailClose
    <2>4. QED
      BY <2>1, <2>3 DEF IInv, CloseIsLast
  <1>4. \A p \in PortKeys : p \in gone <=> Lent(c, p)
    BY DEF PortsOf, Lent
  <1>5. gone \subseteq Ports /\ IsFiniteSet(gone)
    <2>1. gone \subseteq Ports
      BY DEF PortsOf, IInv, DeviceTable
    <2>2. QED
      BY <2>1, ConstantFacts, FS_Subset
  <1>6. PICK order \in Ascending(gone) :
           ports' = ports \o [i \in DOMAIN order |-> call[deviceCall[order[i]]].port]
    BY DEF StopPlayAll
  <1>7. /\ order \in Seq(gone) /\ order \in Seq(PortKeys) /\ DOMAIN order = 1..Len(order)
        /\ \A i \in DOMAIN order : order[i] \in gone
        /\ \A i, j \in DOMAIN order : order[i] = order[j] => i = j
        /\ \A q : q \in gone <=> \E i \in DOMAIN order : order[i] = q
    <2>1. order \in Seq(gone) /\ DOMAIN order = 1..Len(order)
      BY <1>5, AscendingFacts
    <2>2. order \in Seq(PortKeys)
      BY <2>1, <1>5, ConstantFacts, SeqMonotonic
    <2>3. \A i \in DOMAIN order : order[i] \in gone
      BY <2>1, ElementOfSeq
    <2>4. QED
      BY <2>1, <2>2, <2>3, <1>5, AscendingFacts
  <1>8. ports' = ports \o order
    <2>1. \A i \in DOMAIN order : call[deviceCall[order[i]]].port = order[i]
      BY <1>4, <1>5, <1>7, ConstantFacts DEF Lent, IInv, DeviceTable
    <2>2. order = [i \in DOMAIN order |-> order[i]]
      BY <1>7, LenProperties
    <2>3. [i \in DOMAIN order |-> call[deviceCall[order[i]]].port] = [i \in DOMAIN order |-> order[i]]
      BY <2>1
    <2>4. QED
      BY <1>6, <2>2, <2>3
  <1>9. \A p \in PortKeys : deviceCall'[p] = IF p \in gone THEN NoCall ELSE deviceCall[p]
    BY DEF StopPlayAll
  <1>10. \A p \in PortKeys \ gone :
            deviceCall[p] # NoCall => call'[deviceCall[p]] = call[deviceCall[p]]
    <2> SUFFICES ASSUME NEW p \in PortKeys \ gone, deviceCall[p] # NoCall
                 PROVE  call'[deviceCall[p]] = call[deviceCall[p]]
      OBVIOUS
    <2>1. deviceCall[p] \in Calls
      BY <1>1
    <2>2. \A q \in gone : deviceCall[q] # deviceCall[p]
      BY <1>5, ConstantFacts DEF PortsOf, IInv, DeviceTable
    <2>3. deviceCall[p] \notin { deviceCall[q] : q \in gone }
      BY <2>2
    <2>4. call' = [k \in Calls |-> IF k \in { deviceCall[q] : q \in gone }
                                  THEN [call[k] EXCEPT !.st = "freed"] ELSE call[k]]
      BY DEF StopPlayAll
    <2>5. QED
      BY <2>1, <2>3, <2>4
  <1>11. DeviceTable'
    BY <1>9, <1>10 DEF IInv, DeviceTable
  <1>12. PortsConserved'
    <2>1. \A i \in DOMAIN ports, j \in DOMAIN order : ports[i] # order[j]
      BY <1>4, <1>5, <1>7, ConstantFacts DEF Lent, IInv, PortsConserved, InPool
    <2>2. \A i, j \in DOMAIN ports : ports[i] = ports[j] => i = j
      BY DEF IInv, PortsConserved
    <2>3. /\ \A i, j \in DOMAIN ports' : ports'[i] = ports'[j] => i = j
          /\ \A q : (\E i \in DOMAIN ports' : ports'[i] = q)
                   <=> (\E i \in DOMAIN ports : ports[i] = q) \/ (\E i \in DOMAIN order : order[i] = q)
      <3>1. /\ \A i, j \in DOMAIN (ports \o order) :
                  (ports \o order)[i] = (ports \o order)[j] => i = j
            /\ \A q : (\E i \in DOMAIN (ports \o order) : (ports \o order)[i] = q)
                     <=> (\E i \in DOMAIN ports : ports[i] = q) \/ (\E i \in DOMAIN order : order[i] = q)
        <4>1. ports \in Seq(PortKeys) /\ order \in Seq(PortKeys)
          BY <1>1, <1>7
        <4>2. \A i, j \in DOMAIN order : order[i] = order[j] => i = j
          BY <1>7
        <4>3. QED
          BY <2>1, <2>2, <4>1, <4>2, ConcatPorts
      <3>2. QED
        BY <1>8, <3>1
    <2>4. \A q : InPool(q)' <=> InPool(q) \/ q \in gone
      BY <1>7, <2>3 DEF InPool
    <2>5. \A i \in DOMAIN ports' : ports'[i] \in Ports
      BY <1>5, <2>4 DEF IInv, PortsConserved, InPool
    <2>6. \A q \in Ports : InPool(q)' <=> deviceCall'[q] = NoCall
      BY <1>9, <2>4, ConstantFacts DEF IInv, PortsConserved
    <2>7. QED
      BY <2>3, <2>5, <2>6 DEF PortsConserved
  <1>13. \A d \in Procs \ {c}, q \in PortKeys : Lent(d, q)' <=> Lent(d, q)
    BY <1>4, <1>9, <1>10 DEF Lent
  <1>14. \A d \in Procs :
           /\ \A q \in PortKeys : NoNewMsg(toSip'[d], toSip[d], "stop_play", q)
           /\ HasClose(toSip'[d]) => HasClose(toSip[d])
           /\ CloseLast(toSip[d]) => CloseLast(toSip'[d])
    BY <1>1, <1>2, ReceiveKeeps
  <1>15. RightToStop'
    <2> SUFFICES ASSUME NEW d \in Procs, NEW q \in PortKeys
                 PROVE  /\ HasMsg(toSip'[d], "stop_play", q) =>
                              q \in Ports /\ Lent(d, q)' /\ hold[d][q] = "none"
                                         /\ ~HasMsg(toLive[d], "live_init_answer", q)
                        /\ OneMsg(toSip'[d], "stop_play", q)
                        /\ q \in Ports =>
                              /\ HasMsg(toLive[d], "live_init_answer", q) => Lent(d, q)' /\ hold[d][q] = "none"
                              /\ OneMsg(toLive[d], "live_init_answer", q)
                              /\ hold[d][q] # "none" => Lent(d, q)'
      BY <1>2 DEF RightToStop, clientVars
    <2>1. CASE d # c
      BY <2>1, <1>13, <1>14 DEF NoNewMsg, IInv, RightToStop
    <2>2. CASE d = c
      BY <2>2, <1>3 DEF HasMsg, OneMsg
    <2>3. QED
      BY <2>1, <2>2
  <1>16. CloseIsLast'
    BY <1>2, <1>14, CloseFrame DEF IInv, clientVars
  <1>17. QED
    BY <1>11, <1>12, <1>15, <1>16 DEF IInv

-----------------------------------------------------------------------------
(* Steps of the processes.                                                 *)

(* Sending one more message, of a connected process or about its end.      *)
LEMMA SendKeeps ==
    ASSUME IInv, NEW c \in Procs, NEW m \in Msg, SendToSip(c, m)
    PROVE  /\ \A d \in Procs : d # c => toSip'[d] = toSip[d]
           /\ m.type # "stop_play" =>
                 \A d \in Procs, p \in PortKeys : NoNewMsg(toSip'[d], toSip[d], "stop_play", p)
           /\ \A p \in PortKeys : m.port # p =>
                 \A d \in Procs : NoNewMsg(toSip'[d], toSip[d], "stop_play", p)
           /\ ~HasMsg(toSip[c], "stop_play", m.port) => OneMsg(toSip'[c], "stop_play", m.port)
           /\ c \in connected => CloseLast(toSip'[c])
           /\ HasClose(toSip'[c]) => HasClose(toSip[c]) \/ m.type = "close"
  <1>1. toSip \in [Procs -> Seq(Msg)]
    BY DEF IInv, TypeOK, SipTypeOK
  <1>2. toSip[c] \in Seq(Msg) /\ toSip'[c] = Append(toSip[c], m)
        /\ \A d \in Procs : d # c => toSip'[d] = toSip[d]
    BY <1>1 DEF SendToSip
  <1>3. \A p : ~(m.type = "stop_play" /\ m.port = p) =>
           NoNewMsg(toSip'[c], toSip[c], "stop_play", p)
    BY <1>2, AppendMsg DEF NoNewMsg
  <1>4. \A p : \A d \in Procs : d # c => NoNewMsg(toSip'[d], toSip[d], "stop_play", p)
    BY <1>2 DEF NoNewMsg
  <1>5. ~HasMsg(toSip[c], "stop_play", m.port) => OneMsg(toSip'[c], "stop_play", m.port)
    BY <1>2, AppendMsg
  <1>6. c \in connected => ~HasClose(toSip[c])
    BY DEF IInv, CloseIsLast
  <1>7. (c \in connected => CloseLast(toSip'[c]))
        /\ (HasClose(toSip'[c]) => HasClose(toSip[c]) \/ m.type = "close")
    BY <1>2, <1>6, AppendClose
  <1>8. QED
    BY <1>2, <1>3, <1>4, <1>5, <1>7

(* A connected process that asks for something keeps CloseIsLast.          *)
LEMMA SendCloseIsLast ==
    ASSUME IInv, NEW c \in connected, NEW m \in Msg, SendToSip(c, m), m.type # "close",
           UNCHANGED <<connected, toLive>>,
           \A d \in Procs : d # c => hold'[d] = hold[d]
    PROVE  CloseIsLast'
  <1>1. c \in Procs
    BY DEF IInv, TypeOK, SipTypeOK
  <1>2. CloseLast(toSip'[c]) /\ ~HasClose(toSip'[c])
    BY <1>1, SendKeeps DEF IInv, CloseIsLast
  <1>3. \A d \in Procs : d # c => toSip'[d] = toSip[d]
    BY <1>1, SendKeeps
  <1>4. QED
    BY <1>2, <1>3 DEF IInv, CloseIsLast

(* live_init and live_play keep IInv.                                      *)
LEMMA ClientAsksInv ==
    ASSUME IInv, TypeOK', NEW c \in Procs, ClientInit(c) \/ \E p \in Ports : ClientPlays(c, p)
    PROVE  IInv'
  <1>1. PICK m \in Msg : m.type \in {"live_init", "live_play"} /\ SendToSip(c, m)
    <2>1. CASE ClientInit(c)
      BY <2>1, ClientInitSends
    <2>2. ASSUME NEW p \in Ports, ClientPlays(c, p)
          PROVE  \E m \in Msg : m.type \in {"live_init", "live_play"} /\ SendToSip(c, m)
      <3>1. LivePlay(0, p) \in Msg /\ LivePlay(0, p).type = "live_play"
        BY ConstantFacts, MessageTypes DEF LivePlay
      <3>2. QED
        BY <2>2, <3>1 DEF ClientPlays
    <2>3. QED
      BY <2>1, <2>2
  <1>2. /\ UNCHANGED <<ports, deviceCall, call, connected, toLive>> /\ c \in connected
        /\ \A d \in Procs : d # c => hold'[d] = hold[d]
        /\ \A d \in Procs, p \in Ports : hold'[d][p] = "none" <=> hold[d][p] = "none"
    BY DEF ClientInit, ClientPlays, sipVars, IInv, TypeOK
  <1>3. \A d \in Procs, p \in PortKeys : NoNewMsg(toSip'[d], toSip[d], "stop_play", p)
    BY <1>1, SendKeeps
  <1>4. Owned'
    BY <1>2, <1>3, NoNews, Frame DEF IInv, Owned
  <1>5. CloseIsLast'
    BY <1>1, <1>2, SendCloseIsLast
  <1>6. QED
    BY <1>4, <1>5 DEF IInv, Owned

(* The five facts RightToStop states of one process and port.              *)
LEMMA RightToStopAt ==
    ASSUME IInv, NEW d \in Procs, NEW q \in PortKeys
    PROVE  /\ HasMsg(toSip[d], "stop_play", q) =>
                 q \in Ports /\ Lent(d, q) /\ hold[d][q] = "none"
                            /\ ~HasMsg(toLive[d], "live_init_answer", q)
           /\ OneMsg(toSip[d], "stop_play", q)
           /\ q \in Ports =>
                 /\ HasMsg(toLive[d], "live_init_answer", q) => Lent(d, q) /\ hold[d][q] = "none"
                 /\ OneMsg(toLive[d], "live_init_answer", q)
                 /\ hold[d][q] # "none" => Lent(d, q)
  BY DEF IInv, RightToStop

(* A step of process c that moves no port in sip_server has to answer for  *)
(* its own messages and holdings only.                                     *)
LEMMA OwnStep ==
    ASSUME IInv, TypeOK', NEW c \in Procs,
           UNCHANGED <<ports, deviceCall, call>>,
           \A d \in Procs : d # c =>
              toSip'[d] = toSip[d] /\ toLive'[d] = toLive[d] /\ hold'[d] = hold[d],
           \A q \in PortKeys :
              /\ HasMsg(toSip'[c], "stop_play", q) =>
                    q \in Ports /\ Lent(c, q) /\ hold'[c][q] = "none"
                               /\ ~HasMsg(toLive'[c], "live_init_answer", q)
              /\ OneMsg(toSip'[c], "stop_play", q)
              /\ q \in Ports =>
                    /\ HasMsg(toLive'[c], "live_init_answer", q) => Lent(c, q) /\ hold'[c][q] = "none"
                    /\ OneMsg(toLive'[c], "live_init_answer", q)
                    /\ hold'[c][q] # "none" => Lent(c, q)
    PROVE  DeviceTable' /\ PortsConserved' /\ RightToStop'
  <1>1. DeviceTable' /\ PortsConserved'
    BY DEF IInv, DeviceTable, PortsConserved, InPool
  <1>2. \A d \in Procs, q \in PortKeys : Lent(d, q)' <=> Lent(d, q)
    BY DEF Lent
  <1>3. RightToStop'
    <2> SUFFICES ASSUME NEW d \in Procs, NEW q \in PortKeys
                 PROVE  /\ HasMsg(toSip'[d], "stop_play", q) =>
                              q \in Ports /\ Lent(d, q) /\ hold'[d][q] = "none"
                                         /\ ~HasMsg(toLive'[d], "live_init_answer", q)
                        /\ OneMsg(toSip'[d], "stop_play", q)
                        /\ q \in Ports =>
                              /\ HasMsg(toLive'[d], "live_init_answer", q) => Lent(d, q) /\ hold'[d][q] = "none"
                              /\ OneMsg(toLive'[d], "live_init_answer", q)
                              /\ hold'[d][q] # "none" => Lent(d, q)
      BY <1>2 DEF RightToStop
    <2>1. CASE d = c
      BY <2>1
    <2>2. CASE d # c
      BY <2>2, RightToStopAt
    <2>3. QED
      BY <2>1, <2>2
  <1>4. QED
    BY <1>1, <1>3

(* stop() of a port the process holds.                                     *)
LEMMA ClientStopsInv ==
    ASSUME IInv, TypeOK', NEW c \in Procs, NEW p \in Ports, ClientStops(c, p)
    PROVE  IInv'
  <1> DEFINE m == StopPlayMsg(p)
  <1>1. /\ UNCHANGED <<ports, deviceCall, call, connected, toLive>> /\ c \in connected
        /\ hold[c][p] # "none" /\ hold' = [hold EXCEPT ![c][p] = "none"] /\ SendToSip(c, m)
    BY DEF ClientStops, sipVars, AfterStop
  <1>2. /\ \A d \in Procs : d # c => hold'[d] = hold[d]
        /\ \A q \in Ports : hold'[c][q] = IF q = p THEN "none" ELSE hold[c][q]
    BY <1>1 DEF IInv, TypeOK
  <1>3. p \in PortKeys /\ m \in Msg /\ m.type = "stop_play" /\ m.port = p
    BY ConstantFacts, MessageTypes DEF StopPlayMsg
  <1> HIDE DEF m
  <1>4. /\ Lent(c, p) /\ ~HasMsg(toSip[c], "stop_play", p)
        /\ ~HasMsg(toLive[c], "live_init_answer", p)
    BY <1>1, <1>3, RightToStopAt
  <1>5. /\ OneMsg(toSip'[c], "stop_play", p)
        /\ \A q \in PortKeys \ {p} : NoNewMsg(toSip'[c], toSip[c], "stop_play", q)
        /\ \A d \in Procs : d # c => toSip'[d] = toSip[d]
    BY <1>1, <1>3, <1>4, SendKeeps
  <1>6. \A q \in PortKeys \ {p} :
              /\ HasMsg(toSip'[c], "stop_play", q) =>
                    q \in Ports /\ Lent(c, q) /\ hold'[c][q] = "none"
                               /\ ~HasMsg(toLive'[c], "live_init_answer", q)
              /\ OneMsg(toSip'[c], "stop_play", q)
              /\ q \in Ports =>
                    /\ HasMsg(toLive'[c], "live_init_answer", q) => Lent(c, q) /\ hold'[c][q] = "none"
                    /\ OneMsg(toLive'[c], "live_init_answer", q)
                    /\ hold'[c][q] # "none" => Lent(c, q)
    BY <1>1, <1>2, <1>5, RightToStopAt DEF NoNewMsg
  <1>7. OneMsg(toLive[c], "live_init_answer", p)
    BY <1>3, RightToStopAt
  <1>8. DeviceTable' /\ PortsConserved' /\ RightToStop'
    <2>1. hold'[c][p] = "none" /\ toLive' = toLive
      BY <1>1, <1>2
    <2>2. QED
      BY <1>1, <1>2, <1>4, <1>5, <1>6, <1>7, <2>1, OwnStep
  <1>9. CloseIsLast'
    BY <1>1, <1>2, <1>3, SendCloseIsLast
  <1>10. QED
    BY <1>8, <1>9 DEF IInv

(* An answer from sip_server reaches the process.                          *)
LEMMA ClientReceivesInv ==
    ASSUME IInv, TypeOK', NEW c \in Procs, ClientReceives(c)
    PROVE  IInv'
  <1> DEFINE m == Head(toLive[c])
  <1> PICK p : p = m.port
    OBVIOUS
  <1>1. /\ UNCHANGED <<ports, deviceCall, call, connected, toSip>> /\ c \in connected
        /\ toLive[c] # << >> /\ toLive' = [toLive EXCEPT ![c] = Tail(@)]
    BY DEF ClientReceives, sipVars
  <1>2. /\ toLive \in [Procs -> Seq(Msg)] /\ hold \in [Procs -> [Ports -> HoldStates]]
        /\ toLive[c] \in Seq(Msg)
    BY DEF IInv, TypeOK, SipTypeOK
  <1>3. /\ toLive'[c] = Tail(toLive[c]) /\ m \in Msg /\ p \in PortKeys
        /\ \A d \in Procs : d # c => toLive'[d] = toLive[d]
    <2>1. m \in Msg
      BY <1>1, <1>2, TailFacts
    <2>2. p \in PortKeys
      BY <2>1 DEF Msg
    <2>3. QED
      BY <1>1, <1>2, <2>1, <2>2
  <1>4. /\ \A q : NoNewMsg(toLive'[c], toLive[c], "live_init_answer", q)
        /\ m.type = "live_init_answer" => HasMsg(toLive[c], "live_init_answer", p)
        /\ m.type = "live_init_answer" /\ OneMsg(toLive[c], "live_init_answer", p)
              => ~HasMsg(toLive'[c], "live_init_answer", p)
    BY <1>1, <1>2, <1>3, TailMsg DEF NoNewMsg
  <1>5. CloseIsLast'
    <2>1. \A d \in Procs : d \notin connected => d # c /\ hold'[d] = hold[d]
      BY <1>1, <1>2 DEF ClientReceives
    <2>2. QED
      BY <1>1, <1>3, <2>1, CloseFrame DEF IInv
  <1>6. CASE m.type = "live_init_answer" /\ p \in Ports /\ hold' = [hold EXCEPT ![c][p] = "granted"]
    <2>1. Lent(c, p) /\ ~HasMsg(toLive'[c], "live_init_answer", p)
      BY <1>3, <1>4, <1>6, RightToStopAt
    <2>2. ~HasMsg(toSip[c], "stop_play", p) /\ OneMsg(toLive'[c], "live_init_answer", p)
      BY <1>3, <1>4, <1>6, RightToStopAt DEF NoNewMsg
    <2>3. /\ hold'[c][p] = "granted" /\ \A q \in Ports \ {p} : hold'[c][q] = hold[c][q]
          /\ \A d \in Procs : d # c => hold'[d] = hold[d]
      BY <1>2, <1>6
    <2>4. \A q \in PortKeys :
              /\ HasMsg(toSip[c], "stop_play", q) =>
                    q \in Ports /\ Lent(c, q) /\ hold'[c][q] = "none"
                               /\ ~HasMsg(toLive'[c], "live_init_answer", q)
              /\ OneMsg(toSip[c], "stop_play", q)
              /\ q \in Ports =>
                    /\ HasMsg(toLive'[c], "live_init_answer", q) => Lent(c, q) /\ hold'[c][q] = "none"
                    /\ OneMsg(toLive'[c], "live_init_answer", q)
                    /\ hold'[c][q] # "none" => Lent(c, q)
      <3>1. TAKE q \in PortKeys
      <3>2. CASE q = p
        BY <1>3, <3>2, <2>1, <2>2, <2>3, RightToStopAt
      <3>3. CASE q # p
        BY <3>3, <2>3, <1>4, RightToStopAt DEF NoNewMsg
      <3>4. QED
        BY <3>2, <3>3
    <2>5. DeviceTable' /\ PortsConserved' /\ RightToStop'
      BY <1>1, <1>3, <2>3, <2>4, OwnStep
    <2>6. QED
      BY <1>5, <2>5 DEF IInv
  <1>7. CASE \A d \in Procs, q \in Ports : hold'[d][q] = "none" <=> hold[d][q] = "none"
    <2>1. \A d \in Procs, q \in Ports : NoNewMsg(toLive'[d], toLive[d], "live_init_answer", q)
      BY <1>3, <1>4, NoNews
    <2>2. Owned'
      BY <1>1, <1>7, <2>1, NoNews, Frame DEF IInv, Owned
    <2>3. QED
      BY <1>5, <2>2 DEF IInv, Owned
  <1>8. QED
    <2>1. CASE m.type = "live_init_answer" /\ p \in Ports /\ m.id < nextReq[c]
      BY <1>6, <2>1 DEF ClientReceives
    <2>2. CASE hold' = hold
      BY <1>7, <2>2
    <2>3. CASE /\ ~(m.type = "live_init_answer" /\ p \in Ports /\ m.id < nextReq[c])
               /\ m.type = "live_play_answer" /\ p \in Ports /\ hold[c][p] = "asked"
      <3>1. hold' = [hold EXCEPT ![c][p] = "playing"]
        BY <2>3 DEF ClientReceives
      <3>2. QED
        BY <1>2, <1>7, <2>3, <3>1
    <2>4. QED
      BY <2>1, <2>2, <2>3 DEF ClientReceives

(* A process dies: what it held and what was under way to it is gone, its  *)
(* ports stay lent until its "close" is handled.                           *)
LEMMA ClientCrashesInv ==
    ASSUME IInv, TypeOK', NEW c \in Procs, ClientCrashes(c)
    PROVE  IInv'
  <1>1. /\ UNCHANGED <<ports, deviceCall, call>> /\ c \in connected /\ connected' = connected \ {c}
        /\ toLive' = [toLive EXCEPT ![c] = << >>]
        /\ hold' = [hold EXCEPT ![c] = [p \in Ports |-> "none"]]
        /\ SendToSip(c, CloseMsg)
    BY DEF ClientCrashes, Disconnect, sipVars, SendToSip
  <1>2. /\ toLive'[c] = << >> /\ \A d \in Procs : d # c => toLive'[d] = toLive[d]
        /\ \A p \in Ports : hold'[c][p] = "none"
        /\ \A d \in Procs : d # c => hold'[d] = hold[d]
    BY <1>1 DEF IInv, TypeOK, SipTypeOK
  <1>3. CloseMsg \in Msg /\ CloseMsg.type = "close"
    BY MessageTypes DEF CloseMsg
  <1>4. /\ \A q \in PortKeys : NoNewMsg(toSip'[c], toSip[c], "stop_play", q)
        /\ CloseLast(toSip'[c])
        /\ \A d \in Procs : d # c => toSip'[d] = toSip[d]
    BY <1>1, <1>3, SendKeeps
  <1>5. \A q \in PortKeys :
              /\ HasMsg(toSip'[c], "stop_play", q) =>
                    q \in Ports /\ Lent(c, q) /\ hold'[c][q] = "none"
                               /\ ~HasMsg(toLive'[c], "live_init_answer", q)
              /\ OneMsg(toSip'[c], "stop_play", q)
              /\ q \in Ports =>
                    /\ HasMsg(toLive'[c], "live_init_answer", q) => Lent(c, q) /\ hold'[c][q] = "none"
                    /\ OneMsg(toLive'[c], "live_init_answer", q)
                    /\ hold'[c][q] # "none" => Lent(c, q)
    <2>1. \A q : ~HasMsg(toLive'[c], "live_init_answer", q) /\ OneMsg(toLive'[c], "live_init_answer", q)
      BY <1>2 DEF HasMsg, OneMsg
    <2>2. QED
      BY <1>2, <1>4, <2>1, RightToStopAt DEF NoNewMsg
  <1>6. DeviceTable' /\ PortsConserved' /\ RightToStop'
    BY <1>1, <1>2, <1>4, <1>5, OwnStep
  <1>7. CloseIsLast'
    BY <1>1, <1>2, <1>4 DEF IInv, CloseIsLast
  <1>8. QED
    BY <1>6, <1>7 DEF IInv

(* A process comes back when its "close" has been handled.                 *)
LEMMA ClientRestartsInv ==
    ASSUME IInv, TypeOK', NEW c \in Procs, ClientRestarts(c), ~EarlyRestart
    PROVE  IInv'
  <1>1. /\ UNCHANGED <<ports, deviceCall, call, toSip, toLive, hold>> /\ toSip[c] = << >>
        /\ connected' = connected \cup {c}
    BY DEF ClientRestarts, sipVars
  <1>2. Owned'
    BY <1>1, NoNews, Frame DEF IInv, Owned
  <1>3. ~HasClose(toSip[c])
    BY <1>1 DEF HasClose
  <1>4. CloseIsLast'
    BY <1>1, <1>3 DEF IInv, CloseIsLast
  <1>5. QED
    BY <1>2, <1>4 DEF IInv, Owned

-----------------------------------------------------------------------------
(* The theorem.                                                            *)

(* The initial states satisfy IInv.                                        *)
LEMMA InitIInv == Init => IInv
  <1> SUFFICES ASSUME Init PROVE IInv
    OBVIOUS
  <1>1. TypeOK
    BY InitType
  <1>2. PortsConserved
    BY InitPool, ConstantFacts DEF Init, SipInit, PortsConserved, InPool
  <1>3. DeviceTable /\ \A c \in Procs, p \in PortKeys : ~Lent(c, p)
    BY DEF Init, SipInit, DeviceTable, Lent
  <1>4. /\ \A c \in Procs : toSip[c] = << >> /\ toLive[c] = << >>
        /\ \A c \in Procs, p \in Ports : hold[c][p] = "none"
        /\ connected = Procs
    BY DEF Init, SipInit
  <1>5. RightToStop
    BY <1>4 DEF RightToStop, HasMsg, OneMsg
  <1>6. CloseIsLast
    BY <1>4 DEF CloseIsLast, HasClose, CloseLast
  <1>7. QED
    BY <1>1, <1>2, <1>3, <1>5, <1>6 DEF IInv

(* Every step keeps IInv.                                                  *)
LEMMA NextIInv ==
    ASSUME ~EarlyRestart, IInv, [Next]_vars
    PROVE  IInv'
  <1>1. TypeOK'
    BY NextType DEF IInv
  <1>2. CASE SipServerStep /\ UNCHANGED clientVars
    <2>1. ASSUME NEW c \in Procs, IpcThread(c)
          PROVE  IInv'
      <3>1. CASE PlayInit(c)
        BY <1>1, <1>2, <3>1, PlayInitInv
      <3>2. CASE PlayInitNoPort(c) \/ RealPlayUnsent(c) \/ SendInvite(c) \/ StopPlayThrows(c)
        BY <1>1, <1>2, <3>2, QuietIpcInv
      <3>3. CASE StopPlay(c)
        BY <1>1, <1>2, <3>3, StopPlayInv
      <3>4. CASE StopPlayUnknown(c)
        BY <3>4, StopPlayUnknownInv
      <3>5. CASE StopPlayAll(c)
        BY <1>1, <1>2, <3>5, StopPlayAllInv
      <3>6. QED
        BY <2>1, <3>1, <3>2, <3>3, <3>4, <3>5 DEF IpcThread
    <2>2. QED
      BY <1>1, <1>2, <2>1, SignallingInv DEF SipServerStep
  <1>3. CASE Device /\ UNCHANGED clientVars
    BY <1>1, <1>3, SignallingInv
  <1>4. ASSUME NEW c \in Procs, Client(c)
        PROVE  IInv'
    <2>1. CASE ClientTakesId(c)
      BY <1>1, <2>1 DEF ClientTakesId, baseVars, IInv, DeviceTable, PortsConserved, InPool, RightToStop,
                        Lent, CloseIsLast
    <2>2. QED
      BY <1>1, <1>4, <2>1, ClientAsksInv, ClientReceivesInv, ClientStopsInv, ClientCrashesInv,
         ClientRestartsInv DEF Client
  <1>5. CASE UNCHANGED vars
    BY <1>5 DEF vars, baseVars, clientVars, IInv, TypeOK, SipTypeOK, DeviceTable, PortsConserved,
                InPool, RightToStop, Lent, CloseIsLast
  <1>6. QED
    BY <1>2, <1>3, <1>4, <1>5 DEF Next

(* IInv holds in every state, when no process is back too early.           *)
THEOREM InductiveInvariant ==
    ASSUME ~EarlyRestart
    PROVE  Spec => []IInv
  BY InitIInv, NextIInv, PTL DEF Spec

(* The pool and the call table of sip_server never disagree                *)
(* (SipServer.cpp:46): for any number of processes and ports and through   *)
(* any crashes, a configured port is in the pool exactly once or belongs   *)
(* to one call, never both, and nothing else is ever pooled.               *)
THEOREM PoolIsConserved ==
    ASSUME ~EarlyRestart
    PROVE  Spec => []PortsConserved
  <1>1. IInv => PortsConserved
    BY DEF IInv
  <1>2. QED
    BY InductiveInvariant, <1>1, PTL

(* Only the process a port is lent to can have it stopped: its stop_play,  *)
(* the init answer that grants it and the right to use it never exist side *)
(* by side, nor twice (ipcex.cpp Stop, SipServer.cpp StopPlay).            *)
THEOREM StopsAreRightful ==
    ASSUME ~EarlyRestart
    PROVE  Spec => []RightToStop
  <1>1. IInv => RightToStop
    BY DEF IInv
  <1>2. QED
    BY InductiveInvariant, <1>1, PTL

-----------------------------------------------------------------------------
(***************************************************************************)
(* The call tables of sip_server, for every set of processes and ports and *)
(* as long as a crashed process is not back too early: together they       *)
(* implement the abstract pool, no SipCall leaks, and no entry outlives    *)
(* its SipCall.                                                            *)
(***************************************************************************)

-----------------------------------------------------------------------------
(* What steps do to the device table: PlayInit lends a port, StopPlay takes*)
(* one back, StopPlayAll those of a process, and all others leave it alone.*)
Lends(c, p, k) ==
    /\ p \in Ports /\ k \in Calls /\ deviceCall[p] = NoCall /\ call[k].st = "new"
    /\ deviceCall' = [deviceCall EXCEPT ![p] = k]
    /\ call' = [call EXCEPT ![k] = [st |-> "live", proc |-> c, id |-> Head(toSip[c]).id, port |-> p,
                                    cid |-> NoCid, did |-> -1]]

TakesBack(c, p) ==
    /\ p \in Ports /\ Lent(c, p)
    /\ deviceCall' = [deviceCall EXCEPT ![p] = NoCall]
    /\ call' = Deleted(deviceCall[p])

TakesAllBack(c) ==
    /\ \A p \in PortKeys : deviceCall'[p] = IF Lent(c, p) THEN NoCall ELSE deviceCall[p]
    /\ \A k \in Calls : IF \E p \in PortKeys : Lent(c, p) /\ deviceCall[p] = k
                        THEN call'[k].st = "freed" ELSE call'[k] = call[k]

KeepsCall(k) == call'[k].st = call[k].st /\ call'[k].proc = call[k].proc /\ call'[k].port = call[k].port
LeavesTable == deviceCall' = deviceCall /\ \A k \in Calls : KeepsCall(k)

LEMMA PlayInitLends ==
    ASSUME IInv, NEW c \in Procs, PlayInit(c)
    PROVE  \E p \in Ports, k \in Calls : Lends(c, p, k)
  <1>1. ports \in Seq(PortKeys) /\ ports # << >>
    BY DEF PlayInit, IInv, TypeOK, SipTypeOK
  <1> PICK p : p = Head(ports)
    OBVIOUS
  <1>2. p \in Ports /\ deviceCall[p] = NoCall
    <2>1. p = ports[1] /\ 1 \in DOMAIN ports
      BY <1>1, TailFacts, LenProperties
    <2>2. QED
      BY <2>1 DEF IInv, PortsConserved, InPool
  <1>3. QED
    BY <1>2 DEF PlayInit, Lends, FreshCall

LEMMA StopPlayTakesBack ==
    ASSUME IInv, NEW c \in Procs, StopPlay(c)
    PROVE  \E p \in Ports : TakesBack(c, p)
  <1>1. Receive(c, "stop_play")
    BY DEF StopPlay
  <1>2. Head(toSip[c]).port \in Ports /\ Lent(c, Head(toSip[c]).port)
    BY <1>1, StopIsForOwnPort
  <1>3. QED
    BY <1>2 DEF StopPlay, TakesBack

LEMMA StopPlayAllTakesAllBack ==
    ASSUME IInv, NEW c \in Procs, StopPlayAll(c)
    PROVE  TakesAllBack(c)
  <1>1. \A p \in PortKeys : p \in PortsOf(c) <=> Lent(c, p)
    BY DEF PortsOf, Lent
  <1>2. \A p \in PortKeys : deviceCall'[p] = IF p \in PortsOf(c) THEN NoCall ELSE deviceCall[p]
    BY DEF StopPlayAll
  <1>3. PortsOf(c) \subseteq PortKeys
    BY DEF PortsOf
  <1>4. call \in [Calls -> SipCall]
    BY DEF IInv, TypeOK, SipTypeOK
  <1>5. call' = [k \in Calls |-> IF k \in { deviceCall[p] : p \in PortsOf(c) }
                                 THEN [call[k] EXCEPT !.st = "freed"] ELSE call[k]]
    BY DEF StopPlayAll
  <1>6. ASSUME NEW k \in Calls
        PROVE  IF \E p \in PortKeys : Lent(c, p) /\ deviceCall[p] = k
               THEN call'[k].st = "freed" ELSE call'[k] = call[k]
    <2>1. k \in { deviceCall[p] : p \in PortsOf(c) } <=> \E p \in PortKeys : Lent(c, p) /\ deviceCall[p] = k
      BY <1>1, <1>3
    <2>2. [call[k] EXCEPT !.st = "freed"].st = "freed"
      BY <1>4 DEF SipCall
    <2>3. QED
      BY <1>5, <2>1, <2>2
  <1>7. QED
    BY <1>1, <1>2, <1>6 DEF TakesAllBack

LEMMA OthersLeaveTable ==
    ASSUME IInv, [Next]_vars,
           \A c \in Procs : ~PlayInit(c) /\ ~StopPlay(c) /\ ~StopPlayAll(c)
    PROVE  LeavesTable
  <1>1. call \in [Calls -> SipCall]
    BY DEF IInv, TypeOK, SipTypeOK
  <1>2. CASE IndexCall
    BY <1>1, <1>2 DEF IndexCall, LeavesTable, KeepsCall, SipCall
  <1>3. CASE OnInviteOK \/ OnInviteFailed
    <2>1. PICK j, did : call' = [call EXCEPT ![j].did = did]
      BY <1>3 DEF OnInviteOK, OnInviteFailed, SetDialog
    <2>2. QED
      BY <1>1, <1>3, <2>1 DEF SipCall, OnInviteOK, OnInviteFailed, LeavesTable, KeepsCall
  <1>4. CASE UNCHANGED <<deviceCall, call>>
    BY <1>4 DEF LeavesTable, KeepsCall
  <1>5. ASSUME NEW c \in Procs, IpcThread(c) PROVE UNCHANGED <<deviceCall, call>>
    BY <1>5 DEF IpcThread, PlayInitNoPort, RealPlayUnsent, SendInvite, StopPlayUnknown, StopPlayThrows, sipVars
  <1>6. ASSUME SipThread, ~OnInviteOK, ~OnInviteFailed PROVE UNCHANGED <<deviceCall, call>>
    BY <1>6 DEF SipThread, DropEvent, FindByCallID, OnInviteOKThrows, OnPlayCb
  <1>7. ASSUME Device PROVE UNCHANGED <<deviceCall, call>>
    BY <1>7 DEF Device, DeviceAnswers, DeviceHangsUp
  <1>8. ASSUME NEW c \in Procs, Client(c) PROVE UNCHANGED <<deviceCall, call>>
    BY <1>8 DEF Client, ClientTakesId, ClientInit, ClientReceives, ClientPlays, ClientStops, ClientCrashes,
                ClientRestarts, sipVars, baseVars
  <1>9. CASE UNCHANGED vars
    BY <1>4, <1>9 DEF vars, baseVars
  <1>10. QED
    BY <1>2, <1>3, <1>4, <1>5, <1>6, <1>7, <1>8, <1>9 DEF Next, SipServerStep

LEMMA TableSteps ==
    ASSUME IInv, [Next]_vars
    PROVE  \/ \E c \in Procs, p \in Ports, k \in Calls : Lends(c, p, k)
           \/ \E c \in Procs, p \in Ports : TakesBack(c, p)
           \/ \E c \in Procs : TakesAllBack(c)
           \/ LeavesTable
  BY PlayInitLends, StopPlayTakesBack, StopPlayAllTakesAllBack, OthersLeaveTable

-----------------------------------------------------------------------------
(* The abstract pool.  Holder is what it sees of the table.                *)
LEMMA HolderAt ==
    /\ \A p \in Ports : Holder[p] = IF deviceCall[p] = NoCall THEN NoProc ELSE call[deviceCall[p]].proc
    /\ \A p \in Ports : Holder'[p] = IF deviceCall'[p] = NoCall THEN NoProc ELSE call'[deviceCall'[p]].proc
    /\ Holder = [p \in Ports |-> Holder[p]] /\ Holder' = [p \in Ports |-> Holder'[p]]
  BY DEF Holder

(* Two ports never share a call.                                           *)
LEMMA OwnCalls ==
    ASSUME IInv, NEW p \in PortKeys, deviceCall[p] # NoCall
    PROVE  /\ deviceCall[p] \in Calls /\ p \in Ports
           /\ call[deviceCall[p]].st = "live" /\ call[deviceCall[p]].port = p
           /\ \A q \in PortKeys : deviceCall[q] = deviceCall[p] => q = p
  BY DEF IInv, TypeOK, SipTypeOK, DeviceTable

LEMMA LendStep ==
    ASSUME IInv, NEW c \in Procs, NEW p \in Ports, NEW k \in Calls, Lends(c, p, k)
    PROVE  Pool!Lend(c, p)
  <1>1. /\ call \in [Calls -> SipCall] /\ deviceCall \in [PortKeys -> Calls \cup {NoCall}]
        /\ p \in PortKeys /\ Ports \subseteq PortKeys
    BY ConstantFacts DEF IInv, TypeOK, SipTypeOK
  <1>2. Holder[p] = NoProc
    BY HolderAt DEF Lends
  <1>3. Holder'[p] = c
    <2>1. deviceCall'[p] = k /\ call'[k].proc = c /\ k # NoCall
      BY <1>1, ConstantFacts DEF Lends
    <2>2. QED
      BY <2>1, HolderAt
  <1>4. \A q \in Ports \ {p} : Holder'[q] = Holder[q]
    <2>1. TAKE q \in Ports \ {p}
    <2>2. deviceCall'[q] = deviceCall[q]
      BY <1>1 DEF Lends
    <2>3. deviceCall[q] # NoCall => call'[deviceCall[q]] = call[deviceCall[q]]
      BY <1>1, OwnCalls DEF Lends
    <2>4. QED
      BY <2>2, <2>3, HolderAt
  <1>5. Holder' = [Holder EXCEPT ![p] = c]
    BY <1>3, <1>4, HolderAt
  <1>6. QED
    BY <1>2, <1>5 DEF Pool!Lend

LEMMA TakeBackStep ==
    ASSUME IInv, NEW c \in Procs, NEW p \in Ports, TakesBack(c, p)
    PROVE  Pool!TakeBack(c, p)
  <1>1. /\ call \in [Calls -> SipCall] /\ deviceCall \in [PortKeys -> Calls \cup {NoCall}]
        /\ p \in PortKeys /\ Ports \subseteq PortKeys
    BY ConstantFacts DEF IInv, TypeOK, SipTypeOK
  <1>2. Holder[p] = c
    BY HolderAt DEF TakesBack, Lent
  <1>3. Holder'[p] = NoProc
    <2>1. deviceCall'[p] = NoCall
      BY <1>1 DEF TakesBack
    <2>2. QED
      BY <2>1, HolderAt
  <1>4. \A q \in Ports \ {p} : Holder'[q] = Holder[q]
    <2>1. TAKE q \in Ports \ {p}
    <2>2. deviceCall'[q] = deviceCall[q]
      BY <1>1 DEF TakesBack
    <2>3. deviceCall[q] # NoCall => call'[deviceCall[q]] = call[deviceCall[q]]
      BY <1>1, OwnCalls DEF TakesBack, Deleted, Lent
    <2>4. QED
      BY <2>2, <2>3, HolderAt
  <1>5. Holder' = [Holder EXCEPT ![p] = NoProc]
    BY <1>3, <1>4, HolderAt
  <1>6. QED
    BY <1>2, <1>5 DEF Pool!TakeBack

LEMMA TakeAllBackStep ==
    ASSUME IInv, NEW c \in Procs, TakesAllBack(c)
    PROVE  Pool!TakeBackAll(c)
  <1>1. ASSUME NEW p \in Ports
        PROVE  Holder'[p] = IF Holder[p] = c THEN NoProc ELSE Holder[p]
    <2>1. p \in PortKeys /\ c # NoProc
      BY ConstantFacts
    <2>2. CASE Lent(c, p)
      <3>1. deviceCall'[p] = NoCall
        BY <2>1, <2>2 DEF TakesAllBack
      <3>2. QED
        BY <2>2, <3>1, HolderAt DEF Lent
    <2>3. CASE ~Lent(c, p)
      <3>1. deviceCall'[p] = deviceCall[p] /\ Holder[p] # c
        BY <2>1, <2>3, HolderAt DEF TakesAllBack, Lent
      <3>2. deviceCall[p] # NoCall => call'[deviceCall[p]] = call[deviceCall[p]]
        BY <2>1, <2>3, OwnCalls DEF TakesAllBack
      <3>3. QED
        BY <3>1, <3>2, HolderAt
    <2>4. QED
      BY <2>2, <2>3
  <1>2. QED
    BY <1>1, HolderAt DEF Pool!TakeBackAll

LEMMA StutterStep ==
    ASSUME IInv, LeavesTable
    PROVE  Holder' = Holder
  <1>1. ASSUME NEW p \in Ports PROVE Holder'[p] = Holder[p]
    <2>1. deviceCall[p] # NoCall => deviceCall[p] \in Calls
      BY ConstantFacts, OwnCalls
    <2>2. QED
      BY <2>1, HolderAt DEF LeavesTable, KeepsCall
  <1>2. QED
    BY <1>1, HolderAt

(* sip_server's pool, tables and handlers implement the abstract pool: no  *)
(* step gives a lent port to another process, or takes one from a process  *)
(* other than its holder.                                                  *)
THEOREM PoolIsImplemented ==
    ASSUME ~EarlyRestart
    PROVE  Spec => PoolRefined
  <1>1. Init => Pool!PoolInit
    <2> SUFFICES ASSUME Init PROVE Holder = [p \in Ports |-> NoProc]
      BY DEF Pool!PoolInit
    <2>1. \A p \in Ports : deviceCall[p] = NoCall
      BY ConstantFacts DEF Init, SipInit
    <2>2. QED
      BY <2>1, HolderAt
  <1>2. IInv /\ [Next]_vars => [Pool!PoolNext]_Holder
    BY TableSteps, LendStep, TakeBackStep, TakeAllBackStep, StutterStep DEF Pool!PoolNext
  <1>3. QED
    BY <1>1, <1>2, InductiveInvariant, PTL DEF Spec, PoolRefined, Pool!PoolSpec

-----------------------------------------------------------------------------
(* No call leaks.                                                          *)
LEMMA NoLeakStep ==
    ASSUME IInv, NoCallLeaks, [Next]_vars
    PROVE  NoCallLeaks'
  <1>1. /\ call \in [Calls -> SipCall] /\ deviceCall \in [PortKeys -> Calls \cup {NoCall}]
        /\ Ports \subseteq PortKeys
        /\ \A j \in Calls : call[j].port \in PortKeys
    BY ConstantFacts DEF IInv, TypeOK, SipTypeOK, SipCall
  <1> SUFFICES ASSUME NEW j \in Calls, call'[j].st = "live"
               PROVE  deviceCall'[call'[j].port] = j
    BY DEF NoCallLeaks
  <1>2. ASSUME NEW c \in Procs, NEW p \in Ports, NEW k \in Calls, Lends(c, p, k)
        PROVE  deviceCall'[call'[j].port] = j
    <2>1. CASE j = k
      BY <1>1, <1>2, <2>1 DEF Lends
    <2>2. CASE j # k
      <3>1. call'[j] = call[j] /\ deviceCall[call[j].port] = j
        BY <1>1, <1>2, <2>2 DEF Lends, NoCallLeaks
      <3>2. call[j].port # p
        BY <1>2, <3>1, ConstantFacts DEF Lends
      <3>3. QED
        BY <1>1, <1>2, <3>1, <3>2 DEF Lends
    <2>3. QED
      BY <2>1, <2>2
  <1>3. ASSUME NEW c \in Procs, NEW p \in Ports, TakesBack(c, p)
        PROVE  deviceCall'[call'[j].port] = j
    <2>1. deviceCall[p] \in Calls
      BY <1>1, <1>3 DEF TakesBack, Lent
    <2>2. j # deviceCall[p]
      <3>1. call'[deviceCall[p]].st = "freed"
        BY <1>1, <1>3, <2>1 DEF TakesBack, Deleted, SipCall
      <3>2. QED
        BY <3>1
    <2>3. call'[j] = call[j] /\ deviceCall[call[j].port] = j
      BY <1>1, <1>3, <2>2 DEF TakesBack, Deleted, NoCallLeaks
    <2>4. QED
      BY <1>1, <1>3, <2>2, <2>3 DEF TakesBack
  <1>4. ASSUME NEW c \in Procs, TakesAllBack(c)
        PROVE  deviceCall'[call'[j].port] = j
    <2>1. ~\E p \in PortKeys : Lent(c, p) /\ deviceCall[p] = j
      BY <1>4 DEF TakesAllBack
    <2>2. call'[j] = call[j]
      BY <1>4, <2>1 DEF TakesAllBack
    <2>3. deviceCall[call[j].port] = j
      BY <2>2 DEF NoCallLeaks
    <2>4. QED
      BY <1>1, <1>4, <2>1, <2>2, <2>3 DEF TakesAllBack
  <1>5. CASE LeavesTable
    BY <1>5 DEF LeavesTable, KeepsCall, NoCallLeaks
  <1>6. QED
    BY <1>2, <1>3, <1>4, <1>5, TableSteps

(* Through any stops, crashes and restarts every SipCall that has not been *)
(* deleted can still be reached by its port (SipInvite.cpp's               *)
(* m_mapDeviceCall), and so be ended.                                      *)
THEOREM CallsDoNotLeak ==
    ASSUME ~EarlyRestart
    PROVE  Spec => []NoCallLeaks
  <1>1. Init => NoCallLeaks
    BY DEF Init, SipInit, NoCallLeaks
  <1>2. IInv /\ NoCallLeaks /\ [Next]_vars => NoCallLeaks'
    BY NoLeakStep
  <1>3. QED
    BY <1>1, <1>2, InductiveInvariant, PTL DEF Spec

-----------------------------------------------------------------------------
(* The call-id index.  IndexCall files a call that may not be filed yet: a *)
(* second INVITE of the same call would leave the first id's entry behind. *)
(* So the right to play a port is in one place, like the right to stop it, *)
(* and only as long as its call has not been invited.                      *)
Uninvited(k) ==
    /\ call[k].cid = NoCid
    /\ \A d \in CidKeys : globalCall[d] # k
    /\ ~(ipc.at = "invited" /\ ipc.obj = k)

Fresh(c, p)    == Lent(c, p) /\ Uninvited(deviceCall[p])
Entitled(c, p) == hold[c][p] = "granted" \/ HasMsg(toLive[c], "live_init_answer", p)

(* No live_play of a port waits behind a stop_play of it.                  *)
PlayFirst(s, p) ==
    \A i, j \in DOMAIN s :
        (s[i].type = "stop_play" /\ s[i].port = p /\ s[j].type = "live_play" /\ s[j].port = p) => j < i

PlaysOnceAt(c, p) ==
    /\ Entitled(c, p) => Fresh(c, p) /\ ~HasMsg(toSip[c], "live_play", p)
    /\ HasMsg(toSip[c], "live_play", p) => Fresh(c, p)
    /\ OneMsg(toSip[c], "live_play", p) /\ PlayFirst(toSip[c], p)
PlaysOnce == \A c \in Procs, p \in Ports : PlaysOnceAt(c, p)

InvitedCall ==
    ipc.at = "invited" => /\ ipc.obj \in Calls /\ call[ipc.obj].st = "live"
                          /\ \A d \in CidKeys : globalCall[d] # ipc.obj
GlobalTable ==
    \A d \in CidKeys : globalCall[d] # NoCall => call[globalCall[d]].st = "live" /\ call[globalCall[d]].cid = d

IndexInv == IInv /\ GlobalTable /\ InvitedCall /\ PlaysOnce

-----------------------------------------------------------------------------
(* Messages.                                                               *)
LEMMA TailPlayFirst ==
    ASSUME NEW s \in Seq(Msg), s # << >>, NEW p, PlayFirst(s, p)
    PROVE  /\ PlayFirst(Tail(s), p)
           /\ Head(s).type = "stop_play" /\ Head(s).port = p => ~HasMsg(s, "live_play", p)
  <1> DEFINE n == Len(s)
  <1>1. n \in Nat \ {0} /\ Head(s) = s[1] /\ Tail(s) \in Seq(Msg) /\ Len(Tail(s)) = n - 1
        /\ \A i \in 1..n - 1 : Tail(s)[i] = s[i + 1]
    BY TailFacts
  <1>2. DOMAIN s = 1..n /\ DOMAIN Tail(s) = 1..n - 1
    BY <1>1, LenProperties
  <1> HIDE DEF n
  <1>3. \A i, j \in 1..n - 1 : i + 1 \in 1..n /\ (j + 1 < i + 1 => j < i)
    BY <1>1
  <1>4. \A j \in 1..n : ~(j < 1) /\ 1 \in 1..n
    BY <1>1
  <1>5. PlayFirst(Tail(s), p)
    BY <1>1, <1>2, <1>3 DEF PlayFirst
  <1>6. Head(s).type = "stop_play" /\ Head(s).port = p => ~HasMsg(s, "live_play", p)
    BY <1>1, <1>2, <1>4 DEF PlayFirst, HasMsg
  <1>7. QED
    BY <1>5, <1>6

LEMMA AppendPlayFirst ==
    ASSUME NEW s \in Seq(Msg), NEW m \in Msg, NEW p, PlayFirst(s, p),
           ~(m.type = "live_play" /\ m.port = p) \/ ~HasMsg(s, "stop_play", p)
    PROVE  PlayFirst(Append(s, m), p)
  <1> DEFINE n == Len(s)
             t == Append(s, m)
  <1>1. n \in Nat /\ DOMAIN s = 1..n
    BY LenProperties
  <1>2. t \in Seq(Msg) /\ Len(t) = n + 1 /\ (\A i \in 1..n : t[i] = s[i]) /\ t[n + 1] = m
    BY AppendProperties
  <1>3. DOMAIN t = 1..n + 1
    BY <1>2, LenProperties
  <1> HIDE DEF n, t
  <1>4. \A i \in 1..n + 1 : i \in 1..n \/ i = n + 1
    BY <1>1
  <1>5. \A i \in 1..n : i < n + 1
    BY <1>1
  <1>6. ASSUME NEW i \in 1..n + 1, NEW j \in 1..n + 1,
               t[i].type = "stop_play", t[i].port = p, t[j].type = "live_play", t[j].port = p
        PROVE  j < i
    <2>1. CASE i \in 1..n /\ j \in 1..n
      BY <1>1, <1>2, <1>6, <2>1 DEF PlayFirst
    <2>2. CASE i = n + 1
      <3>1. j # i
        BY <1>6
      <3>2. QED
        BY <1>4, <1>5, <2>2, <3>1
    <2>3. CASE i \in 1..n /\ j = n + 1
      BY <1>1, <1>2, <1>6, <2>3 DEF HasMsg
    <2>4. QED
      BY <1>4, <2>1, <2>2, <2>3
  <1>7. QED
    BY <1>3, <1>6 DEF PlayFirst, t

(* The list u tells of no play of p that the list s did not tell of.       *)
NoNewPlay(u, s, p) ==
    /\ NoNewMsg(u, s, "live_play", p)
    /\ PlayFirst(s, p) => PlayFirst(u, p)

LEMMA SamePlays == \A s, p : NoNewPlay(s, s, p)
  BY DEF NoNewPlay, NoNewMsg

LEMMA ReceiveKeepsPlays ==
    ASSUME toSip \in [Procs -> Seq(Msg)], NEW c \in Procs, NEW type, Receive(c, type)
    PROVE  /\ \A d \in Procs : \A p : NoNewPlay(toSip'[d], toSip[d], p)
           /\ \A p : Head(toSip[c]).port = p /\ type = "live_play" /\ OneMsg(toSip[c], "live_play", p)
                        => HasMsg(toSip[c], "live_play", p) /\ ~HasMsg(toSip'[c], "live_play", p)
           /\ \A p : Head(toSip[c]).port = p /\ type = "stop_play" /\ PlayFirst(toSip[c], p)
                        => ~HasMsg(toSip'[c], "live_play", p)
  <1>1. /\ toSip[c] \in Seq(Msg) /\ toSip[c] # << >> /\ toSip'[c] = Tail(toSip[c])
        /\ Head(toSip[c]).type = type /\ \A d \in Procs \ {c} : toSip'[d] = toSip[d]
    BY ReceiveFacts
  <1>2. \A p : NoNewPlay(toSip'[c], toSip[c], p)
    BY <1>1, TailMsg, TailPlayFirst DEF NoNewPlay, NoNewMsg
  <1>3. \A d \in Procs : \A p : NoNewPlay(toSip'[d], toSip[d], p)
    BY <1>1, <1>2, SamePlays
  <1>4. \A p : Head(toSip[c]).port = p /\ type = "live_play" /\ OneMsg(toSip[c], "live_play", p)
                 => HasMsg(toSip[c], "live_play", p) /\ ~HasMsg(toSip'[c], "live_play", p)
    BY <1>1, TailMsg
  <1>5. \A p : Head(toSip[c]).port = p /\ type = "stop_play" /\ PlayFirst(toSip[c], p)
                 => ~HasMsg(toSip'[c], "live_play", p)
    BY <1>1, TailMsg, TailPlayFirst
  <1>6. QED
    BY <1>3, <1>4, <1>5

(* A step that tells of no new play, entitles nobody and leaves what is    *)
(* fresh so.                                                               *)
LEMMA PlaysFrame ==
    ASSUME NEW c \in Procs, NEW p \in Ports, PlaysOnceAt(c, p),
           NoNewPlay(toSip'[c], toSip[c], p),
           Entitled(c, p)' => Entitled(c, p),
           Fresh(c, p) /\ (Entitled(c, p)' \/ HasMsg(toSip'[c], "live_play", p)) => Fresh(c, p)'
    PROVE  PlaysOnceAt(c, p)'
  BY DEF PlaysOnceAt, NoNewPlay, NoNewMsg

-----------------------------------------------------------------------------
(* Steps that file, lend and end no call and entitle nobody to play.       *)
SameCall(k) == KeepsCall(k) /\ call'[k].cid = call[k].cid

LEMMA QuietIndex ==
    ASSUME IndexInv, deviceCall' = deviceCall, globalCall' = globalCall,
           ipc' = ipc \/ ipc'.at = "dead",
           \A k \in Calls : SameCall(k),
           \A d \in Procs, p \in Ports :
              NoNewPlay(toSip'[d], toSip[d], p) /\ (Entitled(d, p)' => Entitled(d, p))
    PROVE  GlobalTable' /\ InvitedCall' /\ PlaysOnce'
  <1> USE DEF SameCall, KeepsCall
  <1>1. /\ \A d \in CidKeys : globalCall[d] # NoCall => globalCall[d] \in Calls
        /\ Ports \subseteq PortKeys
    BY ConstantFacts DEF IndexInv, IInv, TypeOK, SipTypeOK
  <1>2. GlobalTable'
    BY <1>1 DEF IndexInv, GlobalTable
  <1>3. InvitedCall'
    BY DEF IndexInv, InvitedCall
  <1>4. ASSUME NEW d \in Procs, NEW p \in Ports, Fresh(d, p) PROVE Fresh(d, p)'
    <2>1. deviceCall[p] \in Calls
      BY <1>1, <1>4, OwnCalls DEF IndexInv, Fresh, Lent
    <2>2. QED
      BY <1>4, <2>1 DEF Fresh, Lent, Uninvited
  <1>5. PlaysOnce'
    BY <1>4, PlaysFrame DEF IndexInv, PlaysOnce
  <1>6. QED
    BY <1>2, <1>3, <1>5

LEMMA QuietIpcIndex ==
    ASSUME IndexInv, NEW c \in Procs, UNCHANGED clientVars,
           \/ PlayInitNoPort(c) \/ RealPlayUnsent(c) \/ StopPlayUnknown(c) \/ StopPlayThrows(c)
    PROVE  GlobalTable' /\ InvitedCall' /\ PlaysOnce'
  <1>1. toSip \in [Procs -> Seq(Msg)] /\ toLive \in [Procs -> Seq(Msg)]
    BY DEF IndexInv, IInv, TypeOK, SipTypeOK
  <1>2. /\ deviceCall' = deviceCall /\ globalCall' = globalCall /\ call' = call
        /\ ipc' = ipc \/ ipc'.at = "dead"
    BY DEF PlayInitNoPort, RealPlayUnsent, StopPlayUnknown, StopPlayThrows, sipVars, IdleIpc
  <1>3. \A d \in Procs, p \in Ports : NoNewPlay(toSip'[d], toSip[d], p)
    BY <1>1, ReceiveKeepsPlays DEF PlayInitNoPort, RealPlayUnsent, StopPlayUnknown, StopPlayThrows
  <1>4. \A d \in Procs, p \in Ports : NoNewMsg(toLive'[d], toLive[d], "live_init_answer", p)
    <2>1. CASE UNCHANGED toLive
      BY <2>1, NoNews
    <2>2. CASE PlayInitNoPort(c)
      <3> DEFINE id == Head(toSip[c]).id
                 msgs == << InitAnswer(id, NoPort, 0), InitAnswer(id, NullPort, -1) >>
      <3>1. Receive(c, "live_init") /\ Relay(c, msgs)
        BY <2>2 DEF PlayInitNoPort
      <3>2. id \in ReqIds
        BY <1>1, <3>1, ReceiveFacts
      <3>3. msgs \in Seq(Msg)
        BY <3>2, ConstantFacts, MessageTypes
      <3>4. \A p \in Ports : ~HasMsg(msgs, "live_init_answer", p)
        BY ConstantFacts DEF HasMsg, InitAnswer
      <3> HIDE DEF msgs
      <3>5. QED
        BY <1>1, <3>1, <3>3, <3>4, RelayKeeps
    <2>3. QED
      BY <2>1, <2>2 DEF RealPlayUnsent, StopPlayUnknown, StopPlayThrows
  <1>5. \A d \in Procs, p \in Ports : Entitled(d, p)' => Entitled(d, p)
    BY <1>4 DEF Entitled, NoNewMsg, clientVars
  <1>6. QED
    BY <1>2, <1>3, <1>5, QuietIndex DEF SameCall, KeepsCall

LEMMA SignallingIndex ==
    ASSUME IndexInv, UNCHANGED clientVars, SipThread \/ Device
    PROVE  GlobalTable' /\ InvitedCall' /\ PlaysOnce'
  <1>1. /\ call \in [Calls -> SipCall] /\ toLive \in [Procs -> Seq(Msg)]
        /\ (sip.at = "acked" => sip.obj \in Calls)
    BY DEF IndexInv, IInv, TypeOK, SipTypeOK
  <1>2. /\ deviceCall' = deviceCall /\ globalCall' = globalCall /\ toSip' = toSip
        /\ ipc' = ipc \/ ipc'.at = "dead"
    BY DEF SipThread, Device, DropEvent, FindByCallID, OnInviteOK, OnInviteOKThrows, OnPlayCb, OnInviteFailed,
           DeviceAnswers, DeviceHangsUp, ipcVars, IdleIpc
  <1>3. \A k \in Calls : SameCall(k)
    <2>1. CASE OnInviteOK \/ OnInviteFailed
      <3>1. PICK j, did : call' = [call EXCEPT ![j].did = did]
        BY <2>1 DEF OnInviteOK, OnInviteFailed, SetDialog
      <3>2. QED
        BY <1>1, <3>1 DEF SipCall, SameCall, KeepsCall
    <2>2. CASE call' = call
      BY <2>2 DEF SameCall, KeepsCall
    <2>3. QED
      BY <2>1, <2>2 DEF SipThread, Device, DropEvent, FindByCallID, OnInviteOKThrows, OnPlayCb,
                        DeviceAnswers, DeviceHangsUp
  <1>4. \A d \in Procs, p \in Ports : NoNewMsg(toLive'[d], toLive[d], "live_init_answer", p)
    <2>1. CASE UNCHANGED toLive
      BY <2>1, NoNews
    <2>2. CASE OnPlayCb /\ ~UNCHANGED toLive
      <3>1. PICK j \in Touched(sip.obj) :
               Relay(call[j].proc, << PlayAnswer(call[j].id, call[j].port, 0) >>)
        BY <2>2 DEF OnPlayCb
      <3> DEFINE m == PlayAnswer(call[j].id, call[j].port, 0)
                 msgs == << m >>
      <3>2. j \in Calls
        BY <1>1, <2>2 DEF OnPlayCb, Touched
      <3>3. m \in Msg /\ m.type = "live_play_answer"
        BY <1>1, <3>2, MessageTypes DEF SipCall, PlayAnswer
      <3>4. msgs \in Seq(Msg) /\ \A p : ~HasMsg(msgs, "live_init_answer", p)
        BY <3>3, SingleMsg
      <3> HIDE DEF msgs
      <3>5. Relay(call[j].proc, msgs)
        BY <3>1 DEF msgs
      <3>6. QED
        BY <1>1, <3>4, <3>5, RelayKeeps
    <2>3. QED
      BY <2>1, <2>2
         DEF SipThread, Device, DropEvent, FindByCallID, OnInviteOK, OnInviteOKThrows, OnInviteFailed,
             DeviceAnswers, DeviceHangsUp, ipcVars
  <1>5. \A d \in Procs, p \in Ports : Entitled(d, p)' => Entitled(d, p)
    BY <1>4 DEF Entitled, NoNewMsg, clientVars
  <1>6. QED
    BY <1>2, <1>3, <1>5, SamePlays, QuietIndex

(* Sending anything but a live_play.                                       *)
LEMMA SendPlays ==
    ASSUME toSip \in [Procs -> Seq(Msg)], NEW c \in Procs, NEW m \in Msg, SendToSip(c, m)
    PROVE  /\ toSip'[c] = Append(toSip[c], m) /\ \A d \in Procs \ {c} : toSip'[d] = toSip[d]
           /\ \A d \in Procs : \A p : ~(m.type = "live_play" /\ m.port = p) => NoNewPlay(toSip'[d], toSip[d], p)
  <1>1. toSip'[c] = Append(toSip[c], m) /\ \A d \in Procs \ {c} : toSip'[d] = toSip[d]
    BY DEF SendToSip
  <1>2. \A p : ~(m.type = "live_play" /\ m.port = p) => NoNewPlay(toSip'[c], toSip[c], p)
    BY <1>1, AppendMsg, AppendPlayFirst DEF NoNewPlay, NoNewMsg
  <1>3. QED
    BY <1>1, <1>2, SamePlays

LEMMA QuietClientIndex ==
    ASSUME IndexInv, NEW c \in Procs,
           \/ ClientTakesId(c) \/ ClientInit(c) \/ ClientReceives(c) \/ ClientCrashes(c) \/ ClientRestarts(c)
           \/ \E p \in Ports : ClientStops(c, p)
    PROVE  GlobalTable' /\ InvitedCall' /\ PlaysOnce'
  <1>1. /\ toSip \in [Procs -> Seq(Msg)] /\ toLive \in [Procs -> Seq(Msg)]
        /\ hold \in [Procs -> [Ports -> HoldStates]] /\ nextReq \in [Procs -> 0..MaxReqs]
    BY DEF IndexInv, IInv, TypeOK, SipTypeOK
  <1>2. deviceCall' = deviceCall /\ globalCall' = globalCall /\ call' = call /\ ipc' = ipc
    BY DEF ClientTakesId, ClientInit, ClientReceives, ClientCrashes, ClientRestarts, ClientStops, sipVars, baseVars
  <1>3. \A d \in Procs, p \in Ports : NoNewPlay(toSip'[d], toSip[d], p)
    <2>1. CASE ClientInit(c)
      <3>1. PICK m \in Msg : m.type = "live_init" /\ SendToSip(c, m)
        BY <2>1, ClientInitSends
      <3>2. QED
        BY <1>1, <3>1, SendPlays
    <2>2. CASE ClientTakesId(c) \/ ClientReceives(c) \/ ClientRestarts(c)
      BY <2>2, SamePlays DEF ClientTakesId, ClientReceives, ClientRestarts, baseVars
    <2>3. CASE ClientCrashes(c)
      <3>1. SendToSip(c, CloseMsg)
        BY <2>3 DEF ClientCrashes, Disconnect, SendToSip
      <3>2. CloseMsg \in Msg /\ CloseMsg.type # "live_play"
        BY MessageTypes DEF CloseMsg
      <3>3. QED
        BY <1>1, <3>1, <3>2, SendPlays
    <2>4. ASSUME NEW p \in Ports, ClientStops(c, p)
          PROVE  \A d \in Procs, q \in Ports : NoNewPlay(toSip'[d], toSip[d], q)
      <3>1. StopPlayMsg(p) \in Msg /\ StopPlayMsg(p).type # "live_play"
        BY ConstantFacts, MessageTypes DEF StopPlayMsg
      <3>2. QED
        BY <1>1, <2>4, <3>1, SendPlays DEF ClientStops
    <2>5. QED
      BY <2>1, <2>2, <2>3, <2>4
  <1>4. ASSUME NEW d \in Procs, NEW p \in Ports, Entitled(d, p)' PROVE Entitled(d, p)
    <2>1. CASE ClientTakesId(c) \/ ClientInit(c) \/ ClientRestarts(c)
      BY <1>4, <2>1 DEF ClientTakesId, ClientInit, ClientRestarts, Entitled, baseVars
    <2>2. CASE ClientCrashes(c)
      <3>1. /\ toLive'[c] = << >> /\ hold'[c][p] = "none"
            /\ d # c => toLive'[d] = toLive[d] /\ hold'[d] = hold[d]
        BY <1>1, <2>2 DEF ClientCrashes, Disconnect
      <3>2. ~HasMsg(<< >>, "live_init_answer", p)
        BY DEF HasMsg
      <3>3. QED
        BY <1>4, <3>1, <3>2 DEF Entitled
    <2>3. ASSUME NEW q \in Ports, ClientStops(c, q) PROVE Entitled(d, p)
      <3>1. toLive' = toLive /\ hold' = [hold EXCEPT ![c][q] = "none"]
        BY <2>3 DEF ClientStops, AfterStop
      <3>2. hold'[d][p] = "granted" => hold[d][p] = "granted"
        BY <1>1, <3>1
      <3>3. QED
        BY <1>4, <3>1, <3>2 DEF Entitled
    <2>4. CASE ClientReceives(c)
      <3> DEFINE m == Head(toLive[c])
      <3>1. /\ toLive[c] \in Seq(Msg) /\ toLive[c] # << >> /\ toLive'[c] = Tail(toLive[c])
            /\ \A e \in Procs \ {c} : toLive'[e] = toLive[e]
        BY <1>1, <2>4 DEF ClientReceives
      <3>2. HasMsg(toLive'[d], "live_init_answer", p) => HasMsg(toLive[d], "live_init_answer", p)
        BY <3>1, TailMsg
      <3>3. m.type = "live_init_answer" => HasMsg(toLive[c], "live_init_answer", m.port)
        BY <3>1, TailMsg
      <3>4. \/ hold' = hold
            \/ m.type = "live_init_answer" /\ m.port \in Ports /\ hold' = [hold EXCEPT ![c][m.port] = "granted"]
            \/ m.port \in Ports /\ hold' = [hold EXCEPT ![c][m.port] = "playing"]
        BY <2>4 DEF ClientReceives
      <3> HIDE DEF m
      <3>5. hold'[d][p] = "granted" =>
              hold[d][p] = "granted" \/ (m.type = "live_init_answer" /\ d = c /\ p = m.port)
        BY <1>1, <3>4
      <3>6. QED
        BY <1>4, <3>2, <3>3, <3>5 DEF Entitled
    <2>5. QED
      BY <2>1, <2>2, <2>3, <2>4
  <1>5. QED
    BY <1>2, <1>3, <1>4, QuietIndex DEF SameCall, KeepsCall

-----------------------------------------------------------------------------
(* Steps that do.                                                          *)

(* The process asks for the camera of a port it has been granted.          *)
LEMMA ClientPlaysIndex ==
    ASSUME IndexInv, NEW c \in Procs, NEW p \in Ports, ClientPlays(c, p)
    PROVE  GlobalTable' /\ InvitedCall' /\ PlaysOnce'
  <1>1. /\ toSip \in [Procs -> Seq(Msg)] /\ hold \in [Procs -> [Ports -> HoldStates]]
        /\ toSip[c] \in Seq(Msg) /\ p \in PortKeys
    BY ConstantFacts DEF IndexInv, IInv, TypeOK, SipTypeOK
  <1>2. /\ UNCHANGED <<deviceCall, globalCall, call, ipc, toLive>>
        /\ hold[c][p] = "granted" /\ hold' = [hold EXCEPT ![c][p] = "asked"]
        /\ SendToSip(c, LivePlay(0, p))
    BY DEF ClientPlays, sipVars
  <1>3. LivePlay(0, p) \in Msg /\ LivePlay(0, p).type = "live_play" /\ LivePlay(0, p).port = p
    BY <1>1, ConstantFacts, MessageTypes DEF LivePlay
  <1>4. GlobalTable' /\ InvitedCall' /\ \A d \in Procs, q \in Ports : Fresh(d, q)' <=> Fresh(d, q)
    BY <1>2 DEF IndexInv, GlobalTable, InvitedCall, Fresh, Lent, Uninvited
  <1>5. /\ Fresh(c, p) /\ ~HasMsg(toSip[c], "live_play", p)
        /\ ~HasMsg(toSip[c], "stop_play", p) /\ ~HasMsg(toLive[c], "live_init_answer", p)
    BY <1>1, <1>2, RightToStopAt DEF IndexInv, PlaysOnce, PlaysOnceAt, Entitled
  <1>6. PlaysOnceAt(c, p)'
    <2>1. toSip'[c] = Append(toSip[c], LivePlay(0, p))
      BY <1>1, <1>2, <1>3, SendPlays
    <2>2. OneMsg(toSip'[c], "live_play", p)
      BY <1>1, <1>3, <1>5, <2>1, AppendMsg
    <2>3. PlayFirst(toSip'[c], p)
      BY <1>1, <1>3, <1>5, <2>1, AppendPlayFirst DEF IndexInv, PlaysOnce, PlaysOnceAt
    <2>4. hold'[c][p] # "granted"
      BY <1>1, <1>2
    <2>5. ~Entitled(c, p)'
      BY <1>2, <1>5, <2>4 DEF Entitled
    <2>6. QED
      BY <1>4, <1>5, <2>2, <2>3, <2>5 DEF PlaysOnceAt
  <1>7. ASSUME NEW d \in Procs, NEW q \in Ports, d # c \/ q # p PROVE PlaysOnceAt(d, q)'
    <2>1. NoNewPlay(toSip'[d], toSip[d], q)
      BY <1>1, <1>2, <1>3, <1>7, SendPlays, SamePlays
    <2>2. Entitled(d, q)' => Entitled(d, q)
      BY <1>1, <1>2, <1>7 DEF Entitled
    <2>3. QED
      BY <1>4, <2>1, <2>2, PlaysFrame DEF IndexInv, PlaysOnce
  <1>8. QED
    BY <1>4, <1>6, <1>7 DEF PlaysOnce

(* A port that is lent again has a call that was never invited.            *)
LEMMA PlayInitIndex ==
    ASSUME IndexInv, NEW c \in Procs, PlayInit(c), UNCHANGED clientVars
    PROVE  GlobalTable' /\ InvitedCall' /\ PlaysOnce'
  <1>1. /\ toSip \in [Procs -> Seq(Msg)] /\ toLive \in [Procs -> Seq(Msg)]
        /\ call \in [Calls -> SipCall] /\ deviceCall \in [PortKeys -> Calls \cup {NoCall}]
        /\ globalCall \in [CidKeys -> Calls \cup {NoCall}] /\ Ports \subseteq PortKeys
    BY ConstantFacts DEF IndexInv, IInv, TypeOK, SipTypeOK
  <1> DEFINE id == Head(toSip[c]).id
  <1>2. PICK p \in Ports, k \in Calls :
           Lends(c, p, k) /\ Relay(c, << InitAnswer(id, p, 0) >>)
    <2>1. PICK p : p = Head(ports)
      OBVIOUS
    <2>2. PICK q \in Ports, k \in Calls : Lends(c, q, k)
      BY PlayInitLends DEF IndexInv
    <2>3. p \in Ports /\ deviceCall[p] = NoCall
      <3>1. ports \in Seq(PortKeys) /\ ports # << >>
        BY DEF PlayInit, IndexInv, IInv, TypeOK, SipTypeOK
      <3>2. p = ports[1] /\ 1 \in DOMAIN ports
        BY <2>1, <3>1, TailFacts, LenProperties
      <3>3. QED
        BY <3>2 DEF IndexInv, IInv, PortsConserved, InPool
    <2>4. \E j \in Calls : Lends(c, p, j)
      BY <2>1, <2>3 DEF PlayInit, Lends, FreshCall
    <2>5. Relay(c, << InitAnswer(id, p, 0) >>)
      BY <2>1 DEF PlayInit
    <2>6. QED
      BY <2>3, <2>4, <2>5
  <1>3. Receive(c, "live_init") /\ globalCall' = globalCall /\ ipc' = ipc /\ hold' = hold /\ ipc.at = "idle"
    BY DEF PlayInit, Receive, clientVars
  <1>4. \A d \in Procs : \A q : NoNewPlay(toSip'[d], toSip[d], q)
    BY <1>1, <1>3, ReceiveKeepsPlays
  <1>5. \A j \in Calls : call[j].st # "new" => call'[j] = call[j]
    BY <1>1, <1>2 DEF Lends
  <1>6. call[k].st = "new" /\ \A d \in CidKeys : globalCall[d] # k
    BY <1>2, ConstantFacts DEF Lends, IndexInv, GlobalTable
  <1>7. GlobalTable'
    BY <1>1, <1>3, <1>5 DEF IndexInv, GlobalTable
  <1>8. InvitedCall'
    BY <1>3 DEF InvitedCall
  <1>9. Fresh(c, p)'
    <2>1. deviceCall'[p] = k /\ call'[k].proc = c /\ call'[k].cid = NoCid /\ k # NoCall
      BY <1>1, <1>2, ConstantFacts DEF Lends
    <2>2. QED
      BY <1>3, <1>6, <2>1 DEF Fresh, Lent, Uninvited
  <1>10. \A d \in Procs : ~Fresh(d, p)
    BY <1>2 DEF Lends, Fresh, Lent
  <1>11. PlaysOnceAt(c, p)'
    <2>1. OneMsg(toSip[c], "live_play", p) /\ PlayFirst(toSip[c], p) /\ ~HasMsg(toSip[c], "live_play", p)
      BY <1>10 DEF IndexInv, PlaysOnce, PlaysOnceAt
    <2>2. OneMsg(toSip'[c], "live_play", p) /\ PlayFirst(toSip'[c], p) /\ ~HasMsg(toSip'[c], "live_play", p)
      BY <1>4, <2>1 DEF NoNewPlay, NoNewMsg
    <2>3. QED
      BY <1>9, <2>2 DEF PlaysOnceAt
  <1>12. id \in ReqIds
    BY <1>1, <1>3, ReceiveFacts
  <1> DEFINE m == InitAnswer(id, p, 0)
             msgs == << m >>
  <1>13. m \in Msg /\ m.port = p
    BY <1>1, <1>12, MessageTypes DEF InitAnswer
  <1> HIDE DEF m
  <1>14. /\ msgs \in Seq(Msg) /\ \A q : q # p => ~HasMsg(msgs, "live_init_answer", q)
         /\ Relay(c, msgs)
    BY <1>2, <1>13, SingleMsg DEF m
  <1> HIDE DEF msgs
  <1>15. /\ \A d \in Procs \ {c} : toLive'[d] = toLive[d]
         /\ \A d \in Procs, q \in Ports : q # p => NoNewMsg(toLive'[d], toLive[d], "live_init_answer", q)
    <2>1. /\ \A d \in Procs : d # c \/ d \notin connected => toLive'[d] = toLive[d]
          /\ \A q : ~HasMsg(msgs, "live_init_answer", q) =>
                \A d \in Procs : NoNewMsg(toLive'[d], toLive[d], "live_init_answer", q)
      BY <1>1, <1>14, RelayKeeps
    <2>2. QED
      BY <1>14, <2>1
  <1>16. ASSUME NEW d \in Procs, NEW q \in Ports, d # c \/ q # p PROVE PlaysOnceAt(d, q)'
    <2>1. Entitled(d, q)' => Entitled(d, q)
      BY <1>3, <1>15, <1>16 DEF Entitled, NoNewMsg
    <2>2. Fresh(d, q) => Fresh(d, q)'
      <3>1. SUFFICES ASSUME Fresh(d, q) PROVE Fresh(d, q)'
        OBVIOUS
      <3>2. q # p
        BY <1>10, <3>1
      <3>3. deviceCall'[q] = deviceCall[q]
        BY <1>1, <1>2, <3>2 DEF Lends
      <3>4. deviceCall[q] \in Calls /\ call'[deviceCall[q]] = call[deviceCall[q]]
        BY <1>1, <1>5, <3>1, OwnCalls DEF Fresh, Lent, IndexInv
      <3>5. QED
        BY <1>3, <3>1, <3>3, <3>4 DEF Fresh, Lent, Uninvited
    <2>3. QED
      BY <1>4, <2>1, <2>2, PlaysFrame DEF IndexInv, PlaysOnce
  <1>17. QED
    BY <1>7, <1>8, <1>11, <1>16 DEF PlaysOnce

(* The INVITE uses the right to play up.                                   *)
LEMMA SendInviteIndex ==
    ASSUME IndexInv, NEW c \in Procs, SendInvite(c), UNCHANGED clientVars
    PROVE  GlobalTable' /\ InvitedCall' /\ PlaysOnce'
  <1> PICK p : p = Head(toSip[c]).port
    OBVIOUS
  <1> DEFINE k == deviceCall[p]
  <1>1. toSip \in [Procs -> Seq(Msg)] /\ Ports \subseteq PortKeys
    BY ConstantFacts DEF IndexInv, IInv, TypeOK, SipTypeOK
  <1>2. /\ Receive(c, "live_play") /\ k # NoCall
        /\ UNCHANGED <<deviceCall, globalCall, call, toLive>> /\ hold' = hold
        /\ ipc'.obj = k /\ ipc.at = "idle"
    BY DEF SendInvite, Receive, clientVars
  <1>3. p \in PortKeys
    BY <1>1, <1>2, ReceiveFacts
  <1>4. p \in Ports /\ k \in Calls /\ call[k].st = "live" /\ \A q \in PortKeys : deviceCall[q] = k => q = p
    BY <1>2, <1>3, OwnCalls DEF IndexInv
  <1>5. /\ HasMsg(toSip[c], "live_play", p) /\ ~HasMsg(toSip'[c], "live_play", p)
        /\ \A d \in Procs : \A q : NoNewPlay(toSip'[d], toSip[d], q)
    <2>1. OneMsg(toSip[c], "live_play", p)
      BY <1>4 DEF IndexInv, PlaysOnce, PlaysOnceAt
    <2>2. QED
      BY <1>1, <1>2, <2>1, ReceiveKeepsPlays
  <1>6. Fresh(c, p) /\ ~Entitled(c, p)
    BY <1>4, <1>5 DEF IndexInv, PlaysOnce, PlaysOnceAt
  <1>7. GlobalTable' /\ InvitedCall'
    BY <1>2, <1>4, <1>6 DEF IndexInv, GlobalTable, InvitedCall, Fresh, Uninvited
  <1>8. ASSUME NEW d \in Procs, NEW q \in Ports PROVE PlaysOnceAt(d, q)'
    <2>1. Entitled(d, q)' <=> Entitled(d, q)
      BY <1>2 DEF Entitled
    <2>2. ASSUME Fresh(d, q), Entitled(d, q)' \/ HasMsg(toSip'[d], "live_play", q) PROVE Fresh(d, q)'
      <3>1. deviceCall[q] # k
        <4>1. CASE d = c
          BY <1>1, <1>4, <1>5, <1>6, <2>1, <2>2, <4>1
        <4>2. CASE d # c
          BY <1>1, <1>4, <1>6, <2>2, <4>2 DEF Fresh, Lent
        <4>3. QED
          BY <4>1, <4>2
      <3>2. QED
        BY <1>2, <2>2, <3>1 DEF Fresh, Lent, Uninvited
    <2>3. QED
      BY <1>5, <2>1, <2>2, PlaysFrame DEF IndexInv, PlaysOnce
  <1>9. QED
    BY <1>7, <1>8 DEF PlaysOnce

(* The call is filed under its id.                                         *)
LEMMA IndexCallIndex ==
    ASSUME IndexInv, IndexCall, UNCHANGED clientVars
    PROVE  GlobalTable' /\ InvitedCall' /\ PlaysOnce'
  <1> DEFINE k == ipc.obj
  <1>1. /\ call \in [Calls -> SipCall] /\ globalCall \in [CidKeys -> Calls \cup {NoCall}]
        /\ ipc.cid \in CidKeys /\ Ports \subseteq PortKeys
    BY ConstantFacts DEF IndexInv, IInv, TypeOK, SipTypeOK
  <1>2. /\ ipc.at = "invited" /\ k \in Calls /\ call[k].st = "live" /\ \A d \in CidKeys : globalCall[d] # k
        /\ k # NoCall
    BY ConstantFacts DEF IndexCall, IndexInv, InvitedCall
  <1>3. /\ call'[k].st = call[k].st /\ call'[k].proc = call[k].proc /\ call'[k].cid = ipc.cid
        /\ \A j \in Calls \ {k} : call'[j] = call[j]
    BY <1>1, <1>2 DEF IndexCall, SipCall
  <1>4. \A d \in CidKeys :
           globalCall'[d] = IF d = ipc.cid /\ globalCall[d] = NoCall THEN k ELSE globalCall[d]
    BY <1>1 DEF IndexCall
  <1>5. UNCHANGED <<deviceCall, toSip, toLive, hold>> /\ ipc'.at = "idle"
    BY DEF IndexCall, IdleIpc, clientVars
  <1>6. GlobalTable'
    <2> SUFFICES ASSUME NEW d \in CidKeys, globalCall'[d] # NoCall
                 PROVE  call'[globalCall'[d]].st = "live" /\ call'[globalCall'[d]].cid = d
      BY DEF GlobalTable
    <2>1. CASE d = ipc.cid /\ globalCall[d] = NoCall
      BY <1>2, <1>3, <1>4, <2>1
    <2>2. CASE ~(d = ipc.cid /\ globalCall[d] = NoCall)
      <3>1. globalCall'[d] = globalCall[d] /\ globalCall[d] \in Calls \ {k}
        BY <1>1, <1>2, <1>4, <2>2
      <3>2. QED
        BY <1>3, <3>1 DEF IndexInv, GlobalTable
    <2>3. QED
      BY <2>1, <2>2
  <1>7. InvitedCall'
    BY <1>5 DEF InvitedCall
  <1>8. ASSUME NEW d \in Procs, NEW q \in Ports PROVE PlaysOnceAt(d, q)'
    <2>1. Entitled(d, q)' <=> Entitled(d, q)
      BY <1>5 DEF Entitled
    <2>2. Fresh(d, q) => Fresh(d, q)'
      <3>1. SUFFICES ASSUME Fresh(d, q) PROVE Fresh(d, q)'
        OBVIOUS
      <3>2. deviceCall[q] \in Calls /\ deviceCall[q] # k
        BY <1>1, <1>2, <3>1, OwnCalls DEF Fresh, Lent, Uninvited, IndexInv
      <3>3. call'[deviceCall[q]] = call[deviceCall[q]] /\ \A e \in CidKeys : globalCall'[e] # deviceCall[q]
        BY <1>3, <1>4, <3>1, <3>2 DEF Fresh, Uninvited
      <3>4. QED
        BY <1>5, <3>1, <3>3 DEF Fresh, Lent, Uninvited
    <2>3. NoNewPlay(toSip'[d], toSip[d], q)
      BY <1>5, SamePlays
    <2>4. QED
      BY <2>1, <2>2, <2>3, PlaysFrame DEF IndexInv, PlaysOnce
  <1>9. QED
    BY <1>6, <1>7, <1>8 DEF PlaysOnce

(* The end of a call takes its entries away, and no other's.               *)
LEMMA StopPlayIndex ==
    ASSUME IndexInv, NEW c \in Procs, StopPlay(c), UNCHANGED clientVars
    PROVE  GlobalTable' /\ InvitedCall' /\ PlaysOnce'
  <1> PICK p : p = Head(toSip[c]).port
    OBVIOUS
  <1> DEFINE k == deviceCall[p]
  <1>1. /\ toSip \in [Procs -> Seq(Msg)] /\ call \in [Calls -> SipCall]
        /\ globalCall \in [CidKeys -> Calls \cup {NoCall}]
        /\ deviceCall \in [PortKeys -> Calls \cup {NoCall}] /\ Ports \subseteq PortKeys
    BY ConstantFacts DEF IndexInv, IInv, TypeOK, SipTypeOK
  <1>2. /\ Receive(c, "stop_play") /\ k # NoCall /\ ipc.at = "idle"
        /\ deviceCall' = [deviceCall EXCEPT ![p] = NoCall]
        /\ call' = [call EXCEPT ![k].st = "freed"]
        /\ globalCall' = [globalCall EXCEPT ![call[k].cid] = NoCall]
        /\ UNCHANGED <<ipc, toLive>> /\ hold' = hold
    BY DEF StopPlay, Receive, Deleted, Unindexed, clientVars
  <1>3. p \in Ports /\ Lent(c, p) /\ HasMsg(toSip[c], "stop_play", p)
    BY <1>2, StopIsForOwnPort DEF IndexInv
  <1>4. k \in Calls /\ \A q \in PortKeys : deviceCall[q] = k => q = p
    BY <1>1, <1>2, <1>3, OwnCalls DEF IndexInv
  <1>5. /\ \A j \in Calls \ {k} : call'[j] = call[j]
        /\ \A d \in CidKeys : globalCall'[d] = IF d = call[k].cid THEN NoCall ELSE globalCall[d]
    BY <1>1, <1>2
  <1>6. GlobalTable'
    <2> SUFFICES ASSUME NEW d \in CidKeys, globalCall'[d] # NoCall
                 PROVE  call'[globalCall'[d]].st = "live" /\ call'[globalCall'[d]].cid = d
      BY DEF GlobalTable
    <2>1. d # call[k].cid /\ globalCall'[d] = globalCall[d] /\ globalCall[d] \in Calls
      BY <1>1, <1>5
    <2>2. call[globalCall[d]].st = "live" /\ call[globalCall[d]].cid = d
      BY <2>1 DEF IndexInv, GlobalTable
    <2>3. globalCall[d] # k
      BY <2>1, <2>2
    <2>4. QED
      BY <1>5, <2>1, <2>2, <2>3
  <1>7. InvitedCall'
    BY <1>2 DEF InvitedCall
  <1>8. /\ \A d \in Procs : \A q : NoNewPlay(toSip'[d], toSip[d], q)
        /\ ~HasMsg(toSip'[c], "live_play", p)
    <2>1. PlayFirst(toSip[c], p)
      BY <1>3 DEF IndexInv, PlaysOnce, PlaysOnceAt
    <2>2. Receive(c, "stop_play") /\ Head(toSip[c]).port = p
      BY <1>2
    <2>3. QED
      BY <1>1, <2>1, <2>2, ReceiveKeepsPlays
  <1>9. ~Entitled(c, p)'
    <2>1. hold[c][p] = "none" /\ ~HasMsg(toLive[c], "live_init_answer", p)
      BY <1>1, <1>3, RightToStopAt DEF IndexInv
    <2>2. QED
      BY <1>2, <2>1 DEF Entitled
  <1>10. ASSUME NEW d \in Procs, NEW q \in Ports PROVE PlaysOnceAt(d, q)'
    <2>1. Entitled(d, q)' <=> Entitled(d, q)
      BY <1>2 DEF Entitled
    <2>2. ASSUME Fresh(d, q), Entitled(d, q)' \/ HasMsg(toSip'[d], "live_play", q) PROVE Fresh(d, q)'
      <3>1. q # p
        BY <1>3, <1>8, <1>9, <2>2 DEF Fresh, Lent
      <3>2. deviceCall'[q] = deviceCall[q] /\ deviceCall[q] \in Calls \ {k}
        BY <1>1, <1>2, <1>4, <2>2, <3>1, OwnCalls DEF Fresh, Lent, IndexInv
      <3>3. call'[deviceCall[q]] = call[deviceCall[q]] /\ \A e \in CidKeys : globalCall'[e] # deviceCall[q]
        BY <1>5, <2>2, <3>2, ConstantFacts DEF Fresh, Uninvited
      <3>4. QED
        BY <1>2, <2>2, <3>2, <3>3 DEF Fresh, Lent, Uninvited
    <2>3. QED
      BY <1>8, <2>1, <2>2, PlaysFrame DEF IndexInv, PlaysOnce
  <1>11. QED
    BY <1>6, <1>7, <1>10 DEF PlaysOnce

LEMMA StopPlayAllIndex ==
    ASSUME IndexInv, NEW c \in Procs, StopPlayAll(c), UNCHANGED clientVars
    PROVE  GlobalTable' /\ InvitedCall' /\ PlaysOnce'
  <1> PICK ended : ended = { deviceCall[p] : p \in PortsOf(c) }
    OBVIOUS
  <1>1. /\ toSip \in [Procs -> Seq(Msg)] /\ call \in [Calls -> SipCall]
        /\ globalCall \in [CidKeys -> Calls \cup {NoCall}]
        /\ deviceCall \in [PortKeys -> Calls \cup {NoCall}] /\ Ports \subseteq PortKeys
    BY ConstantFacts DEF IndexInv, IInv, TypeOK, SipTypeOK
  <1>2. Receive(c, "close") /\ UNCHANGED <<ipc, toLive>> /\ hold' = hold /\ ipc.at = "idle"
    BY DEF StopPlayAll, Receive, clientVars
  <1>3. TakesAllBack(c)
    BY StopPlayAllTakesAllBack DEF IndexInv
  <1>4. \A k \in Calls : k \in ended <=> \E p \in PortKeys : Lent(c, p) /\ deviceCall[p] = k
    BY DEF PortsOf, Lent
  <1>5. /\ \A k \in Calls \ ended : call'[k] = call[k]
        /\ \A d \in CidKeys : globalCall'[d] = IF \E k \in ended : call[k].cid = d THEN NoCall ELSE globalCall[d]
    BY <1>3, <1>4 DEF StopPlayAll, TakesAllBack
  <1>6. GlobalTable'
    <2> SUFFICES ASSUME NEW d \in CidKeys, globalCall'[d] # NoCall
                 PROVE  call'[globalCall'[d]].st = "live" /\ call'[globalCall'[d]].cid = d
      BY DEF GlobalTable
    <2>1. /\ globalCall'[d] = globalCall[d] /\ globalCall[d] \in Calls
          /\ ~\E k \in ended : call[k].cid = d
      BY <1>1, <1>5
    <2>2. call[globalCall[d]].st = "live" /\ call[globalCall[d]].cid = d
      BY <2>1 DEF IndexInv, GlobalTable
    <2>3. globalCall[d] \notin ended
      BY <2>1, <2>2
    <2>4. QED
      BY <1>5, <2>1, <2>2, <2>3
  <1>7. InvitedCall'
    BY <1>2 DEF InvitedCall
  <1>8. \A d \in Procs : \A q : NoNewPlay(toSip'[d], toSip[d], q)
    BY <1>1, <1>2, ReceiveKeepsPlays
  <1>9. \A q : ~HasMsg(toSip'[c], "live_play", q) /\ (q \in Ports => ~Entitled(c, q)')
    <2>1. /\ toSip[c] \in Seq(Msg) /\ toSip[c] # << >> /\ Head(toSip[c]).type = "close"
          /\ toSip'[c] = Tail(toSip[c])
      BY <1>1, <1>2, ReceiveFacts
    <2>2. HasClose(toSip[c]) /\ Tail(toSip[c]) = << >>
      BY <2>1, TailClose DEF IndexInv, IInv, CloseIsLast
    <2>3. toLive[c] = << >> /\ \A q \in Ports : hold[c][q] = "none"
      BY <2>2 DEF IndexInv, IInv, CloseIsLast
    <2>4. QED
      BY <1>2, <2>1, <2>2, <2>3 DEF Entitled, HasMsg
  <1>10. ASSUME NEW d \in Procs, NEW q \in Ports PROVE PlaysOnceAt(d, q)'
    <2>1. Entitled(d, q)' <=> Entitled(d, q)
      BY <1>2 DEF Entitled
    <2>2. ASSUME Fresh(d, q), Entitled(d, q)' \/ HasMsg(toSip'[d], "live_play", q) PROVE Fresh(d, q)'
      <3>1. d # c /\ ~Lent(c, q)
        BY <1>9, <2>2 DEF Fresh, Lent
      <3>2. deviceCall'[q] = deviceCall[q] /\ deviceCall[q] \in Calls
        BY <1>1, <1>3, <2>2, <3>1, OwnCalls DEF TakesAllBack, Fresh, Lent, IndexInv
      <3>3. deviceCall[q] \notin ended
        BY <1>1, <1>4, <2>2, <3>1, <3>2 DEF Fresh, Lent
      <3>4. call'[deviceCall[q]] = call[deviceCall[q]] /\ \A e \in CidKeys : globalCall'[e] # deviceCall[q]
        BY <1>5, <2>2, <3>2, <3>3, ConstantFacts DEF Fresh, Uninvited
      <3>5. QED
        BY <1>2, <2>2, <3>2, <3>4 DEF Fresh, Lent, Uninvited
    <2>3. QED
      BY <1>8, <2>1, <2>2, PlaysFrame DEF IndexInv, PlaysOnce
  <1>11. QED
    BY <1>6, <1>7, <1>10 DEF PlaysOnce

-----------------------------------------------------------------------------
(* The theorem.                                                            *)
LEMMA InitIndex == Init => IndexInv
  <1> SUFFICES ASSUME Init PROVE IndexInv
    OBVIOUS
  <1>1. /\ \A c \in Procs : toSip[c] = << >> /\ toLive[c] = << >>
        /\ \A c \in Procs, p \in Ports : hold[c][p] = "none"
        /\ \A d \in CidKeys : globalCall[d] = NoCall
        /\ ipc.at = "idle"
    BY DEF Init, SipInit, IdleIpc
  <1>2. GlobalTable /\ InvitedCall
    BY <1>1 DEF GlobalTable, InvitedCall
  <1>3. PlaysOnce
    BY <1>1 DEF PlaysOnce, PlaysOnceAt, Entitled, HasMsg, OneMsg, PlayFirst
  <1>4. QED
    BY <1>2, <1>3, InitIInv DEF IndexInv

LEMMA NextIndex ==
    ASSUME ~EarlyRestart, IndexInv, [Next]_vars
    PROVE  IndexInv'
  <1>1. IInv'
    BY NextIInv DEF IndexInv
  <1>2. GlobalTable' /\ InvitedCall' /\ PlaysOnce'
    <2>1. ASSUME NEW c \in Procs, IpcThread(c), UNCHANGED clientVars
          PROVE  GlobalTable' /\ InvitedCall' /\ PlaysOnce'
      BY <2>1, PlayInitIndex, SendInviteIndex, StopPlayIndex, StopPlayAllIndex, QuietIpcIndex DEF IpcThread
    <2>2. ASSUME NEW c \in Procs, Client(c)
          PROVE  GlobalTable' /\ InvitedCall' /\ PlaysOnce'
      BY <2>2, ClientPlaysIndex, QuietClientIndex DEF Client
    <2>3. CASE UNCHANGED vars
      BY <2>3, SamePlays, QuietIndex DEF vars, baseVars, clientVars, SameCall, KeepsCall, Entitled
    <2>4. QED
      BY <2>1, <2>2, <2>3, IndexCallIndex, SignallingIndex DEF Next, SipServerStep
  <1>3. QED
    BY <1>1, <1>2 DEF IndexInv

(* No entry of m_mapDeviceCall or m_mapGlobalCall outlives its SipCall, or *)
(* is filed under another port or call id than the object carries, however *)
(* stops, deaths and restarts interleave with the INVITEs.                 *)
THEOREM TablesStayTrue ==
    ASSUME ~EarlyRestart
    PROVE  Spec => []TablesPointToLiveCalls
  <1>1. IndexInv => TablesPointToLiveCalls
    BY DEF IndexInv, IInv, DeviceTable, GlobalTable, TablesPointToLiveCalls
  <1>2. IndexInv /\ [Next]_vars => IndexInv'
    BY NextIndex
  <1>3. QED
    BY <1>1, <1>2, InitIndex, PTL DEF Spec

-----------------------------------------------------------------------------
(* The dialogs.  A call that ends must leave no INVITE open: as long as    *)
(* its answer is due the process waits for it, so only a call that was     *)
(* answered, or never invited, is ever stopped.                            *)
Unsettled(d) == dialog[d].st \in {"calling", "answered", "rejected"}
Acking(k)    == sip.at = "acked" /\ sip.obj = k
HasAnswer(c, p) == HasMsg(toLive[c], "live_play_answer", p)

Answered(k) ==
    LET d == call[k].cid
    IN /\ call[k].did = 1 /\ d \in Cids /\ globalCall[d] = k
       /\ dialog[d].obj = k /\ dialog[d].st \in {"active", "closed"}
       /\ ~Acking(k)

NeverInvited(k) == Uninvited(k) /\ \A d \in Cids : dialog[d].obj # k

AwaitedAt(c, p) == hold[c][p] = "asked" /\ ~HasAnswer(c, p)
Awaited(k) ==
    /\ k \in Calls /\ call[k].st = "live"
    /\ call[k].proc \in Procs /\ call[k].port \in Ports
    /\ AwaitedAt(call[k].proc, call[k].port)

(* Every INVITE is known by its call, as long as there is one, and a       *)
(* sip_server to know it.                                                  *)
Filed(d, k) ==
    \/ globalCall[d] = k
    \/ ipc.at = "invited" /\ ipc.obj = k /\ ipc.cid = d
    \/ ipc.at = "dead"
DialogsAreFiled ==
    \A d \in Cids :
       /\ dialog[d].obj = NoCall <=> dialog[d].st = "none"
       /\ dialog[d].obj # NoCall => call[dialog[d].obj].st # "new"
       /\ dialog[d].obj # NoCall /\ call[dialog[d].obj].st = "live" => Filed(d, dialog[d].obj)

FiledDialogs ==
    /\ \A d \in Cids : globalCall[d] # NoCall => dialog[d].obj = globalCall[d]
    /\ ipc.at = "invited" /\ ipc.cid \in Cids =>
          dialog[ipc.cid].obj = ipc.obj /\ globalCall[ipc.cid] = NoCall

DueCallsAreAwaited ==
    /\ \A d \in Cids : Unsettled(d) => Awaited(dialog[d].obj)
    /\ sip.at = "acked" => Awaited(sip.obj)

(* The events, and the one being handled, are about dialogs they tell of.  *)
StateTold(kind) == IF kind = "ok" THEN "answered" ELSE "rejected"
EventsTellTheTruth ==
    /\ \A i \in DOMAIN events : dialog[events[i].cid].st = StateTold(events[i].kind)
    /\ \A i, j \in DOMAIN events : events[i].cid = events[j].cid => i = j

HandledEvent ==
    /\ sip.at = "dead" <=> ipc.at = "dead"
    /\ sip.at \in {"ok", "fail", "acked"} => sip.cid \in Cids /\ globalCall[sip.cid] = sip.obj
    /\ sip.at \in {"ok", "fail"} =>
          /\ dialog[sip.cid].st = StateTold(sip.at)
          /\ \A i \in DOMAIN events : events[i].cid # sip.cid
    /\ sip.at = "acked" => dialog[sip.cid].st \in {"active", "closed"} /\ call[sip.obj].did = 1

(* What is under way about a port, and what its process knows, tell how    *)
(* far its call is.                                                        *)
PortStagesAt(c, p) ==
    /\ HasMsg(toSip[c], "live_play", p) => AwaitedAt(c, p)
    /\ HasAnswer(c, p) => hold[c][p] = "asked"
    /\ OneMsg(toLive[c], "live_play_answer", p)
    /\ HasAnswer(c, p) \/ hold[c][p] = "playing" => Answered(deviceCall[p])
    /\ HasMsg(toSip[c], "stop_play", p) => Answered(deviceCall[p]) \/ NeverInvited(deviceCall[p])
    /\ Lent(c, p) /\ ~NeverInvited(deviceCall[p]) =>
          hold[c][p] \in {"asked", "playing"} \/ HasMsg(toSip[c], "stop_play", p)
PortStages == \A c \in Procs, p \in Ports : PortStagesAt(c, p)

Dialogs ==
    /\ connected = Procs
    /\ DialogsAreFiled /\ FiledDialogs /\ DueCallsAreAwaited
    /\ EventsTellTheTruth /\ HandledEvent
    /\ PortStages
    /\ NoOrphanDialog

DialogInv == IndexInv /\ NoCallLeaks /\ Dialogs

-----------------------------------------------------------------------------
(* Messages of any kind.                                                   *)
LEMMA TailKeepsMsg ==
    ASSUME NEW s \in Seq(Msg), s # << >>, NEW type, NEW p,
           HasMsg(s, type, p), ~(Head(s).type = type /\ Head(s).port = p)
    PROVE  HasMsg(Tail(s), type, p)
  <1> DEFINE n == Len(s)
  <1>1. n \in Nat \ {0} /\ Head(s) = s[1] /\ Tail(s) \in Seq(Msg) /\ Len(Tail(s)) = n - 1
        /\ \A i \in 1..n - 1 : Tail(s)[i] = s[i + 1]
    BY TailFacts
  <1>2. DOMAIN s = 1..n /\ DOMAIN Tail(s) = 1..n - 1
    BY <1>1, LenProperties
  <1> HIDE DEF n
  <1>3. PICK i \in 1..n : s[i].type = type /\ s[i].port = p
    BY <1>2 DEF HasMsg
  <1>4. i # 1
    BY <1>1, <1>3
  <1>5. PICK j \in 1..n - 1 : i = j + 1
    BY <1>1, <1>4
  <1>6. Tail(s)[j].type = type /\ Tail(s)[j].port = p
    BY <1>1, <1>3, <1>5
  <1>7. QED
    BY <1>2, <1>6 DEF HasMsg

LEMMA AppendKeepsMsg ==
    ASSUME NEW s \in Seq(Msg), NEW m \in Msg, NEW type, NEW p,
           HasMsg(s, type, p) \/ (m.type = type /\ m.port = p)
    PROVE  HasMsg(Append(s, m), type, p)
  <1> DEFINE n == Len(s)
             t == Append(s, m)
  <1>1. n \in Nat /\ DOMAIN s = 1..n
    BY LenProperties
  <1>2. t \in Seq(Msg) /\ Len(t) = n + 1 /\ (\A i \in 1..n : t[i] = s[i]) /\ t[n + 1] = m
    BY AppendProperties
  <1>3. DOMAIN t = 1..n + 1
    BY <1>2, LenProperties
  <1> HIDE DEF n, t
  <1>4. n + 1 \in 1..n + 1 /\ \A i \in 1..n : i \in 1..n + 1
    BY <1>1
  <1>5. HasMsg(t, type, p)
    BY <1>1, <1>2, <1>3, <1>4 DEF HasMsg
  <1>6. QED
    BY <1>5 DEF t

(* A list of messages that lacks nothing the other has of a kind and port. *)
LEMMA ReceiveNews ==
    ASSUME toSip \in [Procs -> Seq(Msg)], NEW c \in Procs, NEW type, Receive(c, type),
           NEW d \in Procs, NEW t, NEW p
    PROVE  /\ NoNewMsg(toSip'[d], toSip[d], t, p)
           /\ d # c \/ t # type \/ p # Head(toSip[c]).port
                => (HasMsg(toSip[d], t, p) => HasMsg(toSip'[d], t, p))
  <1>1. /\ toSip[c] \in Seq(Msg) /\ toSip[c] # << >> /\ toSip'[c] = Tail(toSip[c])
        /\ Head(toSip[c]).type = type /\ (d # c => toSip'[d] = toSip[d])
    BY ReceiveFacts
  <1>2. CASE d = c
    <2>1. NoNewMsg(Tail(toSip[c]), toSip[c], t, p)
      BY <1>1, TailMsg DEF NoNewMsg
    <2>2. t # type \/ p # Head(toSip[c]).port => (HasMsg(toSip[c], t, p) => HasMsg(Tail(toSip[c]), t, p))
      BY <1>1, TailKeepsMsg
    <2>3. QED
      BY <1>1, <1>2, <2>1, <2>2
  <1>3. CASE d # c
    BY <1>1, <1>3, NoNews
  <1>4. QED
    BY <1>2, <1>3

LEMMA SendNews ==
    ASSUME toSip \in [Procs -> Seq(Msg)], NEW c \in Procs, NEW m \in Msg, SendToSip(c, m),
           NEW d \in Procs, NEW t, NEW p
    PROVE  /\ d # c \/ t # m.type \/ p # m.port => NoNewMsg(toSip'[d], toSip[d], t, p)
           /\ HasMsg(toSip[d], t, p) => HasMsg(toSip'[d], t, p)
           /\ d = c /\ t = m.type /\ p = m.port => HasMsg(toSip'[d], t, p)
  <1>1. /\ toSip[d] \in Seq(Msg) /\ (d = c => toSip'[d] = Append(toSip[d], m))
        /\ (d # c => toSip'[d] = toSip[d])
    BY DEF SendToSip
  <1>2. CASE d = c
    <2>1. t # m.type \/ p # m.port => NoNewMsg(Append(toSip[d], m), toSip[d], t, p)
      BY <1>1, AppendMsg DEF NoNewMsg
    <2>2. HasMsg(toSip[d], t, p) \/ (t = m.type /\ p = m.port) => HasMsg(Append(toSip[d], m), t, p)
      BY <1>1, AppendKeepsMsg
    <2>3. QED
      BY <1>1, <1>2, <2>1, <2>2
  <1>3. CASE d # c
    BY <1>1, <1>3, NoNews
  <1>4. QED
    BY <1>2, <1>3

LEMMA RelayNews ==
    ASSUME toLive \in [Procs -> Seq(Msg)], NEW c, NEW msgs \in Seq(Msg), Relay(c, msgs),
           NEW d \in Procs, NEW t, NEW p, d # c \/ ~HasMsg(msgs, t, p)
    PROVE  NoNewMsg(toLive'[d], toLive[d], t, p)
  <1>1. CASE toLive'[d] = toLive[d]
    BY <1>1 DEF NoNewMsg
  <1>2. CASE d = c /\ toLive'[d] = toLive[d] \o msgs
    BY <1>2, ConcatMsg DEF NoNewMsg
  <1>3. QED
    BY <1>1, <1>2 DEF Relay

-----------------------------------------------------------------------------
(* What is meant by the parts of the invariant.                            *)
LEMMA DialogTypes ==
    ASSUME IInv
    PROVE  /\ toSip \in [Procs -> Seq(Msg)] /\ toLive \in [Procs -> Seq(Msg)]
           /\ call \in [Calls -> SipCall]
           /\ deviceCall \in [PortKeys -> Calls \cup {NoCall}]
           /\ globalCall \in [CidKeys -> Calls \cup {NoCall}]
           /\ dialog \in [Cids -> [st : DialogStates, obj : Calls \cup {NoCall}]]
           /\ events \in Seq([kind : {"ok", "fail"}, cid : Cids])
           /\ hold \in [Procs -> [Ports -> HoldStates]]
           /\ ipc.cid \in CidKeys /\ sip.cid \in CidKeys
           /\ (sip.at \in {"ok", "fail", "acked"} => sip.obj \in Calls)
           /\ Ports \subseteq PortKeys /\ Cids \subseteq CidKeys /\ NoCall \notin Calls
  BY ConstantFacts DEF IInv, TypeOK, SipTypeOK

(* Who has a port, has it lent.                                            *)
LEMMA LentFacts ==
    ASSUME DialogInv, NEW c \in Procs, NEW p \in Ports
    PROVE  /\ hold[c][p] # "none" => Lent(c, p)
           /\ HasAnswer(c, p) => Lent(c, p)
           /\ HasMsg(toSip[c], "stop_play", p) => Lent(c, p) /\ hold[c][p] = "none"
           /\ HasMsg(toSip[c], "live_play", p) => Lent(c, p)
           /\ Lent(c, p) => /\ deviceCall[p] \in Calls /\ call[deviceCall[p]].st = "live"
                            /\ call[deviceCall[p]].proc = c /\ call[deviceCall[p]].port = p
  <1>1. p \in PortKeys
    BY ConstantFacts
  <1>2. (hold[c][p] # "none" => Lent(c, p)) /\ (HasMsg(toSip[c], "stop_play", p) => Lent(c, p) /\ hold[c][p] = "none")
    BY <1>1, RightToStopAt DEF DialogInv, IndexInv
  <1>3. HasMsg(toSip[c], "live_play", p) => Lent(c, p)
    BY DEF DialogInv, IndexInv, PlaysOnce, PlaysOnceAt, Fresh
  <1>4. HasAnswer(c, p) => Lent(c, p)
    BY <1>2 DEF DialogInv, Dialogs, PortStages, PortStagesAt
  <1>5. Lent(c, p) => /\ deviceCall[p] \in Calls /\ call[deviceCall[p]].st = "live"
                      /\ call[deviceCall[p]].proc = c /\ call[deviceCall[p]].port = p
    BY <1>1, OwnCalls DEF DialogInv, IndexInv, Lent
  <1>6. QED
    BY <1>2, <1>3, <1>4, <1>5

(* A call that may still be played has no INVITE.                          *)
LEMMA EntitledIsNeverInvited ==
    ASSUME DialogInv, NEW c \in Procs, NEW p \in Ports, Entitled(c, p)
    PROVE  NeverInvited(deviceCall[p])
  <1>1. Lent(c, p)
    BY DEF DialogInv, IndexInv, PlaysOnce, PlaysOnceAt, Fresh
  <1>2. p \in PortKeys
    BY ConstantFacts
  <1>3. hold[c][p] \notin {"asked", "playing"} /\ ~HasMsg(toSip[c], "stop_play", p)
    BY <1>2, RightToStopAt DEF Entitled, DialogInv, IndexInv
  <1>4. QED
    BY <1>1, <1>3 DEF DialogInv, Dialogs, PortStages, PortStagesAt

LEMMA FreshIsNeverInvited ==
    ASSUME DialogInv, ipc.at # "dead", NEW c \in Procs, NEW p \in Ports, Fresh(c, p)
    PROVE  NeverInvited(deviceCall[p])
  <1>1. deviceCall[p] \in Calls /\ call[deviceCall[p]].st = "live" /\ Uninvited(deviceCall[p])
    BY LentFacts DEF Fresh
  <1>2. \A d \in Cids : ~Filed(d, deviceCall[p])
    BY <1>1, ConstantFacts DEF Uninvited, Filed
  <1>3. \A d \in Cids : dialog[d].obj # deviceCall[p]
    BY <1>1, <1>2, ConstantFacts DEF DialogInv, Dialogs, DialogsAreFiled
  <1>4. QED
    BY <1>1, <1>3 DEF NeverInvited

(* Two INVITEs never share a call that has not ended.                      *)
LEMMA OneDialog ==
    ASSUME DialogInv, ipc.at # "dead", NEW d \in Cids, NEW e \in Cids, NEW k \in Calls, call[k].st = "live",
           dialog[d].obj = k, dialog[e].obj = k
    PROVE  d = e
  <1>1. Filed(d, k) /\ Filed(e, k)
    BY ConstantFacts DEF DialogInv, Dialogs, DialogsAreFiled
  <1>2. \A x \in Cids : globalCall[x] = k => call[k].cid = x /\ ~(ipc.at = "invited" /\ ipc.obj = k)
    BY ConstantFacts DEF DialogInv, IndexInv, GlobalTable, InvitedCall
  <1>3. QED
    BY <1>1, <1>2 DEF Filed

(* The stages of a port survive a step that tells nothing new about it and *)
(* leaves its call as far as it was.                                       *)
LEMMA StagesFrame ==
    ASSUME DialogInv, NEW c \in Procs, NEW p \in Ports,
           hold'[c][p] = hold[c][p], deviceCall'[p] = deviceCall[p], Lent(c, p)' => Lent(c, p),
           NoNewMsg(toSip'[c], toSip[c], "live_play", p),
           NoNewMsg(toSip'[c], toSip[c], "stop_play", p),
           HasMsg(toSip[c], "stop_play", p) => HasMsg(toSip'[c], "stop_play", p),
           NoNewMsg(toLive'[c], toLive[c], "live_play_answer", p),
           Lent(c, p) /\ Answered(deviceCall[p]) => Answered(deviceCall[p])',
           Lent(c, p) /\ NeverInvited(deviceCall[p]) => NeverInvited(deviceCall[p])'
    PROVE  PortStagesAt(c, p)'
  <1>1. PortStagesAt(c, p)
    BY DEF DialogInv, Dialogs, PortStages
  <1>2. /\ HasAnswer(c, p)' => HasAnswer(c, p)
        /\ AwaitedAt(c, p) => AwaitedAt(c, p)'
        /\ HasMsg(toSip'[c], "live_play", p) => HasMsg(toSip[c], "live_play", p)
        /\ HasMsg(toSip'[c], "stop_play", p) <=> HasMsg(toSip[c], "stop_play", p)
        /\ OneMsg(toLive'[c], "live_play_answer", p)
    BY <1>1 DEF HasAnswer, AwaitedAt, NoNewMsg, PortStagesAt
  <1>3. HasAnswer(c, p) \/ hold[c][p] = "playing" => Answered(deviceCall[p])'
    BY <1>1, LentFacts DEF PortStagesAt
  <1>4. HasMsg(toSip[c], "stop_play", p) => Answered(deviceCall[p])' \/ NeverInvited(deviceCall[p])'
    BY <1>1, LentFacts DEF PortStagesAt
  <1>5. Lent(c, p)' /\ ~NeverInvited(deviceCall[p])' =>
           hold[c][p] \in {"asked", "playing"} \/ HasMsg(toSip[c], "stop_play", p)
    BY <1>1 DEF PortStagesAt
  <1>6. QED
    BY <1>1, <1>2, <1>3, <1>4, <1>5 DEF PortStagesAt

-----------------------------------------------------------------------------
(* Steps that leave sip_server's calls and INVITEs alone.                  *)
CallVars == <<deviceCall, globalCall, call, ipc, sip, events, dialog>>

LEMMA QuietDialogs ==
    ASSUME DialogInv, UNCHANGED <<CallVars, connected>>,
           \A c \in Procs, p \in Ports : AwaitedAt(c, p) => AwaitedAt(c, p)',
           \A c \in Procs, p \in Ports : PortStagesAt(c, p)'
    PROVE  Dialogs'
  <1> USE DEF CallVars
  <1>1. \A k : Awaited(k) => Awaited(k)'
    BY DEF Awaited
  <1>2. DueCallsAreAwaited'
    BY <1>1 DEF DialogInv, Dialogs, DueCallsAreAwaited, Unsettled
  <1>3. DialogsAreFiled' /\ FiledDialogs' /\ NoOrphanDialog'
    BY DEF DialogInv, Dialogs, DialogsAreFiled, Filed, FiledDialogs, NoOrphanDialog
  <1>4. EventsTellTheTruth' /\ HandledEvent'
    BY DEF DialogInv, Dialogs, EventsTellTheTruth, HandledEvent
  <1>5. PortStages' /\ connected' = Procs
    BY DEF DialogInv, Dialogs, PortStages
  <1>6. QED
    BY <1>2, <1>3, <1>4, <1>5 DEF Dialogs

(* ... and of one port at most say anything new.                           *)
LEMMA QuietStages ==
    ASSUME DialogInv, UNCHANGED <<CallVars, connected>>, NEW c \in Procs, NEW p \in Ports,
           hold'[c][p] = hold[c][p],
           NoNewMsg(toSip'[c], toSip[c], "live_play", p),
           NoNewMsg(toSip'[c], toSip[c], "stop_play", p),
           HasMsg(toSip[c], "stop_play", p) => HasMsg(toSip'[c], "stop_play", p),
           NoNewMsg(toLive'[c], toLive[c], "live_play_answer", p)
    PROVE  PortStagesAt(c, p)' /\ (AwaitedAt(c, p) => AwaitedAt(c, p)')
  <1>1. AwaitedAt(c, p) => AwaitedAt(c, p)'
    BY DEF AwaitedAt, HasAnswer, NoNewMsg
  <1>2. UNCHANGED <<deviceCall, globalCall, call, ipc, sip, dialog>>
    BY DEF CallVars
  <1>3. \A k : (Answered(k)' <=> Answered(k)) /\ (NeverInvited(k)' <=> NeverInvited(k))
    BY <1>2 DEF Answered, Acking, NeverInvited, Uninvited
  <1>4. Lent(c, p)' <=> Lent(c, p)
    BY <1>2 DEF Lent
  <1>5. PortStagesAt(c, p)'
    BY <1>2, <1>3, <1>4, StagesFrame
  <1>6. QED
    BY <1>1, <1>5

(* live_init.                                                              *)
LEMMA ClientInitDialogs ==
    ASSUME DialogInv, NEW c \in Procs, ClientInit(c)
    PROVE  Dialogs'
  <1>1. toSip \in [Procs -> Seq(Msg)]
    BY DialogTypes DEF DialogInv, IndexInv
  <1>2. UNCHANGED <<CallVars, connected, toLive>> /\ hold' = hold
    BY DEF ClientInit, sipVars, CallVars
  <1>3. PICK m \in Msg : m.type = "live_init" /\ SendToSip(c, m)
    BY ClientInitSends
  <1>4. ASSUME NEW d \in Procs, NEW q \in Ports PROVE PortStagesAt(d, q)' /\ (AwaitedAt(d, q) => AwaitedAt(d, q)')
    <2>1. /\ NoNewMsg(toSip'[d], toSip[d], "live_play", q) /\ NoNewMsg(toSip'[d], toSip[d], "stop_play", q)
          /\ HasMsg(toSip[d], "stop_play", q) => HasMsg(toSip'[d], "stop_play", q)
      BY <1>1, <1>3, SendNews
    <2>2. NoNewMsg(toLive'[d], toLive[d], "live_play_answer", q) /\ hold'[d][q] = hold[d][q]
      BY <1>2, NoNews
    <2>3. QED
      BY <1>2, <2>1, <2>2, QuietStages
  <1>5. QED
    BY <1>2, <1>4, QuietDialogs

(* live_play of a port that was granted.                                   *)
LEMMA ClientPlaysDialogs ==
    ASSUME DialogInv, NEW c \in Procs, NEW p \in Ports, ClientPlays(c, p)
    PROVE  Dialogs'
  <1> DEFINE m == LivePlay(0, p)
  <1>1. /\ toSip \in [Procs -> Seq(Msg)] /\ hold \in [Procs -> [Ports -> HoldStates]] /\ p \in PortKeys
    BY ConstantFacts, DialogTypes DEF DialogInv, IndexInv
  <1>2. /\ UNCHANGED <<CallVars, connected, toLive>> /\ SendToSip(c, m)
        /\ hold[c][p] = "granted" /\ hold' = [hold EXCEPT ![c][p] = "asked"]
    BY DEF ClientPlays, sipVars, CallVars
  <1>3. m \in Msg /\ m.type = "live_play" /\ m.port = p
    BY <1>1, ConstantFacts, MessageTypes DEF LivePlay
  <1> HIDE DEF m
  <1>4. \A d \in Procs, q \in Ports :
           hold'[d][q] = IF d = c /\ q = p THEN "asked" ELSE hold[d][q]
    BY <1>1, <1>2
  <1>5. PortStagesAt(c, p)
    BY DEF DialogInv, Dialogs, PortStages
  <1>6. /\ ~HasAnswer(c, p) /\ ~HasMsg(toSip[c], "stop_play", p)
        /\ OneMsg(toLive[c], "live_play_answer", p)
    BY <1>2, <1>5, LentFacts DEF PortStagesAt
  <1>7. PortStagesAt(c, p)' /\ (AwaitedAt(c, p) => AwaitedAt(c, p)')
    <2>1. hold'[c][p] = "asked" /\ ~HasAnswer(c, p)' /\ OneMsg(toLive'[c], "live_play_answer", p)
      BY <1>2, <1>4, <1>6 DEF HasAnswer
    <2>2. ~HasMsg(toSip'[c], "stop_play", p)
      BY <1>1, <1>2, <1>3, <1>6, SendNews DEF NoNewMsg
    <2>3. QED
      BY <2>1, <2>2 DEF PortStagesAt, AwaitedAt
  <1>8. ASSUME NEW d \in Procs, NEW q \in Ports, d # c \/ q # p
        PROVE  PortStagesAt(d, q)' /\ (AwaitedAt(d, q) => AwaitedAt(d, q)')
    <2>1. /\ NoNewMsg(toSip'[d], toSip[d], "live_play", q) /\ NoNewMsg(toSip'[d], toSip[d], "stop_play", q)
          /\ HasMsg(toSip[d], "stop_play", q) => HasMsg(toSip'[d], "stop_play", q)
      BY <1>1, <1>2, <1>3, <1>8, SendNews
    <2>2. NoNewMsg(toLive'[d], toLive[d], "live_play_answer", q) /\ hold'[d][q] = hold[d][q]
      BY <1>2, <1>4, <1>8, NoNews
    <2>3. QED
      BY <1>2, <2>1, <2>2, QuietStages
  <1>9. QED
    BY <1>2, <1>7, <1>8, QuietDialogs

(* stop_play, of a port that was granted or plays: a disciplined process   *)
(* does not stop a port whose answer is due.                               *)
LEMMA ClientStopsDialogs ==
    ASSUME ~EarlyStop, DialogInv, NEW c \in Procs, NEW p \in Ports, ClientStops(c, p)
    PROVE  Dialogs'
  <1> DEFINE m == StopPlayMsg(p)
  <1>1. /\ toSip \in [Procs -> Seq(Msg)] /\ hold \in [Procs -> [Ports -> HoldStates]] /\ p \in PortKeys
    BY ConstantFacts, DialogTypes DEF DialogInv, IndexInv
  <1>2. /\ UNCHANGED <<CallVars, connected, toLive>> /\ SendToSip(c, m)
        /\ hold[c][p] \in {"granted", "playing"} /\ hold' = [hold EXCEPT ![c][p] = "none"]
    BY DEF ClientStops, sipVars, CallVars, AfterStop
  <1>3. m \in Msg /\ m.type = "stop_play" /\ m.port = p
    BY <1>1, ConstantFacts, MessageTypes DEF StopPlayMsg
  <1> HIDE DEF m
  <1>4. \A d \in Procs, q \in Ports :
           hold'[d][q] = IF d = c /\ q = p THEN "none" ELSE hold[d][q]
    BY <1>1, <1>2
  <1>5. PortStagesAt(c, p)
    BY DEF DialogInv, Dialogs, PortStages
  <1>6. /\ ~HasAnswer(c, p) /\ ~HasMsg(toSip[c], "live_play", p)
        /\ OneMsg(toLive[c], "live_play_answer", p)
    BY <1>2, <1>5 DEF PortStagesAt, AwaitedAt
  <1>7. Answered(deviceCall[p]) \/ NeverInvited(deviceCall[p])
    <2>1. CASE hold[c][p] = "playing"
      BY <1>5, <2>1 DEF PortStagesAt
    <2>2. CASE hold[c][p] = "granted"
      BY <2>2, EntitledIsNeverInvited DEF Entitled
    <2>3. QED
      BY <1>2, <2>1, <2>2
  <1>8. PortStagesAt(c, p)' /\ (AwaitedAt(c, p) => AwaitedAt(c, p)')
    <2>1. hold'[c][p] = "none" /\ ~HasAnswer(c, p)' /\ OneMsg(toLive'[c], "live_play_answer", p)
      BY <1>2, <1>4, <1>6 DEF HasAnswer
    <2>2. ~HasMsg(toSip'[c], "live_play", p) /\ HasMsg(toSip'[c], "stop_play", p)
      BY <1>1, <1>2, <1>3, <1>6, SendNews DEF NoNewMsg
    <2>3. Answered(deviceCall[p])' \/ NeverInvited(deviceCall[p])'
      BY <1>2, <1>7 DEF CallVars, Answered, Acking, NeverInvited, Uninvited
    <2>4. ~AwaitedAt(c, p)
      BY <1>2 DEF AwaitedAt
    <2>5. QED
      BY <2>1, <2>2, <2>3, <2>4 DEF PortStagesAt
  <1>9. ASSUME NEW d \in Procs, NEW q \in Ports, d # c \/ q # p
        PROVE  PortStagesAt(d, q)' /\ (AwaitedAt(d, q) => AwaitedAt(d, q)')
    <2>1. /\ NoNewMsg(toSip'[d], toSip[d], "live_play", q) /\ NoNewMsg(toSip'[d], toSip[d], "stop_play", q)
          /\ HasMsg(toSip[d], "stop_play", q) => HasMsg(toSip'[d], "stop_play", q)
      BY <1>1, <1>2, <1>3, <1>9, SendNews
    <2>2. NoNewMsg(toLive'[d], toLive[d], "live_play_answer", q) /\ hold'[d][q] = hold[d][q]
      BY <1>2, <1>4, <1>9, NoNews
    <2>3. QED
      BY <1>2, <2>1, <2>2, QuietStages
  <1>10. QED
    BY <1>2, <1>8, <1>9, QuietDialogs

(* An answer of sip_server reaches the process.                            *)
LEMMA ClientReceivesDialogs ==
    ASSUME DialogInv, IndexInv', NEW c \in Procs, ClientReceives(c)
    PROVE  Dialogs'
  <1> DEFINE m == Head(toLive[c])
  <1> PICK p : p = m.port
    OBVIOUS
  <1>1. /\ toLive \in [Procs -> Seq(Msg)] /\ hold \in [Procs -> [Ports -> HoldStates]] /\ Ports \subseteq PortKeys
    BY DialogTypes DEF DialogInv, IndexInv
  <1>2. /\ UNCHANGED <<CallVars, connected, toSip>> /\ toLive[c] # << >>
        /\ toLive[c] \in Seq(Msg) /\ toLive'[c] = Tail(toLive[c])
        /\ \A d \in Procs \ {c} : toLive'[d] = toLive[d]
    BY <1>1 DEF ClientReceives, sipVars, CallVars
  <1>3. \/ /\ m.type = "live_init_answer" /\ p \in Ports
           /\ hold' = [hold EXCEPT ![c][p] = "granted"]
        \/ /\ m.type = "live_play_answer" /\ p \in Ports /\ hold[c][p] = "asked"
           /\ hold' = [hold EXCEPT ![c][p] = "playing"]
        \/ /\ ~(m.type = "live_play_answer" /\ p \in Ports /\ hold[c][p] = "asked")
           /\ hold' = hold
    BY DEF ClientReceives
  <1>4. \A t, q : /\ NoNewMsg(toLive'[c], toLive[c], t, q)
                  /\ m.type = t /\ p = q => HasMsg(toLive[c], t, q)
                  /\ m.type = t /\ p = q /\ OneMsg(toLive[c], t, q) => ~HasMsg(toLive'[c], t, q)
    BY <1>2, TailMsg DEF NoNewMsg
  <1> HIDE DEF m
  <1>5. ASSUME NEW d \in Procs, NEW q \in Ports, hold'[d][q] = hold[d][q]
        PROVE  PortStagesAt(d, q)' /\ (AwaitedAt(d, q) => AwaitedAt(d, q)')
    <2>1. NoNewMsg(toLive'[d], toLive[d], "live_play_answer", q)
      BY <1>2, <1>4, NoNews
    <2>2. NoNewMsg(toSip'[d], toSip[d], "live_play", q) /\ NoNewMsg(toSip'[d], toSip[d], "stop_play", q) /\ toSip' = toSip
      BY <1>2, NoNews
    <2>3. QED
      BY <1>2, <1>5, <2>1, <2>2, QuietStages
  <1>6. ASSUME p \in Ports, m.type = "live_init_answer", hold'[c][p] = "granted"
        PROVE  PortStagesAt(c, p)' /\ (AwaitedAt(c, p) => AwaitedAt(c, p)')
    <2>1. HasMsg(toLive[c], "live_init_answer", p) /\ p \in PortKeys
      BY <1>1, <1>4, <1>6
    <2>2. hold[c][p] = "none" /\ ~HasMsg(toSip[c], "stop_play", p)
      BY <1>6, <2>1, RightToStopAt DEF DialogInv, IndexInv
    <2>3. Fresh(c, p) /\ ~HasMsg(toSip[c], "live_play", p)
      BY <1>6, <2>1 DEF DialogInv, IndexInv, PlaysOnce, PlaysOnceAt, Entitled
    <2>4. NeverInvited(deviceCall[p])
      BY <1>6, <2>1, EntitledIsNeverInvited DEF Entitled
    <2>5. NeverInvited(deviceCall[p])'
      BY <1>2, <2>4 DEF CallVars, NeverInvited, Uninvited
    <2>6. ~HasAnswer(c, p)' /\ OneMsg(toLive'[c], "live_play_answer", p)
      BY <1>4, <1>6, <2>2 DEF HasAnswer, NoNewMsg, DialogInv, Dialogs, PortStages, PortStagesAt
    <2>7. QED
      BY <1>2, <1>6, <2>2, <2>3, <2>5, <2>6 DEF PortStagesAt, AwaitedAt
  <1>7. ASSUME p \in Ports, m.type = "live_play_answer", hold[c][p] = "asked", hold'[c][p] = "playing"
        PROVE  PortStagesAt(c, p)' /\ (AwaitedAt(c, p) => AwaitedAt(c, p)')
    <2>1. PortStagesAt(c, p) /\ HasAnswer(c, p)
      BY <1>4, <1>7 DEF DialogInv, Dialogs, PortStages, HasAnswer
    <2>2. ~HasMsg(toSip[c], "live_play", p) /\ ~HasMsg(toSip[c], "stop_play", p) /\ Answered(deviceCall[p])
      BY <1>7, <2>1, LentFacts DEF PortStagesAt, AwaitedAt
    <2>3. Answered(deviceCall[p])'
      BY <1>2, <2>2 DEF CallVars, Answered, Acking
    <2>4. ~HasAnswer(c, p)' /\ OneMsg(toLive'[c], "live_play_answer", p)
      BY <1>4, <1>7, <2>1 DEF HasAnswer, NoNewMsg, PortStagesAt
    <2>5. ~AwaitedAt(c, p)
      BY <2>1 DEF AwaitedAt
    <2>6. QED
      BY <1>2, <1>7, <2>2, <2>3, <2>4, <2>5 DEF PortStagesAt
  <1>8. ASSUME NEW d \in Procs, NEW q \in Ports
        PROVE  PortStagesAt(d, q)' /\ (AwaitedAt(d, q) => AwaitedAt(d, q)')
    <2>1. CASE hold'[d][q] = hold[d][q]
      BY <1>5, <2>1
    <2>2. CASE hold'[d][q] # hold[d][q]
      <3>1. d = c /\ q = p /\ p \in Ports
        BY <1>1, <1>3, <2>2
      <3>2. \/ m.type = "live_init_answer" /\ hold'[c][p] = "granted"
            \/ m.type = "live_play_answer" /\ hold[c][p] = "asked" /\ hold'[c][p] = "playing"
        BY <1>1, <1>3, <2>2, <3>1
      <3>3. QED
        BY <1>6, <1>7, <3>1, <3>2
    <2>3. QED
      BY <2>1, <2>2
  <1>9. QED
    BY <1>2, <1>8, QuietDialogs

(* live_init with an empty pool, and live_play without an INVITE.          *)
LEMMA QuietIpcDialogs ==
    ASSUME DialogInv, NEW c \in Procs, UNCHANGED clientVars, PlayInitNoPort(c) \/ RealPlayUnsent(c)
    PROVE  Dialogs'
  <1>1. toSip \in [Procs -> Seq(Msg)] /\ toLive \in [Procs -> Seq(Msg)]
    BY DialogTypes DEF DialogInv, IndexInv
  <1>2. /\ UNCHANGED <<CallVars, connected>> /\ hold' = hold
        /\ Receive(c, "live_init") \/ Receive(c, "live_play")
    BY DEF PlayInitNoPort, RealPlayUnsent, sipVars, CallVars, clientVars
  <1>3. ASSUME NEW d \in Procs, NEW q \in Ports
        PROVE  NoNewMsg(toLive'[d], toLive[d], "live_play_answer", q)
    <2>1. CASE RealPlayUnsent(c)
      BY <2>1, NoNews DEF RealPlayUnsent
    <2>2. CASE PlayInitNoPort(c)
      <3> DEFINE id == Head(toSip[c]).id
                 msgs == << InitAnswer(id, NoPort, 0), InitAnswer(id, NullPort, -1) >>
      <3>1. Receive(c, "live_init") /\ Relay(c, msgs)
        BY <2>2 DEF PlayInitNoPort
      <3>2. id \in ReqIds
        BY <1>1, <3>1, ReceiveFacts
      <3>3. msgs \in Seq(Msg)
        BY <3>2, ConstantFacts, MessageTypes
      <3>4. ~HasMsg(msgs, "live_play_answer", q)
        BY DEF HasMsg, InitAnswer
      <3> HIDE DEF msgs
      <3>5. QED
        BY <1>1, <3>1, <3>3, <3>4, RelayNews
    <2>3. QED
      BY <2>1, <2>2
  <1>4. ASSUME NEW d \in Procs, NEW q \in Ports
        PROVE  PortStagesAt(d, q)' /\ (AwaitedAt(d, q) => AwaitedAt(d, q)')
    <2>1. /\ NoNewMsg(toSip'[d], toSip[d], "live_play", q) /\ NoNewMsg(toSip'[d], toSip[d], "stop_play", q)
          /\ HasMsg(toSip[d], "stop_play", q) => HasMsg(toSip'[d], "stop_play", q)
      <3>1. CASE Receive(c, "live_init")
        BY <1>1, <3>1, ReceiveNews
      <3>2. CASE Receive(c, "live_play")
        BY <1>1, <3>2, ReceiveNews
      <3>3. QED
        BY <1>2, <3>1, <3>2
    <2>2. QED
      BY <1>2, <1>3, <2>1, QuietStages
  <1>5. QED
    BY <1>2, <1>4, QuietDialogs

(* A stop_play is for a port of the pool, and nobody is gone.              *)
LEMMA ImpossibleSteps ==
    ASSUME DialogInv, NEW c \in Procs
    PROVE  ~StopPlayUnknown(c) /\ ~StopPlayThrows(c) /\ ~StopPlayAll(c) /\ ~ClientRestarts(c)
  <1>1. ~StopPlayUnknown(c)
    BY StopPlayUnknownInv DEF DialogInv, IndexInv
  <1>2. ~StopPlayThrows(c)
    BY StopIsForOwnPort, ConstantFacts DEF StopPlayThrows, DialogInv, IndexInv
  <1>3. ~StopPlayAll(c)
    <2>1. SUFFICES ASSUME StopPlayAll(c) PROVE FALSE
      OBVIOUS
    <2>2. toSip[c] \in Seq(Msg) /\ toSip[c] # << >> /\ Head(toSip[c]).type = "close"
      BY <2>1, DialogTypes, ReceiveFacts DEF StopPlayAll, DialogInv, IndexInv
    <2>3. HasClose(toSip[c])
      BY <2>2, TailClose DEF DialogInv, IndexInv, IInv, CloseIsLast
    <2>4. QED
      BY <2>3 DEF DialogInv, Dialogs, IndexInv, IInv, CloseIsLast
  <1>4. ~ClientRestarts(c)
    BY DEF ClientRestarts, DialogInv, Dialogs
  <1>5. QED
    BY <1>1, <1>2, <1>3, <1>4

-----------------------------------------------------------------------------
(* Steps of sip_server's signalling and of the cameras.                    *)

(* What they leave alone.                                                  *)
SignalFrame == UNCHANGED <<deviceCall, globalCall, ipc, connected, hold, toSip>>

(* Which calls stay as far as they were: those whose dialog and whose      *)
(* dialog id are not touched, and that were not just being acknowledged.   *)
Untouched(k) ==
    /\ SameCall(k)
    /\ \A d \in Cids : dialog[d].obj = k =>
          dialog'[d].obj = k /\ (dialog[d].st \in {"active", "closed"} => dialog'[d].st \in {"active", "closed"})
    /\ \A d \in Cids : dialog'[d].obj = k => dialog[d].obj = k
    /\ Answered(k) => call'[k].did = 1 /\ ~Acking(k)'

LEMMA UntouchedFacts ==
    ASSUME DialogInv, SignalFrame, NEW k \in Calls, Untouched(k)
    PROVE  (Answered(k) => Answered(k)') /\ (NeverInvited(k) => NeverInvited(k)')
  BY DEF SignalFrame, Untouched, SameCall, Answered, NeverInvited, Uninvited

LEMMA SignalStages ==
    ASSUME DialogInv, SignalFrame, \A k \in Calls : Untouched(k), NEW c \in Procs, NEW p \in Ports,
           NoNewMsg(toLive'[c], toLive[c], "live_play_answer", p)
    PROVE  PortStagesAt(c, p)'
  <1>1. hold'[c][p] = hold[c][p] /\ deviceCall'[p] = deviceCall[p] /\ toSip' = toSip
    BY DEF SignalFrame
  <1>2. NoNewMsg(toSip'[c], toSip[c], "live_play", p) /\ NoNewMsg(toSip'[c], toSip[c], "stop_play", p)
    BY <1>1, NoNews
  <1>3. Lent(c, p)' => Lent(c, p)
    <2>1. deviceCall[p] # NoCall => deviceCall[p] \in Calls
      BY DialogTypes DEF DialogInv, IndexInv
    <2>2. QED
      BY <1>1, <2>1 DEF Lent, Untouched, SameCall, KeepsCall
  <1>4. Lent(c, p) => deviceCall[p] \in Calls
    BY LentFacts
  <1>5. Lent(c, p) /\ Answered(deviceCall[p]) => Answered(deviceCall[p])'
    BY <1>1, <1>4, UntouchedFacts
  <1>6. Lent(c, p) /\ NeverInvited(deviceCall[p]) => NeverInvited(deviceCall[p])'
    BY <1>1, <1>4, UntouchedFacts
  <1>7. QED
    BY <1>1, <1>2, <1>3, <1>5, <1>6, StagesFrame

(* The dialogs stay filed, and those of ended calls over, in such a step.  *)
LEMMA SignalFiled ==
    ASSUME DialogInv, SignalFrame, \A k \in Calls : SameCall(k),
           dialog' \in [Cids -> [st : DialogStates, obj : Calls \cup {NoCall}]],
           \A d \in Cids : /\ dialog'[d].obj = dialog[d].obj
                           /\ dialog'[d].st = "none" <=> dialog[d].st = "none"
                           /\ dialog[d].st \in {"closed", "failed"} => dialog'[d].st \in {"closed", "failed"}
    PROVE  DialogsAreFiled' /\ FiledDialogs' /\ NoOrphanDialog' /\ connected' = Procs
  <1>1. \A d \in Cids : dialog[d].obj # NoCall => SameCall(dialog[d].obj)
    BY DialogTypes DEF DialogInv, IndexInv
  <1>2. DialogsAreFiled'
    BY <1>1 DEF DialogInv, Dialogs, DialogsAreFiled, Filed, SignalFrame, SameCall, KeepsCall
  <1>3. FiledDialogs'
    BY DEF DialogInv, Dialogs, FiledDialogs, SignalFrame
  <1>4. NoOrphanDialog'
    BY <1>1 DEF DialogInv, Dialogs, NoOrphanDialog, SameCall, KeepsCall
  <1>5. QED
    BY <1>2, <1>3, <1>4 DEF DialogInv, Dialogs, SignalFrame

LEMMA StillAwaited ==
    ASSUME UNCHANGED hold, NEW k \in Calls, Awaited(k), SameCall(k),
           NoNewMsg(toLive'[call[k].proc], toLive[call[k].proc], "live_play_answer", call[k].port)
    PROVE  Awaited(k)'
  BY DEF Awaited, AwaitedAt, HasAnswer, NoNewMsg, SameCall, KeepsCall

(* The threads of sip_server end together.                                 *)
LEMMA EndTogether ==
    ASSUME DialogInv
    PROVE  sip.at = "dead" <=> ipc.at = "dead"
  BY DEF DialogInv, Dialogs, HandledEvent

(* The call of the event that is being handled has not ended.              *)
LEMMA HandledCall ==
    ASSUME DialogInv, sip.at \in {"ok", "fail", "acked"}
    PROVE  /\ sip.cid \in Cids /\ sip.obj \in Calls /\ globalCall[sip.cid] = sip.obj
           /\ call[sip.obj].st = "live" /\ call[sip.obj].cid = sip.cid
           /\ dialog[sip.cid].obj = sip.obj
           /\ Touched(sip.obj) = {sip.obj}
           /\ \A d \in Cids : dialog[d].obj = sip.obj => d = sip.cid
  <1>1. /\ sip.cid \in Cids /\ sip.obj \in Calls /\ globalCall[sip.cid] = sip.obj
        /\ Cids \subseteq CidKeys /\ NoCall \notin Calls
    BY DialogTypes DEF DialogInv, IndexInv, Dialogs, HandledEvent
  <1>2. call[sip.obj].st = "live" /\ call[sip.obj].cid = sip.cid
    BY <1>1 DEF DialogInv, IndexInv, GlobalTable
  <1>3. dialog[sip.cid].obj = sip.obj
    BY <1>1 DEF DialogInv, Dialogs, FiledDialogs
  <1>4. Touched(sip.obj) = {sip.obj}
    BY <1>2 DEF Touched
  <1>5. \A d \in Cids : dialog[d].obj = sip.obj => d = sip.cid
    BY <1>1, <1>2, <1>3, OneDialog, EndTogether
  <1>6. QED
    BY <1>1, <1>2, <1>3, <1>4, <1>5

(* The events that are left, after one has been taken.                     *)
LEMMA TailEvents ==
    ASSUME DialogInv, events # << >>, events' = Tail(events)
    PROVE  /\ Head(events).cid \in Cids
           /\ dialog[Head(events).cid].st = StateTold(Head(events).kind)
           /\ \A i \in DOMAIN events' : dialog[events'[i].cid].st = StateTold(events'[i].kind)
           /\ \A i, j \in DOMAIN events' : events'[i].cid = events'[j].cid => i = j
           /\ \A i \in DOMAIN events' : events'[i].cid # Head(events).cid
           /\ \A i \in DOMAIN events' : \E j \in DOMAIN events : events'[i] = events[j]
  <1> DEFINE n == Len(events)
  <1>1. events \in Seq([kind : {"ok", "fail"}, cid : Cids])
    BY DialogTypes DEF DialogInv, IndexInv
  <1>2. /\ n \in Nat \ {0} /\ Head(events) = events[1] /\ Head(events) \in [kind : {"ok", "fail"}, cid : Cids]
        /\ Tail(events) \in Seq([kind : {"ok", "fail"}, cid : Cids]) /\ Len(Tail(events)) = n - 1
        /\ \A i \in 1..n - 1 : Tail(events)[i] = events[i + 1]
    BY <1>1, TailFacts
  <1>3. DOMAIN events = 1..n /\ DOMAIN Tail(events) = 1..n - 1
    BY <1>1, <1>2, LenProperties
  <1> HIDE DEF n
  <1>4. /\ 1 \in 1..n /\ \A i \in 1..n - 1 : i + 1 \in 1..n /\ i + 1 # 1
        /\ \A i, j \in 1..n - 1 : i + 1 = j + 1 => i = j
    BY <1>2
  <1>5. EventsTellTheTruth
    BY DEF DialogInv, Dialogs
  <1>6. QED
    BY <1>2, <1>3, <1>4, <1>5 DEF EventsTellTheTruth

LEMMA EventCids ==
    ASSUME DialogInv
    PROVE  \A i \in DOMAIN events : events[i].cid \in Cids
  <1> DEFINE S == [kind : {"ok", "fail"}, cid : Cids]
  <1>1. events \in Seq(S)
    BY DialogTypes DEF DialogInv, IndexInv
  <1>2. \A x \in S : x.cid \in Cids
    OBVIOUS
  <1> HIDE DEF S
  <1>3. DOMAIN events = 1..Len(events) /\ \A i \in 1..Len(events) : events[i] \in S
    BY <1>1, LenProperties, ElementOfSeq
  <1>4. QED
    BY <1>2, <1>3

(* An event of a call that is not in the index is dropped.                 *)
LEMMA DropEventDialogs ==
    ASSUME DialogInv, UNCHANGED clientVars, DropEvent
    PROVE  Dialogs'
  <1>1. /\ SignalFrame /\ UNCHANGED <<call, dialog, sip, toLive>> /\ events # << >>
        /\ events' = Tail(events) /\ sip.at = "idle"
    BY DEF DropEvent, SignalFrame, ipcVars, clientVars
  <1>2. dialog' \in [Cids -> [st : DialogStates, obj : Calls \cup {NoCall}]]
    BY <1>1, DialogTypes DEF DialogInv, IndexInv
  <1>3. \A k \in Calls : SameCall(k) /\ Untouched(k)
    BY <1>1 DEF SameCall, KeepsCall, Untouched, Answered, Acking
  <1>4. DialogsAreFiled' /\ FiledDialogs' /\ NoOrphanDialog' /\ connected' = Procs
    BY <1>1, <1>2, <1>3, SignalFiled
  <1>5. DueCallsAreAwaited'
    BY <1>1 DEF DialogInv, Dialogs, DueCallsAreAwaited, Unsettled, Awaited, AwaitedAt, HasAnswer, SignalFrame
  <1>6. EventsTellTheTruth' /\ HandledEvent'
    BY <1>1, TailEvents, EndTogether DEF EventsTellTheTruth, HandledEvent, SignalFrame
  <1>7. PortStages'
    BY <1>1, <1>3, NoNews, SignalStages DEF PortStages
  <1>8. QED
    BY <1>4, <1>5, <1>6, <1>7 DEF Dialogs

(* An event is taken, and its call looked up.                              *)
LEMMA FindByCallIDDialogs ==
    ASSUME DialogInv, UNCHANGED clientVars, FindByCallID("ok") \/ FindByCallID("fail")
    PROVE  Dialogs'
  <1> DEFINE d == Head(events).cid
             kind == Head(events).kind
  <1>1. /\ SignalFrame /\ UNCHANGED <<call, dialog, toLive>> /\ events # << >>
        /\ events' = Tail(events) /\ sip.at = "idle" /\ kind \in {"ok", "fail"}
        /\ sip' = [at |-> kind, obj |-> globalCall[d], cid |-> d]
    BY DEF FindByCallID, SipEvent, SignalFrame, ipcVars, clientVars
  <1>2. dialog' \in [Cids -> [st : DialogStates, obj : Calls \cup {NoCall}]]
    BY <1>1, DialogTypes DEF DialogInv, IndexInv
  <1>3. \A k \in Calls : SameCall(k) /\ Untouched(k)
    BY <1>1 DEF SameCall, KeepsCall, Untouched, Answered, Acking
  <1>4. DialogsAreFiled' /\ FiledDialogs' /\ NoOrphanDialog' /\ connected' = Procs
    BY <1>1, <1>2, <1>3, SignalFiled
  <1>5. DueCallsAreAwaited'
    BY <1>1 DEF DialogInv, Dialogs, DueCallsAreAwaited, Unsettled, Awaited, AwaitedAt, HasAnswer, SignalFrame
  <1>6. EventsTellTheTruth'
    BY <1>1, TailEvents DEF EventsTellTheTruth
  <1>7. HandledEvent'
    <2>1. d \in Cids /\ dialog[d].st = StateTold(kind) /\ \A i \in DOMAIN events' : events'[i].cid # d
      BY <1>1, TailEvents
    <2>2. globalCall' = globalCall /\ ipc'.at # "dead"
      BY <1>1, EndTogether DEF SignalFrame
    <2>3. sip'.at = kind /\ sip'.cid = d /\ sip'.obj = globalCall[d] /\ kind # "dead"
      BY <1>1
    <2> HIDE DEF d, kind
    <2>4. QED
      BY <1>1, <2>1, <2>2, <2>3 DEF HandledEvent
  <1>8. PortStages'
    BY <1>1, <1>3, NoNews, SignalStages DEF PortStages
  <1>9. QED
    BY <1>4, <1>5, <1>6, <1>7, <1>8 DEF Dialogs

(* The state of one dialog changes.                                        *)
LEMMA DialogStep ==
    ASSUME IInv, NEW d \in Cids, NEW st \in DialogStates, dialog' = [dialog EXCEPT ![d].st = st]
    PROVE  /\ dialog' \in [Cids -> [st : DialogStates, obj : Calls \cup {NoCall}]]
           /\ \A e \in Cids : dialog'[e].obj = dialog[e].obj
           /\ \A e \in Cids \ {d} : dialog'[e] = dialog[e]
           /\ dialog'[d].st = st
  <1>1. dialog \in [Cids -> [st : DialogStates, obj : Calls \cup {NoCall}]]
    BY DialogTypes
  <1>2. dialog' \in [Cids -> [st : DialogStates, obj : Calls \cup {NoCall}]]
    BY <1>1, DialogType
  <1>3. QED
    BY <1>1, <1>2

(* The dialog id goes into one call.                                       *)
LEMMA DidStep ==
    ASSUME IInv, NEW k \in Calls, NEW did, call' = [call EXCEPT ![k].did = did]
    PROVE  /\ \A j \in Calls : SameCall(j)
           /\ \A j \in Calls \ {k} : call'[j] = call[j]
           /\ call'[k].did = did
  <1>1. call \in [Calls -> SipCall]
    BY DialogTypes
  <1>2. QED
    BY <1>1 DEF SipCall, SameCall, KeepsCall

(* The camera's OK is taken, and acknowledged.                             *)
LEMMA AcknowledgedDialogs ==
    ASSUME DialogInv, UNCHANGED clientVars, OnInviteOK, sip' # IdleSip
    PROVE  Dialogs'
  <1> DEFINE d == sip.cid
             k == sip.obj
  <1>1. /\ sip.at = "ok" /\ SignalFrame /\ UNCHANGED <<events, toLive>>
        /\ sip' = [sip EXCEPT !.at = "acked"]
        /\ SetDialog(k, 1)
        /\ dialog' = [dialog EXCEPT ![d].st = IF @ = "answered" THEN "active" ELSE @]
    BY DEF OnInviteOK, SignalFrame, ipcVars, clientVars, DialogIdOfAnswer
  <1>2. /\ d \in Cids /\ k \in Calls /\ globalCall[d] = k /\ call[k].st = "live" /\ dialog[d].obj = k
        /\ Touched(k) = {k} /\ \A e \in Cids : dialog[e].obj = k => e = d
    BY <1>1, HandledCall
  <1>3. dialog[d].st = "answered" /\ \A i \in DOMAIN events : events[i].cid # d
    BY <1>1 DEF DialogInv, Dialogs, HandledEvent, StateTold
  <1>4. sip'.at = "acked" /\ sip'.cid = d /\ sip'.obj = k
    BY <1>1 DEF DialogInv, IndexInv, IInv, TypeOK, SipTypeOK
  <1>5. /\ \A j \in Calls : SameCall(j)
        /\ \A j \in Calls \ {k} : call'[j] = call[j]
        /\ call'[k].did = 1
    <2>1. call' = [call EXCEPT ![k].did = 1]
      BY <1>1, <1>2 DEF SetDialog
    <2>2. QED
      BY <1>2, <2>1, DidStep DEF DialogInv, IndexInv
  <1>6. dialog' = [dialog EXCEPT ![d].st = "active"]
    BY <1>1, <1>3
  <1>7. /\ dialog' \in [Cids -> [st : DialogStates, obj : Calls \cup {NoCall}]]
        /\ \A e \in Cids : dialog'[e].obj = dialog[e].obj
        /\ \A e \in Cids \ {d} : dialog'[e] = dialog[e]
        /\ dialog'[d].st = "active"
    BY <1>2, <1>6, DialogStep DEF DialogInv, IndexInv, DialogStates
  <1> HIDE DEF d, k
  <1>8. \A j \in Calls : Answered(j) => j # k
    BY <1>2, <1>3 DEF Answered
  <1>9. \A j \in Calls : Untouched(j)
    <2> SUFFICES ASSUME NEW j \in Calls PROVE Untouched(j)
      OBVIOUS
    <2>1. \A e \in Cids : dialog[e].st \in {"active", "closed"} => dialog'[e].st \in {"active", "closed"}
      BY <1>7
    <2>2. Answered(j) => call'[j].did = 1 /\ ~Acking(j)'
      BY <1>4, <1>5, <1>8 DEF Answered, Acking
    <2>3. QED
      BY <1>5, <1>7, <2>1, <2>2 DEF Untouched
  <1>10. DialogsAreFiled' /\ FiledDialogs' /\ NoOrphanDialog' /\ connected' = Procs
    <2>1. \A e \in Cids : /\ dialog'[e].st = "none" <=> dialog[e].st = "none"
                          /\ dialog[e].st \in {"closed", "failed"} => dialog'[e].st \in {"closed", "failed"}
      BY <1>3, <1>7
    <2>2. QED
      BY <1>1, <1>5, <1>7, <2>1, SignalFiled
  <1>11. DueCallsAreAwaited'
    <2>1. \A j : Awaited(j) => Awaited(j)'
      <3> TAKE j
      <3>1. SUFFICES ASSUME Awaited(j) PROVE Awaited(j)'
        OBVIOUS
      <3>2. j \in Calls /\ UNCHANGED hold
        BY <1>1, <3>1 DEF Awaited, SignalFrame
      <3>3. QED
        BY <1>1, <1>5, <3>1, <3>2, NoNews, StillAwaited
    <2>2. Awaited(k)
      BY <1>2, <1>3 DEF DialogInv, Dialogs, DueCallsAreAwaited, Unsettled
    <2>3. \A e \in Cids : Unsettled(e)' => Unsettled(e)
      BY <1>7 DEF Unsettled
    <2>4. QED
      BY <1>4, <1>7, <2>1, <2>2, <2>3 DEF DialogInv, Dialogs, DueCallsAreAwaited
  <1>12. EventsTellTheTruth'
    <2>1. \A i \in DOMAIN events : events[i].cid \in Cids
      BY EventCids
    <2>2. QED
      BY <1>1, <1>3, <1>7, <2>1 DEF DialogInv, Dialogs, EventsTellTheTruth
  <1>13. HandledEvent'
    BY <1>1, <1>2, <1>4, <1>5, <1>7, EndTogether DEF HandledEvent, SignalFrame
  <1>14. PortStages'
    BY <1>1, <1>9, NoNews, SignalStages DEF PortStages
  <1>15. QED
    BY <1>10, <1>11, <1>12, <1>13, <1>14 DEF Dialogs

(* ... or not: its INVITE stays answered, and its process waits on.        *)
LEMMA UnacknowledgedDialogs ==
    ASSUME DialogInv, UNCHANGED clientVars, OnInviteOK, sip' = IdleSip
    PROVE  Dialogs'
  <1> DEFINE d == sip.cid
             k == sip.obj
  <1>1. /\ sip.at = "ok" /\ SignalFrame /\ UNCHANGED <<events, toLive, dialog>> /\ sip'.at = "idle"
        /\ SetDialog(k, 1)
    BY DEF OnInviteOK, SignalFrame, ipcVars, clientVars, IdleSip, DialogIdOfAnswer
  <1>2. /\ d \in Cids /\ k \in Calls /\ globalCall[d] = k /\ call[k].st = "live" /\ dialog[d].obj = k
        /\ Touched(k) = {k} /\ \A e \in Cids : dialog[e].obj = k => e = d
    BY <1>1, HandledCall
  <1>3. dialog[d].st = "answered"
    BY <1>1 DEF DialogInv, Dialogs, HandledEvent, StateTold
  <1>4. /\ \A j \in Calls : SameCall(j)
        /\ \A j \in Calls \ {k} : call'[j] = call[j]
    <2>1. call' = [call EXCEPT ![k].did = 1]
      BY <1>1, <1>2 DEF SetDialog
    <2>2. QED
      BY <1>2, <2>1, DidStep DEF DialogInv, IndexInv
  <1>5. dialog' \in [Cids -> [st : DialogStates, obj : Calls \cup {NoCall}]]
    BY <1>1, DialogTypes DEF DialogInv, IndexInv
  <1> HIDE DEF d, k
  <1>6. \A j \in Calls : Answered(j) => j # k
    BY <1>2, <1>3 DEF Answered
  <1>7. \A j \in Calls : Untouched(j)
    BY <1>1, <1>4, <1>6 DEF Untouched, Answered, Acking
  <1>8. DialogsAreFiled' /\ FiledDialogs' /\ NoOrphanDialog' /\ connected' = Procs
    BY <1>1, <1>4, <1>5, SignalFiled
  <1>9. DueCallsAreAwaited'
    <2>1. \A j : Awaited(j) => Awaited(j)'
      <3> TAKE j
      <3>1. SUFFICES ASSUME Awaited(j) PROVE Awaited(j)'
        OBVIOUS
      <3>2. j \in Calls /\ UNCHANGED hold
        BY <1>1, <3>1 DEF Awaited, SignalFrame
      <3>3. QED
        BY <1>1, <1>4, <3>1, <3>2, NoNews, StillAwaited
    <2>2. \A e \in Cids : (Unsettled(e)' <=> Unsettled(e)) /\ dialog'[e].obj = dialog[e].obj
      BY <1>1 DEF Unsettled
    <2>3. QED
      BY <1>1, <2>1, <2>2 DEF DialogInv, Dialogs, DueCallsAreAwaited
  <1>10. EventsTellTheTruth' /\ HandledEvent'
    BY <1>1, EndTogether DEF DialogInv, Dialogs, EventsTellTheTruth, HandledEvent, SignalFrame
  <1>11. PortStages'
    BY <1>1, <1>7, NoNews, SignalStages DEF PortStages
  <1>12. QED
    BY <1>8, <1>9, <1>10, <1>11 DEF Dialogs

(* A 200 OK without a body ends sip_server; nothing is told to anybody.    *)
LEMMA OnInviteOKThrowsDialogs ==
    ASSUME DialogInv, UNCHANGED clientVars, OnInviteOKThrows
    PROVE  Dialogs'
  <1>1. /\ UNCHANGED <<deviceCall, globalCall, call, dialog, events, connected, toSip, toLive, hold>>
        /\ sip.at = "ok" /\ sip'.at = "dead" /\ ipc'.at = "dead"
    BY DEF OnInviteOKThrows, ipcVars, clientVars, IdleIpc, IdleSip
  <1>2. DialogsAreFiled' /\ FiledDialogs' /\ NoOrphanDialog' /\ connected' = Procs
    BY <1>1 DEF DialogInv, Dialogs, DialogsAreFiled, Filed, FiledDialogs, NoOrphanDialog
  <1>3. DueCallsAreAwaited'
    BY <1>1 DEF DialogInv, Dialogs, DueCallsAreAwaited, Unsettled, Awaited, AwaitedAt, HasAnswer
  <1>4. EventsTellTheTruth' /\ HandledEvent'
    BY <1>1 DEF DialogInv, Dialogs, EventsTellTheTruth, HandledEvent
  <1>5. \A k : (Answered(k) => Answered(k)') /\ (NeverInvited(k) => NeverInvited(k)')
    BY <1>1 DEF Answered, Acking, NeverInvited, Uninvited
  <1>6. PortStages'
    <2> SUFFICES ASSUME NEW c \in Procs, NEW p \in Ports PROVE PortStagesAt(c, p)'
      BY DEF PortStages
    <2>1. Lent(c, p)' <=> Lent(c, p)
      BY <1>1 DEF Lent
    <2>2. QED
      BY <1>1, <1>5, <2>1, NoNews, StagesFrame
  <1>7. QED
    BY <1>2, <1>3, <1>4, <1>6 DEF Dialogs

(* The camera's refusal is taken.                                          *)
LEMMA OnInviteFailedDialogs ==
    ASSUME DialogInv, UNCHANGED clientVars, OnInviteFailed
    PROVE  Dialogs'
  <1> DEFINE d == sip.cid
             k == sip.obj
  <1>1. /\ sip.at = "fail" /\ SignalFrame /\ UNCHANGED <<events, toLive>> /\ sip'.at = "idle"
        /\ SetDialog(k, -1)
        /\ dialog' = [dialog EXCEPT ![d].st = "failed"]
    BY DEF OnInviteFailed, SignalFrame, ipcVars, clientVars, IdleSip
  <1>2. /\ d \in Cids /\ k \in Calls /\ globalCall[d] = k /\ call[k].st = "live" /\ dialog[d].obj = k
        /\ Touched(k) = {k} /\ \A e \in Cids : dialog[e].obj = k => e = d
    BY <1>1, HandledCall
  <1>3. dialog[d].st = "rejected" /\ \A i \in DOMAIN events : events[i].cid # d
    BY <1>1 DEF DialogInv, Dialogs, HandledEvent, StateTold
  <1>4. /\ \A j \in Calls : SameCall(j)
        /\ \A j \in Calls \ {k} : call'[j] = call[j]
    <2>1. call' = [call EXCEPT ![k].did = -1]
      BY <1>1, <1>2 DEF SetDialog
    <2>2. QED
      BY <1>2, <2>1, DidStep DEF DialogInv, IndexInv
  <1>5. /\ dialog' \in [Cids -> [st : DialogStates, obj : Calls \cup {NoCall}]]
        /\ \A e \in Cids : dialog'[e].obj = dialog[e].obj
        /\ \A e \in Cids \ {d} : dialog'[e] = dialog[e]
        /\ dialog'[d].st = "failed"
    BY <1>1, <1>2, DialogStep DEF DialogInv, IndexInv, DialogStates
  <1> HIDE DEF d, k
  <1>6. \A j \in Calls : Answered(j) => j # k
    BY <1>2, <1>3 DEF Answered
  <1>7. \A j \in Calls : Untouched(j)
    <2> SUFFICES ASSUME NEW j \in Calls PROVE Untouched(j)
      OBVIOUS
    <2>1. \A e \in Cids : dialog[e].st \in {"active", "closed"} => dialog'[e].st \in {"active", "closed"}
      BY <1>3, <1>5
    <2>2. Answered(j) => call'[j].did = 1 /\ ~Acking(j)'
      BY <1>1, <1>4, <1>6 DEF Answered, Acking
    <2>3. QED
      BY <1>4, <1>5, <2>1, <2>2 DEF Untouched
  <1>8. DialogsAreFiled' /\ FiledDialogs' /\ NoOrphanDialog' /\ connected' = Procs
    <2>1. \A e \in Cids : /\ dialog'[e].st = "none" <=> dialog[e].st = "none"
                          /\ dialog[e].st \in {"closed", "failed"} => dialog'[e].st \in {"closed", "failed"}
      BY <1>3, <1>5
    <2>2. QED
      BY <1>1, <1>4, <1>5, <2>1, SignalFiled
  <1>9. DueCallsAreAwaited'
    <2>1. \A j : Awaited(j) => Awaited(j)'
      <3> TAKE j
      <3>1. SUFFICES ASSUME Awaited(j) PROVE Awaited(j)'
        OBVIOUS
      <3>2. j \in Calls /\ UNCHANGED hold
        BY <1>1, <3>1 DEF Awaited, SignalFrame
      <3>3. QED
        BY <1>1, <1>4, <3>1, <3>2, NoNews, StillAwaited
    <2>2. \A e \in Cids : Unsettled(e)' => Unsettled(e)
      BY <1>5 DEF Unsettled
    <2>3. QED
      BY <1>1, <1>5, <2>1, <2>2 DEF DialogInv, Dialogs, DueCallsAreAwaited
  <1>10. EventsTellTheTruth'
    <2>1. \A i \in DOMAIN events : events[i].cid \in Cids
      BY EventCids
    <2>2. QED
      BY <1>1, <1>3, <1>5, <2>1 DEF DialogInv, Dialogs, EventsTellTheTruth
  <1>11. HandledEvent'
    BY <1>1, EndTogether DEF HandledEvent, SignalFrame
  <1>12. PortStages'
    BY <1>1, <1>7, NoNews, SignalStages DEF PortStages
  <1>13. QED
    BY <1>8, <1>9, <1>10, <1>11, <1>12 DEF Dialogs

(* The process that asked is told.                                         *)
LEMMA OnPlayCbDialogs ==
    ASSUME DialogInv, UNCHANGED clientVars, OnPlayCb
    PROVE  Dialogs'
  <1> PICK d, k : d = sip.cid /\ k = sip.obj
    OBVIOUS
  <1>1. sip.at = "acked" /\ SignalFrame /\ UNCHANGED <<call, dialog, events>> /\ sip'.at = "idle"
    BY DEF OnPlayCb, SignalFrame, clientVars, IdleSip
  <1>2. /\ d \in Cids /\ k \in Calls /\ globalCall[d] = k /\ call[k].st = "live" /\ call[k].cid = d
        /\ dialog[d].obj = k /\ Touched(k) = {k} /\ \A e \in Cids : dialog[e].obj = k => e = d
    BY <1>1, HandledCall
  <1>3. Awaited(k) /\ call[k].did = 1 /\ dialog[d].st \in {"active", "closed"}
    BY <1>1 DEF DialogInv, Dialogs, DueCallsAreAwaited, HandledEvent
  <1> PICK c, p : c = call[k].proc /\ p = call[k].port
    OBVIOUS
  <1> DEFINE m == PlayAnswer(call[k].id, p, 0)
             msgs == << m >>
  <1>4. /\ toLive \in [Procs -> Seq(Msg)] /\ call[k] \in SipCall /\ dialog' \in [Cids -> [st : DialogStates, obj : Calls \cup {NoCall}]]
    BY <1>1, <1>2, DialogTypes DEF DialogInv, IndexInv
  <1>5. Relay(c, msgs)
    BY <1>2 DEF OnPlayCb
  <1>6. m \in Msg /\ m.type = "live_play_answer" /\ m.port = p
    BY <1>4, MessageTypes DEF PlayAnswer, SipCall
  <1>7. /\ c \in Procs /\ p \in Ports /\ hold[c][p] = "asked" /\ ~HasAnswer(c, p) /\ deviceCall[p] = k
    BY <1>2, <1>3 DEF Awaited, AwaitedAt, DialogInv, NoCallLeaks
  <1> HIDE DEF m
  <1>8. msgs \in Seq(Msg) /\ (\A q : HasMsg(msgs, "live_play_answer", q) <=> q = p)
        /\ OneMsg(msgs, "live_play_answer", p)
    BY <1>6, SingleMsg
  <1> HIDE DEF msgs
  <1>9. ASSUME NEW e \in Procs, NEW q \in Ports, e # c \/ q # p
        PROVE  NoNewMsg(toLive'[e], toLive[e], "live_play_answer", q)
    BY <1>9, <1>4, <1>5, <1>8, RelayNews
  <1>10. OneMsg(toLive'[c], "live_play_answer", p)
    <2>1. c \in connected
      BY <1>7 DEF DialogInv, Dialogs
    <2>2. toLive'[c] = toLive[c] \o msgs /\ toLive[c] \in Seq(Msg)
      BY <1>4, <1>5, <1>7, <2>1 DEF Relay
    <2>3. QED
      BY <1>7, <1>8, <2>2, ConcatMsg DEF HasAnswer
  <1>11. \A j \in Calls : SameCall(j) /\ Untouched(j)
    BY <1>1 DEF SameCall, KeepsCall, Untouched, Answered, Acking
  <1>12. DialogsAreFiled' /\ FiledDialogs' /\ NoOrphanDialog' /\ connected' = Procs
    BY <1>1, <1>4, <1>11, SignalFiled
  <1>13. DueCallsAreAwaited'
    <2> SUFFICES ASSUME NEW e \in Cids, Unsettled(e) PROVE Awaited(dialog[e].obj)'
      BY <1>1 DEF DueCallsAreAwaited, Unsettled
    <2> PICK j : j = dialog[e].obj
      OBVIOUS
    <2>1. Awaited(j)
      BY DEF DialogInv, Dialogs, DueCallsAreAwaited
    <2>2. e # d
      BY <1>3 DEF Unsettled
    <2>3. j # k
      BY <1>2, <2>2
    <2>4. j \in Calls /\ call[j].proc \in Procs /\ call[j].port \in Ports /\ deviceCall[call[j].port] = j
      BY <2>1 DEF Awaited, DialogInv, NoCallLeaks
    <2>5. call[j].port # p
      BY <1>7, <2>3, <2>4
    <2>6. NoNewMsg(toLive'[call[j].proc], toLive[call[j].proc], "live_play_answer", call[j].port)
      BY <1>9, <2>4, <2>5
    <2>7. UNCHANGED hold /\ SameCall(j)
      BY <1>1, <1>11, <2>4 DEF SignalFrame
    <2>8. Awaited(j)'
      BY <2>1, <2>4, <2>6, <2>7, StillAwaited
    <2>9. dialog' = dialog
      BY <1>1
    <2>10. QED
      BY <2>8, <2>9
  <1>14. EventsTellTheTruth' /\ HandledEvent'
    BY <1>1, EndTogether DEF DialogInv, Dialogs, EventsTellTheTruth, HandledEvent, SignalFrame
  <1>15. PortStagesAt(c, p)'
    <2>1. PortStagesAt(c, p)
      BY <1>7 DEF DialogInv, Dialogs, PortStages
    <2>2. Answered(k)'
      BY <1>1, <1>2, <1>3 DEF Answered, Acking, SignalFrame
    <2>3. ~Uninvited(k)
      BY <1>2, <1>4, DialogTypes DEF Uninvited, DialogInv, IndexInv
    <2>4. ~HasMsg(toSip[c], "live_play", p)
      BY <1>7, <2>3 DEF DialogInv, IndexInv, PlaysOnce, PlaysOnceAt, Fresh
    <2>5. UNCHANGED <<deviceCall, hold, toSip>>
      BY <1>1 DEF SignalFrame
    <2>6. QED
      BY <1>7, <1>10, <2>1, <2>2, <2>4, <2>5 DEF PortStagesAt
  <1>16. ASSUME NEW e \in Procs, NEW q \in Ports, e # c \/ q # p PROVE PortStagesAt(e, q)'
    BY <1>16, <1>1, <1>9, <1>11, SignalStages
  <1>17. PortStages'
    BY <1>15, <1>16 DEF PortStages
  <1>18. QED
    BY <1>12, <1>13, <1>14, <1>17 DEF Dialogs

(* The camera answers.                                                     *)
LEMMA DeviceAnswersDialogs ==
    ASSUME DialogInv, UNCHANGED clientVars, NEW d \in Cids, DeviceAnswers(d)
    PROVE  Dialogs'
  <1>1. /\ SignalFrame /\ UNCHANGED <<call, sip, toLive>> /\ dialog[d].st = "calling"
    BY DEF DeviceAnswers, SignalFrame, ipcVars, clientVars
  <1>2. PICK kind \in {"ok", "fail"} : /\ dialog' = [dialog EXCEPT ![d].st = StateTold(kind)]
                                       /\ events' = Append(events, [kind |-> kind, cid |-> d])
    BY DEF DeviceAnswers, StateTold
  <1>3. StateTold(kind) \in {"answered", "rejected"}
    BY DEF StateTold
  <1>4. /\ dialog' \in [Cids -> [st : DialogStates, obj : Calls \cup {NoCall}]]
        /\ \A e \in Cids : dialog'[e].obj = dialog[e].obj
        /\ \A e \in Cids \ {d} : dialog'[e] = dialog[e]
        /\ dialog'[d].st = StateTold(kind)
    BY <1>2, <1>3, DialogStep DEF DialogInv, IndexInv, DialogStates
  <1>5. \A j \in Calls : SameCall(j) /\ Untouched(j)
    <2> SUFFICES ASSUME NEW j \in Calls PROVE SameCall(j) /\ Untouched(j)
      OBVIOUS
    <2>1. \A e \in Cids : dialog[e].st \in {"active", "closed"} => dialog'[e].st \in {"active", "closed"}
      BY <1>1, <1>4
    <2>2. SameCall(j) /\ (Answered(j) => call'[j].did = 1 /\ ~Acking(j)')
      BY <1>1 DEF Answered, Acking, SameCall, KeepsCall
    <2>3. QED
      BY <1>4, <2>1, <2>2 DEF Untouched
  <1>6. DialogsAreFiled' /\ FiledDialogs' /\ NoOrphanDialog' /\ connected' = Procs
    <2>1. \A e \in Cids : /\ dialog'[e].st = "none" <=> dialog[e].st = "none"
                          /\ dialog[e].st \in {"closed", "failed"} => dialog'[e].st \in {"closed", "failed"}
      BY <1>1, <1>3, <1>4
    <2>2. QED
      BY <1>1, <1>4, <1>5, <2>1, SignalFiled
  <1>7. DueCallsAreAwaited'
    <2>1. \A j : Awaited(j) => Awaited(j)'
      BY <1>1 DEF Awaited, AwaitedAt, HasAnswer, SignalFrame
    <2>2. \A e \in Cids : Unsettled(e)' => Unsettled(e)
      BY <1>1, <1>4 DEF Unsettled
    <2>3. QED
      BY <1>1, <1>4, <2>1, <2>2 DEF DialogInv, Dialogs, DueCallsAreAwaited
  <1>8. \A i \in DOMAIN events : events[i].cid \in Cids /\ events[i].cid # d
    BY <1>1, EventCids DEF DialogInv, Dialogs, EventsTellTheTruth, StateTold
  <1> DEFINE n == Len(events)
             S == [kind : {"ok", "fail"}, cid : Cids]
             e1 == [kind |-> kind, cid |-> d]
  <1>9. /\ n \in Nat /\ DOMAIN events = 1..n /\ DOMAIN events' = 1..n + 1
        /\ (\A i \in 1..n : events'[i] = events[i]) /\ events'[n + 1] = e1
    <2>1. events \in Seq(S)
      BY DialogTypes DEF DialogInv, IndexInv
    <2>2. e1 \in S
      OBVIOUS
    <2> HIDE DEF S, e1
    <2>3. events' = Append(events, e1)
      BY <1>2 DEF e1
    <2>4. QED
      BY <2>1, <2>2, <2>3, AppendProperties, LenProperties
  <1>10. e1.kind = kind /\ e1.cid = d
    OBVIOUS
  <1> HIDE DEF n, S, e1
  <1>11. \A i \in 1..n + 1 : i \in 1..n \/ i = n + 1
    BY <1>9
  <1>12. EventsTellTheTruth'
    <2>1. ASSUME NEW i \in 1..n + 1 PROVE dialog'[events'[i].cid].st = StateTold(events'[i].kind)
      <3>1. CASE i \in 1..n
        BY <1>4, <1>8, <1>9, <3>1 DEF DialogInv, Dialogs, EventsTellTheTruth
      <3>2. CASE i = n + 1
        BY <1>4, <1>9, <1>10, <3>2
      <3>3. QED
        BY <1>11, <3>1, <3>2
    <2>2. ASSUME NEW i \in 1..n + 1, NEW j \in 1..n + 1, events'[i].cid = events'[j].cid PROVE i = j
      <3>1. CASE i \in 1..n /\ j \in 1..n
        BY <1>9, <2>2, <3>1 DEF DialogInv, Dialogs, EventsTellTheTruth
      <3>2. CASE i = n + 1 /\ j \in 1..n
        BY <1>8, <1>9, <1>10, <2>2, <3>2
      <3>3. CASE i \in 1..n /\ j = n + 1
        BY <1>8, <1>9, <1>10, <2>2, <3>3
      <3>4. QED
        BY <1>11, <3>1, <3>2, <3>3
    <2>3. QED
      BY <1>9, <2>1, <2>2 DEF EventsTellTheTruth
  <1>13. HandledEvent'
    <2>1. HandledEvent
      BY DEF DialogInv, Dialogs
    <2>2. sip.at \in {"ok", "fail", "acked"} => sip.cid # d
      BY <1>1, <2>1 DEF HandledEvent, StateTold
    <2>3. ASSUME sip.at \in {"ok", "fail"} PROVE \A i \in DOMAIN events' : events'[i].cid # sip.cid
      BY <1>9, <1>10, <1>11, <2>1, <2>2, <2>3 DEF HandledEvent
    <2>4. QED
      BY <1>1, <1>4, <2>1, <2>2, <2>3 DEF HandledEvent, SignalFrame
  <1>14. PortStages'
    BY <1>1, <1>5, NoNews, SignalStages DEF PortStages
  <1>15. QED
    BY <1>6, <1>7, <1>12, <1>13, <1>14 DEF Dialogs

(* The camera hangs up.                                                    *)
LEMMA DeviceHangsUpDialogs ==
    ASSUME DialogInv, UNCHANGED clientVars, NEW d \in Cids, DeviceHangsUp(d)
    PROVE  Dialogs'
  <1>1. /\ SignalFrame /\ UNCHANGED <<call, sip, events, toLive>> /\ dialog[d].st = "active"
        /\ dialog' = [dialog EXCEPT ![d].st = "closed"]
    BY DEF DeviceHangsUp, SignalFrame, ipcVars, clientVars
  <1>2. /\ dialog' \in [Cids -> [st : DialogStates, obj : Calls \cup {NoCall}]]
        /\ \A e \in Cids : dialog'[e].obj = dialog[e].obj
        /\ \A e \in Cids \ {d} : dialog'[e] = dialog[e]
        /\ dialog'[d].st = "closed"
    BY <1>1, DialogStep DEF DialogInv, IndexInv, DialogStates
  <1>3. \A j \in Calls : SameCall(j) /\ Untouched(j)
    <2> SUFFICES ASSUME NEW j \in Calls PROVE SameCall(j) /\ Untouched(j)
      OBVIOUS
    <2>1. \A e \in Cids : dialog[e].st \in {"active", "closed"} => dialog'[e].st \in {"active", "closed"}
      BY <1>1, <1>2
    <2>2. SameCall(j) /\ (Answered(j) => call'[j].did = 1 /\ ~Acking(j)')
      BY <1>1 DEF Answered, Acking, SameCall, KeepsCall
    <2>3. QED
      BY <1>2, <2>1, <2>2 DEF Untouched
  <1>4. DialogsAreFiled' /\ FiledDialogs' /\ NoOrphanDialog' /\ connected' = Procs
    <2>1. \A e \in Cids : /\ dialog'[e].st = "none" <=> dialog[e].st = "none"
                          /\ dialog[e].st \in {"closed", "failed"} => dialog'[e].st \in {"closed", "failed"}
      BY <1>1, <1>2
    <2>2. QED
      BY <1>1, <1>2, <1>3, <2>1, SignalFiled
  <1>5. DueCallsAreAwaited'
    <2>1. \A j : Awaited(j) => Awaited(j)'
      BY <1>1 DEF Awaited, AwaitedAt, HasAnswer, SignalFrame
    <2>2. \A e \in Cids : Unsettled(e)' => Unsettled(e)
      BY <1>2 DEF Unsettled
    <2>3. QED
      BY <1>1, <1>2, <2>1, <2>2 DEF DialogInv, Dialogs, DueCallsAreAwaited
  <1>6. EventsTellTheTruth'
    BY <1>1, <1>2, EventCids DEF DialogInv, Dialogs, EventsTellTheTruth, StateTold
  <1>7. HandledEvent'
    BY <1>1, <1>2 DEF DialogInv, Dialogs, HandledEvent, SignalFrame, StateTold
  <1>8. PortStages'
    BY <1>1, <1>3, NoNews, SignalStages DEF PortStages
  <1>9. QED
    BY <1>4, <1>5, <1>6, <1>7, <1>8 DEF Dialogs

-----------------------------------------------------------------------------
(* Steps of the IPC thread that begin, invite, index and end calls.        *)

(* A port is lent: its call has no INVITE.                                 *)
LEMMA PlayInitDialogs ==
    ASSUME DialogInv, IndexInv', NEW c \in Procs, PlayInit(c), UNCHANGED clientVars
    PROVE  Dialogs'
  <1>1. /\ toSip \in [Procs -> Seq(Msg)] /\ toLive \in [Procs -> Seq(Msg)]
        /\ call \in [Calls -> SipCall] /\ deviceCall \in [PortKeys -> Calls \cup {NoCall}]
        /\ Ports \subseteq PortKeys /\ NoCall \notin Calls
        /\ dialog \in [Cids -> [st : DialogStates, obj : Calls \cup {NoCall}]]
        /\ Cids \subseteq CidKeys
    BY DialogTypes DEF DialogInv, IndexInv
  <1>2. PICK p \in Ports, k \in Calls : Lends(c, p, k)
    BY PlayInitLends DEF DialogInv, IndexInv
  <1>3. /\ Receive(c, "live_init") /\ ipc.at = "idle" /\ hold' = hold
        /\ UNCHANGED <<globalCall, ipc, sip, events, dialog, connected>>
    BY DEF PlayInit, Receive, clientVars
  <1>4. PICK id, q : id = Head(toSip[c]).id /\ q = Head(ports)
    OBVIOUS
  <1> DEFINE m == InitAnswer(id, q, 0)
             msgs == << m >>
  <1>5. Relay(c, msgs)
    BY <1>4 DEF PlayInit
  <1>6. m \in Msg /\ m.type = "live_init_answer"
    <2>1. id \in ReqIds
      BY <1>1, <1>3, <1>4, ReceiveFacts
    <2>2. q \in PortKeys
      <3>1. ports \in Seq(PortKeys) /\ ports # << >>
        BY DEF PlayInit, DialogInv, IndexInv, IInv, TypeOK, SipTypeOK
      <3>2. QED
        BY <1>4, <3>1, TailFacts
    <2>3. QED
      BY <2>1, <2>2, MessageTypes DEF InitAnswer
  <1> HIDE DEF m
  <1>7. msgs \in Seq(Msg) /\ \A x : ~HasMsg(msgs, "live_play_answer", x)
    BY <1>6, SingleMsg
  <1> HIDE DEF msgs
  <1>8. ASSUME NEW e \in Procs, NEW x PROVE NoNewMsg(toLive'[e], toLive[e], "live_play_answer", x)
    BY <1>1, <1>5, <1>7, RelayNews
  <1>9. /\ call[k].st = "new" /\ deviceCall[p] = NoCall /\ deviceCall'[p] = k
        /\ (\A x \in PortKeys \ {p} : deviceCall'[x] = deviceCall[x])
        /\ (\A j \in Calls \ {k} : call'[j] = call[j])
        /\ call'[k].st = "live" /\ call'[k].proc = c /\ call'[k].cid = NoCid
    BY <1>1, <1>2 DEF Lends
  <1>10. \A j \in Calls : call[j].st # "new" => j # k /\ call'[j] = call[j]
    BY <1>9
  <1>11. \A d \in Cids : dialog[d].obj # NoCall => call'[dialog[d].obj] = call[dialog[d].obj] /\ dialog[d].obj # k
    BY <1>1, <1>10 DEF DialogInv, Dialogs, DialogsAreFiled
  <1>12. \A j : Awaited(j) => Awaited(j)'
    <2> TAKE j
    <2>1. SUFFICES ASSUME Awaited(j) PROVE Awaited(j)'
      OBVIOUS
    <2>2. j \in Calls /\ call'[j] = call[j] /\ call[j].proc \in Procs
      BY <1>10, <2>1 DEF Awaited
    <2>3. SameCall(j) /\ UNCHANGED hold
      BY <1>3, <2>2 DEF SameCall, KeepsCall
    <2>4. QED
      BY <1>8, <2>1, <2>2, <2>3, StillAwaited
  <1>13. DialogsAreFiled' /\ FiledDialogs' /\ NoOrphanDialog' /\ connected' = Procs
    <2>1. DialogsAreFiled'
      BY <1>3, <1>11 DEF DialogInv, Dialogs, DialogsAreFiled, Filed
    <2>2. FiledDialogs'
      BY <1>3 DEF DialogInv, Dialogs, FiledDialogs
    <2>3. NoOrphanDialog'
      BY <1>3, <1>11 DEF DialogInv, Dialogs, NoOrphanDialog
    <2>4. QED
      BY <1>3, <2>1, <2>2, <2>3 DEF DialogInv, Dialogs
  <1>14. DueCallsAreAwaited'
    BY <1>3, <1>12 DEF DialogInv, Dialogs, DueCallsAreAwaited, Unsettled
  <1>15. EventsTellTheTruth'
    BY <1>3 DEF DialogInv, Dialogs, EventsTellTheTruth
  <1>16. HandledEvent'
    <2>1. sip.at = "acked" => call'[sip.obj] = call[sip.obj]
      BY <1>10, HandledCall
    <2>2. QED
      BY <1>3, <2>1 DEF DialogInv, Dialogs, HandledEvent
  <1>17. NeverInvited(k)'
    <2>1. \A d \in CidKeys : globalCall[d] # k
      BY <1>1, <1>9, ConstantFacts DEF DialogInv, IndexInv, GlobalTable
    <2>2. \A d \in Cids : dialog[d].obj # k
      BY <1>1, <1>11
    <2>3. QED
      BY <1>3, <1>9, <2>1, <2>2 DEF NeverInvited, Uninvited
  <1>18. ASSUME NEW e \in Procs, NEW x \in Ports PROVE PortStagesAt(e, x)'
    <2>1. /\ NoNewMsg(toSip'[e], toSip[e], "live_play", x) /\ NoNewMsg(toSip'[e], toSip[e], "stop_play", x)
          /\ HasMsg(toSip[e], "stop_play", x) => HasMsg(toSip'[e], "stop_play", x)
      BY <1>1, <1>3, ReceiveNews
    <2>2. CASE x # p
      <3>1. hold'[e][x] = hold[e][x] /\ deviceCall'[x] = deviceCall[x]
        BY <1>1, <1>3, <1>9, <2>2
      <3>2. Lent(e, x)' => Lent(e, x)
        <4>1. deviceCall[x] # NoCall => call'[deviceCall[x]] = call[deviceCall[x]]
          BY <1>1, <1>10, OwnCalls DEF DialogInv, IndexInv
        <4>2. QED
          BY <3>1, <4>1 DEF Lent
      <3>3. Lent(e, x) => /\ deviceCall[x] \in Calls /\ deviceCall[x] # k
                          /\ call'[deviceCall[x]] = call[deviceCall[x]]
        BY <1>9, <1>10, LentFacts
      <3>4. Lent(e, x) /\ Answered(deviceCall[x]) => Answered(deviceCall[x])'
        BY <1>3, <3>1, <3>3 DEF Answered, Acking
      <3>5. Lent(e, x) /\ NeverInvited(deviceCall[x]) => NeverInvited(deviceCall[x])'
        BY <1>3, <3>1, <3>3 DEF NeverInvited, Uninvited
      <3>6. QED
        BY <1>8, <2>1, <3>1, <3>2, <3>4, <3>5, StagesFrame
    <2>3. CASE x = p
      <3>1. ~Lent(e, p)
        BY <1>9 DEF Lent
      <3>2. /\ hold[e][p] = "none" /\ ~HasAnswer(e, p)
            /\ ~HasMsg(toSip[e], "stop_play", p) /\ ~HasMsg(toSip[e], "live_play", p)
        BY <3>1, LentFacts
      <3>3. OneMsg(toLive[e], "live_play_answer", p)
        BY DEF DialogInv, Dialogs, PortStages, PortStagesAt
      <3>4. /\ hold'[e][p] = "none" /\ ~HasAnswer(e, p)' /\ OneMsg(toLive'[e], "live_play_answer", p)
            /\ ~HasMsg(toSip'[e], "stop_play", p) /\ ~HasMsg(toSip'[e], "live_play", p)
        BY <1>3, <1>8, <2>1, <2>3, <3>2, <3>3 DEF NoNewMsg, HasAnswer
      <3>5. NeverInvited(deviceCall[p])'
        BY <1>9, <1>17 DEF NeverInvited, Uninvited
      <3>6. QED
        BY <2>3, <3>4, <3>5 DEF PortStagesAt
    <2>4. QED
      BY <2>2, <2>3
  <1>19. QED
    BY <1>13, <1>14, <1>15, <1>16, <1>18 DEF Dialogs, PortStages

(* The INVITE leaves; whoever asked for it waits.                          *)
LEMMA SendInviteDialogs ==
    ASSUME DialogInv, NEW c \in Procs, SendInvite(c), UNCHANGED clientVars
    PROVE  Dialogs'
  <1> PICK p, k : p = Head(toSip[c]).port /\ k = deviceCall[p]
    OBVIOUS
  <1>1. /\ toSip \in [Procs -> Seq(Msg)] /\ Ports \subseteq PortKeys /\ NoCall \notin Calls
        /\ dialog \in [Cids -> [st : DialogStates, obj : Calls \cup {NoCall}]]
        /\ Cids \subseteq CidKeys /\ globalCall \in [CidKeys -> Calls \cup {NoCall}]
    BY DialogTypes DEF DialogInv, IndexInv
  <1>2. /\ Receive(c, "live_play") /\ k # NoCall /\ ipc.at = "idle" /\ hold' = hold
        /\ UNCHANGED <<deviceCall, globalCall, call, sip, events, connected, toLive>>
        /\ ipc'.at = "invited" /\ ipc'.obj = k
    BY DEF SendInvite, Receive, clientVars
  <1>3. /\ p \in PortKeys /\ toSip[c] \in Seq(Msg) /\ toSip[c] # << >> /\ Head(toSip[c]).type = "live_play"
    BY <1>1, <1>2, ReceiveFacts
  <1>4. p \in Ports /\ k \in Calls /\ call[k].st = "live" /\ call[k].port = p
        /\ \A q \in PortKeys : deviceCall[q] = k => q = p
    BY <1>2, <1>3, OwnCalls DEF DialogInv, IndexInv
  <1>5. HasMsg(toSip[c], "live_play", p)
    BY <1>3, TailMsg
  <1>6. Fresh(c, p) /\ AwaitedAt(c, p)
    BY <1>4, <1>5 DEF DialogInv, IndexInv, PlaysOnce, PlaysOnceAt, Dialogs, PortStages, PortStagesAt
  <1>7. NeverInvited(k) /\ call[k].proc = c
    BY <1>2, <1>4, <1>6, FreshIsNeverInvited DEF Fresh, Lent
  <1>8. Awaited(k)
    BY <1>4, <1>6, <1>7 DEF Awaited
  <1>9. \A j : Awaited(j) => Awaited(j)'
    BY <1>2 DEF Awaited, AwaitedAt, HasAnswer
  <1>10. \/ \E d \in Cids : /\ dialog[d].st = "none" /\ ipc'.cid = d
                            /\ dialog' = [dialog EXCEPT ![d] = [st |-> "calling", obj |-> k]]
         \/ ipc'.cid = NoCid /\ dialog' = dialog
    BY DEF SendInvite, FreshCid
  <1>11. NoCid \notin Cids
    BY ConstantFacts DEF Cids, NoCid
  <1>12. /\ dialog' \in [Cids -> [st : DialogStates, obj : Calls \cup {NoCall}]]
         /\ \A d \in Cids : dialog'[d] = dialog[d]
                \/ /\ dialog[d].st = "none" /\ dialog[d].obj = NoCall /\ ipc'.cid = d
                   /\ dialog'[d].st = "calling" /\ dialog'[d].obj = k
         /\ ipc'.cid \in Cids => dialog[ipc'.cid].obj = NoCall /\ dialog'[ipc'.cid].obj = k
    <2>1. \A d \in Cids : dialog[d].obj = NoCall <=> dialog[d].st = "none"
      BY DEF DialogInv, Dialogs, DialogsAreFiled
    <2>2. ASSUME NEW d \in Cids, dialog[d].st = "none", ipc'.cid = d,
                 dialog' = [dialog EXCEPT ![d] = [st |-> "calling", obj |-> k]]
          PROVE  /\ dialog'[d].st = "calling" /\ dialog'[d].obj = k
                 /\ dialog' \in [Cids -> [st : DialogStates, obj : Calls \cup {NoCall}]]
                 /\ \A e \in Cids \ {d} : dialog'[e] = dialog[e]
      BY <1>1, <1>4, <2>2 DEF DialogStates
    <2>3. QED
      BY <1>1, <1>10, <1>11, <2>1, <2>2
  <1>13. \A d \in Cids : dialog[d].obj # NoCall \/ dialog[d].st # "none" => dialog'[d] = dialog[d]
    BY <1>12 DEF DialogInv, Dialogs, DialogsAreFiled
  <1>14. DialogsAreFiled'
    <2> SUFFICES ASSUME NEW d \in Cids
                 PROVE  /\ dialog'[d].obj = NoCall <=> dialog'[d].st = "none"
                        /\ dialog'[d].obj # NoCall => call[dialog'[d].obj].st # "new"
                        /\ dialog'[d].obj # NoCall /\ call[dialog'[d].obj].st = "live" => Filed(d, dialog[d].obj)'
      BY <1>2 DEF DialogsAreFiled
    <2>1. CASE dialog'[d] = dialog[d]
      BY <1>2, <2>1 DEF DialogInv, Dialogs, DialogsAreFiled, Filed
    <2>2. CASE /\ dialog[d].obj = NoCall /\ ipc'.cid = d
               /\ dialog'[d].st = "calling" /\ dialog'[d].obj = k
      BY <1>2, <1>4, <2>2 DEF Filed
    <2>3. QED
      BY <1>12, <2>1, <2>2
  <1>15. FiledDialogs'
    <2>1. \A d \in Cids : globalCall[d] # NoCall => dialog'[d].obj = globalCall[d]
      BY <1>13 DEF DialogInv, Dialogs, FiledDialogs
    <2>2. ipc'.cid \in Cids => globalCall[ipc'.cid] = NoCall
      BY <1>1, <1>12 DEF DialogInv, Dialogs, FiledDialogs
    <2>3. QED
      BY <1>2, <1>12, <2>1, <2>2 DEF FiledDialogs
  <1>16. DueCallsAreAwaited'
    <2>1. \A d \in Cids : Unsettled(d)' => Awaited(dialog'[d].obj)
      BY <1>8, <1>12 DEF DialogInv, Dialogs, DueCallsAreAwaited, Unsettled
    <2>2. \A d \in Cids : Unsettled(d)' => Awaited(dialog[d].obj)'
      <3> TAKE d \in Cids
      <3> PICK j : j = dialog'[d].obj
        OBVIOUS
      <3>1. Unsettled(d)' => Awaited(j)'
        BY <1>9, <2>1
      <3>2. QED
        BY <3>1 DEF Awaited
    <2>3. sip.at = "acked" => Awaited(sip.obj)'
      <3> PICK j : j = sip.obj
        OBVIOUS
      <3>1. sip.at = "acked" => Awaited(j)'
        BY <1>9 DEF DialogInv, Dialogs, DueCallsAreAwaited
      <3>2. QED
        BY <1>2, <3>1
    <2>4. QED
      BY <1>2, <2>2, <2>3 DEF DueCallsAreAwaited
  <1>17. EventsTellTheTruth'
    BY <1>2, <1>13, EventCids DEF DialogInv, Dialogs, EventsTellTheTruth, StateTold
  <1>18. HandledEvent'
    <2>1. HandledEvent
      BY DEF DialogInv, Dialogs
    <2>2. sip.at \in {"ok", "fail", "acked"} => sip.cid \in Cids /\ dialog[sip.cid].obj # NoCall
      BY <1>1, HandledCall
    <2>3. sip.at \in {"ok", "fail", "acked"} => dialog'[sip.cid] = dialog[sip.cid]
      BY <1>13, <2>2
    <2>4. QED
      BY <1>2, <2>1, <2>3 DEF HandledEvent
  <1>19. NoOrphanDialog'
    BY <1>2, <1>4, <1>12 DEF DialogInv, Dialogs, NoOrphanDialog
  <1>20. ASSUME NEW e \in Procs, NEW q \in Ports PROVE PortStagesAt(e, q)'
    <2>1. /\ NoNewMsg(toSip'[e], toSip[e], "live_play", q) /\ NoNewMsg(toSip'[e], toSip[e], "stop_play", q)
          /\ HasMsg(toSip[e], "stop_play", q) => HasMsg(toSip'[e], "stop_play", q)
      BY <1>1, <1>2, ReceiveNews
    <2>2. NoNewMsg(toLive'[e], toLive[e], "live_play_answer", q) /\ hold'[e][q] = hold[e][q]
          /\ deviceCall'[q] = deviceCall[q] /\ (Lent(e, q)' => Lent(e, q))
      BY <1>2, NoNews DEF Lent
    <2>3. CASE deviceCall[q] # k
      <3>1. Lent(e, q) /\ Answered(deviceCall[q]) => Answered(deviceCall[q])'
        <4> SUFFICES ASSUME Lent(e, q), Answered(deviceCall[q]) PROVE Answered(deviceCall[q])'
          OBVIOUS
        <4> PICK j : j = deviceCall[q]
          OBVIOUS
        <4>1. j \in Calls /\ call[j].cid \in Cids /\ dialog[call[j].cid].obj = j
          BY LentFacts DEF Answered
        <4>2. dialog'[call[j].cid] = dialog[call[j].cid]
          BY <1>1, <1>13, <4>1
        <4>3. QED
          BY <1>2, <4>2 DEF Answered, Acking
      <3>2. Lent(e, q) /\ NeverInvited(deviceCall[q]) => NeverInvited(deviceCall[q])'
        <4> SUFFICES ASSUME NeverInvited(deviceCall[q]) PROVE NeverInvited(deviceCall[q])'
          OBVIOUS
        <4>1. \A d \in Cids : dialog'[d].obj # deviceCall[q]
          BY <1>12, <2>3 DEF NeverInvited
        <4>2. QED
          BY <1>2, <2>3, <4>1 DEF NeverInvited, Uninvited
      <3>3. QED
        BY <2>1, <2>2, <3>1, <3>2, StagesFrame
    <2>4. CASE deviceCall[q] = k
      <3>1. q = p
        BY <1>1, <1>4, <2>4
      <3>2. CASE e # c
        <4>1. ~Lent(e, q)
          BY <1>7, <2>4, <3>2 DEF Lent
        <4>2. QED
          BY <2>1, <2>2, <4>1, StagesFrame
      <3>3. CASE e = c
        <4>1. AwaitedAt(c, p)' /\ ~HasAnswer(c, p)' /\ hold'[c][p] = "asked"
          BY <1>2, <1>6 DEF AwaitedAt, HasAnswer
        <4>2. OneMsg(toLive'[c], "live_play_answer", p)
          BY <1>2, <1>4 DEF DialogInv, Dialogs, PortStages, PortStagesAt
        <4>3. ~HasMsg(toSip'[c], "stop_play", p)
          BY <1>6, <2>1, <3>1, <3>3, LentFacts DEF AwaitedAt, NoNewMsg
        <4>4. QED
          BY <3>1, <3>3, <4>1, <4>2, <4>3 DEF PortStagesAt
      <3>4. QED
        BY <3>2, <3>3
    <2>5. QED
      BY <2>3, <2>4
  <1>21. connected' = Procs
    BY <1>2 DEF DialogInv, Dialogs
  <1>22. QED
    BY <1>14, <1>15, <1>16, <1>17, <1>18, <1>19, <1>20, <1>21 DEF Dialogs, PortStages

(* The call is filed under its id.                                         *)
LEMMA IndexCallDialogs ==
    ASSUME DialogInv, IndexCall, UNCHANGED clientVars
    PROVE  Dialogs'
  <1> PICK k, d : k = ipc.obj /\ d = ipc.cid
    OBVIOUS
  <1>1. /\ call \in [Calls -> SipCall] /\ globalCall \in [CidKeys -> Calls \cup {NoCall}]
        /\ d \in CidKeys /\ Ports \subseteq PortKeys /\ NoCall \notin Calls
        /\ Cids \subseteq CidKeys
    BY DialogTypes DEF DialogInv, IndexInv
  <1>2. /\ ipc.at = "invited" /\ k \in Calls /\ call[k].st = "live" /\ \A e \in CidKeys : globalCall[e] # k
    BY DEF IndexCall, DialogInv, IndexInv, InvitedCall
  <1>3. /\ \A j \in Calls : KeepsCall(j) /\ call'[j].did = call[j].did
        /\ \A j \in Calls \ {k} : call'[j] = call[j]
        /\ call'[k].cid = d
    BY <1>1, <1>2 DEF IndexCall, SipCall, KeepsCall
  <1>4. \A e \in CidKeys :
           globalCall'[e] = IF e = d /\ globalCall[e] = NoCall THEN k ELSE globalCall[e]
    BY <1>1 DEF IndexCall
  <1>5. /\ UNCHANGED <<deviceCall, sip, events, dialog, connected, toSip, toLive>> /\ hold' = hold
        /\ ipc'.at = "idle"
    BY DEF IndexCall, IdleIpc, clientVars
  <1>6. d \in Cids => dialog[d].obj = k /\ globalCall[d] = NoCall
    BY <1>2 DEF DialogInv, Dialogs, FiledDialogs
  <1>7. \A e \in Cids : dialog[e].obj # NoCall => dialog[e].obj \in Calls /\ KeepsCall(dialog[e].obj)
    BY <1>3, DialogTypes DEF DialogInv, IndexInv
  <1>8. DialogsAreFiled'
    <2> SUFFICES ASSUME NEW e \in Cids
                 PROVE  /\ dialog[e].obj = NoCall <=> dialog[e].st = "none"
                        /\ dialog[e].obj # NoCall => call'[dialog[e].obj].st # "new"
                        /\ dialog[e].obj # NoCall /\ call'[dialog[e].obj].st = "live" => Filed(e, dialog[e].obj)'
      BY <1>5 DEF DialogsAreFiled
    <2>1. ASSUME dialog[e].obj # NoCall, call[dialog[e].obj].st = "live" PROVE globalCall'[e] = dialog[e].obj
      <3>1. Filed(e, dialog[e].obj)
        BY <2>1 DEF DialogInv, Dialogs, DialogsAreFiled
      <3>2. CASE globalCall[e] = dialog[e].obj
        BY <1>1, <1>4, <2>1, <3>2
      <3>3. CASE e = d /\ dialog[e].obj = k
        BY <1>1, <1>4, <1>6, <3>3
      <3>4. QED
        BY <1>2, <3>1, <3>2, <3>3 DEF Filed
    <2>2. QED
      BY <1>5, <1>7, <2>1 DEF DialogInv, Dialogs, DialogsAreFiled, Filed, KeepsCall
  <1>9. FiledDialogs'
    <2>1. \A e \in Cids : globalCall'[e] # NoCall => dialog[e].obj = globalCall'[e]
      BY <1>1, <1>4, <1>6 DEF DialogInv, Dialogs, FiledDialogs
    <2>2. QED
      BY <1>5, <2>1 DEF FiledDialogs
  <1>10. \A j : Awaited(j) => Awaited(j)'
    BY <1>3, <1>5 DEF Awaited, AwaitedAt, HasAnswer, KeepsCall
  <1>11. DueCallsAreAwaited'
    BY <1>5, <1>10 DEF DialogInv, Dialogs, DueCallsAreAwaited, Unsettled
  <1>12. EventsTellTheTruth'
    BY <1>5 DEF DialogInv, Dialogs, EventsTellTheTruth
  <1>13. HandledEvent'
    <2>1. sip.at \in {"ok", "fail", "acked"} => /\ globalCall'[sip.cid] = sip.obj
                                                /\ call'[sip.obj].did = call[sip.obj].did
      BY <1>1, <1>3, <1>4, HandledCall
    <2>2. QED
      BY <1>2, <1>5, <2>1, EndTogether DEF DialogInv, Dialogs, HandledEvent
  <1>14. NoOrphanDialog'
    BY <1>5, <1>7 DEF DialogInv, Dialogs, NoOrphanDialog, KeepsCall
  <1>15. ASSUME NEW e \in Procs, NEW q \in Ports PROVE PortStagesAt(e, q)'
    <2>1. /\ UNCHANGED <<toSip, toLive>> /\ hold'[e][q] = hold[e][q] /\ deviceCall'[q] = deviceCall[q]
      BY <1>5
    <2>2. Lent(e, q)' => Lent(e, q)
      <3>1. deviceCall[q] # NoCall => KeepsCall(deviceCall[q])
        BY <1>1, <1>3, DialogTypes DEF DialogInv, IndexInv
      <3>2. QED
        BY <2>1, <3>1 DEF Lent, KeepsCall
    <2>3. Lent(e, q) => deviceCall[q] \in Calls
      BY LentFacts
    <2>4. Lent(e, q) /\ Answered(deviceCall[q]) => Answered(deviceCall[q])'
      <3> SUFFICES ASSUME Lent(e, q), Answered(deviceCall[q]) PROVE Answered(deviceCall[q])'
        OBVIOUS
      <3> PICK j : j = deviceCall[q]
        OBVIOUS
      <3>1. j \in Calls /\ call[j].cid \in Cids /\ globalCall[call[j].cid] = j
        BY <2>3 DEF Answered
      <3>2. j # k /\ call'[j] = call[j] /\ globalCall'[call[j].cid] = j
        BY <1>1, <1>2, <1>3, <1>4, <3>1
      <3>3. Answered(j)'
        BY <1>5, <3>1, <3>2 DEF Answered, Acking
      <3>4. QED
        BY <2>1, <3>3 DEF Answered, Acking
    <2>5. Lent(e, q) /\ NeverInvited(deviceCall[q]) => NeverInvited(deviceCall[q])'
      <3> SUFFICES ASSUME Lent(e, q), NeverInvited(deviceCall[q]) PROVE NeverInvited(deviceCall[q])'
        OBVIOUS
      <3> PICK j : j = deviceCall[q]
        OBVIOUS
      <3>1. j \in Calls /\ j # k
        BY <1>2, <2>3 DEF NeverInvited, Uninvited
      <3>2. call'[j] = call[j] /\ \A x \in CidKeys : globalCall'[x] # j
        BY <1>3, <1>4, <3>1 DEF NeverInvited, Uninvited
      <3>3. NeverInvited(j)'
        BY <1>5, <3>2 DEF NeverInvited, Uninvited
      <3>4. QED
        BY <2>1, <3>3 DEF NeverInvited, Uninvited
    <2>6. QED
      BY <2>1, <2>2, <2>4, <2>5, NoNews, StagesFrame
  <1>16. connected' = Procs
    BY <1>5 DEF DialogInv, Dialogs
  <1>17. QED
    BY <1>8, <1>9, <1>11, <1>12, <1>13, <1>14, <1>15, <1>16 DEF Dialogs, PortStages

(* A call ends.  Nobody waits for it, so its INVITE was answered, and is   *)
(* closed now, or it had none.                                             *)
LEMMA StopPlayDialogs ==
    ASSUME DialogInv, IndexInv', NEW c \in Procs, StopPlay(c), UNCHANGED clientVars
    PROVE  Dialogs'
  <1> PICK p, k, d : p = Head(toSip[c]).port /\ k = deviceCall[p] /\ d = call[k].cid
    OBVIOUS
  <1>1. /\ toSip \in [Procs -> Seq(Msg)] /\ call \in [Calls -> SipCall]
        /\ globalCall \in [CidKeys -> Calls \cup {NoCall}]
        /\ deviceCall \in [PortKeys -> Calls \cup {NoCall}] /\ Ports \subseteq PortKeys
        /\ dialog \in [Cids -> [st : DialogStates, obj : Calls \cup {NoCall}]]
        /\ Cids \subseteq CidKeys /\ NoCall \notin Calls
    BY DialogTypes DEF DialogInv, IndexInv
  <1>2. /\ Receive(c, "stop_play") /\ k # NoCall /\ ipc.at = "idle"
        /\ deviceCall' = [deviceCall EXCEPT ![p] = NoCall]
        /\ call' = [call EXCEPT ![k].st = "freed"]
        /\ globalCall' = [globalCall EXCEPT ![d] = NoCall]
        /\ dialog' = IF globalCall[d] # NoCall /\ d > 0 /\ call[k].did >= 0
                     THEN [dialog EXCEPT ![d].st = "closed"] ELSE dialog
        /\ UNCHANGED <<ipc, sip, events, connected, toLive>> /\ hold' = hold
    BY DEF StopPlay, Receive, Deleted, Unindexed, clientVars
  <1>3. p \in Ports /\ Lent(c, p) /\ HasMsg(toSip[c], "stop_play", p)
    BY <1>2, StopIsForOwnPort DEF DialogInv, IndexInv
  <1>4. /\ k \in Calls /\ call[k].st = "live" /\ call[k].proc = c /\ call[k].port = p /\ hold[c][p] = "none"
        /\ d \in CidKeys /\ \A q \in PortKeys : deviceCall[q] = k => q = p
    <2>1. k \in Calls /\ call[k].st = "live" /\ call[k].proc = c /\ call[k].port = p /\ hold[c][p] = "none"
      BY <1>3, LentFacts
    <2>2. d \in CidKeys
      BY <1>1, <2>1 DEF SipCall
    <2>3. IInv /\ p \in PortKeys
      BY <1>1, <1>3 DEF DialogInv, IndexInv
    <2>4. \A q \in PortKeys : deviceCall[q] = k => q = p
      BY <1>2, <2>3, OwnCalls
    <2>5. QED
      BY <2>1, <2>2, <2>4
  <1>5. /\ \A j \in Calls \ {k} : call'[j] = call[j]
        /\ \A e \in CidKeys : globalCall'[e] = IF e = d THEN NoCall ELSE globalCall[e]
        /\ \A q \in PortKeys : deviceCall'[q] = IF q = p THEN NoCall ELSE deviceCall[q]
        /\ call'[k].st = "freed"
    BY <1>1, <1>2, <1>4 DEF SipCall
  <1>6. Answered(k) \/ NeverInvited(k)
    BY <1>3 DEF DialogInv, Dialogs, PortStages, PortStagesAt
  <1>7. NoCid \notin Cids /\ \A e \in Cids : e > 0 /\ e \in Nat
    BY ConstantFacts DEF Cids, NoCid
  (* The one dialog that changes, and none that is open has call k.        *)
  <1>8. /\ \A e \in Cids : dialog'[e].obj = dialog[e].obj
        /\ \A e \in Cids : dialog'[e] = dialog[e] \/ (e = d /\ dialog[e].obj = k /\ dialog'[e].st = "closed"
                                                          /\ dialog[e].st \in {"active", "closed"})
        /\ \A e \in Cids : dialog[e].obj = k => dialog'[e].st = "closed" /\ dialog[e].st \in {"active", "closed"}
        /\ d \in Cids => globalCall[d] = k /\ dialog[d].obj = k /\ dialog[d].st \in {"active", "closed"} /\ ~Acking(k)
    <2>1. CASE Answered(k)
      <3>1. /\ call[k].did = 1 /\ d \in Cids /\ globalCall[d] = k
            /\ dialog[d].obj = k /\ dialog[d].st \in {"active", "closed"} /\ ~Acking(k)
        BY <2>1 DEF Answered
      <3>2. dialog' = [dialog EXCEPT ![d].st = "closed"]
        <4>1. globalCall[d] # NoCall /\ d > 0 /\ call[k].did >= 0
          <5>1. globalCall[d] # NoCall
            BY <1>1, <1>4, <3>1
          <5>2. d > 0
            BY <1>7, <3>1
          <5>3. call[k].did >= 0
            BY <3>1
          <5>4. QED
            BY <5>1, <5>2, <5>3
        <4>2. QED
          BY <1>2, <4>1
      <3>3. /\ \A e \in Cids : dialog'[e].obj = dialog[e].obj
            /\ \A e \in Cids \ {d} : dialog'[e] = dialog[e]
            /\ dialog'[d].st = "closed"
        BY <3>1, <3>2, DialogStep DEF DialogInv, IndexInv, DialogStates
      <3>4. \A e \in Cids : dialog[e].obj = k => e = d
        BY <1>2, <1>4, <3>1, OneDialog
      <3>5. QED
        BY <3>1, <3>3, <3>4
    <2>2. CASE NeverInvited(k)
      <3>1. d = NoCid /\ \A e \in Cids : dialog[e].obj # k
        BY <2>2 DEF NeverInvited, Uninvited
      <3>2. dialog' = dialog
        BY <1>2, <3>1 DEF NoCid
      <3>3. QED
        BY <1>7, <3>1, <3>2
    <2>3. QED
      BY <1>6, <2>1, <2>2
  <1>9. \A j : Awaited(j) => Awaited(j)' /\ j # k
    BY <1>2, <1>4, <1>5 DEF Awaited, AwaitedAt, HasAnswer
  <1>10. DialogsAreFiled'
    <2> SUFFICES ASSUME NEW e \in Cids
                 PROVE  /\ dialog'[e].obj = NoCall <=> dialog'[e].st = "none"
                        /\ dialog'[e].obj # NoCall => call'[dialog'[e].obj].st # "new"
                        /\ dialog'[e].obj # NoCall /\ call'[dialog'[e].obj].st = "live" => Filed(e, dialog[e].obj)'
      BY DEF DialogsAreFiled
    <2>1. /\ dialog[e].obj = NoCall <=> dialog[e].st = "none"
          /\ dialog[e].obj # NoCall => dialog[e].obj \in Calls /\ call[dialog[e].obj].st # "new"
          /\ dialog[e].obj # NoCall /\ call[dialog[e].obj].st = "live" => globalCall[e] = dialog[e].obj
      BY <1>1, <1>2 DEF DialogInv, Dialogs, DialogsAreFiled, Filed
    <2>2. CASE dialog[e].obj = k
      BY <1>1, <1>4, <1>5, <1>8, <2>1, <2>2
    <2>3. CASE dialog[e].obj # k
      <3>1. dialog'[e] = dialog[e] /\ (e = d => globalCall[e] = k)
        BY <1>8, <2>3
      <3>2. dialog[e].obj # NoCall => call'[dialog[e].obj] = call[dialog[e].obj]
        BY <1>5, <2>1, <2>3
      <3>3. dialog[e].obj # NoCall /\ call[dialog[e].obj].st = "live" => globalCall'[e] = dialog[e].obj
        BY <1>1, <1>5, <2>1, <2>3, <3>1
      <3>4. QED
        BY <2>1, <3>1, <3>2, <3>3 DEF Filed
    <2>4. QED
      BY <2>2, <2>3
  <1>11. FiledDialogs'
    BY <1>1, <1>2, <1>5, <1>8 DEF DialogInv, Dialogs, FiledDialogs
  <1>12. DueCallsAreAwaited'
    <2>1. ASSUME NEW e \in Cids, Unsettled(e)' PROVE Awaited(dialog[e].obj)'
      <3>1. dialog'[e] = dialog[e] /\ Unsettled(e)
        BY <1>8, <2>1 DEF Unsettled
      <3> PICK j : j = dialog[e].obj
        OBVIOUS
      <3>2. Awaited(j)'
        BY <1>9, <3>1 DEF DialogInv, Dialogs, DueCallsAreAwaited
      <3>3. QED
        BY <3>1, <3>2
    <2>2. sip.at = "acked" => Awaited(sip.obj)'
      <3> PICK j : j = sip.obj
        OBVIOUS
      <3>1. sip.at = "acked" => Awaited(j)'
        BY <1>9 DEF DialogInv, Dialogs, DueCallsAreAwaited
      <3>2. QED
        BY <1>2, <3>1
    <2>3. QED
      BY <1>2, <2>1, <2>2 DEF DueCallsAreAwaited
  <1>13. EventsTellTheTruth'
    <2>1. EventsTellTheTruth /\ \A i \in DOMAIN events : events[i].cid \in Cids
      BY EventCids DEF DialogInv, Dialogs
    <2>2. \A i \in DOMAIN events : dialog[events[i].cid].st \in {"answered", "rejected"}
      BY <2>1 DEF EventsTellTheTruth, StateTold
    <2>3. \A i \in DOMAIN events : dialog'[events[i].cid] = dialog[events[i].cid]
      <3> TAKE i \in DOMAIN events
      <3> PICK e : e = events[i].cid
        OBVIOUS
      <3>1. e \in Cids /\ dialog[e].st \in {"answered", "rejected"}
        BY <2>1, <2>2
      <3>2. dialog'[e] = dialog[e]
        BY <1>8, <3>1
      <3>3. QED
        BY <3>2
    <2>4. QED
      BY <1>2, <2>1, <2>3 DEF EventsTellTheTruth
  <1>14. HandledEvent'
    <2>1. ASSUME sip.at \in {"ok", "fail", "acked"}
          PROVE  /\ sip.cid \in Cids /\ sip.cid # d /\ sip.obj # k /\ globalCall'[sip.cid] = sip.obj
                 /\ dialog'[sip.cid] = dialog[sip.cid] /\ call'[sip.obj] = call[sip.obj]
      <3>1. /\ sip.cid \in Cids /\ sip.obj \in Calls /\ globalCall[sip.cid] = sip.obj
            /\ call[sip.obj].cid = sip.cid
        BY <2>1, HandledCall
      <3>2. sip.cid # d
        <4>1. SUFFICES ASSUME sip.cid = d PROVE FALSE
          OBVIOUS
        <4>2. d \in Cids /\ sip.obj = k /\ dialog[d].st \in {"active", "closed"} /\ ~Acking(k)
          BY <1>8, <3>1, <4>1
        <4>3. sip.at # "acked"
          BY <4>2 DEF Acking
        <4>4. dialog[d].st = StateTold(sip.at)
          BY <2>1, <4>1, <4>3 DEF DialogInv, Dialogs, HandledEvent
        <4>5. QED
          BY <2>1, <4>2, <4>4 DEF StateTold
      <3>3. sip.obj # k
        BY <3>1, <3>2
      <3>4. QED
        BY <1>1, <1>5, <1>8, <3>1, <3>2, <3>3
    <2>2. QED
      BY <1>2, <2>1 DEF DialogInv, Dialogs, HandledEvent
  <1>15. NoOrphanDialog'
    <2> SUFFICES ASSUME NEW e \in Cids, dialog'[e].obj # NoCall, call'[dialog'[e].obj].st = "freed"
                 PROVE  dialog'[e].st \in {"closed", "failed"}
      BY DEF NoOrphanDialog
    <2>1. CASE dialog[e].obj = k
      BY <1>8, <2>1
    <2>2. CASE dialog[e].obj # k
      <3>1. dialog'[e] = dialog[e] /\ call'[dialog[e].obj] = call[dialog[e].obj]
        <4>1. dialog'[e] = dialog[e]
          BY <1>8, <2>2
        <4>2. dialog[e].obj \in Calls
          BY <1>1, <4>1
        <4>3. QED
          BY <1>5, <2>2, <4>1, <4>2
      <3>2. QED
        BY <3>1 DEF DialogInv, Dialogs, NoOrphanDialog
    <2>3. QED
      BY <2>1, <2>2
  <1>16. ASSUME NEW e \in Procs, NEW q \in Ports PROVE PortStagesAt(e, q)'
    <2>1. /\ NoNewMsg(toSip'[e], toSip[e], "live_play", q) /\ NoNewMsg(toSip'[e], toSip[e], "stop_play", q)
          /\ q # p => (HasMsg(toSip[e], "stop_play", q) => HasMsg(toSip'[e], "stop_play", q))
      BY <1>1, <1>2, ReceiveNews
    <2>2. NoNewMsg(toLive'[e], toLive[e], "live_play_answer", q) /\ hold'[e][q] = hold[e][q]
      BY <1>2, NoNews
    <2>3. CASE q # p
      <3>1. deviceCall'[q] = deviceCall[q] /\ deviceCall[q] # k
        BY <1>1, <1>4, <1>5, <2>3
      <3>2. deviceCall[q] # NoCall => deviceCall[q] \in Calls /\ call'[deviceCall[q]] = call[deviceCall[q]]
        BY <1>1, <1>5, <3>1
      <3>3. Lent(e, q)' => Lent(e, q)
        BY <3>1, <3>2 DEF Lent
      <3>4. Lent(e, q) /\ Answered(deviceCall[q]) => Answered(deviceCall[q])'
        <4> SUFFICES ASSUME Lent(e, q), Answered(deviceCall[q]) PROVE Answered(deviceCall[q])'
          OBVIOUS
        <4> PICK j : j = deviceCall[q]
          OBVIOUS
        <4>1. j \in Calls /\ j # k /\ call'[j] = call[j] /\ call[j].cid \in Cids /\ globalCall[call[j].cid] = j
          BY <3>1, <3>2 DEF Answered, Lent
        <4>2. call[j].cid # d
          BY <1>8, <4>1
        <4>3. globalCall'[call[j].cid] = j /\ dialog'[call[j].cid] = dialog[call[j].cid]
          BY <1>1, <1>5, <1>8, <4>1, <4>2
        <4>4. Answered(j)'
          BY <1>2, <4>1, <4>3 DEF Answered, Acking
        <4>5. QED
          BY <3>1, <4>4 DEF Answered, Acking
      <3>5. Lent(e, q) /\ NeverInvited(deviceCall[q]) => NeverInvited(deviceCall[q])'
        <4> SUFFICES ASSUME Lent(e, q), NeverInvited(deviceCall[q]) PROVE NeverInvited(deviceCall[q])'
          OBVIOUS
        <4> PICK j : j = deviceCall[q]
          OBVIOUS
        <4>1. j \in Calls /\ j # NoCall /\ call'[j] = call[j]
          BY <1>1, <3>2 DEF Lent
        <4>2. (\A x \in CidKeys : globalCall[x] # j) /\ \A x \in Cids : dialog[x].obj # j
          BY DEF NeverInvited, Uninvited
        <4>3. \A x \in CidKeys : globalCall'[x] # j
          BY <1>5, <4>1, <4>2
        <4>4. \A x \in Cids : dialog'[x].obj # j
          BY <1>8, <4>2
        <4>5. call[j].cid = NoCid /\ ~(ipc.at = "invited" /\ ipc.obj = j)
          BY DEF NeverInvited, Uninvited
        <4>6. NeverInvited(j)'
          BY <1>2, <4>1, <4>3, <4>4, <4>5 DEF NeverInvited, Uninvited
        <4>7. QED
          BY <3>1, <4>6 DEF NeverInvited, Uninvited
      <3>6. QED
        BY <2>1, <2>2, <2>3, <3>1, <3>3, <3>4, <3>5, StagesFrame
    <2>4. CASE q = p
      <3>1. ~Lent(e, p)'
        BY <1>1, <1>3, <1>5 DEF Lent
      <3>2. ~HasMsg(toSip'[e], "stop_play", p) /\ hold'[e][p] = "none"
        BY <1>1, <1>3, <3>1 DEF IndexInv, IInv, RightToStop
      <3>3. ~HasMsg(toSip'[e], "live_play", p)
        BY <1>3, <3>1 DEF IndexInv, PlaysOnce, PlaysOnceAt, Fresh
      <3>4. hold[e][p] = "none" /\ PortStagesAt(e, p)
        BY <1>3, <2>2, <2>4, <3>2 DEF DialogInv, Dialogs, PortStages
      <3>5. ~HasAnswer(e, p) /\ OneMsg(toLive[e], "live_play_answer", p)
        BY <3>4 DEF PortStagesAt
      <3>6. ~HasAnswer(e, p)' /\ OneMsg(toLive'[e], "live_play_answer", p)
        BY <2>2, <2>4, <3>5 DEF HasAnswer, NoNewMsg
      <3>7. QED
        BY <2>4, <3>1, <3>2, <3>3, <3>6 DEF PortStagesAt
    <2>5. QED
      BY <2>3, <2>4
  <1>17. connected' = Procs
    BY <1>2 DEF DialogInv, Dialogs
  <1>18. QED
    BY <1>10, <1>11, <1>12, <1>13, <1>14, <1>15, <1>16, <1>17 DEF Dialogs, PortStages

-----------------------------------------------------------------------------
(* The theorem.                                                            *)
LEMMA InitDialogs == Init => DialogInv
  <1> SUFFICES ASSUME Init PROVE DialogInv
    OBVIOUS
  <1>1. /\ connected = Procs /\ sip.at = "idle" /\ ipc.at = "idle" /\ events = << >>
        /\ \A c \in Procs : toSip[c] = << >> /\ toLive[c] = << >>
        /\ \A c \in Procs, p \in Ports : hold[c][p] = "none"
        /\ \A d \in CidKeys : globalCall[d] = NoCall
        /\ \A p \in PortKeys : deviceCall[p] = NoCall
        /\ \A d \in Cids : dialog[d].st = "none" /\ dialog[d].obj = NoCall
        /\ Ports \subseteq PortKeys /\ Cids \subseteq CidKeys
    BY ConstantFacts DEF Init, SipInit, IdleIpc, IdleSip
  <1>2. DialogsAreFiled /\ FiledDialogs /\ NoOrphanDialog
    BY <1>1 DEF DialogsAreFiled, FiledDialogs, NoOrphanDialog
  <1>3. DueCallsAreAwaited /\ EventsTellTheTruth /\ HandledEvent
    BY <1>1 DEF DueCallsAreAwaited, EventsTellTheTruth, HandledEvent, Unsettled
  <1>4. PortStages
    BY <1>1 DEF PortStages, PortStagesAt, HasAnswer, HasMsg, OneMsg, Lent
  <1>5. NoCallLeaks
    BY DEF Init, SipInit, NoCallLeaks
  <1>6. QED
    BY <1>1, <1>2, <1>3, <1>4, <1>5, InitIndex DEF DialogInv, Dialogs

LEMMA NextDialogs ==
    ASSUME ~EarlyStop, ~EarlyRestart, MaxCrashes = 0, DialogInv, [Next]_vars
    PROVE  DialogInv'
  <1>1. IndexInv'
    BY NextIndex DEF DialogInv
  <1>2. NoCallLeaks'
    BY NoLeakStep DEF DialogInv, IndexInv
  <1>3. Dialogs'
    <2>1. ASSUME NEW c \in Procs, IpcThread(c), UNCHANGED clientVars
          PROVE  Dialogs'
      BY <1>1, <2>1, PlayInitDialogs, QuietIpcDialogs, SendInviteDialogs, StopPlayDialogs, ImpossibleSteps DEF IpcThread
    <2>2. ASSUME SipThread, UNCHANGED clientVars
          PROVE  Dialogs'
      BY <2>2, DropEventDialogs, FindByCallIDDialogs, AcknowledgedDialogs, UnacknowledgedDialogs,
         OnInviteOKThrowsDialogs, OnPlayCbDialogs, OnInviteFailedDialogs DEF SipThread
    <2>3. ASSUME Device, UNCHANGED clientVars
          PROVE  Dialogs'
      BY <2>3, DeviceAnswersDialogs, DeviceHangsUpDialogs DEF Device
    <2>4. ASSUME NEW c \in Procs, Client(c)
          PROVE  Dialogs'
      <3>1. ~ClientCrashes(c)
        BY DEF ClientCrashes, DialogInv, IndexInv, IInv, TypeOK
      <3>2. CASE ClientTakesId(c)
        <4>1. UNCHANGED <<CallVars, connected, toSip, toLive, hold>>
          BY <3>2 DEF ClientTakesId, baseVars, CallVars
        <4>2. \A e \in Procs, p \in Ports : PortStagesAt(e, p)' /\ (AwaitedAt(e, p) => AwaitedAt(e, p)')
          BY <4>1, NoNews, QuietStages
        <4>3. QED
          BY <4>1, <4>2, QuietDialogs
      <3>3. QED
        BY <1>1, <2>4, <3>1, <3>2, ClientInitDialogs, ClientReceivesDialogs, ClientPlaysDialogs, ClientStopsDialogs,
           ImpossibleSteps DEF Client
    <2>5. CASE UNCHANGED vars
      <3>1. UNCHANGED <<CallVars, connected, toSip, toLive, hold>>
        BY <2>5 DEF vars, baseVars, clientVars, CallVars
      <3>2. \A c \in Procs, p \in Ports : PortStagesAt(c, p)' /\ (AwaitedAt(c, p) => AwaitedAt(c, p)')
        BY <3>1, NoNews, QuietStages
      <3>3. QED
        BY <3>1, <3>2, QuietDialogs
    <2>6. QED
      BY <2>1, <2>2, <2>3, <2>4, <2>5, IndexCallDialogs DEF Next, SipServerStep
  <1>4. QED
    BY <1>1, <1>2, <1>3 DEF DialogInv

(* Once a call has ended its INVITE is over on the camera's side too       *)
(* (SipInvite.cpp, StopSipCall), however many processes call and stop      *)
(* however many cameras: as long as no viewer leaves between live_play and *)
(* its answer and no process dies.  Both conditions are needed.            *)
THEOREM NoDialogIsOrphaned ==
    ASSUME ~EarlyStop, ~EarlyRestart, MaxCrashes = 0
    PROVE  Spec => []NoOrphanDialog
  <1>1. DialogInv => NoOrphanDialog
    BY DEF DialogInv, Dialogs
  <1>2. DialogInv /\ [Next]_vars => DialogInv'
    BY NextDialogs
  <1>3. QED
    BY <1>1, <1>2, InitDialogs, PTL DEF Spec
=============================================================================
