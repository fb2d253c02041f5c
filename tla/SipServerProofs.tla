-------------------------- MODULE SipServerProofs --------------------------
(***************************************************************************)
(* Facts about the steps of sip_server, whoever its clients are: what its  *)
(* handlers do to the channels and tables, and that they keep SipTypeOK.   *)
(* SipCallsProofs and LivePlayProofs build on them.                        *)
(***************************************************************************)
EXTENDS SipServer, SequenceTheorems, FiniteSetTheorems, TLAPS

-----------------------------------------------------------------------------
(* Lists.                                                                  *)

(* What taking the first element off a list does.                          *)
LEMMA TailFacts ==
    ASSUME NEW S, NEW s \in Seq(S), s # << >>
    PROVE  /\ Head(s) = s[1]  /\ Head(s) \in S
           /\ Len(s) \in Nat \ {0}
           /\ Tail(s) \in Seq(S)
           /\ Len(Tail(s)) = Len(s) - 1
           /\ \A i \in 1..Len(s) - 1 : Tail(s)[i] = s[i + 1]
  <1>1. Len(s) \in Nat \ {0}
    BY EmptySeq
  <1>2. Head(s) = s[1]
    OBVIOUS
  <1>3. QED
    BY <1>1, <1>2, HeadTailProperties

(* A function on 1..n is a list.                                           *)
LEMMA FunctionIsSeq ==
    ASSUME NEW S, NEW n \in Nat, NEW f \in [1..n -> S]
    PROVE  f \in Seq(S) /\ Len(f) = n /\ DOMAIN f = 1..n
  <1>1. f \in UNION { [1..m -> S] : m \in Nat }
    OBVIOUS
  <1>2. f \in Seq(S)
    BY <1>1, SeqDef
  <1>3. QED
    BY <1>2, LenProperties

(* An ordered list of a finite set holds every element once.               *)
LEMMA AscendingFacts ==
    ASSUME NEW S, IsFiniteSet(S), NEW s \in Ascending(S)
    PROVE  /\ s \in Seq(S) /\ DOMAIN s = 1..Len(s)
           /\ \A i, j \in DOMAIN s : s[i] = s[j] => i = j
           /\ \A x \in S : \E i \in DOMAIN s : s[i] = x
  <1>1. Cardinality(S) \in Nat
    BY FS_CardinalityType
  <1>2. s \in [1..Cardinality(S) -> S]
    BY DEF Ascending, Bijection, Injection
  <1>3. s \in Seq(S) /\ Len(s) = Cardinality(S) /\ DOMAIN s = 1..Cardinality(S)
    BY <1>1, <1>2, FunctionIsSeq
  <1>4. \A i, j \in DOMAIN s : s[i] = s[j] => i = j
    BY DEF Ascending, Bijection, Injection, IsInjective
  <1>5. \A x \in S : \E i \in 1..Cardinality(S) : s[i] = x
    BY DEF Ascending, Bijection, Surjection
  <1>6. QED
    BY <1>3, <1>4, <1>5

-----------------------------------------------------------------------------
(* Type correctness.                                                       *)

(* The values that mean "nothing" are none of the values they stand in     *)
(* for.                                                                    *)
LEMMA ConstantFacts ==
    /\ Ports \subseteq Nat \ {0} /\ IsFiniteSet(Ports)
    /\ MaxCalls \in Nat /\ MaxCids \in Nat /\ MaxReqs \in Nat \ {0}
    /\ Ports \subseteq PortKeys /\ NullPort \in PortKeys /\ NoPort \in PortKeys
    /\ NullPort \notin Ports /\ NoPort \notin Ports
    /\ Cids \subseteq CidKeys /\ NoCid \in CidKeys
    /\ NoCall \notin Calls
    /\ NoProc \notin Procs
    /\ 0 \in ReqIds
  BY PortsAssumption, ProcsAssumption, BoundsAssumption
     DEF PortKeys, CidKeys, NullPort, NoPort, NoCid, NoCall, Calls, Cids, NoProc, ReqIds

(* What is sent is a message.                                              *)
LEMMA MessageTypes ==
    /\ \A id \in ReqIds : LiveInit(id) \in Msg
    /\ \A id \in ReqIds, p \in PortKeys : LivePlay(id, p) \in Msg
    /\ \A id \in ReqIds, p \in PortKeys, r \in {0, -1} :
          InitAnswer(id, p, r) \in Msg /\ PlayAnswer(id, p, r) \in Msg
    /\ CloseMsg \in Msg /\ \A p \in PortKeys : StopPlayMsg(p) \in Msg
  BY ConstantFacts DEF LiveInit, LivePlay, InitAnswer, PlayAnswer, CloseMsg, StopPlayMsg, Msg

(* Relay keeps the channels to live_server well-typed.                     *)
LEMMA RelayType ==
    ASSUME toLive \in [Procs -> Seq(Msg)], NEW c, NEW msgs \in Seq(Msg), Relay(c, msgs)
    PROVE  toLive' \in [Procs -> Seq(Msg)]
  <1>1. CASE c \in Procs
    <2>1. toLive[c] \o msgs \in Seq(Msg)
      BY <1>1, ConcatProperties
    <2>2. QED
      BY <2>1 DEF Relay
  <1>2. CASE c \notin Procs
    BY <1>2 DEF Relay
  <1>3. QED
    BY <1>1, <1>2

(* Receive takes one message of the named kind off a channel.              *)
LEMMA ReceiveFacts ==
    ASSUME toSip \in [Procs -> Seq(Msg)], NEW c \in Procs, NEW type, Receive(c, type)
    PROVE  /\ toSip[c] \in Seq(Msg) /\ toSip[c] # << >>
           /\ Head(toSip[c]) \in Msg
           /\ Head(toSip[c]) = toSip[c][1] /\ Head(toSip[c]).type = type
           /\ Head(toSip[c]).id \in ReqIds /\ Head(toSip[c]).port \in PortKeys
           /\ Tail(toSip[c]) \in Seq(Msg)
           /\ toSip' = [toSip EXCEPT ![c] = Tail(toSip[c])]
           /\ toSip' \in [Procs -> Seq(Msg)]
  <1>1. toSip[c] \in Seq(Msg) /\ toSip[c] # << >>
    BY DEF Receive
  <1>2. Head(toSip[c]) \in Msg /\ Head(toSip[c]) = toSip[c][1] /\ Tail(toSip[c]) \in Seq(Msg)
    BY <1>1, TailFacts
  <1>3. Head(toSip[c]).id \in ReqIds /\ Head(toSip[c]).port \in PortKeys
    BY <1>2 DEF Msg
  <1>4. toSip' = [toSip EXCEPT ![c] = Tail(toSip[c])] /\ Head(toSip[c]).type = type
    BY DEF Receive
  <1>5. QED
    BY <1>1, <1>2, <1>3, <1>4

(* The initial pool is a list of ports.                                    *)
LEMMA InitPool ==
    ASSUME ports \in Ascending(Ports)
    PROVE  /\ ports \in Seq(PortKeys)
           /\ \A i, j \in DOMAIN ports : ports[i] = ports[j] => i = j
           /\ \A i \in DOMAIN ports : ports[i] \in Ports
           /\ \A p \in Ports : \E i \in DOMAIN ports : ports[i] = p
  <1>1. ports \in Seq(Ports)
    BY ConstantFacts, AscendingFacts
  <1>2. ports \in Seq(PortKeys)
    BY <1>1, ConstantFacts, SeqMonotonic
  <1>3. \A i \in DOMAIN ports : ports[i] \in Ports
    BY <1>1, ElementOfSeq, LenProperties
  <1>4. QED
    BY <1>2, <1>3, ConstantFacts, AscendingFacts

(* Writing one field of a record of a table.                               *)
LEMMA DidType ==
    ASSUME NEW t \in [Calls -> SipCall], NEW k, NEW v \in {-1, 1},
           NEW t2, t2 = [t EXCEPT ![k].did = v]
    PROVE  t2 \in [Calls -> SipCall]
  <1>1. CASE k \in Calls
    BY <1>1 DEF SipCall
  <1>2. CASE k \notin Calls
    <2>1. t2 = t
      BY <1>2
    <2>2. QED
      BY <2>1
  <1>3. QED
    BY <1>1, <1>2

(* Indexing writes a call id into an object.                               *)
LEMMA CidType ==
    ASSUME NEW t \in [Calls -> SipCall], NEW k, NEW v \in CidKeys,
           NEW t2, t2 = [t EXCEPT ![k].cid = v]
    PROVE  t2 \in [Calls -> SipCall]
  <1>1. CASE k \in Calls
    BY <1>1 DEF SipCall
  <1>2. CASE k \notin Calls
    <2>1. t2 = t
      BY <1>2
    <2>2. QED
      BY <2>1
  <1>3. QED
    BY <1>1, <1>2

(* A step of the signalling keeps the table of dialogs well-typed.         *)
LEMMA DialogType ==
    ASSUME NEW t \in [Cids -> [st : DialogStates, obj : Calls \cup {NoCall}]], NEW k, NEW v \in DialogStates,
           NEW t2, t2 = [t EXCEPT ![k].st = v]
    PROVE  t2 \in [Cids -> [st : DialogStates, obj : Calls \cup {NoCall}]]
  <1>1. CASE k \in Cids
    BY <1>1
  <1>2. CASE k \notin Cids
    <2>1. t2 = t
      BY <1>2
    <2>2. QED
      BY <2>1
  <1>3. QED
    BY <1>1, <1>2

(* Deleting an object keeps the heap well-typed.                           *)
LEMMA FreedType ==
    ASSUME NEW r \in SipCall
    PROVE  [r EXCEPT !.st = "freed"] \in SipCall
  BY DEF SipCall

(* The handlers of the IPC thread keep the state well-typed.               *)
LEMMA IpcThreadType ==
    ASSUME SipTypeOK, NEW c \in Procs, IpcThread(c)
    PROVE  SipTypeOK'
  <1> USE DEF SipTypeOK
  <1>1. CASE PlayInit(c)
    <2>1. Receive(c, "live_init") /\ ports # << >>
      BY <1>1 DEF PlayInit
    <2>2. toSip' \in [Procs -> Seq(Msg)] /\ Head(toSip[c]).id \in ReqIds
      BY <2>1, ReceiveFacts
    <2>3. Head(ports) \in PortKeys /\ Tail(ports) \in Seq(PortKeys)
      BY <2>1, TailFacts
    <2>4. << InitAnswer(Head(toSip[c]).id, Head(ports), 0) >> \in Seq(Msg)
      BY <2>2, <2>3, MessageTypes
    <2>5. toLive' \in [Procs -> Seq(Msg)]
      BY <1>1, <2>4, RelayType DEF PlayInit
    <2>6. ports' \in Seq(PortKeys)
      BY <1>1, <2>3 DEF PlayInit
    <2>7. PICK k \in Calls :
             /\ call' = [call EXCEPT ![k] = [st |-> "live", proc |-> c, id |-> Head(toSip[c]).id,
                            port |-> Head(ports), cid |-> NoCid, did |-> -1]]
             /\ deviceCall' = [deviceCall EXCEPT ![Head(ports)] = IF @ = NoCall THEN k ELSE @]
      BY <1>1 DEF PlayInit
    <2>8. call' \in [Calls -> SipCall]
      BY <2>2, <2>3, <2>7, ConstantFacts DEF SipCall
    <2>9. deviceCall' \in [PortKeys -> Calls \cup {NoCall}]
      BY <2>3, <2>7
    <2>10. QED
      BY <1>1, <2>2, <2>5, <2>6, <2>8, <2>9 DEF PlayInit
  <1>2. CASE PlayInitNoPort(c)
    <2>1. Receive(c, "live_init")
      BY <1>2 DEF PlayInitNoPort
    <2>2. toSip' \in [Procs -> Seq(Msg)] /\ Head(toSip[c]).id \in ReqIds
      BY <2>1, ReceiveFacts
    <2>3. << InitAnswer(Head(toSip[c]).id, NoPort, 0), InitAnswer(Head(toSip[c]).id, NullPort, -1) >>
             \in Seq(Msg)
      BY <2>2, ConstantFacts, MessageTypes
    <2>4. toLive' \in [Procs -> Seq(Msg)]
      BY <1>2, <2>3, RelayType DEF PlayInitNoPort
    <2>5. QED
      BY <1>2, <2>2, <2>4 DEF PlayInitNoPort, sipVars
  <1>3. CASE RealPlayUnsent(c)
    <2>1. toSip' \in [Procs -> Seq(Msg)]
      BY <1>3, ReceiveFacts DEF RealPlayUnsent
    <2>2. QED
      BY <1>3, <2>1 DEF RealPlayUnsent, sipVars
  <1>4. CASE SendInvite(c)
    <2>1. toSip' \in [Procs -> Seq(Msg)] /\ Head(toSip[c]).port \in PortKeys
      BY <1>4, ReceiveFacts DEF SendInvite
    <2>2. deviceCall[Head(toSip[c]).port] \in Calls
      BY <1>4, <2>1 DEF SendInvite
    <2> DEFINE k == deviceCall[Head(toSip[c]).port]
    <2>3. dialog' \in [Cids -> [st : DialogStates, obj : Calls \cup {NoCall}]]
      <3>1. CASE UNCHANGED dialog
        BY <3>1
      <3>2. CASE \E d \in Cids : dialog' = [dialog EXCEPT ![d] = [st |-> "calling", obj |-> k]]
        BY <3>2, <2>2 DEF DialogStates
      <3>3. QED
        BY <1>4, <3>1, <3>2 DEF SendInvite
    <2>4. ipc' \in [at : {"idle", "invited", "dead"}, obj : Calls \cup {NoCall}, cid : CidKeys]
      <3>1. \E d \in CidKeys : ipc' = [at |-> "invited", obj |-> k, cid |-> d]
        BY <1>4, ConstantFacts DEF SendInvite
      <3>2. QED
        BY <3>1, <2>2
    <2>5. QED
      BY <1>4, <2>1, <2>3, <2>4 DEF SendInvite
  <1>5. CASE StopPlay(c)
    <2> DEFINE p == Head(toSip[c]).port
               k == deviceCall[p]
    <2>1. toSip' \in [Procs -> Seq(Msg)] /\ p \in PortKeys
      BY <1>5, ReceiveFacts DEF StopPlay
    <2>2. k \in Calls /\ call[k] \in SipCall /\ call[k].cid \in CidKeys
      BY <1>5, <2>1 DEF StopPlay, SipCall
    <2>3. ports' \in Seq(PortKeys)
      BY <1>5, <2>1, AppendProperties DEF StopPlay, Returned
    <2>4. deviceCall' \in [PortKeys -> Calls \cup {NoCall}]
      BY <1>5 DEF StopPlay
    <2>5. globalCall' \in [CidKeys -> Calls \cup {NoCall}]
      BY <1>5 DEF StopPlay, Unindexed
    <2>6. call' \in [Calls -> SipCall]
      BY <1>5, <2>2 DEF StopPlay, Deleted, SipCall
    <2>7. dialog' \in [Cids -> [st : DialogStates, obj : Calls \cup {NoCall}]]
      BY <1>5 DEF StopPlay, DialogStates
    <2>8. QED
      BY <1>5, <2>1, <2>3, <2>4, <2>5, <2>6, <2>7 DEF StopPlay
  <1>6. CASE StopPlayUnknown(c)
    <2>1. toSip' \in [Procs -> Seq(Msg)] /\ Head(toSip[c]).port \in PortKeys
      BY <1>6, ReceiveFacts DEF StopPlayUnknown
    <2>2. ports' \in Seq(PortKeys)
      BY <1>6, <2>1, AppendProperties DEF StopPlayUnknown
    <2>3. QED
      BY <1>6, <2>1, <2>2 DEF StopPlayUnknown
  <1>7. CASE StopPlayThrows(c)
    <2>1. toSip' \in [Procs -> Seq(Msg)]
      BY <1>7, ReceiveFacts DEF StopPlayThrows
    <2>2. ipc' \in [at : {"idle", "invited", "dead"}, obj : Calls \cup {NoCall}, cid : CidKeys]
      BY <1>7, ConstantFacts DEF StopPlayThrows, IdleIpc
    <2>3. sip' \in [at : {"idle", "ok", "fail", "acked", "dead"}, obj : Calls \cup {NoCall}, cid : CidKeys]
      BY <1>7, ConstantFacts DEF StopPlayThrows, IdleSip
    <2>4. QED
      BY <1>7, <2>1, <2>2, <2>3 DEF StopPlayThrows
  <1>8. CASE StopPlayAll(c)
    <2> DEFINE gone == PortsOf(c)
    <2>1. toSip' \in [Procs -> Seq(Msg)]
      BY <1>8, ReceiveFacts DEF StopPlayAll
    <2>2. gone \subseteq PortKeys /\ IsFiniteSet(gone)
      <3>1. IsFiniteSet(Ports \cup {NullPort})
        BY ConstantFacts, FS_AddElement
      <3>2. PortKeys = (Ports \cup {NullPort}) \cup {NoPort}
        BY DEF PortKeys
      <3>3. IsFiniteSet(PortKeys)
        BY <3>1, <3>2, FS_AddElement
      <3>4. gone \subseteq PortKeys
        BY DEF PortsOf
      <3>5. QED
        BY <3>3, <3>4, FS_Subset
    <2>3. PICK order \in Ascending(gone) :
             ports' = ports \o [i \in DOMAIN order |-> call[deviceCall[order[i]]].port]
      BY <1>8 DEF StopPlayAll
    <2>4. order \in Seq(gone) /\ DOMAIN order = 1..Len(order) /\ Len(order) \in Nat
      BY <2>2, AscendingFacts, LenProperties
    <2>5. \A i \in DOMAIN order : call[deviceCall[order[i]]].port \in PortKeys
      <3>1. TAKE i \in DOMAIN order
      <3>2. order[i] \in gone
        BY <2>4, ElementOfSeq
      <3>3. deviceCall[order[i]] \in Calls
        BY <3>2 DEF PortsOf
      <3>4. QED
        BY <3>3 DEF SipCall
    <2>6. [i \in DOMAIN order |-> call[deviceCall[order[i]]].port] \in Seq(PortKeys)
      BY <2>4, <2>5, FunctionIsSeq
    <2>7. ports' \in Seq(PortKeys)
      BY <2>3, <2>6, ConcatProperties
    <2>8. deviceCall' \in [PortKeys -> Calls \cup {NoCall}]
      BY <1>8 DEF StopPlayAll
    <2>9. globalCall' \in [CidKeys -> Calls \cup {NoCall}]
      BY <1>8 DEF StopPlayAll
    <2>10. call' \in [Calls -> SipCall]
      <3>1. call' = [k \in Calls |-> IF k \in { deviceCall[p] : p \in gone }
                                    THEN [call[k] EXCEPT !.st = "freed"] ELSE call[k]]
        BY <1>8 DEF StopPlayAll
      <3>2. \A k \in Calls : [call[k] EXCEPT !.st = "freed"] \in SipCall
        BY FreedType
      <3>3. QED
        BY <3>1, <3>2
    <2>11. dialog' \in [Cids -> [st : DialogStates, obj : Calls \cup {NoCall}]]
      <3>1. dialog' = [d \in Cids |->
                         IF \E k \in { deviceCall[p] : p \in gone } : call[k].cid = d /\ call[k].did >= 0
                         THEN [dialog[d] EXCEPT !.st = "closed"] ELSE dialog[d]]
        BY <1>8 DEF StopPlayAll
      <3>2. \A d \in Cids : [dialog[d] EXCEPT !.st = "closed"] \in [st : DialogStates, obj : Calls \cup {NoCall}]
        BY DEF DialogStates
      <3>3. QED
        BY <3>1, <3>2
    <2>12. QED
      BY <1>8, <2>1, <2>7, <2>8, <2>9, <2>10, <2>11 DEF StopPlayAll
  <1>9. QED
    BY <1>1, <1>2, <1>3, <1>4, <1>5, <1>6, <1>7, <1>8 DEF IpcThread

(* The second half of SendInvite and the SIP thread keep it well-typed.    *)
LEMMA SipThreadType ==
    ASSUME SipTypeOK, IndexCall \/ SipThread
    PROVE  SipTypeOK'
  <1> USE DEF SipTypeOK
  <1> DEFINE Event == [kind : {"ok", "fail"}, cid : Cids]
             Dialog == [st : DialogStates, obj : Calls \cup {NoCall}]
  <1>1. CASE IndexCall
    <2>1. call' \in [Calls -> SipCall]
      BY <1>1, CidType DEF IndexCall
    <2>2. globalCall' \in [CidKeys -> Calls \cup {NoCall}]
      BY <1>1 DEF IndexCall
    <2>3. QED
      BY <1>1, <2>1, <2>2, ConstantFacts DEF IndexCall, IdleIpc
  <1>2. CASE DropEvent
    BY <1>2, TailFacts DEF DropEvent, ipcVars
  <1>3. ASSUME NEW kind \in {"ok", "fail"}, FindByCallID(kind)
        PROVE  SipTypeOK'
    <2>1. events # << >> /\ events' = Tail(events)
      BY <1>3 DEF FindByCallID, SipEvent
    <2>2. Head(events) \in Event /\ events' \in Seq(Event)
      BY <2>1, TailFacts
    <2>3. Head(events).cid \in Cids /\ globalCall[Head(events).cid] \in Calls
      BY <2>2, <1>3, ConstantFacts DEF FindByCallID
    <2>4. sip' = [at |-> kind, obj |-> globalCall[Head(events).cid], cid |-> Head(events).cid]
      BY <1>3 DEF FindByCallID
    <2>5. sip' \in [at : {"idle", "ok", "fail", "acked", "dead"}, obj : Calls \cup {NoCall}, cid : CidKeys]
          /\ sip'.obj \in Calls
      BY <2>3, <2>4, ConstantFacts
    <2>6. QED
      BY <2>2, <1>3, <2>5 DEF FindByCallID, ipcVars
  <1>4. CASE OnInviteOK
    <2>1. call' \in [Calls -> SipCall]
      <3>1. PICK j : call' = [call EXCEPT ![j].did = 1]
        BY <1>4 DEF OnInviteOK, SetDialog, DialogIdOfAnswer
      <3>2. QED
        BY <3>1, DidType
    <2>2. CASE sip' = IdleSip /\ UNCHANGED dialog
      BY <1>4, <2>1, <2>2, ConstantFacts DEF OnInviteOK, ipcVars, IdleSip
    <2>3. CASE /\ dialog' = [dialog EXCEPT ![sip.cid].st = IF @ = "answered" THEN "active" ELSE @]
               /\ sip' = [sip EXCEPT !.at = "acked"]
      <3>1. PICK st \in DialogStates : dialog' = [dialog EXCEPT ![sip.cid].st = st]
        <4>1. CASE sip.cid \in Cids
          <5>1. dialog[sip.cid].st \in DialogStates
            BY <4>1
          <5>2. QED
            BY <2>3, <5>1 DEF DialogStates
        <4>2. CASE sip.cid \notin Cids
          <5>1. dialog' = dialog /\ [dialog EXCEPT ![sip.cid].st = "none"] = dialog
            BY <2>3, <4>2
          <5>2. QED
            BY <5>1 DEF DialogStates
        <4>3. QED
          BY <4>1, <4>2
      <3>2. dialog' \in [Cids -> Dialog]
        BY <3>1, DialogType
      <3>3. sip.at = "ok"
        BY <1>4 DEF OnInviteOK
      <3>4. QED
        BY <1>4, <2>1, <2>3, <3>2, <3>3 DEF OnInviteOK, ipcVars
    <2>4. QED
      BY <1>4, <2>2, <2>3 DEF OnInviteOK
  <1>5. CASE OnPlayCb
    <2>1. toLive' \in [Procs -> Seq(Msg)]
      <3>1. CASE UNCHANGED toLive
        BY <3>1
      <3>2. CASE \E j \in Touched(sip.obj) :
                   Relay(call[j].proc, << PlayAnswer(call[j].id, call[j].port, 0) >>)
        <4>1. PICK j \in Touched(sip.obj) :
                 Relay(call[j].proc, << PlayAnswer(call[j].id, call[j].port, 0) >>)
          BY <3>2
        <4>2. j \in Calls
          BY <1>5 DEF OnPlayCb, Touched
        <4>3. << PlayAnswer(call[j].id, call[j].port, 0) >> \in Seq(Msg)
          BY <4>2, MessageTypes DEF SipCall
        <4>4. QED
          BY <4>1, <4>3, RelayType
      <3>3. QED
        BY <1>5, <3>1, <3>2 DEF OnPlayCb
    <2>2. QED
      BY <1>5, <2>1, ConstantFacts DEF OnPlayCb, IdleSip
  <1>6. CASE OnInviteFailed
    <2>1. call' \in [Calls -> SipCall]
      <3>1. PICK j : call' = [call EXCEPT ![j].did = -1]
        BY <1>6 DEF OnInviteFailed, SetDialog
      <3>2. QED
        BY <3>1, DidType
    <2>2. dialog' \in [Cids -> Dialog]
      <3>1. dialog' = [dialog EXCEPT ![sip.cid].st = "failed"] /\ "failed" \in DialogStates
        BY <1>6 DEF OnInviteFailed, DialogStates
      <3>2. QED
        BY <3>1, DialogType
    <2>3. QED
      BY <1>6, <2>1, <2>2, ConstantFacts DEF OnInviteFailed, ipcVars, IdleSip
  <1>7. CASE OnInviteOKThrows
    BY <1>7, ConstantFacts DEF OnInviteOKThrows, ipcVars, IdleIpc, IdleSip
  <1>8. QED
    BY <1>1, <1>2, <1>3, <1>4, <1>5, <1>6, <1>7 DEF SipThread

(* So do the cameras.                                                      *)
LEMMA DeviceType ==
    ASSUME SipTypeOK, NEW d \in Cids, DeviceAnswers(d) \/ DeviceHangsUp(d)
    PROVE  SipTypeOK'
  <1> USE DEF SipTypeOK
  <1> DEFINE Dialog == [st : DialogStates, obj : Calls \cup {NoCall}]
  <1>1. PICK st \in DialogStates : dialog' = [dialog EXCEPT ![d].st = st]
    BY DEF DeviceAnswers, DeviceHangsUp, DialogStates
  <1>2. dialog' \in [Cids -> Dialog]
    BY <1>1, DialogType
  <1>3. \A kind \in {"ok", "fail"} :
           Append(events, [kind |-> kind, cid |-> d]) \in Seq([kind : {"ok", "fail"}, cid : Cids])
    BY AppendProperties
  <1>4. CASE DeviceAnswers(d)
    BY <1>2, <1>3, <1>4 DEF DeviceAnswers, ipcVars
  <1>5. CASE DeviceHangsUp(d)
    BY <1>2, <1>5 DEF DeviceHangsUp, ipcVars
  <1>6. QED
    BY <1>4, <1>5

(* A process adds one message to its channel.                              *)
LEMMA SendFacts ==
    ASSUME toSip \in [Procs -> Seq(Msg)], NEW c \in Procs, NEW m \in Msg
    PROVE  [toSip EXCEPT ![c] = Append(@, m)] \in [Procs -> Seq(Msg)]
  BY AppendProperties

(* sip_server starts well-typed.                                           *)
LEMMA SipInitType == SipInit => SipTypeOK
  <1> SUFFICES ASSUME SipInit PROVE SipTypeOK
    OBVIOUS
  <1>1. ports \in Seq(PortKeys)
    BY InitPool DEF SipInit
  <1>2. call \in [Calls -> SipCall]
    BY ConstantFacts DEF SipInit, SipCall
  <1>3. dialog \in [Cids -> [st : DialogStates, obj : Calls \cup {NoCall}]]
    BY DEF SipInit, DialogStates
  <1>4. QED
    BY <1>1, <1>2, <1>3, ConstantFacts DEF SipInit, SipTypeOK, IdleIpc, IdleSip
=============================================================================
