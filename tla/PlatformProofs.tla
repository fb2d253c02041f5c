--------------------------- MODULE PlatformProofs ---------------------------
(***************************************************************************)
(* Theorems about what sip_server keeps of the lower platform: its         *)
(* registration and the queries to it, which is Platform, and the table of *)
(* its devices, Devices.                                                   *)
(***************************************************************************)
EXTENDS Platform, Devices, TLAPS

-----------------------------------------------------------------------------
(***************************************************************************)
(* Platform: what every number of SubscribeThreads, every lease and every  *)
(* width of the counter leave true.                                        *)
(***************************************************************************)

Thread  == [at : {"none", "start", "first", "check", "query", "stamp", "wait", "subscribe"},
            isFirst : BOOLEAN, sent : BOOLEAN]

(* Subscribing waits for _bSubscribe, which only a thread that has slept   *)
(* through the answer sets, if its query went out; answers are not taken   *)
(* back, nor is it forgotten that a query did not go out.                  *)
FirstCatalogueInv ==
    /\ catalogue \in {"none", "asked", "complete"}
    /\ subscriptions \in Int /\ _bFirstReg \in BOOLEAN
    /\ thread \in [Threads -> Thread] /\ unsent \in BOOLEAN
    /\ \A t \in Threads : thread[t].at \in {"stamp", "wait"} => thread[t].sent \/ unsent
    /\ _bSubscribe => catalogue = "complete" \/ unsent
    /\ subscriptions > 0 => catalogue = "complete" \/ unsent

(* Init: nothing is asked, nothing is sent.                                *)
LEMMA InitFirst == Init => FirstCatalogueInv
<1> SUFFICES ASSUME Init PROVE FirstCatalogueInv
  OBVIOUS
<1>1. NoThread \in Thread /\ NoThread.at = "none"
  BY DEF NoThread, Thread
<1>2. thread = [t \in Threads |-> NoThread]
  BY DEF Init
<1>3. thread \in [Threads -> Thread] /\ \A t \in Threads : thread[t].at = "none"
  BY <1>1, <1>2
<1>4. unsent \in BOOLEAN /\ _bFirstReg \in BOOLEAN /\ ~_bSubscribe
  BY DEF Init
<1>5. catalogue = "none" /\ subscriptions = 0
  BY DEF Init
<1> QED BY <1>3, <1>4, <1>5 DEF FirstCatalogueInv

(* A thread's record after one field of it, or two, have been set.         *)
LEMMA ThreadAt ==
  ASSUME NEW t \in Thread, NEW pc \in {"start", "check", "query", "stamp", "wait", "subscribe"}, NEW r,
         r = [t EXCEPT !.at = pc]
  PROVE  r \in Thread /\ r.at = pc /\ r.sent = t.sent
BY DEF Thread

LEMMA ThreadSent ==
  ASSUME NEW t \in Thread, NEW b \in BOOLEAN, NEW r, r = [t EXCEPT !.at = "stamp", !.sent = b]
  PROVE  r \in Thread /\ r.at = "stamp" /\ r.sent = b
<1> DEFINE q == [t EXCEPT !.at = "stamp"]
<1>1. q \in Thread /\ q.at = "stamp"
  BY DEF Thread
<1>2. r = [q EXCEPT !.sent = b]
  OBVIOUS
<1> HIDE DEF q
<1> QED BY <1>1, <1>2 DEF Thread

LEMMA ThreadNew ==
  /\ NoThread \in Thread
  /\ \A b \in BOOLEAN : [at |-> "first", isFirst |-> b, sent |-> FALSE] \in Thread
BY DEF Thread, NoThread

(* What a step of a SubscribeThread does to its record.                    *)
LEMMA ThreadMoves ==
  ASSUME NEW t \in Threads, SubscribeThread(t), thread \in [Threads -> Thread], _bFirstReg \in BOOLEAN
  PROVE  \E r \in Thread :
            /\ thread' = [thread EXCEPT ![t] = r]
            /\ r.at = "stamp" => r.sent \/ unsent'
            /\ r.at = "wait" => thread[t].at = "stamp" /\ r.sent = thread[t].sent
            /\ unsent => unsent'
<1> USE ThreadNew DEF askedVars
<1>0. thread[t] \in Thread
  OBVIOUS
<1>1. ASSUME NEW from, NEW to \in {"check", "query", "wait", "subscribe"}, Moves(t, from, to),
             to = "wait" => from = "stamp", unsent => unsent'
      PROVE  \E r \in Thread :
            /\ thread' = [thread EXCEPT ![t] = r]
            /\ r.at = "stamp" => r.sent \/ unsent'
            /\ r.at = "wait" => thread[t].at = "stamp" /\ r.sent = thread[t].sent
            /\ unsent => unsent'
  <2> DEFINE r == [thread[t] EXCEPT !.at = to]
  <2>1. r \in Thread /\ r.at = to /\ r.sent = thread[t].sent
    BY <1>0, ThreadAt
  <2>2. thread' = [thread EXCEPT ![t] = r] /\ thread[t].at = from
    BY <1>1 DEF Moves
  <2> HIDE DEF r
  <2> QED BY <1>1, <2>1, <2>2
<1>2. CASE ReadsFirst(t)
  <2> DEFINE r == [at |-> "first", isFirst |-> _bFirstReg, sent |-> FALSE]
  <2>1. r \in Thread /\ r.at = "first"
    OBVIOUS
  <2> QED BY <1>2, <2>1 DEF ReadsFirst
<1>3. CASE ClearsFirst(t)
  <2>1. Moves(t, "first", "check") /\ unsent' = unsent
    BY <1>3 DEF ClearsFirst
  <2> QED BY <1>1, <2>1
<1>4. CASE ChecksHour(t)
  <2> DEFINE to == IF MustQuery(t) THEN "query" ELSE "subscribe"
  <2>1. Moves(t, "check", to) /\ unsent' = unsent
    BY <1>4 DEF ChecksHour
  <2>2. to \in {"query", "subscribe"}
    OBVIOUS
  <2> HIDE DEF to
  <2> QED BY <1>1, <2>1, <2>2
<1>5. ASSUME NEW built \in BOOLEAN, QueryDirtionary(t, built)
      PROVE  \E r \in Thread :
            /\ thread' = [thread EXCEPT ![t] = r]
            /\ r.at = "stamp" => r.sent \/ unsent'
            /\ r.at = "wait" => thread[t].at = "stamp" /\ r.sent = thread[t].sent
            /\ unsent => unsent'
  <2> DEFINE r == [thread[t] EXCEPT !.at = "stamp", !.sent = built]
  <2>1. r \in Thread /\ r.at = "stamp" /\ r.sent = built
    BY <1>0, ThreadSent
  <2>2. thread' = [thread EXCEPT ![t] = r] /\ unsent' = (unsent \/ ~built)
    BY <1>5 DEF QueryDirtionary
  <2> HIDE DEF r
  <2> QED BY <2>1, <2>2
<1>6. CASE StampsQuery(t)
  <2>1. Moves(t, "stamp", "wait") /\ unsent' = unsent
    BY <1>6 DEF StampsQuery
  <2> QED BY <1>1, <2>1
<1>7. CASE Waited(t)
  <2>1. Moves(t, "wait", "subscribe") /\ unsent' = unsent
    BY <1>7 DEF Waited
  <2> QED BY <1>1, <2>1
<1>8. CASE Subscribes(t)
  <2>1. NoThread.at = "none"
    BY DEF NoThread
  <2> QED BY <1>8, <2>1 DEF Subscribes
<1> QED BY <1>2, <1>3, <1>4, <1>5, <1>6, <1>7, <1>8 DEF SubscribeThread

(* No step takes an answer back, and only Waited sets _bSubscribe.         *)
LEMMA NextFirst == Timely /\ FirstCatalogueInv /\ [Next]_vars => FirstCatalogueInv'
<1> SUFFICES ASSUME Timely, FirstCatalogueInv, [Next]_vars PROVE FirstCatalogueInv'
  OBVIOUS
<1> USE DEF FirstCatalogueInv, queryVars, askedVars, statusVars
<1>1. ASSUME NEW s \in Grants, OnRegister(s) PROVE FirstCatalogueInv'
  BY <1>1 DEF OnRegister, Granted, Thread
<1>2. CASE OnKeepalive
  BY <1>2 DEF OnKeepalive, Granted, Thread
<1>3. ASSUME NEW t \in Threads, Answers(t) PROVE FirstCatalogueInv'
  <2> DEFINE r == [thread[t] EXCEPT !.at = "start"]
  <2>1. r \in Thread /\ r.at = "start"
    BY DEF Thread
  <2>2. thread' = [thread EXCEPT ![t] = r]
    BY <1>3 DEF Answers, AutoQuery
  <2>3. thread' \in [Threads -> Thread]
    BY <2>1, <2>2
  <2>4. \A u \in Threads : thread'[u].at \in {"stamp", "wait"} => thread'[u].sent \/ unsent
    BY <2>1, <2>2
  <2>5. UNCHANGED <<_bFirstReg, _bSubscribe, askedVars, subscriptions>>
    BY <1>3 DEF Answers
  <2> HIDE DEF r
  <2> QED BY <2>3, <2>4, <2>5 DEF Thread
<1>4. CASE AnswersNot
  BY <1>4 DEF AnswersNot, Thread
<1>5. CASE ExpireThread
  BY <1>5 DEF ExpireThread, WakesUp, LoadsExpire, StoresExpire, TestsExpire, ClearsStatus, Thread
<1>6. ASSUME NEW t \in Threads, SubscribeThread(t) PROVE FirstCatalogueInv'
  <2>0. PICK r \in Thread :
            /\ thread' = [thread EXCEPT ![t] = r]
            /\ r.at = "stamp" => r.sent \/ unsent'
            /\ r.at = "wait" => thread[t].at = "stamp" /\ r.sent = thread[t].sent
            /\ unsent => unsent'
    BY <1>6, ThreadMoves
  <2>1. /\ thread' \in [Threads -> Thread]
        /\ \A u \in Threads : thread'[u].at \in {"stamp", "wait"} => thread'[u].sent \/ unsent'
    BY <2>0
  <2>2. Thread' = Thread
    BY DEF Thread
  <2>3. CASE ReadsFirst(t) \/ ClearsFirst(t) \/ ChecksHour(t) \/ StampsQuery(t)
    <3>1. UNCHANGED <<_bSubscribe, askedVars, subscriptions>> /\ _bFirstReg' \in BOOLEAN
      BY <2>3 DEF ReadsFirst, ClearsFirst, ChecksHour, StampsQuery
    <3> QED BY <2>1, <2>2, <3>1
  <2>4. ASSUME NEW built \in BOOLEAN, QueryDirtionary(t, built) PROVE FirstCatalogueInv'
    <3>1. /\ UNCHANGED <<_bFirstReg, _bSubscribe, subscriptions>>
          /\ catalogue' = IF built /\ catalogue = "none" THEN "asked" ELSE catalogue
          /\ unsent' = (unsent \/ ~built)
      BY <2>4 DEF QueryDirtionary
    <3> QED BY <2>1, <2>2, <3>1
  <2>5. CASE Waited(t)
    <3>1. /\ UNCHANGED <<_bFirstReg, askedVars, subscriptions>> /\ _bSubscribe' = TRUE
          /\ thread[t].at = "wait" /\ (thread[t].sent => catalogue = "complete")
      BY <2>5 DEF Waited, Answered, Moves
    <3> QED BY <2>1, <2>2, <3>1
  <2>6. CASE Subscribes(t)
    <3>1. /\ UNCHANGED <<_bFirstReg, _bSubscribe, askedVars>>
          /\ subscriptions' = IF _bSubscribe /\ thread[t].isFirst THEN subscriptions + 1 ELSE subscriptions
      BY <2>6 DEF Subscribes, MaySubscribe
    <3> QED BY <2>1, <2>2, <3>1
  <2> QED BY <1>6, <2>3, <2>4, <2>5, <2>6 DEF SubscribeThread
<1>7. CASE PlatformAnswers
  BY <1>7 DEF PlatformAnswers, Thread
<1>8. CASE HourPasses
  BY <1>8 DEF HourPasses, Thread
<1>9. CASE UNCHANGED vars
  BY <1>9 DEF vars, Thread
<1> QED BY <1>1, <1>2, <1>3, <1>4, <1>5, <1>6, <1>7, <1>8, <1>9 DEF Next

(* However many reports race each other, nothing is subscribed to before a *)
(* timely platform has answered the first query (SipServer.cpp:221), as    *)
(* long as every query has gone out.                                       *)
THEOREM SubscriptionWaits ==
  ASSUME Timely PROVE Spec => []SubscribesAfterFirstCatalogue
<1>1. FirstCatalogueInv => SubscribesAfterFirstCatalogue
  BY DEF FirstCatalogueInv, SubscribesAfterFirstCatalogue
<1>2. FirstCatalogueInv /\ [Next]_vars => FirstCatalogueInv'
  BY NextFirst
<1> QED BY InitFirst, <1>1, <1>2, PTL DEF Spec

-----------------------------------------------------------------------------
(* Types.                                                                  *)
LEMMA UnsignedType == \A n \in Int : Unsigned(n) \in 0..(Space - 1)
<1>1. Space \in Nat \ {0}
  BY PlatformAssumption
<1>2. \A n \in Int : n % Space \in 0..(Space - 1)
  BY <1>1
<1> QED BY <1>2 DEF Unsigned

Expirer == [at : {"sleep", "load", "store", "test", "clear"}, read : 0..(Space - 1)]
Lease   == [granted : 0..(Space - 1), ticks : 0..Space]

LEMMA RecordTypes ==
  /\ Expirer' = Expirer /\ Thread' = Thread /\ Lease' = Lease
  /\ \A e \in Expirer : e.read \in 0..(Space - 1)
  /\ \A e \in Expirer, pc \in {"sleep", "load", "store", "test", "clear"} : [e EXCEPT !.at = pc] \in Expirer
  /\ \A r \in 0..(Space - 1) : [at |-> "store", read |-> r] \in Expirer /\ [granted |-> r, ticks |-> 0] \in Lease
  /\ [at |-> "test", read |-> 0] \in Expirer
  /\ \A l \in Lease : l.ticks \in 0..Space
  /\ \A l \in Lease, n \in 0..Space : [l EXCEPT !.ticks = n] \in Lease
  /\ NoThread \in Thread
  /\ \A b \in BOOLEAN : [at |-> "first", isFirst |-> b, sent |-> FALSE] \in Thread
  /\ \A t \in Thread, pc \in {"start", "check", "query", "stamp", "wait", "subscribe"} :
        [t EXCEPT !.at = pc] \in Thread
BY PlatformAssumption DEF Expirer, Thread, Lease, NoThread

LEMMA NextTypes == TypeOK /\ [Next]_vars => TypeOK'
<1> SUFFICES ASSUME TypeOK, [Next]_vars PROVE TypeOK'
  OBVIOUS
<1>0. /\ expirer \in Expirer /\ thread \in [Threads -> Thread] /\ lease \in Lease
      /\ Step \in Int /\ Space \in Nat
  BY PlatformAssumption DEF TypeOK, Expirer, Thread, Lease
<1>1. ASSUME expirer' \in Expirer, thread' \in [Threads -> Thread], lease' \in Lease,
             g_nLowExpire' \in 0..(Space - 1), sip' \in {"idle", "registered", "alive"},
             catalogue' \in {"none", "asked", "complete"}, subscriptions' \in Nat,
             query' \in {"due", "sent", "failed"}, unsent' \in BOOLEAN,
             g_bLowStatus' \in BOOLEAN, _bFirstReg' \in BOOLEAN, _bSubscribe' \in BOOLEAN, stale' \in BOOLEAN
      PROVE  TypeOK'
  BY <1>1 DEF TypeOK, Expirer, Thread, Lease
<1> USE <1>0, RecordTypes DEF queryVars, askedVars, statusVars
<1>2. ASSUME NEW s \in Grants \cup {KeepAlive}, NEW next \in {"registered", "alive"}, Granted(s, next) PROVE TypeOK'
  <2>1. s \in 0..(Space - 1)
    BY PlatformAssumption
  <2> QED BY <1>1, <1>2, <2>1 DEF Granted, TypeOK
<1>3. ASSUME NEW t \in Threads, Answers(t) PROVE TypeOK'
  <2>1. thread' \in [Threads -> Thread] /\ lease' \in Lease
    BY <1>3 DEF Answers, AutoQuery
  <2> QED BY <1>1, <1>3, <2>1 DEF Answers, TypeOK
<1>4. CASE AnswersNot
  BY <1>1, <1>4 DEF AnswersNot, TypeOK
<1>5. CASE WakesUp
  <2>1. expirer' \in Expirer
    BY <1>5 DEF WakesUp, At
  <2>2. PICK n \in 0..Space : lease' = [lease EXCEPT !.ticks = n]
    <3>1. (IF lease.ticks < Space THEN lease.ticks + 1 ELSE lease.ticks) \in 0..Space
      OBVIOUS
    <3> QED BY <1>5, <3>1 DEF WakesUp
  <2>3. lease' \in Lease
    BY <2>2
  <2>4. UNCHANGED <<g_nLowExpire, g_bLowStatus, sip, queryVars>>
    BY <1>5 DEF WakesUp
  <2> HIDE <1>5
  <2> QED BY <1>1, <2>1, <2>3, <2>4 DEF TypeOK
<1>6. CASE LoadsExpire
  BY <1>1, <1>6 DEF LoadsExpire, TypeOK
<1>7. CASE StoresExpire
  <2>1. expirer.read - Step \in Int
    OBVIOUS
  <2> QED BY <1>1, <1>7, <2>1, UnsignedType DEF StoresExpire, TypeOK
<1>8. CASE TestsExpire \/ ClearsStatus
  <2>1. expirer' \in Expirer
    BY <1>8 DEF TestsExpire, ClearsStatus, At
  <2> QED BY <1>1, <1>8, <2>1 DEF TestsExpire, ClearsStatus, TypeOK
<1>9. ASSUME NEW t \in Threads, SubscribeThread(t) PROVE TypeOK'
  <2>1. thread' \in [Threads -> Thread]
    <3>1. ASSUME NEW from, NEW to \in {"check", "query", "stamp", "wait", "subscribe"}, Moves(t, from, to)
          PROVE  thread' \in [Threads -> Thread]
      <4>1. thread[t] \in Thread
        OBVIOUS
      <4>2. [thread[t] EXCEPT !.at = to] \in Thread
        BY <4>1
      <4>3. thread' = [thread EXCEPT ![t] = [thread[t] EXCEPT !.at = to]]
        BY <3>1 DEF Moves
      <4> QED BY <4>2, <4>3
    <3>2. CASE ReadsFirst(t)
      <4>1. [at |-> "first", isFirst |-> _bFirstReg, sent |-> FALSE] \in Thread
        BY DEF TypeOK
      <4>2. thread' = [thread EXCEPT ![t] = [at |-> "first", isFirst |-> _bFirstReg, sent |-> FALSE]]
        BY <3>2 DEF ReadsFirst
      <4> QED BY <4>1, <4>2
    <3>3. CASE ClearsFirst(t)
      BY <3>1, <3>3 DEF ClearsFirst
    <3>4. CASE ChecksHour(t)
      <4>1. (IF MustQuery(t) THEN "query" ELSE "subscribe") \in {"query", "subscribe"}
        OBVIOUS
      <4>2. Moves(t, "check", IF MustQuery(t) THEN "query" ELSE "subscribe")
        BY <3>4 DEF ChecksHour
      <4> QED BY <3>1, <4>1, <4>2
    <3>5. ASSUME NEW built \in BOOLEAN, QueryDirtionary(t, built) PROVE thread' \in [Threads -> Thread]
      <4>1. [thread[t] EXCEPT !.at = "stamp", !.sent = built] \in Thread
        BY ThreadSent
      <4>2. thread' = [thread EXCEPT ![t] = [thread[t] EXCEPT !.at = "stamp", !.sent = built]]
        BY <3>5 DEF QueryDirtionary
      <4> QED BY <4>1, <4>2
    <3>6. CASE StampsQuery(t)
      BY <3>1, <3>6 DEF StampsQuery
    <3>7. CASE Waited(t)
      BY <3>1, <3>7 DEF Waited
    <3>8. CASE Subscribes(t)
      <4>1. thread' = [thread EXCEPT ![t] = NoThread]
        BY <3>8 DEF Subscribes
      <4> QED BY <4>1
    <3> QED BY <1>9, <3>2, <3>3, <3>4, <3>5, <3>6, <3>7, <3>8 DEF SubscribeThread
  <2>2. UNCHANGED statusVars
    BY <1>9 DEF SubscribeThread, ReadsFirst, ClearsFirst, ChecksHour, QueryDirtionary, StampsQuery, Waited, Subscribes
  <2>4. /\ catalogue' \in {"none", "asked", "complete"} /\ subscriptions' \in Nat
        /\ query' \in {"due", "sent", "failed"} /\ unsent' \in BOOLEAN
    <3>1. /\ catalogue \in {"none", "asked", "complete"} /\ subscriptions \in Nat
          /\ query \in {"due", "sent", "failed"} /\ unsent \in BOOLEAN
      BY DEF TypeOK
    <3>2. \/ UNCHANGED askedVars
          \/ \E built \in BOOLEAN :
                /\ catalogue' = IF built /\ catalogue = "none" THEN "asked" ELSE catalogue
                /\ query' = IF built THEN "sent" ELSE IF query = "due" THEN "failed" ELSE query
                /\ unsent' = (unsent \/ ~built)
      BY <1>9 DEF SubscribeThread, ReadsFirst, ClearsFirst, ChecksHour, QueryDirtionary, StampsQuery, Waited, Subscribes
    <3>3. \/ UNCHANGED subscriptions
          \/ subscriptions' = IF MaySubscribe(t) THEN subscriptions + 1 ELSE subscriptions
      BY <1>9 DEF SubscribeThread, ReadsFirst, ClearsFirst, ChecksHour, QueryDirtionary, StampsQuery, Waited, Subscribes
    <3>4. query' \in {"due", "sent", "failed"} /\ unsent' \in BOOLEAN /\ catalogue' \in {"none", "asked", "complete"}
      <4>1. CASE UNCHANGED askedVars
        BY <3>1, <4>1
      <4>2. ASSUME NEW built \in BOOLEAN,
                   catalogue' = IF built /\ catalogue = "none" THEN "asked" ELSE catalogue,
                   query' = IF built THEN "sent" ELSE IF query = "due" THEN "failed" ELSE query,
                   unsent' = (unsent \/ ~built)
            PROVE  /\ query' \in {"due", "sent", "failed"} /\ unsent' \in BOOLEAN
                   /\ catalogue' \in {"none", "asked", "complete"}
        BY <3>1, <4>2
      <4> QED BY <3>2, <4>1, <4>2
    <3>5. subscriptions' \in Nat
      BY <3>1, <3>3
    <3> QED BY <3>4, <3>5
  <2>3. _bFirstReg' \in BOOLEAN /\ _bSubscribe' \in BOOLEAN /\ stale' \in BOOLEAN
    BY <1>9 DEF SubscribeThread, ReadsFirst, ClearsFirst, ChecksHour, QueryDirtionary, StampsQuery, Waited,
                Subscribes, TypeOK
  <2> QED BY <1>1, <2>1, <2>2, <2>3, <2>4 DEF TypeOK
<1>10. CASE PlatformAnswers \/ HourPasses
  BY <1>1, <1>10 DEF PlatformAnswers, HourPasses, TypeOK
<1>11. CASE UNCHANGED vars
  BY <1>1, <1>11 DEF vars, TypeOK
<1> QED BY <1>2, <1>3, <1>4, <1>5, <1>6, <1>7, <1>8, <1>9, <1>10, <1>11
        DEF Next, ExpireThread, OnRegister, OnKeepalive

(* Every variable stays in its type, for every lease, step and width of    *)
(* the counter: it wraps around, but is never negative.                    *)
THEOREM TypeCorrect == Spec => []TypeOK
<1>1. Init => TypeOK
  <2> SUFFICES ASSUME Init PROVE TypeOK
    OBVIOUS
  <2>1. Boot \in 0..(Space - 1) /\ 0 \in 0..(Space - 1) /\ 0 \in 0..Space
    BY PlatformAssumption
  <2>2. /\ g_nLowExpire \in 0..(Space - 1)
        /\ expirer \in [at : {"sleep", "load", "store", "test", "clear"}, read : 0..(Space - 1)]
        /\ lease \in [granted : 0..(Space - 1), ticks : 0..Space]
    BY <2>1 DEF Init
  <2>3. /\ sip \in {"idle", "registered", "alive"} /\ catalogue \in {"none", "asked", "complete"}
        /\ subscriptions \in Nat /\ query \in {"due", "sent", "failed"}
    BY DEF Init
  <2>4. /\ g_bLowStatus \in BOOLEAN /\ _bFirstReg \in BOOLEAN /\ _bSubscribe \in BOOLEAN /\ stale \in BOOLEAN
        /\ unsent \in BOOLEAN
    BY DEF Init
  <2>5. thread \in [Threads -> [at : {"none", "start", "first", "check", "query", "stamp", "wait", "subscribe"},
                                 isFirst : BOOLEAN, sent : BOOLEAN]]
    BY DEF Init, NoThread
  <2> QED BY <2>2, <2>3, <2>4, <2>5 DEF TypeOK
<1> QED BY <1>1, NextTypes, PTL DEF Spec

-----------------------------------------------------------------------------
(***************************************************************************)
(* Devices, for every set of devices and of reports: types, pairs of       *)
(* coordinates, and that a restart loses no status.                        *)
(***************************************************************************)

Working == [at : {"device", "status", "position"}, dev : Devices, info : Reports]
Table(f) == DOMAIN f \subseteq Devices /\ f \in [DOMAIN f -> Info]

Types == Table(g_mapDevs) /\ Table(db) /\ item \in {Idle} \union Working

(* What the operations on a table do to its type, its entries and its      *)
(* statuses.                                                               *)
LEMMA WithTable ==
    ASSUME NEW f, Table(f), NEW d \in Devices, NEW r \in Info
    PROVE  /\ Table(With(f, d, r))
           /\ DOMAIN With(f, d, r) = DOMAIN f \union {d}
           /\ With(f, d, r)[d] = r
           /\ \A x \in DOMAIN f \ {d} : With(f, d, r)[x] = f[x]
BY DEF Table, With

LEMMA SetStatusTable ==
    ASSUME NEW f, Table(f), NEW d, NEW s \in STRING
    PROVE  /\ Table(SetStatus(f, d, s))
           /\ DOMAIN SetStatus(f, d, s) = DOMAIN f
           /\ \A x \in DOMAIN f :
                 /\ SetStatus(f, d, s)[x].strStatus = IF x = d THEN s ELSE f[x].strStatus
                 /\ SetStatus(f, d, s)[x].strLatitude = f[x].strLatitude
                 /\ SetStatus(f, d, s)[x].strLongitude = f[x].strLongitude
BY DEF Table, SetStatus, Info

LEMMA SetPosTable ==
    ASSUME NEW f, Table(f), NEW d, NEW lat \in STRING, NEW lon \in STRING
    PROVE  /\ Table(SetPos(f, d, lat, lon))
           /\ DOMAIN SetPos(f, d, lat, lon) = DOMAIN f
           /\ \A x \in DOMAIN f :
                 /\ SetPos(f, d, lat, lon)[x].strStatus = f[x].strStatus
                 /\ SetPos(f, d, lat, lon)[x].strLatitude = IF x = d THEN lat ELSE f[x].strLatitude
                 /\ SetPos(f, d, lat, lon)[x].strLongitude = IF x = d THEN lon ELSE f[x].strLongitude
BY DEF Table, SetPos, Info

(* The script, told of a status or a position, changes the database so.    *)
LEMMA UpdateStatusTable ==
    ASSUME Table(db), NEW d, NEW s \in STRING, UpdateStatus(d, s)
    PROVE  /\ Table(db') /\ DOMAIN db' = DOMAIN db
           /\ \A x \in DOMAIN db :
                 /\ db'[x].strStatus = IF _useScript /\ x = d THEN s ELSE db[x].strStatus
                 /\ db'[x].strLatitude = db[x].strLatitude
                 /\ db'[x].strLongitude = db[x].strLongitude
<1>1. CASE _useScript
      BY <1>1, SetStatusTable DEF UpdateStatus
<1>2. CASE ~_useScript
      BY <1>2 DEF UpdateStatus
<1> QED BY <1>1, <1>2

LEMMA UpdatePosTable ==
    ASSUME Table(db), NEW d, NEW lat \in STRING, NEW lon \in STRING, UpdatePos(d, lat, lon)
    PROVE  /\ Table(db') /\ DOMAIN db' = DOMAIN db
           /\ \A x \in DOMAIN db :
                 /\ db'[x].strStatus = db[x].strStatus
                 /\ db'[x].strLatitude = IF _useScript /\ x = d THEN lat ELSE db[x].strLatitude
                 /\ db'[x].strLongitude = IF _useScript /\ x = d THEN lon ELSE db[x].strLongitude
<1>1. CASE _useScript
      BY <1>1, SetPosTable DEF UpdatePos
<1>2. CASE ~_useScript
      BY <1>2 DEF UpdatePos
<1> QED BY <1>1, <1>2

LEMMA NowhereTable == Table(Nowhere) /\ DOMAIN Nowhere = {}
BY DEF Table, Nowhere

LEMMA ReportTypes ==
    ASSUME NEW r \in Reports
    PROVE  r \in Info /\ r.strStatus \in STRING /\ r.strLatitude \in STRING /\ r.strLongitude \in STRING
BY DevicesAssumption DEF Info

LEMMA ItemTypes ==
    ASSUME NEW at \in {"device", "status", "position"}, NEW d \in Devices, NEW r \in Reports
    PROVE  Item(at, d, r) \in Working
BY DEF Item, Working

LEMMA AtWorkTypes ==
    ASSUME Types, item.at # "idle"
    PROVE  item \in Working /\ item.dev \in Devices /\ item.info \in Reports
BY DEF Types, Working, Idle

LEMMA TypesPrimed ==
    ASSUME Table(g_mapDevs'), Table(db'), item' \in {Idle} \union Working
    PROVE  Types'
BY DEF Types, Table, Working, Idle

(* Every step keeps the types.                                             *)
LEMMA TypesStep == Types /\ [DevicesNext]_devicesVars => Types'
<1> SUFFICES ASSUME Types, [DevicesNext]_devicesVars PROVE Types'
    OBVIOUS
<1>0. Table(g_mapDevs) /\ Table(db) /\ item \in {Idle} \union Working
      BY DEF Types
<1>1. ASSUME NEW d \in Devices, NEW r \in Reports, OnNewDevice(d, r) PROVE Types'
      BY <1>0, <1>1, TypesPrimed, ReportTypes, WithTable DEF OnNewDevice, InsertDev
<1>2. ASSUME NEW d \in Devices, NEW r \in Reports, OnKnownDevice(d, r) PROVE Types'
      BY <1>0, <1>2, TypesPrimed, ReportTypes, SetPosTable, ItemTypes, UpdatePosTable DEF OnKnownDevice
<1>3. ASSUME NEW d \in Devices, NEW r \in Reports, OnNotify(d, r) PROVE Types'
      <2>1. g_mapDevs' = g_mapDevs /\ item' \in {Item("status", d, r), Item("position", d, r), Idle}
            BY <1>3 DEF OnNotify
      <2>2. UpdateStatus(d, r.strStatus) \/ db' = db
            BY <1>3 DEF OnNotify
      <2> QED BY <1>0, <2>1, <2>2, TypesPrimed, ReportTypes, ItemTypes, UpdateStatusTable
<1>4. ASSUME NEW d \in Devices, NEW r \in Reports, OnMobilePosition(d, r) PROVE Types'
      BY <1>0, <1>4, TypesPrimed, ReportTypes, SetPosTable, UpdatePosTable DEF OnMobilePosition, Position
<1>5. CASE ReplaceDevice
      <2>1. item.dev \in Devices /\ item.info \in Reports
            BY <1>5, AtWorkTypes DEF ReplaceDevice
      <2> QED BY <1>0, <1>5, TypesPrimed, <2>1, ReportTypes, SetStatusTable, WithTable, UpdateStatusTable DEF ReplaceDevice
<1>6. CASE OnUpdateStatus
      <2>1. item.dev \in Devices /\ item.info \in Reports
            BY <1>6, AtWorkTypes DEF OnUpdateStatus
      <2> QED BY <1>0, <1>6, TypesPrimed, <2>1, ReportTypes, SetStatusTable, ItemTypes DEF OnUpdateStatus
<1>7. CASE OnUpdatePostion
      <2>1. item.dev \in Devices /\ item.info \in Reports
            BY <1>7, AtWorkTypes DEF OnUpdatePostion
      <2> QED BY <1>0, <1>7, TypesPrimed, <2>1, ReportTypes, SetPosTable, UpdatePosTable DEF OnUpdatePostion, Position
<1>8. CASE Restart
      BY <1>0, <1>8, TypesPrimed, NowhereTable DEF Restart, Preload
<1>9. CASE UNCHANGED devicesVars
      BY <1>9 DEF devicesVars, Types, Table
<1> QED BY <1>1, <1>2, <1>3, <1>4, <1>5, <1>6, <1>7, <1>8, <1>9 DEF DevicesNext, SipThread

(* The table, the database and the SIP thread's item stay in their types.  *)
THEOREM DevicesTypeCorrect == DevicesSpec => []DevicesTypeOK
<1>1. DevicesInit => Types
      BY NowhereTable DEF DevicesInit, Types
<1>2. Types => DevicesTypeOK
      BY DEF Types, DevicesTypeOK, Table, Working
<1> QED BY <1>1, <1>2, TypesStep, PTL DEF DevicesSpec

-----------------------------------------------------------------------------
(* A restart loses no status: main.cpp:40 compares a new status with the   *)
(* table, not with the database, so the two must agree between reports.    *)
(* While the SIP thread is between telling the script of a status and the  *)
(* table, the database has the status of its item.                         *)
Agrees(d) ==
    \/ g_mapDevs[d].strStatus \in {"", db[d].strStatus}
    \/ item.at = "status" /\ item.dev = d

StatusInv ==
    /\ Types
    /\ item.at = "device" => item.dev \in DOMAIN g_mapDevs
    /\ _useScript /\ item.at = "status" /\ item.dev \in DOMAIN db => db[item.dev].strStatus = item.info.strStatus
    /\ _useScript => \A d \in DOMAIN g_mapDevs : d \in DOMAIN db /\ Agrees(d)

(* Most steps change no status in the table or none in the database.       *)
SameTable == /\ DOMAIN g_mapDevs' = DOMAIN g_mapDevs
             /\ \A x \in DOMAIN g_mapDevs : g_mapDevs'[x].strStatus = g_mapDevs[x].strStatus
SameDb    == /\ DOMAIN db' = DOMAIN db
             /\ \A x \in DOMAIN db : db'[x].strStatus = db[x].strStatus

LEMMA PositionSame ==
    ASSUME Table(g_mapDevs), Table(db), NEW d \in Devices, NEW r \in Reports, Position(d, r)
    PROVE  SameTable /\ SameDb
<1>1. UpdatePos(d, r.strLatitude, r.strLongitude) \/ db' = db
      BY DEF Position
<1>2. g_mapDevs' = SetPos(g_mapDevs, d, r.strLatitude, r.strLongitude)
      BY DEF Position
<1>3. SameTable
      <2>1. r.strLatitude \in STRING /\ r.strLongitude \in STRING
            BY ReportTypes
      <2> QED BY <1>2, <2>1 DEF SameTable, SetPos, Table, Info
<1>4. SameDb
      BY <1>1, ReportTypes, UpdatePosTable DEF SameDb
<1> QED BY <1>3, <1>4

LEMMA StatusStep == StatusInv /\ [DevicesNext]_devicesVars => StatusInv'
<1> SUFFICES ASSUME StatusInv, [DevicesNext]_devicesVars PROVE StatusInv'
    OBVIOUS
<1>0. Types' /\ Types /\ Table(g_mapDevs) /\ Table(db)
      BY TypesStep DEF Types, StatusInv
<1>1. ASSUME NEW d \in Devices, NEW r \in Reports, OnNewDevice(d, r) PROVE StatusInv'
      <2>1. g_mapDevs' = With(g_mapDevs, d, r) /\ item' = item /\ item.at = "idle"
            BY <1>1 DEF OnNewDevice
      <2>2. _useScript => db' = With(db, d, r)
            BY <1>1 DEF OnNewDevice, InsertDev
      <2>3. /\ DOMAIN g_mapDevs' = DOMAIN g_mapDevs \union {d} /\ g_mapDevs'[d] = r
            /\ \A x \in DOMAIN g_mapDevs \ {d} : g_mapDevs'[x] = g_mapDevs[x]
            BY <2>1 DEF With
      <2>4. _useScript => /\ DOMAIN db' = DOMAIN db \union {d} /\ db'[d] = r
                          /\ \A x \in DOMAIN db \ {d} : db'[x] = db[x]
            BY <2>2 DEF With
      <2>5. ASSUME _useScript, NEW x \in DOMAIN g_mapDevs' PROVE x \in DOMAIN db' /\ Agrees(x)'
            <3>1. CASE x = d
                  BY <2>3, <2>4, <2>5, <3>1 DEF Agrees
            <3>2. CASE x # d
                  <4>1. x \in DOMAIN g_mapDevs /\ x \in DOMAIN db /\ Agrees(x)
                        BY <2>3, <2>5, <3>2 DEF StatusInv
                  <4>2. g_mapDevs'[x] = g_mapDevs[x] /\ db'[x] = db[x] /\ x \in DOMAIN db'
                        BY <2>3, <2>4, <2>5, <3>2, <4>1
                  <4>3. QED BY <2>1, <4>1, <4>2 DEF Agrees
            <3>3. QED BY <3>1, <3>2
      <2>6. item'.at = "idle"
            BY <2>1
      <2> QED BY <1>0, <2>5, <2>6 DEF StatusInv
<1>2. ASSUME NEW d \in Devices, NEW r \in Reports, OnKnownDevice(d, r) PROVE StatusInv'
      <2>1. UpdatePos(d, r.strLatitude, r.strLongitude) \/ db' = db
            BY <1>2 DEF OnKnownDevice
      <2>2. SameDb
            BY <1>0, <2>1, ReportTypes, UpdatePosTable DEF SameDb
      <2> QED BY <1>0, <1>2, <2>2 DEF OnKnownDevice, SameDb, Item, StatusInv, Agrees
<1>3. ASSUME NEW d \in Devices, NEW r \in Reports, OnNotify(d, r) PROVE StatusInv'
      <2>1. g_mapDevs' = g_mapDevs /\ item.at = "idle"
            BY <1>3 DEF OnNotify
      <2>2. CASE r.strStatus # ""
            <3>1. UpdateStatus(d, r.strStatus) /\ item' = Item("status", d, r)
                  BY <1>3, <2>2 DEF OnNotify
            <3>2. DOMAIN db' = DOMAIN db /\ \A x \in DOMAIN db :
                     db'[x].strStatus = IF _useScript /\ x = d THEN r.strStatus ELSE db[x].strStatus
                  BY <1>0, <3>1, ReportTypes, UpdateStatusTable
            <3> QED BY <1>0, <2>1, <3>1, <3>2 DEF Item, StatusInv, Agrees
      <2>3. CASE r.strStatus = ""
            <3>1. db' = db /\ item' \in {Item("position", d, r), Idle}
                  BY <1>3, <2>3 DEF OnNotify
            <3>2. item'.at \in {"position", "idle"}
                  BY <3>1 DEF Item, Idle
            <3> QED BY <1>0, <2>1, <3>1, <3>2 DEF StatusInv, Agrees
      <2> QED BY <2>2, <2>3
<1>4. ASSUME NEW d \in Devices, NEW r \in Reports, OnMobilePosition(d, r) PROVE StatusInv'
      <2>1. SameTable /\ SameDb /\ item' = item
            BY <1>0, <1>4, PositionSame DEF OnMobilePosition
      <2> QED BY <1>0, <2>1 DEF SameTable, SameDb, StatusInv, Agrees
<1>5. CASE ReplaceDevice
      <2> DEFINE dev == item.dev
                 info == item.info
      <2>1. dev \in Devices /\ info \in Reports /\ dev \in DOMAIN g_mapDevs /\ item.at = "device"
            BY <1>0, <1>5, AtWorkTypes DEF ReplaceDevice, StatusInv
      <2>2. g_mapDevs' = With(g_mapDevs, dev, info) /\ item' = Idle
            BY <1>5 DEF ReplaceDevice
      <2>3. /\ DOMAIN g_mapDevs' = DOMAIN g_mapDevs
            /\ \A x \in DOMAIN g_mapDevs : g_mapDevs'[x] = IF x = dev THEN info ELSE g_mapDevs[x]
            BY <2>1, <2>2 DEF With
      <2>4. CASE NewStatus(info, g_mapDevs[dev])
            <3>1. UpdateStatus(dev, info.strStatus)
                  BY <1>5, <2>4 DEF ReplaceDevice
            <3>2. DOMAIN db' = DOMAIN db /\ \A x \in DOMAIN db :
                     db'[x].strStatus = IF _useScript /\ x = dev THEN info.strStatus ELSE db[x].strStatus
                  BY <1>0, <2>1, <3>1, ReportTypes, UpdateStatusTable
            <3> QED BY <1>0, <2>1, <2>2, <2>3, <3>2 DEF Idle, StatusInv, Agrees
      <2>5. CASE ~NewStatus(info, g_mapDevs[dev])
            <3>1. db' = db
                  BY <1>5, <2>5 DEF ReplaceDevice
            <3>2. info.strStatus \in {"", g_mapDevs[dev].strStatus}
                  BY <2>5 DEF NewStatus, Differs
            <3> QED BY <1>0, <2>1, <2>2, <2>3, <3>1, <3>2 DEF Idle, StatusInv, Agrees
      <2> QED BY <2>4, <2>5
<1>6. CASE OnUpdateStatus
      <2>1. item.dev \in Devices /\ item.info \in Reports /\ item.at = "status"
            BY <1>0, <1>6, AtWorkTypes DEF OnUpdateStatus
      <2>2. db' = db /\ item' \in {Item("position", item.dev, item.info), Idle}
            BY <1>6 DEF OnUpdateStatus
      <2>3. g_mapDevs' = SetStatus(g_mapDevs, item.dev, item.info.strStatus) /\ item.info.strStatus \in STRING
            BY <1>6, <2>1, ReportTypes DEF OnUpdateStatus
      <2>4. DOMAIN g_mapDevs' = DOMAIN g_mapDevs /\ \A x \in DOMAIN g_mapDevs :
               g_mapDevs'[x].strStatus = IF x = item.dev THEN item.info.strStatus ELSE g_mapDevs[x].strStatus
            BY <1>0, <2>3 DEF SetStatus, Table, Info
      <2>5. item'.at \in {"position", "idle"}
            BY <2>2 DEF Item, Idle
      <2> QED BY <1>0, <2>1, <2>2, <2>4, <2>5 DEF StatusInv, Agrees
<1>7. CASE OnUpdatePostion
      <2>1. item.dev \in Devices /\ item.info \in Reports /\ item.at = "position" /\ item' = Idle
            BY <1>0, <1>7, AtWorkTypes DEF OnUpdatePostion
      <2>2. SameTable /\ SameDb
            BY <1>0, <1>7, <2>1, PositionSame DEF OnUpdatePostion
      <2> QED BY <1>0, <2>1, <2>2 DEF SameTable, SameDb, Idle, StatusInv, Agrees
<1>8. CASE Restart
      BY <1>0, <1>8 DEF Restart, Preload, Idle, StatusInv, Agrees
<1>9. CASE UNCHANGED devicesVars
      BY <1>0, <1>9 DEF devicesVars, StatusInv, Agrees
<1> QED BY <1>1, <1>2, <1>3, <1>4, <1>5, <1>6, <1>7, <1>8, <1>9 DEF DevicesNext, SipThread

(* Whatever the platform reports in whatever order, and wherever           *)
(* sip_server is stopped, the database has the status the table shows.     *)
THEOREM StatusSurvives == DevicesSpec => []RestartLosesNoStatus
<1>1. DevicesInit => StatusInv
      BY NowhereTable DEF DevicesInit, StatusInv, Types, Idle
<1>2. StatusInv => RestartLosesNoStatus
      BY DEF StatusInv, Agrees, RestartLosesNoStatus
<1> QED BY <1>1, <1>2, StatusStep, PTL DEF DevicesSpec

-----------------------------------------------------------------------------
PairsInv == Types /\ PositionsAreReports

Paired(f) == \A d \in DOMAIN f : <<f[d].strLatitude, f[d].strLongitude>> \in Pairs

LEMMA PairedKept ==
    ASSUME NEW f, Table(f), Paired(f), NEW d \in Devices, NEW r \in Reports
    PROVE  /\ Paired(With(f, d, r))
           /\ Paired(SetStatus(f, d, r.strStatus))
           /\ Paired(SetPos(f, d, r.strLatitude, r.strLongitude))
<1>1. <<r.strLatitude, r.strLongitude>> \in Pairs
      BY DEF Pairs
<1>2. Paired(With(f, d, r))
      <2>1. /\ DOMAIN With(f, d, r) = DOMAIN f \union {d} /\ With(f, d, r)[d] = r
            /\ \A x \in DOMAIN f \ {d} : With(f, d, r)[x] = f[x]
            BY DEF With
      <2> QED BY <1>1, <2>1 DEF Paired
<1>3. Paired(SetStatus(f, d, r.strStatus))
      <2> DEFINE g == SetStatus(f, d, r.strStatus)
      <2>1. DOMAIN g = DOMAIN f
            BY ReportTypes, SetStatusTable
      <2>2. \A x \in DOMAIN f : g[x].strLatitude = f[x].strLatitude /\ g[x].strLongitude = f[x].strLongitude
            BY ReportTypes DEF SetStatus, Table, Info
      <2> HIDE DEF g
      <2>3. Paired(g)
            BY <2>1, <2>2 DEF Paired
      <2> QED BY <2>3 DEF g
<1>4. Paired(SetPos(f, d, r.strLatitude, r.strLongitude))
      <2> DEFINE g == SetPos(f, d, r.strLatitude, r.strLongitude)
      <2>1. DOMAIN g = DOMAIN f
            BY DEF SetPos
      <2>2. \A x \in DOMAIN f :
               /\ g[x].strLatitude = IF x = d THEN r.strLatitude ELSE f[x].strLatitude
               /\ g[x].strLongitude = IF x = d THEN r.strLongitude ELSE f[x].strLongitude
            BY ReportTypes DEF SetPos, Table, Info
      <2> HIDE DEF g
      <2>3. Paired(g)
            BY <1>1, <2>1, <2>2 DEF Paired
      <2> QED BY <2>3 DEF g
<1> QED BY <1>2, <1>3, <1>4

LEMMA PairsPrimed ==
    ASSUME Types', Paired(g_mapDevs'), Paired(db')
    PROVE  PairsInv'
BY DEF PairsInv, PositionsAreReports, Paired, Pairs

LEMMA DbPaired ==
    ASSUME Table(db), Paired(db), NEW d \in Devices, NEW r \in Reports,
           \/ db' = db \/ InsertDev(d, r) \/ UpdateStatus(d, r.strStatus)
           \/ UpdatePos(d, r.strLatitude, r.strLongitude)
    PROVE  Paired(db')
<1>1. db' \in {db, With(db, d, r), SetStatus(db, d, r.strStatus),
              SetPos(db, d, r.strLatitude, r.strLongitude)}
      BY DEF InsertDev, UpdateStatus, UpdatePos
<1> QED BY <1>1, PairedKept

LEMMA PairsStep == PairsInv /\ [DevicesNext]_devicesVars => PairsInv'
<1> SUFFICES ASSUME PairsInv, [DevicesNext]_devicesVars PROVE PairsInv'
    OBVIOUS
<1>0. Types' /\ Types /\ Table(g_mapDevs) /\ Table(db) /\ Paired(g_mapDevs) /\ Paired(db)
      BY TypesStep DEF Types, PairsInv, PositionsAreReports, Paired
<1> DEFINE Did(d, r) ==
        /\ g_mapDevs' \in {g_mapDevs, With(g_mapDevs, d, r), SetStatus(g_mapDevs, d, r.strStatus),
                           SetPos(g_mapDevs, d, r.strLatitude, r.strLongitude)}
        /\ \/ db' = db \/ InsertDev(d, r) \/ UpdateStatus(d, r.strStatus)
           \/ UpdatePos(d, r.strLatitude, r.strLongitude)
<1>a. ASSUME NEW d \in Devices, NEW r \in Reports, Did(d, r) PROVE PairsInv'
      <2>1. Paired(g_mapDevs')
            BY <1>0, <1>a, PairedKept
      <2>2. Paired(db')
            BY <1>0, <1>a, DbPaired
      <2> QED BY <1>0, <2>1, <2>2, PairsPrimed
<1>1. ASSUME NEW d \in Devices, NEW r \in Reports, OnNewDevice(d, r) PROVE Did(d, r)
      BY <1>1 DEF OnNewDevice
<1>2. ASSUME NEW d \in Devices, NEW r \in Reports, OnKnownDevice(d, r) PROVE Did(d, r)
      BY <1>2 DEF OnKnownDevice
<1>3. ASSUME NEW d \in Devices, NEW r \in Reports, OnNotify(d, r) PROVE Did(d, r)
      BY <1>3 DEF OnNotify
<1>4. ASSUME NEW d \in Devices, NEW r \in Reports, OnMobilePosition(d, r) PROVE Did(d, r)
      BY <1>4 DEF OnMobilePosition, Position
<1>5. ReplaceDevice => Did(item.dev, item.info)
      BY DEF ReplaceDevice
<1>6. OnUpdateStatus => Did(item.dev, item.info)
      BY DEF OnUpdateStatus
<1>7. OnUpdatePostion => Did(item.dev, item.info)
      BY DEF OnUpdatePostion, Position
<1> HIDE DEF Did
<1>b. CASE ReplaceDevice \/ OnUpdateStatus \/ OnUpdatePostion
      <2>1. item.dev \in Devices /\ item.info \in Reports
            BY <1>0, <1>b, AtWorkTypes DEF ReplaceDevice, OnUpdateStatus, OnUpdatePostion
      <2> QED BY <1>5, <1>6, <1>7, <1>a, <1>b, <2>1
<1>8. CASE Restart
      <2>1. Paired(Nowhere)
            BY NowhereTable DEF Paired
      <2> QED BY <1>0, <1>8, <2>1, PairsPrimed DEF Restart, Preload
<1>9. CASE UNCHANGED devicesVars
      BY <1>0, <1>9, PairsPrimed DEF devicesVars
<1> QED BY <1>1, <1>2, <1>3, <1>4, <1>a, <1>b, <1>8, <1>9 DEF DevicesNext, SipThread

(* A latitude and a longitude that stand together came in one report.      *)
THEOREM PositionsStayPaired == DevicesSpec => []PositionsAreReports
<1>1. DevicesInit => PairsInv
      BY NowhereTable DEF DevicesInit, PairsInv, Types, PositionsAreReports
<1>2. PairsInv => PositionsAreReports
      BY DEF PairsInv
<1> QED BY <1>1, <1>2, PairsStep, PTL DEF DevicesSpec
=============================================================================
