------------------------------ MODULE Platform ------------------------------
(***************************************************************************)
(* sip_server and the lower platform it is registered with: SeverThread    *)
(* takes its registrations and keep-alives, ExpireThread counts the lease  *)
(* down, and every report starts a detached SubscribeThread that asks for  *)
(* the catalogue and, the first time, subscribes to its changes.  The      *)
(* globals they share are protected by nothing.                            *)
(*                                                                         *)
(* Only what changes a state is an action: a registration answered with    *)
(* 401 or 400 and a message that is no keep-alive leave all of it alone.   *)
(* FORCE_SUBSCRIBE is not defined by any build file.                       *)
(***************************************************************************)
EXTENDS Integers

CONSTANTS
    Threads,    \* bound: SubscribeThreads alive at the same time
    Space,      \* values of the unsigned g_nLowExpire (2^32 in the program)
    Step,       \* what ExpireThread takes off at once (10 s)
    Grants,     \* the Expires headers of the platform's registrations
    KeepAlive,  \* the lease a keep-alive gives (120 s)
    Boot,       \* g_nLowExpire after Init (9999999)
    Timely      \* the platform answers a query within the 60 s of the sleep

ASSUME PlatformAssumption ==
    /\ Space \in Nat /\ Step \in 1..(Space - 1)
    /\ Grants \cup {KeepAlive, Boot} \subseteq 0..(Space - 1)
    /\ Timely \in BOOLEAN

VARIABLES
    g_nLowExpire,  \* lease left
    g_bLowStatus,  \* the platform is taken to be on line
    sip,           \* SeverThread: idle, or between writing the lease and the status
    expirer,       \* ExpireThread: where it is, and the lease it has read
    thread,        \* SubscribeThreads: where each is, its isFirst, its query went out
    _bFirstReg, _bSubscribe,
    stale,         \* difftime(now, _lastQueryTime) > 3600
    catalogue,     \* the answer to the first query: none, asked, complete
    query,         \* history: what became of the query of this hour
    unsent,        \* history: a query could not be built or sent
    subscriptions, \* rounds of SUBSCRIBE sent
    lease          \* history: seconds granted by the last report, rounds since

vars == <<g_nLowExpire, g_bLowStatus, sip, expirer, thread, _bFirstReg, _bSubscribe, stale,
          catalogue, query, unsent, subscriptions, lease>>

statusVars == <<g_nLowExpire, g_bLowStatus, sip, expirer, lease>>
askedVars  == <<catalogue, query, unsent>>
queryVars  == <<thread, _bFirstReg, _bSubscribe, stale, askedVars, subscriptions>>

NoThread == [at |-> "none", isFirst |-> FALSE, sent |-> FALSE]

(* Every variable stays in its type; the lease never leaves the unsigned's *)
(* range, though it may wrap around in it.                                 *)
TypeOK ==
    /\ g_nLowExpire \in 0..(Space - 1)
    /\ g_bLowStatus \in BOOLEAN /\ _bFirstReg \in BOOLEAN /\ _bSubscribe \in BOOLEAN /\ stale \in BOOLEAN
    /\ sip \in {"idle", "registered", "alive"}
    /\ expirer \in [at : {"sleep", "load", "store", "test", "clear"}, read : 0..(Space - 1)]
    /\ thread \in [Threads -> [at : {"none", "start", "first", "check", "query", "stamp", "wait", "subscribe"},
                               isFirst : BOOLEAN, sent : BOOLEAN]]
    /\ query \in {"due", "sent", "failed"} /\ unsent \in BOOLEAN
    /\ catalogue \in {"none", "asked", "complete"}
    /\ subscriptions \in Nat
    /\ lease \in [granted : 0..(Space - 1), ticks : 0..Space]

Init ==
    /\ g_nLowExpire = Boot
    /\ g_bLowStatus = FALSE
    /\ sip = "idle"
    /\ expirer = [at |-> "sleep", read |-> 0]
    /\ thread = [t \in Threads |-> NoThread]
    /\ _bFirstReg = TRUE
    /\ _bSubscribe = FALSE
    /\ stale = TRUE
    /\ catalogue = "none" /\ query = "due" /\ unsent = FALSE
    /\ subscriptions = 0
    /\ lease = [granted |-> 0, ticks |-> 0]

-----------------------------------------------------------------------------
(* SeverThread.  The lease is written first, the status after the answer.  *)
Granted(seconds, next) ==
    /\ sip = "idle"
    /\ g_nLowExpire' = seconds
    /\ lease' = [granted |-> seconds, ticks |-> 0]
    /\ sip' = next
    /\ UNCHANGED <<g_bLowStatus, expirer, queryVars>>

OnRegister(seconds) == Granted(seconds, "registered")
OnKeepalive == Granted(KeepAlive, "alive")

(* A thread is started and detached.                                       *)
AutoQuery(t) ==
    /\ thread[t].at = "none"
    /\ thread' = [thread EXCEPT ![t].at = "start"]

Answers(t) ==
    /\ sip = "registered" \/ (sip = "alive" /\ g_nLowExpire > 0)
    /\ g_bLowStatus' = TRUE
    /\ AutoQuery(t)
    /\ sip' = "idle"
    /\ lease' = [lease EXCEPT !.ticks = 0]
    /\ UNCHANGED <<g_nLowExpire, expirer, _bFirstReg, _bSubscribe, stale, askedVars, subscriptions>>

(* The lease has run out in between: a keep-alive gets no answer.          *)
AnswersNot ==
    /\ sip = "alive" /\ g_nLowExpire = 0
    /\ sip' = "idle"
    /\ lease' = [lease EXCEPT !.ticks = 0]
    /\ UNCHANGED <<g_nLowExpire, g_bLowStatus, expirer, queryVars>>

-----------------------------------------------------------------------------
(* ExpireThread: a round every 10 s, its accesses one by one.              *)
At(from, to) == expirer.at = from /\ expirer' = [expirer EXCEPT !.at = to]

Unsigned(n) == n % Space
Expired(n) == n <= 0

WakesUp ==
    /\ At("sleep", IF g_bLowStatus THEN "load" ELSE "sleep")
    /\ lease' = [lease EXCEPT !.ticks = IF @ < Space THEN @ + 1 ELSE @]
    /\ UNCHANGED <<g_nLowExpire, g_bLowStatus, sip, queryVars>>

LoadsExpire ==
    /\ expirer.at = "load"
    /\ expirer' = [at |-> "store", read |-> g_nLowExpire]
    /\ UNCHANGED <<g_nLowExpire, g_bLowStatus, sip, lease, queryVars>>

StoresExpire ==
    /\ expirer.at = "store"
    /\ expirer' = [at |-> "test", read |-> 0]
    /\ g_nLowExpire' = Unsigned(expirer.read - Step)
    /\ UNCHANGED <<g_bLowStatus, sip, lease, queryVars>>

TestsExpire ==
    /\ At("test", IF Expired(g_nLowExpire) THEN "clear" ELSE "sleep")
    /\ UNCHANGED <<g_nLowExpire, g_bLowStatus, sip, lease, queryVars>>

ClearsStatus ==
    /\ At("clear", "sleep")
    /\ g_bLowStatus' = FALSE
    /\ UNCHANGED <<g_nLowExpire, sip, lease, queryVars>>

ExpireThread == WakesUp \/ LoadsExpire \/ StoresExpire \/ TestsExpire \/ ClearsStatus

-----------------------------------------------------------------------------
(* SubscribeThread.                                                        *)
Moves(t, from, to) == thread[t].at = from /\ thread' = [thread EXCEPT ![t].at = to]

(* isFirst = _bFirstReg, then _bFirstReg = false: not one step.            *)
ReadsFirst(t) ==
    /\ thread[t].at = "start"
    /\ thread' = [thread EXCEPT ![t] = [at |-> "first", isFirst |-> _bFirstReg, sent |-> FALSE]]
    /\ UNCHANGED <<statusVars, _bFirstReg, _bSubscribe, stale, askedVars, subscriptions>>

ClearsFirst(t) ==
    /\ Moves(t, "first", "check")
    /\ _bFirstReg' = FALSE
    /\ UNCHANGED <<statusVars, _bSubscribe, stale, askedVars, subscriptions>>

FirstQuery(t) == thread[t].isFirst
HourlyQuery(t) == stale
MustQuery(t) == thread[t].isFirst \/ stale

ChecksHour(t) ==
    /\ Moves(t, "check", IF MustQuery(t) THEN "query" ELSE "subscribe")
    /\ UNCHANGED <<statusVars, _bFirstReg, _bSubscribe, stale, askedVars, subscriptions>>

(* The request is built and sent, or it is not: two early returns that the *)
(* caller does not hear of.                                                *)
QueryDirtionary(t, built) ==
    /\ thread[t].at = "query"
    /\ thread' = [thread EXCEPT ![t].at = "stamp", ![t].sent = built]
    /\ catalogue' = IF built /\ catalogue = "none" THEN "asked" ELSE catalogue
    /\ query' = IF built THEN "sent" ELSE IF query = "due" THEN "failed" ELSE query
    /\ unsent' = (unsent \/ ~built)
    /\ UNCHANGED <<statusVars, _bFirstReg, _bSubscribe, stale, subscriptions>>

(* _lastQueryTime = time(NULL), whatever became of the query.              *)
StampsQuery(t) ==
    /\ Moves(t, "stamp", "wait")
    /\ stale' = FALSE
    /\ UNCHANGED <<statusVars, _bFirstReg, _bSubscribe, askedVars, subscriptions>>

(* Sleep(60000): long enough for a timely platform to answer, if it was    *)
(* asked.                                                                  *)
Answered == catalogue = "complete"

WaitsNot(t) ==
    /\ Moves(t, "wait", "subscribe")
    /\ _bSubscribe' = TRUE
    /\ UNCHANGED <<statusVars, _bFirstReg, stale, askedVars, subscriptions>>

Waited(t) ==
    /\ Timely /\ thread[t].sent => Answered
    /\ Moves(t, "wait", "subscribe")
    /\ _bSubscribe' = TRUE
    /\ UNCHANGED <<statusVars, _bFirstReg, stale, askedVars, subscriptions>>

MaySubscribe(t) == _bSubscribe /\ thread[t].isFirst

Subscribes(t) ==
    /\ thread[t].at = "subscribe"
    /\ thread' = [thread EXCEPT ![t] = NoThread]
    /\ subscriptions' = IF MaySubscribe(t) THEN subscriptions + 1 ELSE subscriptions
    /\ UNCHANGED <<statusVars, _bFirstReg, _bSubscribe, stale, askedVars>>

SubscribeThread(t) ==
    \/ ReadsFirst(t) \/ ClearsFirst(t) \/ ChecksHour(t)
    \/ (\E built \in BOOLEAN : QueryDirtionary(t, built)) \/ StampsQuery(t) \/ Waited(t) \/ Subscribes(t)

-----------------------------------------------------------------------------
(* The platform has sent its whole catalogue; an hour goes by.             *)
PlatformAnswers ==
    /\ catalogue = "asked" /\ catalogue' = "complete"
    /\ UNCHANGED <<statusVars, thread, _bFirstReg, _bSubscribe, stale, query, unsent, subscriptions>>

(* Not between a query and the statement after it.                         *)
HourPasses ==
    /\ ~stale /\ stale' = TRUE
    /\ \A t \in Threads : thread[t].at # "stamp"
    /\ query' = "due"
    /\ UNCHANGED <<statusVars, thread, _bFirstReg, _bSubscribe, catalogue, unsent, subscriptions>>

Next ==
    \/ (\E s \in Grants : OnRegister(s)) \/ OnKeepalive
    \/ (\E t \in Threads : Answers(t)) \/ AnswersNot
    \/ ExpireThread
    \/ \E t \in Threads : SubscribeThread(t)
    \/ PlatformAnswers \/ HourPasses

Spec == Init /\ [][Next]_vars

(* The threads run; the platform answers a query.  Nothing obliges it to   *)
(* report.                                                                 *)
FairSpec ==
    /\ Spec
    /\ WF_vars(ExpireThread) /\ WF_vars(AnswersNot)
    /\ \A t \in Threads : WF_vars(SubscribeThread(t)) /\ WF_vars(Answers(t))
    /\ WF_vars(PlatformAnswers)

-----------------------------------------------------------------------------
(* SipServer.cpp:221, subscriptions to a timely platform start when it has *)
(* answered the first query, whatever other SubscribeThreads do meanwhile, *)
(* unless a query never went out: then the sleep waits for nothing.        *)
SubscribesAfterFirstCatalogue == subscriptions > 0 => catalogue = "complete" \/ unsent

(* SubscribeThread: the first report leads to a subscription, however the  *)
(* threads of the reports that follow it interleave with its own.          *)
FirstReportSubscribes ==
    (\E t \in Threads : thread[t].at = "start") ~> subscriptions > 0

(* SipServer.cpp:205: when an hour has passed since the last query, the    *)
(* next report makes a new one go out, however many threads test the hour  *)
(* and stamp it at once: only a query that was tried and failed (which is  *)
(* stamped all the same) leaves the platform unasked for this hour.        *)
CatalogueRenewed ==
    (stale /\ \E t \in Threads : thread[t].at = "start") ~> query \in {"sent", "failed"}

(* SipServer.cpp:247, the lower platform's time-out is detected: a platform*)
(* that has been silent for longer than it was granted, a round of         *)
(* ExpireThread more or less, is off line.                                 *)
SilentIsOffline ==
    sip = "idle" /\ expirer.at = "sleep" /\ Step * lease.ticks > lease.granted + 2 * Step => ~g_bLowStatus

=============================================================================
