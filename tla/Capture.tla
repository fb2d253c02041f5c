-------------------------------- MODULE Capture --------------------------------
(***************************************************************************)
(* The files of capture_server.  Every server process (server.cpp,         *)
(* worker.cpp) answers a request with the paths of the pictures to come,   *)
(* year/month/day/name, then makes the directories and leaves the saving   *)
(* to a worker thread.  A further process, started with "clean", walks the *)
(* tree every five minutes and removes what is older than CleanDays        *)
(* (clean.cpp).  The processes share nothing but the disk and the clock.   *)
(* One tree is modelled; "image" and "video" are alike.  The calendar is a *)
(* constant: MonthsPerYear months of DaysPerMonth days.                    *)
(***************************************************************************)
EXTENDS Integers, Sequences, SequencesExt

CONSTANTS
    Captures,       \* requests, each handled by its own server process
    MonthsPerYear, DaysPerMonth,
    CleanDays,      \* _cleanTime, in days
    LastDay,        \* where the clock stops
    Root            \* the servers run as root, or on Windows

ASSUME CaptureAssumption ==
    /\ MonthsPerYear \in Nat \ {0} /\ DaysPerMonth \in Nat \ {0}
    /\ CleanDays \in Nat \ {0} /\ LastDay \in Nat /\ Root \in BOOLEAN

VARIABLES
    now,   \* the day
    dirs,  \* directories there are: <<y>>, <<y, m>>, <<y, m, d>>
    cap,   \* request -> [at, date, level, asked, exists]
    stack  \* the cleaner's calls: [dir, todo, empty], the innermost last
vars == <<now, dirs, cap, stack>>

DaysPerYear == MonthsPerYear * DaysPerMonth
Date(day) == << day \div DaysPerYear, (day % DaysPerYear) \div DaysPerMonth, day % DaysPerMonth >>

Init ==
    /\ now = 0 /\ dirs = {} /\ stack = << >>
    /\ cap = [c \in Captures |-> [at |-> "none", date |-> << >>, level |-> 1, asked |-> 0, exists |-> FALSE]]

(* No request is at work for more than one turn of the day.                *)
AtWork(c) == cap[c].date # << >> /\ cap[c].at \in {"none", "access", "mkdir", "save"}

Tick ==
    /\ now < LastDay /\ \A c \in Captures : AtWork(c) => cap[c].asked = now
    /\ now' = now + 1
    /\ UNCHANGED <<dirs, cap, stack>>

-----------------------------------------------------------------------------
(* A server, OnRecv: the year, the month and the day are three looks at    *)
(* the clock.                                                              *)
Parts == 3

ReadClock(c) ==
    /\ cap[c].at = "none"
    /\ cap' = [cap EXCEPT ![c].date = Append(@, Date(now)[Len(@) + 1]),
                          ![c].asked = IF Len(cap[c].date) = 0 THEN now ELSE @,
                          ![c].at = IF Len(cap[c].date) + 1 = Parts THEN "access" ELSE "none"]
    /\ UNCHANGED <<now, dirs, stack>>

(* CreatDir, level by level: look, and make the directory if it is not     *)
(* there; it gives up when that fails, and nobody hears of it.             *)
LevelDir(c) == SubSeq(cap[c].date, 1, cap[c].level)

NextLevel(c) == [cap[c] EXCEPT !.level = @ + 1, !.at = IF cap[c].level = 3 THEN "save" ELSE "access"]

AccessDir(c) ==
    /\ cap[c].at = "access"
    /\ cap' = [cap EXCEPT ![c] = IF LevelDir(c) \in dirs THEN NextLevel(c) ELSE [@ EXCEPT !.at = "mkdir"]]
    /\ UNCHANGED <<now, dirs, stack>>

(* The mode is 777 in decimal (server.cpp:47), 01411: the owner may neither *)
(* search nor write what it has made, which stops all but root.            *)
Parent(d) == Front(d)
CanMake(d) == d \notin dirs /\ (Len(d) = 1 \/ (Root /\ Parent(d) \in dirs))

MakeDir(c) ==
    /\ cap[c].at = "mkdir" /\ CanMake(LevelDir(c))
    /\ dirs' = dirs \union {LevelDir(c)}
    /\ cap' = [cap EXCEPT ![c] = NextLevel(c)]
    /\ UNCHANGED <<now, stack>>

MakeDirFails(c) ==
    /\ cap[c].at = "mkdir" /\ ~CanMake(LevelDir(c))
    /\ cap' = [cap EXCEPT ![c].at = "save", ![c].exists = LevelDir(c) \in dirs]
    /\ UNCHANGED <<now, dirs, stack>>

(* The worker thread has a key frame, or the camera fails.                 *)
SavePicture(c) ==
    /\ cap[c].at = "save"
    /\ cap' = [cap EXCEPT ![c].at = IF cap[c].date \in dirs THEN "saved" ELSE "lost"]
    /\ UNCHANGED <<now, dirs, stack>>

CameraFails(c) ==
    /\ cap[c].at = "save"
    /\ cap' = [cap EXCEPT ![c].at = "failed"]
    /\ UNCHANGED <<now, dirs, stack>>

Server(c) == ReadClock(c) \/ AccessDir(c) \/ MakeDir(c) \/ MakeDirFails(c) \/ SavePicture(c) \/ CameraFails(c)

-----------------------------------------------------------------------------
(* The cleaner: scanDir, scanYearDir, scanMonthDir, scanDayDir.            *)
StartOfYear(d) == d[1] * DaysPerYear
Start(d) == d[1] * DaysPerYear + (IF Len(d) > 1 THEN d[2] * DaysPerMonth ELSE 0)
                               + (IF Len(d) > 2 THEN d[3] ELSE 0)
YoungDays(d) == Len(d) = 3 /\ now - Start(d) < CleanDays
Young(d)     == now - Start(d) < CleanDays

FilesIn(d) == { c \in Captures : cap[c].at = "saved" /\ cap[c].date = d }
Entries(d) == { e \in dirs : Len(e) = Len(d) + 1 /\ IsPrefix(d, e) } \union FilesIn(d)
Call(d)    == [dir |-> d, todo |-> Entries(d), empty |-> TRUE]

Top     == stack[Len(stack)]
Below   == Front(stack)
Seen(e) == [Top EXCEPT !.todo = @ \ {e}, !.empty = FALSE]

OnTimer ==
    /\ stack = << >>
    /\ stack' = << Call(<< >>) >>
    /\ UNCHANGED <<now, dirs, cap>>

(* A file's type may be unknown to the file system; such a file stays.     *)
UnknownType == {}
Regular     == Captures

DeleteFile ==
    /\ stack # << >> /\ Len(Top.dir) = 3
    /\ \E c \in Top.todo :
          /\ stack' = Append(Below, Seen(c))
          /\ cap' = [cap EXCEPT ![c].at = IF c \in Regular THEN "deleted" ELSE @]
    /\ UNCHANGED <<now, dirs>>

ScanDir ==
    /\ stack # << >> /\ Len(Top.dir) < 3
    /\ \E d \in Top.todo :
          stack' = Append(Below, Seen(d)) \o (IF Young(d) THEN << >> ELSE << Call(d) >>)
    /\ UNCHANGED <<now, dirs, cap>>

(* The call returns whether it met nothing, and its caller removes the     *)
(* directory then; that fails, unnoticed, if something has come since.     *)
ScanEnds ==
    /\ stack # << >> /\ Top.todo = {}
    /\ stack' = Below
    /\ dirs' = IF Top.dir # << >> /\ Top.empty /\ Entries(Top.dir) = {} THEN dirs \ {Top.dir} ELSE dirs
    /\ UNCHANGED <<now, cap>>

Cleaner == OnTimer \/ DeleteFile \/ ScanDir \/ ScanEnds

-----------------------------------------------------------------------------
Next == Tick \/ (\E c \in Captures : Server(c)) \/ Cleaner
Spec == Init /\ [][Next]_vars
FairSpec == Spec /\ WF_vars(Cleaner)
-----------------------------------------------------------------------------
(* Every variable stays in its type, and what is on the disk is a tree.    *)
TypeOK ==
    /\ now \in 0..LastDay
    /\ \A d \in dirs : Len(d) \in 1..3 /\ (Len(d) = 1 \/ Parent(d) \in dirs)
    /\ \A c \in Captures :
          /\ cap[c].at \in {"none", "access", "mkdir", "save", "saved", "lost", "failed", "deleted"}
          /\ cap[c].level \in 1..4 /\ cap[c].asked \in 0..now /\ cap[c].exists \in BOOLEAN
          /\ cap[c].at # "none" => Len(cap[c].date) = 3
          /\ cap[c].at = "saved" => cap[c].date \in dirs
    /\ Len(stack) <= 4

(* The date in the path was never a date of the clock: it turned between   *)
(* two looks (server.cpp:272-276).                                         *)
Mixed(c) == cap[c].date \notin { Date(day) : day \in cap[c].asked..cap[c].asked + 1 }

(* config.txt:67-68, clean.cpp:26-29: a picture is deleted only when its   *)
(* request is CleanDays old, counted in turns of the day as the day        *)
(* directories are (the first day may be hours long) -- unless its path    *)
(* has a mixed date, which may be a year too old.                          *)
EarlyOnlyIfMixed ==
    [][\A c \in Captures : cap[c].at = "saved" /\ cap'[c].at = "deleted"
          => now - cap[c].asked >= CleanDays \/ Mixed(c)]_vars

(* The directory of the year was CleanDays old, or would be by midnight,   *)
(* when the request came.  With the shipped 365 (config.txt:67) these are  *)
(* the requests of a year's last day and of a leap year's last two.        *)
BornOld(c) == cap[c].asked + 1 - Start(SubSeq(cap[c].date, 1, 1)) >= CleanDays

(* server.cpp:285-371, run as root: a picture whose address has been given *)
(* away is saved unless the camera fails, although address, directories    *)
(* and file come one after the other and the cleaner removes the empty     *)
(* directories it has read -- unless the year was old when the request     *)
(* came, the date is mixed, or another server made the directory between   *)
(* CreatDir's look and its mkdir, upon which CreatDir gives up.            *)
PromisedIsSaved ==
    Root => \A c \in Captures : cap[c].at = "lost" => BornOld(c) \/ Mixed(c) \/ cap[c].exists

(* clean.cpp: when the clock stands still the cleaner comes to an end with *)
(* everything old: every directory left is young or has a young one below. *)
OnlyYoungRemain ==
    <>[](\A d \in dirs : \E e \in dirs : IsPrefix(d, e) /\ Young(e))
=============================================================================
