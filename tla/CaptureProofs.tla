----------------------------- MODULE CaptureProofs -----------------------------
(***************************************************************************)
(* Theorems about Capture for every set of requests, every calendar and    *)
(* every number of days that pictures are kept.                            *)
(***************************************************************************)
EXTENDS Capture, SequenceTheorems, TLAPS

-----------------------------------------------------------------------------
(* The inductive invariant.                                                *)
CapTypes ==
    [at : {"none", "access", "mkdir", "save", "saved", "lost", "failed", "deleted"},
     date : Seq(Nat), level : 1..4, asked : Nat, exists : BOOLEAN]

CallTypes == [dir : Seq(Nat), todo : SUBSET (Seq(Nat) \union Captures), empty : BOOLEAN]

Types ==
    /\ now \in Nat /\ dirs \subseteq Seq(Nat)
    /\ cap \in [Captures -> CapTypes]
    /\ stack \in Seq(CallTypes)

(* Where a request is, and what its fields are then.                       *)
Stage(c) ==
    /\ cap[c].asked <= now
    /\ cap[c].at = "none" => cap[c].level = 1 /\ Len(cap[c].date) < 3
    /\ cap[c].at # "none" => Len(cap[c].date) = 3
    /\ cap[c].at \in {"access", "mkdir"} => cap[c].level <= 3
    /\ AtWork(c) => now <= cap[c].asked + 1
    /\ cap[c].at \in {"none", "access", "mkdir"} => ~cap[c].exists
    /\ cap[c].at = "saved" => cap[c].date \in dirs

(* What is on the disk is a tree of three levels.                          *)
Tree == \A d \in dirs : Len(d) \in 1..3 /\ (Len(d) = 1 \/ Parent(d) \in dirs)

(* The cleaner's calls go down the tree level by level, into old           *)
(* directories only; the innermost list holds what was saved there.        *)
CallIsOld(i) ==
    /\ Len(stack[i].dir) = i - 1 /\ i <= 4
    /\ i > 1 => ~Young(stack[i].dir)
    /\ i < 4 => \A e \in stack[i].todo : e \in Seq(Nat) /\ Len(e) = i
    /\ i = 4 => \A c \in stack[i].todo :
          c \in Captures /\ cap[c].date = stack[i].dir /\ cap[c].at \in {"saved", "deleted"}

(* A request whose path will hold: its date was a date of the clock, it    *)
(* has not met another server's mkdir, and its year was young when it      *)
(* came.  The directories it has passed are there.                         *)
Promised(c) == Root /\ ~BornOld(c) /\ ~Mixed(c) /\ ~cap[c].exists

PathStands(c) ==
    Promised(c) =>
        /\ cap[c].at \in {"access", "mkdir", "save"} =>
              \A k \in 1..3 : k < cap[c].level => SubSeq(cap[c].date, 1, k) \in dirs
        /\ cap[c].at = "save" => cap[c].level = 4
        /\ cap[c].at # "lost"

IInv ==
    /\ Types /\ now <= LastDay
    /\ \A c \in Captures : Stage(c)
    /\ Tree
    /\ \A i \in DOMAIN stack : CallIsOld(i)
    /\ \A c \in Captures : PathStands(c)

-----------------------------------------------------------------------------
(* The calendar.                                                           *)

(* What quotient and remainder are, and that they are the only ones.       *)
LEMMA DivMod ==
    ASSUME NEW a \in Nat, NEW k \in Nat, k > 0
    PROVE  a \div k \in Nat /\ a % k \in 0..k - 1 /\ a = k * (a \div k) + (a % k)
  <1>1. a \div k \in Nat
    OBVIOUS
  <1>2. a % k \in 0..k - 1
    OBVIOUS
  <1>3. a = k * (a \div k) + (a % k)
    OBVIOUS
  <1>4. QED
    BY <1>1, <1>2, <1>3

LEMMA ModUnique ==
    ASSUME NEW a \in Int, NEW k \in Int, k > 0, NEW q \in Int, NEW r \in 0..k - 1, a = k * q + r
    PROVE  r = a % k
  OBVIOUS

LEMMA ProductCommutes == \A a, b \in Nat : a * b = b * a
  OBVIOUS

LEMMA ProductInNat == \A a, b \in Nat : a * b \in Nat
  OBVIOUS

LEMMA ProductAssociates == \A a, b, c \in Nat : (a * b) * c = a * (b * c)
  OBVIOUS

LEMMA SumTimes == \A a, b, c \in Nat : (a + b) * c = a * c + b * c
  OBVIOUS

LEMMA CalendarFacts ==
    DaysPerYear \in Nat /\ DaysPerYear > 0 /\ DaysPerMonth \in Nat /\ DaysPerMonth > 0
      /\ MonthsPerYear \in Nat /\ CleanDays \in Nat /\ CleanDays > 0 /\ LastDay \in Nat
  BY CaptureAssumption DEF DaysPerYear

(* A date leads back to its day.                                           *)
LEMMA DateFacts ==
    ASSUME NEW day \in Nat
    PROVE  /\ Date(day) \in Seq(Nat) /\ Len(Date(day)) = 3
           /\ day = Date(day)[1] * DaysPerYear + Date(day)[2] * DaysPerMonth + Date(day)[3]
  <1> DEFINE y == day \div DaysPerYear
             r == day % DaysPerYear
             m == r \div DaysPerMonth
             d == day % DaysPerMonth
             s == r % DaysPerMonth
  <1> DEFINE Y == y * DaysPerYear
             M == m * DaysPerMonth
             q == y * MonthsPerYear + m
  <1>1. y \in Nat /\ r \in 0..DaysPerYear - 1 /\ day = DaysPerYear * y + r
    BY CalendarFacts, DivMod
  <1>2. m \in Nat /\ s \in 0..DaysPerMonth - 1 /\ r = DaysPerMonth * m + s
    BY <1>1, CalendarFacts, DivMod
  <1>3. d \in Nat
    BY CalendarFacts, DivMod
  <1>4. Date(day) = <<y, m, d>>
    BY DEF Date
  <1> HIDE DEF y, m, s, r
  <1>5. Y \in Nat /\ Y = DaysPerYear * y /\ M \in Nat /\ M = DaysPerMonth * m
    BY <1>1, <1>2, CalendarFacts, ProductInNat, ProductCommutes
  <1>6. y * MonthsPerYear \in Nat /\ q \in Nat
    BY <1>1, <1>2, CalendarFacts, ProductInNat
  <1>7. Y = (y * MonthsPerYear) * DaysPerMonth
    BY <1>1, CalendarFacts, ProductAssociates DEF DaysPerYear
  <1>8. q * DaysPerMonth = Y + M
    BY <1>2, <1>6, <1>7, CalendarFacts, SumTimes
  <1>9. q * DaysPerMonth = DaysPerMonth * q
    BY <1>6, CalendarFacts, ProductCommutes
  <1>10. day - Y = r /\ r = M + s
    <2> HIDE DEF Y, M
    <2>1. QED
      BY <1>1, <1>2, <1>5
  <1> HIDE DEF q, Y, M
  <1>11. day = DaysPerMonth * q + s
    BY <1>2, <1>5, <1>8, <1>9, <1>10
  <1>12. s = day % DaysPerMonth
    BY <1>2, <1>6, <1>11, CalendarFacts, ModUnique
  <1>13. d = s
    BY <1>12
  <1> HIDE DEF d
  <1>14. Date(day)[1] * DaysPerYear = Y /\ Date(day)[2] * DaysPerMonth = M /\ Date(day)[3] = d
    BY <1>4 DEF Y, M
  <1>15. Date(day) \in Seq(Nat) /\ Len(Date(day)) = 3
    <2>1. <<y, m, d>> \in Seq(Nat) /\ Len(<<y, m, d>>) = 3
      BY <1>1, <1>2, <1>3
    <2>2. QED
      BY <1>4, <2>1
  <1>16. day = Y + M + d
    BY <1>1, <1>2, <1>3, <1>5, <1>10, <1>13, CalendarFacts
  <1>17. QED
    BY <1>14, <1>15, <1>16, Zenon

(* What a directory's name says of its first day.                          *)
LEMMA StartFacts ==
    ASSUME NEW d \in Seq(Nat), Len(d) \in 1..3
    PROVE  /\ Start(d) \in Nat /\ d[1] * DaysPerYear \in Nat
           /\ Start(d) >= d[1] * DaysPerYear
           /\ Len(d) = 3 => Start(d) = d[1] * DaysPerYear + d[2] * DaysPerMonth + d[3]
  <1>1. d[1] * DaysPerYear \in Nat
    BY CalendarFacts, ProductInNat, ElementOfSeq
  <1>2. Len(d) > 1 => d[2] * DaysPerMonth \in Nat
    BY CalendarFacts, ProductInNat, ElementOfSeq
  <1>3. Len(d) > 2 => d[3] \in Nat
    BY ElementOfSeq
  <1>4. QED
    BY <1>1, <1>2, <1>3 DEF Start

(* The first levels of a path.                                             *)
LEMMA PathFacts ==
    ASSUME NEW d \in Seq(Nat), Len(d) = 3, NEW k \in 1..3
    PROVE  /\ SubSeq(d, 1, k) \in Seq(Nat) /\ Len(SubSeq(d, 1, k)) = k
           /\ SubSeq(d, 1, k)[1] = d[1]
           /\ k = 3 => SubSeq(d, 1, k) = d
           /\ k > 1 => Parent(SubSeq(d, 1, k)) = SubSeq(d, 1, k - 1)
  <1>1. \A i \in 1..k : d[i] \in Nat
    <2>1. TAKE i \in 1..k
    <2>2. i \in 1..Len(d)
      OBVIOUS
    <2>3. QED
      BY <2>2, ElementOfSeq
  <1>2. /\ SubSeq(d, 1, k) \in Seq(Nat) /\ Len(SubSeq(d, 1, k)) = k
        /\ SubSeq(d, 1, k)[1] = d[1]
    BY <1>1, SubSeqProperties
  <1>3. k = 3 => SubSeq(d, 1, k) = d
    BY SubSeqFull
  <1>4. ASSUME k > 1
        PROVE  Parent(SubSeq(d, 1, k)) = SubSeq(d, 1, k - 1)
    <2>1. SubSeq(SubSeq(d, 1, k), 1, k - 1) = SubSeq(d, 1, k - 1)
      BY <1>4, SubSeqOfSubSeq
    <2>2. QED
      BY <2>1, <1>2 DEF Parent, Front
  <1>5. QED
    BY <1>2, <1>3, <1>4

(* No directory of a promised path is old while its request is at work.    *)
LEMMA PromisedIsYoung ==
    ASSUME IInv, NEW c \in Captures, Promised(c), now <= cap[c].asked + 1,
           Len(cap[c].date) = 3, NEW k \in 1..3
    PROVE  Young(SubSeq(cap[c].date, 1, k))
  <1>1. cap[c].asked \in Nat /\ now \in Nat /\ cap[c].date \in Seq(Nat)
    BY DEF IInv, Types, CapTypes
  <1> DEFINE d == SubSeq(cap[c].date, 1, k)
             y == SubSeq(cap[c].date, 1, 1)
  <1>2. d \in Seq(Nat) /\ Len(d) \in 1..3 /\ d[1] = cap[c].date[1]
    BY <1>1, PathFacts
  <1>3. y \in Seq(Nat) /\ Len(y) = 1 /\ y[1] = cap[c].date[1]
    BY <1>1, PathFacts
  <1>4. cap[c].asked + 1 - Start(y) < CleanDays
    <2>1. Start(y) \in Nat
      <3>1. Len(y) \in 1..3
        BY <1>3
      <3>2. QED
        BY <1>3, <3>1, StartFacts
    <2>2. QED
      BY <1>1, <2>1, CalendarFacts DEF Promised, BornOld
  <1> HIDE DEF d, y
  <1>5. Start(d) \in Nat /\ d[1] * DaysPerYear \in Nat /\ Start(d) >= d[1] * DaysPerYear
    BY <1>2, StartFacts
  <1>6. Start(y) = d[1] * DaysPerYear
    BY <1>2, <1>3, <1>5 DEF Start
  <1>7. now - Start(d) < CleanDays
    BY <1>1, <1>4, <1>5, <1>6, CalendarFacts
  <1>8. QED
    BY <1>7 DEF Young, d

-----------------------------------------------------------------------------
(* The steps of the servers.                                               *)

(* A server changes its request, which is not saved yet, and may make a    *)
(* directory: what the others rely on stays.                               *)
LEMMA ServerStep ==
    ASSUME IInv, NEW c \in Captures, NEW r \in CapTypes,
           cap' = [cap EXCEPT ![c] = r], now' = now, stack' = stack,
           dirs \subseteq dirs', dirs' \subseteq Seq(Nat), Tree',
           cap[c].at \notin {"saved", "deleted"}, Stage(c)', PathStands(c)'
    PROVE  IInv'
  <1>1. cap \in [Captures -> CapTypes] /\ now \in Nat /\ stack \in Seq(CallTypes) /\ now <= LastDay
    BY DEF IInv, Types
  <1>2. Types' /\ now' <= LastDay
    BY <1>1 DEF Types
  <1>3. \A x \in Captures : x # c => cap'[x] = cap[x]
    BY <1>1
  <1>4. ASSUME NEW x \in Captures
        PROVE  Stage(x)' /\ PathStands(x)'
    <2>1. CASE x = c
      BY <2>1
    <2>2. CASE x # c
      <3>1. cap'[x] = cap[x]
        BY <1>3, <2>2
      <3>2. Stage(x) /\ PathStands(x)
        BY DEF IInv
      <3>3. Stage(x)'
        BY <3>1, <3>2 DEF Stage, AtWork
      <3>4. PathStands(x)'
        BY <3>1, <3>2 DEF PathStands, Promised, BornOld, Mixed
      <3>5. QED
        BY <3>3, <3>4
    <2>3. QED
      BY <2>1, <2>2
  <1>5. ASSUME NEW i \in DOMAIN stack
        PROVE  CallIsOld(i)'
    <2>1. CallIsOld(i)
      BY DEF IInv
    <2>2. Young(stack[i].dir)' = Young(stack[i].dir)
      BY DEF Young
    <2>3. i = 4 => c \notin stack[i].todo
      BY <2>1 DEF CallIsOld
    <2>4. i = 4 => \A x \in stack[i].todo :
             x \in Captures /\ cap'[x].date = stack[i].dir /\ cap'[x].at \in {"saved", "deleted"}
      BY <1>3, <2>1, <2>3 DEF CallIsOld
    <2>5. QED
      BY <2>1, <2>2, <2>4 DEF CallIsOld
  <1>6. QED
    BY <1>2, <1>4, <1>5 DEF IInv

(* A request that has read the clock was asked for today or yesterday.     *)
LEMMA AtWorkFacts ==
    ASSUME IInv, NEW c \in Captures, cap[c].at \in {"access", "mkdir", "save"}
    PROVE  /\ Len(cap[c].date) = 3 /\ cap[c].date # << >>
           /\ cap[c].asked <= now /\ now <= cap[c].asked + 1
  <1>1. Stage(c)
    BY DEF IInv
  <1>2. Len(cap[c].date) = 3
    BY <1>1 DEF Stage
  <1>3. cap[c].date # << >>
    <2>1. Len(<< >>) = 0
      OBVIOUS
    <2>2. QED
      BY <1>2, <2>1
  <1>4. AtWork(c)
    BY <1>3 DEF AtWork
  <1>5. QED
    BY <1>1, <1>2, <1>3, <1>4 DEF Stage

LEMMA ServerInvariant ==
    ASSUME IInv, NEW c \in Captures, Server(c)
    PROVE  IInv'
  <1>1. /\ cap \in [Captures -> CapTypes] /\ dirs \subseteq Seq(Nat) /\ now \in Nat
        /\ Tree /\ Stage(c) /\ PathStands(c)
    BY DEF IInv, Types
  <1>2. /\ cap[c] \in CapTypes /\ cap[c].date \in Seq(Nat) /\ cap[c].level \in 1..4
        /\ cap[c].asked \in Nat /\ cap[c].exists \in BOOLEAN
    BY <1>1 DEF CapTypes
  <1>3. CASE ReadClock(c)
    <2> DEFINE n == Len(cap[c].date) + 1
               date == Append(cap[c].date, Date(now)[n])
               r == [cap[c] EXCEPT !.date = date,
                                   !.asked = IF Len(cap[c].date) = 0 THEN now ELSE cap[c].asked,
                                   !.at = IF n = Parts THEN "access" ELSE "none"]
    <2>1. cap[c].at = "none" /\ cap[c].level = 1 /\ Len(cap[c].date) < 3
      BY <1>1, <1>3 DEF ReadClock, Stage
    <2>2. n \in 1..3
      BY <1>2, <2>1, LenProperties
    <2>3. Date(now)[n] \in Nat
      BY <1>1, <2>2, DateFacts, ElementOfSeq
    <2>4. date \in Seq(Nat) /\ Len(date) = n
      BY <1>2, <2>3, AppendProperties
    <2>5. cap' = [cap EXCEPT ![c] = r] /\ now' = now /\ stack' = stack /\ dirs' = dirs
      BY <1>1, <1>2, <1>3 DEF ReadClock, CapTypes
    <2>6. r \in CapTypes
      BY <1>1, <1>2, <2>4 DEF CapTypes
    <2>7. cap'[c] = r
      BY <1>1, <2>5
    <2>8. n = 1 \/ cap[c].date # << >>
      BY <1>2, <2>2, EmptySeq
    <2>9. n > 1 => now <= cap[c].asked + 1 /\ cap[c].asked <= now
      BY <1>1, <2>1, <2>8 DEF Stage, AtWork
    <2> HIDE DEF date
    <2>10. Stage(c)'
      <3>1. /\ cap'[c].date = date /\ cap'[c].level = 1
            /\ cap'[c].at = (IF n = 3 THEN "access" ELSE "none")
            /\ cap'[c].asked = (IF n = 1 THEN now ELSE cap[c].asked)
            /\ cap'[c].exists = cap[c].exists
        BY <1>2, <2>1, <2>2, <2>7 DEF CapTypes, Parts
      <3> HIDE DEF n, r
      <3>2. cap'[c].asked \in Nat /\ cap'[c].asked <= now /\ now <= cap'[c].asked + 1
        BY <1>1, <1>2, <2>2, <2>9, <3>1
      <3>3. cap'[c].at \in {"none", "access"} /\ (cap'[c].at = "none" => n < 3) /\ (cap'[c].at # "none" => n = 3)
        BY <2>2, <3>1
      <3>4. Len(cap'[c].date) = n
        BY <2>4, <3>1
      <3>5. ~cap'[c].exists
        BY <1>1, <2>1, <3>1 DEF Stage
      <3>6. cap'[c].asked <= now' /\ now' <= cap'[c].asked + 1 /\ cap'[c].level <= 3
        BY <2>5, <3>1, <3>2
      <3>7. (cap'[c].at = "none" => Len(cap'[c].date) < 3) /\ (cap'[c].at # "none" => Len(cap'[c].date) = 3)
        BY <3>3, <3>4
      <3>8. cap'[c].at # "saved"
        BY <3>3
      <3>9. QED
        BY <3>1, <3>5, <3>6, <3>7, <3>8, Zenon DEF Stage
    <2>11. PathStands(c)'
      <3>1. r.level = 1 /\ r.at \in {"none", "access"}
        BY <1>2, <2>1 DEF CapTypes
      <3>2. QED
        BY <2>7, <3>1 DEF PathStands
    <2> HIDE DEF r
    <2>12. Tree'
      BY <1>1, <2>5 DEF Tree
    <2>13. QED
      BY <1>1, <2>1, <2>5, <2>6, <2>10, <2>11, <2>12, ServerStep
  <1>4. ASSUME cap[c].at \in {"access", "mkdir"}, cap' = [cap EXCEPT ![c] = NextLevel(c)],
               now' = now, stack' = stack, dirs' = dirs \union {LevelDir(c)},
               LevelDir(c) \in dirs \/ CanMake(LevelDir(c))
        PROVE  IInv'
    <2> DEFINE r == NextLevel(c)
               k == cap[c].level
    <2>1. k \in 1..3 /\ Len(cap[c].date) = 3 /\ now <= cap[c].asked + 1 /\ cap[c].asked <= now
      BY <1>1, <1>2, <1>4, AtWorkFacts DEF Stage
    <2>2. /\ r \in CapTypes /\ r.date = cap[c].date /\ r.level = k + 1 /\ r.asked = cap[c].asked
          /\ r.exists = cap[c].exists /\ r.at = (IF k = 3 THEN "save" ELSE "access")
      <3>1. r = [cap[c] EXCEPT !.level = k + 1, !.at = IF k = 3 THEN "save" ELSE "access"]
        BY <1>2 DEF NextLevel, CapTypes
      <3>2. k + 1 \in 1..4
        BY <2>1
      <3> HIDE DEF r, k
      <3>3. QED
        BY <1>2, <3>1, <3>2 DEF CapTypes
    <2>3. /\ LevelDir(c) \in Seq(Nat) /\ Len(LevelDir(c)) = k
          /\ k > 1 => Parent(LevelDir(c)) = SubSeq(cap[c].date, 1, k - 1)
      BY <1>2, <2>1, PathFacts DEF LevelDir
    <2>4. dirs' = dirs \union {LevelDir(c)} /\ now' = now /\ stack' = stack
      BY <1>4
    <2>5. LevelDir(c) \in dirs \/ CanMake(LevelDir(c))
      BY <1>4
    <2>6. Tree'
      BY <1>1, <2>1, <2>3, <2>4, <2>5 DEF Tree, CanMake
    <2>7. cap'[c] = r
      BY <1>1, <1>4
    <2> HIDE DEF r, k
    <2>8. Stage(c)'
      <3>1. cap'[c].asked <= now' /\ now' <= cap'[c].asked + 1 /\ Len(cap'[c].date) = 3
        BY <2>1, <2>2, <2>4, <2>7
      <3>2. cap'[c].at \in {"access", "mkdir"} => cap'[c].level <= 3
        BY <2>1, <2>2, <2>7
      <3>3. cap'[c].at # "saved" /\ cap'[c].at # "none"
        BY <2>2, <2>7
      <3>4. ~cap[c].exists
        BY <1>1, <1>4 DEF Stage
      <3>5. ~cap'[c].exists
        BY <2>2, <2>7, <3>4
      <3>6. QED
        BY <3>1, <3>2, <3>3, <3>5, Zenon DEF Stage
    <2>9. PathStands(c)'
      <3>1. SUFFICES ASSUME Promised(c)'
                     PROVE  /\ \A j \in 1..3 : j < k + 1 => SubSeq(cap[c].date, 1, j) \in dirs'
                            /\ r.at = "save" => k = 3
        BY <2>1, <2>2, <2>7 DEF PathStands
      <3>2. Promised(c)
        BY <2>2, <2>7, <3>1 DEF Promised, BornOld, Mixed
      <3>3. \A j \in 1..3 : j < k => SubSeq(cap[c].date, 1, j) \in dirs
        BY <1>1, <1>4, <3>2 DEF PathStands, k
      <3>4. LevelDir(c) = SubSeq(cap[c].date, 1, k)
        BY DEF LevelDir, k
      <3>5. QED
        BY <2>1, <2>2, <2>4, <3>3, <3>4
    <2>10. cap' = [cap EXCEPT ![c] = r] /\ dirs \subseteq dirs' /\ dirs' \subseteq Seq(Nat)
      BY <1>1, <1>4, <2>3, <2>4 DEF r
    <2>11. QED
      BY <1>4, <2>2, <2>4, <2>6, <2>8, <2>9, <2>10, ServerStep
  <1>5. ASSUME NEW at \in {"mkdir", "save", "saved", "lost", "failed"}, NEW e \in BOOLEAN,
               cap' = [cap EXCEPT ![c] = [cap[c] EXCEPT !.at = at, !.exists = e]],
               UNCHANGED <<now, dirs, stack>>,
               cap[c].at \in {"access", "mkdir", "save"},
               at = "mkdir" => cap[c].at = "access" /\ e = cap[c].exists,
               at = "save" => cap[c].at = "mkdir" /\ (e \/ ~Promised(c)),
               at = "saved" => cap[c].date \in dirs,
               at = "lost" => e = cap[c].exists /\ ~Promised(c)
        PROVE  IInv'
    <2> DEFINE r == [cap[c] EXCEPT !.at = at, !.exists = e]
    <2>1. r \in CapTypes /\ r.at = at /\ r.exists = e /\ r.date = cap[c].date
            /\ r.level = cap[c].level /\ r.asked = cap[c].asked
      BY <1>2, <1>5 DEF CapTypes
    <2>2. cap'[c] = r
      BY <1>1, <1>5
    <2>3. Len(cap[c].date) = 3 /\ now <= cap[c].asked + 1
      BY <1>5, AtWorkFacts
    <2> HIDE DEF r
    <2>4. Stage(c)'
      BY <1>1, <1>2, <1>5, <2>1, <2>2, <2>3 DEF Stage, AtWork
    <2>5. PathStands(c)'
      <3>1. SUFFICES ASSUME Promised(c)'
                     PROVE  /\ at \in {"mkdir", "save"} =>
                                  \A k \in 1..3 : k < cap[c].level => SubSeq(cap[c].date, 1, k) \in dirs
                            /\ at = "save" => cap[c].level = 4
                            /\ at # "lost"
        BY <1>5, <2>1, <2>2 DEF PathStands
      <3>2. ~e /\ Root /\ ~BornOld(c) /\ ~Mixed(c)
        BY <2>1, <2>2, <3>1 DEF Promised, BornOld, Mixed
      <3>3. (at = "mkdir" \/ at = "lost") => Promised(c)
        BY <1>5, <3>2 DEF Promised
      <3>4. at # "save" /\ at # "lost"
        <4>1. at = "save" => ~Promised(c) /\ cap[c].at = "mkdir"
          BY <1>5, <3>2
        <4>2. at = "save" => ~cap[c].exists
          BY <1>1, <4>1 DEF Stage
        <4>3. QED
          BY <1>5, <3>2, <3>3, <4>1, <4>2 DEF Promised
      <3>5. at = "mkdir" => \A k \in 1..3 : k < cap[c].level => SubSeq(cap[c].date, 1, k) \in dirs
        BY <1>1, <1>5, <3>3 DEF PathStands
      <3>6. QED
        BY <3>4, <3>5
    <2>6. Tree'
      BY <1>1, <1>5 DEF Tree
    <2>7. cap' = [cap EXCEPT ![c] = r]
      BY <1>5 DEF r
    <2>8. QED
      BY <1>1, <1>5, <2>1, <2>4, <2>5, <2>6, <2>7, ServerStep
  <1>6. CASE AccessDir(c) /\ LevelDir(c) \notin dirs
    <2>1. cap[c].at = "access" /\ UNCHANGED <<now, dirs, stack>>
          /\ cap' = [cap EXCEPT ![c] = [cap[c] EXCEPT !.at = "mkdir", !.exists = cap[c].exists]]
      BY <1>1, <1>2, <1>6 DEF AccessDir, CapTypes
    <2>2. QED
      BY <1>2, <1>5, <2>1
  <1>7. CASE MakeDirFails(c)
    <2> DEFINE e == LevelDir(c) \in dirs
    <2>1. cap[c].at = "mkdir" /\ UNCHANGED <<now, dirs, stack>> /\ ~CanMake(LevelDir(c))
          /\ cap' = [cap EXCEPT ![c] = [cap[c] EXCEPT !.at = "save", !.exists = e]]
      BY <1>1, <1>2, <1>7 DEF MakeDirFails, CapTypes
    <2>2. cap[c].level \in 1..3 /\ Len(cap[c].date) = 3
      BY <1>1, <1>2, <2>1 DEF Stage
    <2>3. e \/ ~Promised(c)
      <3>1. SUFFICES ASSUME ~e, Promised(c)
                     PROVE  FALSE
        OBVIOUS
      <3>2. Len(LevelDir(c)) = cap[c].level
            /\ (cap[c].level > 1 => Parent(LevelDir(c)) = SubSeq(cap[c].date, 1, cap[c].level - 1))
        BY <1>2, <2>2, PathFacts DEF LevelDir
      <3>3. cap[c].level > 1 /\ Parent(LevelDir(c)) \notin dirs
        BY <2>1, <2>2, <3>1, <3>2 DEF CanMake, Promised
      <3>4. SubSeq(cap[c].date, 1, cap[c].level - 1) \in dirs
        BY <1>1, <2>1, <2>2, <3>1, <3>3 DEF PathStands
      <3>5. QED
        BY <3>2, <3>3, <3>4
    <2> HIDE DEF e
    <2>4. e \in BOOLEAN
      BY DEF e
    <2>5. QED
      BY <1>5, <2>1, <2>3, <2>4
  <1>8. CASE SavePicture(c)
    <2> DEFINE at == IF cap[c].date \in dirs THEN "saved" ELSE "lost"
    <2>1. cap[c].at = "save" /\ UNCHANGED <<now, dirs, stack>>
          /\ cap' = [cap EXCEPT ![c] = [cap[c] EXCEPT !.at = at, !.exists = cap[c].exists]]
      BY <1>1, <1>2, <1>8 DEF SavePicture, CapTypes
    <2>2. Promised(c) => cap[c].date \in dirs
      <3>1. Len(cap[c].date) = 3
        BY <1>1, <2>1 DEF Stage
      <3>2. SubSeq(cap[c].date, 1, 3) = cap[c].date
        BY <1>2, <3>1, PathFacts
      <3>3. Promised(c) => SubSeq(cap[c].date, 1, 3) \in dirs
        BY <1>1, <2>1 DEF PathStands
      <3>4. QED
        BY <3>2, <3>3
    <2>3. at \in {"saved", "lost"} /\ (at = "saved" => cap[c].date \in dirs) /\ (at = "lost" => ~Promised(c))
      BY <2>2
    <2> HIDE DEF at
    <2>4. QED
      BY <1>2, <1>5, <2>1, <2>3
  <1>9. CASE CameraFails(c)
    <2>1. cap[c].at = "save" /\ UNCHANGED <<now, dirs, stack>>
          /\ cap' = [cap EXCEPT ![c] = [cap[c] EXCEPT !.at = "failed", !.exists = cap[c].exists]]
      BY <1>1, <1>2, <1>9 DEF CameraFails, CapTypes
    <2>2. QED
      BY <1>2, <1>5, <2>1
  <1>10. CASE AccessDir(c) /\ LevelDir(c) \in dirs
    <2>1. dirs' = dirs \union {LevelDir(c)}
      BY <1>10 DEF AccessDir
    <2>2. QED
      BY <1>4, <1>10, <2>1 DEF AccessDir
  <1>11. CASE MakeDir(c)
    BY <1>4, <1>11 DEF MakeDir
  <1>12. QED
    BY <1>3, <1>6, <1>7, <1>8, <1>9, <1>10, <1>11 DEF Server

-----------------------------------------------------------------------------
(* The clock and the cleaner.                                              *)

LEMMA TickInvariant ==
    ASSUME IInv, Tick
    PROVE  IInv'
  <1>1. now \in Nat /\ now < LastDay /\ now' = now + 1 /\ dirs' = dirs /\ cap' = cap /\ stack' = stack
    BY DEF IInv, Types, Tick
  <1>2. Types' /\ now' <= LastDay
    BY <1>1, CalendarFacts DEF IInv, Types
  <1>3. ASSUME NEW c \in Captures
        PROVE  Stage(c)' /\ PathStands(c)'
    <2>1. Stage(c) /\ PathStands(c) /\ cap[c].asked \in Nat
      BY DEF IInv, Types, CapTypes
    <2>2. AtWork(c) => cap[c].asked = now
      BY DEF Tick
    <2>3. Stage(c)'
      BY <1>1, <2>1, <2>2 DEF Stage, AtWork
    <2>4. PathStands(c)'
      BY <1>1, <2>1 DEF PathStands, Promised, BornOld, Mixed
    <2>5. QED
      BY <2>3, <2>4
  <1>4. ASSUME NEW i \in DOMAIN stack
        PROVE  CallIsOld(i)'
    <2>1. CallIsOld(i) /\ stack \in Seq(CallTypes)
      BY DEF IInv, Types
    <2>2. i \in Nat \ {0} /\ stack[i] \in CallTypes
      BY <2>1, LenProperties, ElementOfSeq
    <2>3. i > 1 => Start(stack[i].dir) \in Nat
      <3>1. stack[i].dir \in Seq(Nat)
        BY <2>2 DEF CallTypes
      <3>2. i > 1 => Len(stack[i].dir) \in 1..3
        BY <2>1, <2>2 DEF CallIsOld
      <3>3. QED
        BY <3>1, <3>2, StartFacts
    <2>4. i > 1 => ~(now' - Start(stack[i].dir) < CleanDays)
      BY <1>1, <2>1, <2>3, CalendarFacts DEF CallIsOld, Young
    <2>5. QED
      BY <1>1, <2>1, <2>4 DEF CallIsOld, Young
  <1>5. Tree'
    BY <1>1 DEF IInv, Tree
  <1>6. QED
    BY <1>1, <1>2, <1>3, <1>4, <1>5 DEF IInv

(* The innermost call and the calls around it.                             *)
LEMMA StackFacts ==
    ASSUME IInv, stack # << >>
    PROVE  /\ Len(stack) \in 1..4 /\ Top \in CallTypes /\ CallIsOld(Len(stack))
           /\ Len(Top.dir) = Len(stack) - 1
           /\ Below \in Seq(CallTypes) /\ Len(Below) = Len(stack) - 1
           /\ \A i \in 1..Len(stack) - 1 : Below[i] = stack[i] /\ CallIsOld(i)
  <1>1. stack \in Seq(CallTypes) /\ Len(stack) \in Nat /\ Len(stack) > 0 /\ DOMAIN stack = 1..Len(stack)
    BY EmptySeq, LenProperties DEF IInv, Types
  <1>2. \A i \in 1..Len(stack) : CallIsOld(i) /\ stack[i] \in CallTypes
    BY <1>1, ElementOfSeq DEF IInv
  <1>3. CallIsOld(Len(stack)) /\ Top \in CallTypes
    BY <1>1, <1>2 DEF Top
  <1>4. Len(Top.dir) = Len(stack) - 1 /\ Len(stack) <= 4
    BY <1>3 DEF CallIsOld, Top
  <1>5. \A i \in 1..Len(stack) - 1 : stack[i] \in CallTypes
    BY <1>1, <1>2
  <1>6. /\ Below \in Seq(CallTypes) /\ Len(Below) = Len(stack) - 1
        /\ \A i \in 1..Len(stack) - 1 : Below[i] = stack[i]
    BY <1>1, <1>5, SubSeqProperties DEF Below, Front
  <1>7. Len(stack) \in 1..4
    <2>1. Len(stack) \in Nat /\ Len(stack) > 0 /\ Len(stack) <= 4
      BY <1>1, <1>4, Zenon
    <2>2. \A n \in Nat : n > 0 /\ n <= 4 => n \in 1..4
      OBVIOUS
    <2>3. QED
      BY <2>1, <2>2, Zenon
  <1>8. \A i \in 1..Len(stack) - 1 : CallIsOld(i)
    BY <1>1, <1>2
  <1>9. QED
    BY <1>3, <1>4, <1>6, <1>7, <1>8, Zenon

(* What the cleaner finds in a directory.                                  *)
LEMMA EntriesFacts ==
    ASSUME IInv, NEW d \in Seq(Nat), Len(d) <= 3
    PROVE  /\ Call(d) \in CallTypes
           /\ Len(d) < 3 => \A e \in Entries(d) : e \in Seq(Nat) /\ Len(e) = Len(d) + 1
           /\ Len(d) = 3 => \A e \in Entries(d) : e \in Captures /\ cap[e].at = "saved" /\ cap[e].date = d
  <1>1. dirs \subseteq Seq(Nat) /\ \A e \in dirs : Len(e) \in 1..3
    BY DEF IInv, Types, Tree
  <1>2. \A c \in Captures : cap[c].at = "saved" => Len(cap[c].date) = 3
    BY DEF IInv, Stage
  <1>3. Len(d) < 3 => FilesIn(d) = {}
    <2>1. Len(d) < 3 => Len(d) # 3
      <3>1. Len(d) \in Nat /\ \A n \in Nat : n < 3 => n # 3
        OBVIOUS
      <3>2. QED
        BY <3>1, Zenon
    <2>2. \A c \in FilesIn(d) : Len(d) = 3
      BY <1>2, Zenon DEF FilesIn
    <2>3. QED
      BY <2>1, <2>2, Zenon
  <1>4. Entries(d) \subseteq Seq(Nat) \union Captures
    BY <1>1 DEF Entries, FilesIn
  <1>5. Call(d) \in CallTypes
    BY <1>4 DEF Call, CallTypes
  <1>6. Len(d) < 3 => \A e \in Entries(d) : e \in Seq(Nat) /\ Len(e) = Len(d) + 1
    BY <1>1, <1>3 DEF Entries
  <1>7. Len(d) = 3 => \A e \in Entries(d) : e \in Captures /\ cap[e].at = "saved" /\ cap[e].date = d
    <2>1. SUFFICES ASSUME Len(d) = 3, NEW e \in Entries(d)
                   PROVE  e \in Captures /\ cap[e].at = "saved" /\ cap[e].date = d
      OBVIOUS
    <2>2. ~(e \in dirs /\ Len(e) = Len(d) + 1)
      <3>1. \A n \in 1..3 : n # 3 + 1
        OBVIOUS
      <3>2. QED
        BY <1>1, <2>1, <3>1, Zenon
    <2>3. QED
      BY <2>2, Zenon DEF Entries, FilesIn
  <1>8. QED
    BY <1>5, <1>6, <1>7

(* A step of the cleaner that leaves requests and directories alone.       *)
LEMMA StackStep ==
    ASSUME IInv, UNCHANGED <<now, dirs, cap>>, stack' \in Seq(CallTypes),
           \A i \in DOMAIN stack' : CallIsOld(i)'
    PROVE  IInv'
  <1>1. Types' /\ now' <= LastDay /\ Tree'
    BY DEF IInv, Types, Tree
  <1>2. \A c \in Captures : Stage(c)'
    BY DEF IInv, Stage, AtWork
  <1>3. \A c \in Captures : PathStands(c)'
    BY DEF IInv, PathStands, Promised, BornOld, Mixed
  <1>4. QED
    BY <1>1, <1>2, <1>3 DEF IInv

(* An outer call stays as it was.                                          *)
LEMMA OuterCalls ==
    ASSUME NEW i, CallIsOld(i), stack'[i] = stack[i], now' = now, cap' = cap
    PROVE  CallIsOld(i)'
  BY DEF CallIsOld, Young

LEMMA OnTimerInvariant ==
    ASSUME IInv, OnTimer
    PROVE  IInv'
  <1>1. stack' = << Call(<< >>) >> /\ UNCHANGED <<now, dirs, cap>>
    BY DEF OnTimer
  <1>2. << >> \in Seq(Nat) /\ Len(<< >>) = 0
    BY EmptySeq
  <1>3. Call(<< >>) \in CallTypes /\ \A e \in Entries(<< >>) : e \in Seq(Nat) /\ Len(e) = 1
    <2>1. Len(<< >>) <= 3 /\ Len(<< >>) < 3 /\ Len(<< >>) + 1 = 1
      BY <1>2
    <2>2. QED
      BY <1>2, <2>1, EntriesFacts
  <1>4. stack' \in Seq(CallTypes) /\ DOMAIN stack' = {1} /\ stack'[1] = Call(<< >>)
    BY <1>1, <1>3
  <1>5. CallIsOld(1)'
    BY <1>2, <1>3, <1>4 DEF CallIsOld, Call
  <1>6. QED
    BY <1>1, <1>4, <1>5, StackStep

(* The innermost call with one entry less to do.                           *)
LEMMA SeenFacts ==
    ASSUME IInv, stack # << >>, NEW e \in Top.todo
    PROVE  /\ Append(Below, Seen(e)) \in Seq(CallTypes)
           /\ Len(Append(Below, Seen(e))) = Len(stack)
           /\ \A i \in 1..Len(stack) - 1 : Append(Below, Seen(e))[i] = stack[i]
           /\ Append(Below, Seen(e))[Len(stack)] = Seen(e)
           /\ Seen(e).dir = Top.dir /\ Seen(e).todo \subseteq Top.todo
  <1>1. Len(stack) \in 1..4 /\ Top \in CallTypes /\ Below \in Seq(CallTypes) /\ Len(Below) = Len(stack) - 1
          /\ \A i \in 1..Len(stack) - 1 : Below[i] = stack[i]
    BY StackFacts
  <1>2. Seen(e) \in CallTypes /\ Seen(e).dir = Top.dir /\ Seen(e).todo \subseteq Top.todo
    BY <1>1 DEF Seen, CallTypes
  <1> DEFINE s == Append(Below, Seen(e))
  <1>3. /\ s \in Seq(CallTypes) /\ Len(s) = Len(Below) + 1
        /\ \A i \in 1..Len(Below) : s[i] = Below[i]
        /\ s[Len(Below) + 1] = Seen(e)
    BY <1>1, <1>2, AppendProperties
  <1> HIDE DEF s
  <1>4. Len(Below) + 1 = Len(stack)
    BY <1>1
  <1>5. /\ s \in Seq(CallTypes) /\ Len(s) = Len(stack) /\ s[Len(stack)] = Seen(e)
        /\ \A i \in 1..Len(stack) - 1 : s[i] = stack[i]
    BY <1>1, <1>3, <1>4
  <1>6. QED
    BY <1>2, <1>5 DEF s

LEMMA ScanDirInvariant ==
    ASSUME IInv, ScanDir
    PROVE  IInv'
  <1>1. stack # << >> /\ Len(Top.dir) < 3 /\ UNCHANGED <<now, dirs, cap>>
    BY DEF ScanDir
  <1>2. PICK d \in Top.todo :
           stack' = Append(Below, Seen(d)) \o (IF Young(d) THEN << >> ELSE << Call(d) >>)
    BY DEF ScanDir
  <1> PICK n \in Nat : n = Len(stack)
    BY <1>1, StackFacts
  <1> DEFINE s == Append(Below, Seen(d))
  <1>3. n \in Nat /\ n > 0 /\ n < 4
    BY <1>1, StackFacts
  <1>4. /\ s \in Seq(CallTypes) /\ Len(s) = n
        /\ \A i \in 1..n - 1 : s[i] = stack[i] /\ CallIsOld(i)
        /\ s[n].dir = Top.dir /\ s[n].todo \subseteq Top.todo
    BY <1>1, SeenFacts, StackFacts
  <1>5. CallIsOld(n) /\ stack[n] = Top
    BY <1>1, StackFacts DEF Top
  <1>6. d \in Seq(Nat) /\ Len(d) = n
    BY <1>3, <1>5 DEF CallIsOld
  <1> HIDE DEF s
  <1>7. Call(d) \in CallTypes /\ (n < 3 => \A e \in Entries(d) : e \in Seq(Nat) /\ Len(e) = n + 1)
          /\ (n = 3 => \A e \in Entries(d) : e \in Captures /\ cap[e].at = "saved" /\ cap[e].date = d)
    <2>1. n <= 3
      BY <1>3
    <2>2. QED
      BY <1>6, <2>1, EntriesFacts
  <1>8. ASSUME NEW i \in 1..n, stack'[i] = s[i]
        PROVE  CallIsOld(i)'
    <2>1. CASE i = n
      <3>1. /\ stack[i].dir = stack'[i].dir /\ stack'[i].todo \subseteq stack[i].todo /\ CallIsOld(i)
        BY <1>4, <1>5, <1>8, <2>1
      <3>2. (now' - Start(stack'[i].dir) < CleanDays) = Young(stack[i].dir)
        BY <1>1, <3>1 DEF Young
      <3>3. Len(stack'[i].dir) = i - 1 /\ i <= 4 /\ (i > 1 => ~Young(stack[i].dir))
        BY <3>1 DEF CallIsOld
      <3>4. i < 4 => \A e \in stack'[i].todo : e \in Seq(Nat) /\ Len(e) = i
        BY <3>1 DEF CallIsOld
      <3>5. i # 4
        <4>1. \A j \in Nat : j < 4 => j # 4
          OBVIOUS
        <4>2. QED
          BY <1>3, <2>1, <4>1, Zenon
      <3>6. QED
        BY <3>2, <3>3, <3>4, <3>5 DEF CallIsOld, Young
    <2>2. CASE i # n
      BY <1>1, <1>4, <1>8, <2>2, <1>3, OuterCalls
    <2>3. QED
      BY <2>1, <2>2
  <1>9. CASE Young(d)
    <2>1. stack' = s
      BY <1>2, <1>4, <1>9, ConcatEmptySeq DEF s
    <2>2. DOMAIN stack' = 1..n
      BY <1>4, <2>1, LenProperties
    <2>3. \A i \in 1..n : CallIsOld(i)'
      BY <1>8, <2>1
    <2>4. QED
      BY <1>1, <1>4, <2>1, <2>2, <2>3, StackStep
  <1>10. CASE ~Young(d)
    <2>1. << Call(d) >> \in Seq(CallTypes) /\ Len(<< Call(d) >>) = 1 /\ << Call(d) >>[1] = Call(d)
      BY <1>7
    <2>2. stack' = s \o << Call(d) >>
      BY <1>2, <1>10 DEF s
    <2>3. /\ stack' \in Seq(CallTypes) /\ Len(stack') = n + 1
          /\ \A i \in 1..n + 1 : stack'[i] = IF i <= n THEN s[i] ELSE << Call(d) >>[i - n]
      BY <1>4, <2>1, <2>2, ConcatProperties
    <2>4. DOMAIN stack' = 1..n + 1
      BY <2>3, LenProperties
    <2>5. \A i \in 1..n : CallIsOld(i)'
      BY <1>3, <1>8, <2>3
    <2>6. stack'[n + 1] = Call(d)
      BY <1>3, <2>1, <2>3
    <2>7. stack'[n + 1].dir = d /\ stack'[n + 1].todo = Entries(d)
      BY <2>6 DEF Call
    <2>8. CallIsOld(n + 1)'
      <3>1. Len(stack'[n + 1].dir) = n + 1 - 1 /\ n + 1 <= 4
        BY <1>3, <1>6, <2>7
      <3>2. ~(now' - Start(stack'[n + 1].dir) < CleanDays)
        BY <1>1, <1>10, <2>7 DEF Young
      <3>3. n + 1 < 4 => \A e \in stack'[n + 1].todo : e \in Seq(Nat) /\ Len(e) = n + 1
        BY <1>3, <1>7, <2>7
      <3>4. n + 1 = 4 => \A c \in stack'[n + 1].todo :
               c \in Captures /\ cap'[c].date = stack'[n + 1].dir /\ cap'[c].at \in {"saved", "deleted"}
        BY <1>1, <1>3, <1>7, <2>7
      <3>5. QED
        BY <3>1, <3>2, <3>3, <3>4 DEF CallIsOld, Young
    <2>9. \A i \in 1..n + 1 : i \in 1..n \/ i = n + 1
      BY <1>3
    <2>10. QED
      BY <1>1, <2>3, <2>4, <2>5, <2>8, <2>9, StackStep
  <1>11. QED
    BY <1>9, <1>10

LEMMA DeleteFileInvariant ==
    ASSUME IInv, DeleteFile
    PROVE  IInv'
  <1>1. stack # << >> /\ Len(Top.dir) = 3 /\ UNCHANGED <<now, dirs>>
    BY DEF DeleteFile
  <1>2. PICK c \in Top.todo :
           /\ stack' = Append(Below, Seen(c))
           /\ cap' = [cap EXCEPT ![c].at = IF c \in Regular THEN "deleted" ELSE @]
    BY DEF DeleteFile
  <1>3. /\ stack' \in Seq(CallTypes) /\ Len(stack') = Len(stack)
        /\ \A i \in 1..Len(stack) - 1 : stack'[i] = stack[i] /\ CallIsOld(i)
        /\ stack'[Len(stack)].dir = Top.dir /\ stack'[Len(stack)].todo \subseteq Top.todo
    BY <1>1, <1>2, SeenFacts, StackFacts
  <1>4. Len(stack) = 4
    <2>1. Len(stack) \in 1..4 /\ Len(Top.dir) = Len(stack) - 1
      BY <1>1, StackFacts
    <2>2. \A n \in 1..4 : 3 = n - 1 => n = 4
      OBVIOUS
    <2>3. QED
      BY <1>1, <2>1, <2>2, Zenon
  <1>5. CallIsOld(4) /\ stack[4] = Top
    BY <1>1, <1>4, StackFacts DEF Top
  <1>6. c \in Captures /\ cap[c].at \in {"saved", "deleted"}
    BY <1>5 DEF CallIsOld
  <1>7. cap \in [Captures -> CapTypes]
    BY DEF IInv, Types
  <1>8. /\ cap' \in [Captures -> CapTypes]
        /\ \A x \in Captures : x # c => cap'[x] = cap[x]
        /\ cap'[c].at = "deleted" /\ cap'[c].date = cap[c].date /\ cap'[c].level = cap[c].level
        /\ cap'[c].asked = cap[c].asked /\ cap'[c].exists = cap[c].exists
    BY <1>2, <1>6, <1>7 DEF CapTypes, Regular
  <1>9. Types' /\ now' <= LastDay /\ Tree'
    BY <1>1, <1>3, <1>8 DEF IInv, Types, Tree
  <1>10. ASSUME NEW x \in Captures
         PROVE  Stage(x)' /\ PathStands(x)'
    <2>1. Stage(x) /\ PathStands(x)
      BY DEF IInv
    <2>2. CASE x = c
      BY <1>1, <1>6, <1>8, <2>1, <2>2 DEF Stage, AtWork, PathStands
    <2>3. CASE x # c
      BY <1>1, <1>8, <2>1, <2>3 DEF Stage, AtWork, PathStands, Promised, BornOld, Mixed
    <2>4. QED
      BY <2>2, <2>3
  <1>11. ASSUME NEW i \in 1..3
         PROVE  CallIsOld(i)'
    <2>1. stack'[i] = stack[i] /\ CallIsOld(i) /\ i < 4 /\ i # 4
      BY <1>3, <1>4
    <2>2. QED
      BY <1>1, <2>1 DEF CallIsOld, Young
  <1>12. CallIsOld(4)'
    <2>1. Len(stack'[4].dir) = 4 - 1
      BY <1>1, <1>3, <1>4
    <2>2. ~(now' - Start(stack'[4].dir) < CleanDays)
      BY <1>1, <1>3, <1>4, <1>5 DEF CallIsOld, Young
    <2>3. \A x \in stack'[4].todo :
             x \in Captures /\ cap[x].date = stack'[4].dir /\ cap[x].at \in {"saved", "deleted"}
      BY <1>3, <1>4, <1>5 DEF CallIsOld
    <2>4. \A x \in stack'[4].todo :
             x \in Captures /\ cap'[x].date = stack'[4].dir /\ cap'[x].at \in {"saved", "deleted"}
      BY <1>8, <2>3
    <2>5. QED
      BY <2>1, <2>2, <2>4 DEF CallIsOld, Young
  <1>13. \A i \in DOMAIN stack' : CallIsOld(i)'
    <2>1. DOMAIN stack' = 1..4
      BY <1>3, <1>4, LenProperties
    <2>2. \A i \in 1..4 : i \in 1..3 \/ i = 4
      OBVIOUS
    <2>3. QED
      BY <1>11, <1>12, <2>1, <2>2
  <1>14. QED
    BY <1>9, <1>10, <1>13 DEF IInv

(* A directory is removed when it is old and has nothing in it: no picture *)
(* and no directory hangs from it, and no promised path runs through it.   *)
LEMMA ScanEndsInvariant ==
    ASSUME IInv, ScanEnds
    PROVE  IInv'
  <1>1. stack # << >> /\ stack' = Below /\ now' = now /\ cap' = cap
    BY DEF ScanEnds
  <1>2. stack' \in Seq(CallTypes) /\ \A i \in DOMAIN stack' : CallIsOld(i)'
    <2>1. /\ Below \in Seq(CallTypes) /\ Len(Below) = Len(stack) - 1
          /\ \A i \in 1..Len(stack) - 1 : Below[i] = stack[i] /\ CallIsOld(i)
      BY <1>1, StackFacts
    <2>2. stack' \in Seq(CallTypes) /\ DOMAIN stack' = 1..Len(stack) - 1
      BY <1>1, <2>1, LenProperties
    <2>3. QED
      BY <1>1, <2>1, <2>2, OuterCalls
  <1>3. CASE dirs' = dirs
    BY <1>1, <1>2, <1>3, StackStep
  <1>4. CASE Top.dir # << >> /\ Entries(Top.dir) = {} /\ dirs' = dirs \ {Top.dir}
    <2> PICK d : d = Top.dir
      OBVIOUS
    <2>1. d # << >> /\ Entries(d) = {} /\ dirs' = dirs \ {d}
      BY <1>4
    <2>2. d \in Seq(Nat) /\ ~Young(d)
      <3>1. Top \in CallTypes /\ CallIsOld(Len(stack)) /\ Len(stack) \in 1..4
              /\ Len(Top.dir) = Len(stack) - 1
        BY <1>1, StackFacts
      <3>2. d \in Seq(Nat)
        BY <3>1 DEF CallTypes
      <3>3. Len(d) > 0
        BY <2>1, <3>2, EmptySeq
      <3>4. Len(stack) > 1
        BY <3>1, <3>3
      <3>5. QED
        BY <3>1, <3>2, <3>4 DEF CallIsOld, Top
    <2>3. Types' /\ now' <= LastDay
      BY <1>1, <1>2, <2>1 DEF IInv, Types
    <2>4. Tree'
      <3>1. SUFFICES ASSUME NEW e \in dirs, Len(e) # 1
                     PROVE  Parent(e) # d
        BY <2>1 DEF IInv, Tree
      <3>2. SUFFICES ASSUME Parent(e) = d
                     PROVE  FALSE
        OBVIOUS
      <3>3. e \in Seq(Nat) /\ Len(e) \in 1..3 /\ Len(e) > 1
        <4>1. e \in Seq(Nat) /\ Len(e) \in 1..3
          BY DEF IInv, Types, Tree
        <4>2. \A n \in 1..3 : n # 1 => n > 1
          OBVIOUS
        <4>3. QED
          BY <3>1, <4>1, <4>2, Zenon
      <3>4. d = SubSeq(e, 1, Len(e) - 1)
        BY <3>2 DEF Parent, Front
      <3>5. \A i \in 1..Len(e) - 1 : e[i] \in Nat
        BY <3>3, ElementOfSeq
      <3>6. Len(d) = Len(e) - 1
        BY <3>3, <3>4, <3>5, SubSeqProperties
      <3>7. SubSeq(d, 1, Len(d)) = d
        BY <2>2, SubSeqFull
      <3>8. IsPrefix(d, e) /\ Len(e) = Len(d) + 1
        BY <3>3, <3>4, <3>6, <3>7 DEF IsPrefix
      <3>9. e \in Entries(d)
        BY <3>8 DEF Entries
      <3>10. QED
        BY <2>1, <3>9
    <2>5. ASSUME NEW c \in Captures
          PROVE  Stage(c)' /\ PathStands(c)'
      <3>1. Stage(c) /\ PathStands(c)
        BY DEF IInv
      <3>2. cap[c].at = "saved" => cap[c].date # d
        BY <2>1 DEF Entries, FilesIn
      <3>3. Stage(c)'
        BY <1>1, <2>1, <3>1, <3>2 DEF Stage, AtWork
      <3>4. ASSUME Promised(c), cap[c].at \in {"access", "mkdir", "save"}, NEW k \in 1..3
            PROVE  SubSeq(cap[c].date, 1, k) # d
        BY <2>2, <3>4, AtWorkFacts, PromisedIsYoung
      <3>5. Promised(c)' = Promised(c)
        BY <1>1 DEF Promised, BornOld, Mixed
      <3>6. PathStands(c)'
        BY <1>1, <2>1, <3>1, <3>4, <3>5 DEF PathStands
      <3>7. QED
        BY <3>3, <3>6
    <2>6. QED
      BY <1>2, <2>3, <2>4, <2>5 DEF IInv
  <1>5. QED
    BY <1>3, <1>4 DEF ScanEnds

-----------------------------------------------------------------------------
(* The theorems.                                                           *)

LEMMA StepInvariant == IInv /\ [Next]_vars => IInv'
  <1> SUFFICES ASSUME IInv, [Next]_vars
               PROVE  IInv'
    OBVIOUS
  <1>1. CASE Tick
    BY <1>1, TickInvariant
  <1>2. ASSUME NEW c \in Captures, Server(c)
        PROVE  IInv'
    BY <1>2, ServerInvariant
  <1>3. CASE Cleaner
    BY <1>3, OnTimerInvariant, DeleteFileInvariant, ScanDirInvariant, ScanEndsInvariant DEF Cleaner
  <1>4. CASE UNCHANGED vars
    <2>1. UNCHANGED <<now, dirs, cap>> /\ stack' = stack
      BY <1>4 DEF vars
    <2>2. stack' \in Seq(CallTypes) /\ \A i \in DOMAIN stack' : CallIsOld(i)'
      BY <2>1, OuterCalls DEF IInv, Types
    <2>3. QED
      BY <2>1, <2>2, StackStep
  <1>5. QED
    BY <1>1, <1>2, <1>3, <1>4 DEF Next

LEMMA InitInvariant == Init => IInv
  <1> SUFFICES ASSUME Init
               PROVE  IInv
    OBVIOUS
  <1>1. now = 0 /\ dirs = {} /\ stack = << >>
    BY DEF Init
  <1>2. << >> \in Seq(Nat) /\ Len(<< >>) = 0 /\ << >> \in Seq(CallTypes)
    BY EmptySeq
  <1>3. cap \in [Captures -> CapTypes]
    BY <1>2 DEF Init, CapTypes
  <1>4. Types /\ now <= LastDay /\ Tree
    BY <1>1, <1>2, <1>3, CalendarFacts DEF Types, Tree
  <1>5. ASSUME NEW c \in Captures
        PROVE  Stage(c) /\ PathStands(c)
    <2>1. cap[c] = [at |-> "none", date |-> << >>, level |-> 1, asked |-> 0, exists |-> FALSE]
      BY DEF Init
    <2>2. cap[c].at = "none" /\ cap[c].date = << >> /\ cap[c].level = 1 /\ cap[c].asked = 0 /\ ~cap[c].exists
      BY <2>1
    <2>3. ~AtWork(c) /\ Len(cap[c].date) < 3 /\ cap[c].asked <= now
      BY <1>1, <1>2, <2>2 DEF AtWork
    <2>4. Stage(c)
      BY <2>2, <2>3, Zenon DEF Stage
    <2>5. PathStands(c)
      BY <2>2 DEF PathStands
    <2>6. QED
      BY <2>4, <2>5
  <1>6. \A i \in DOMAIN stack : CallIsOld(i)
    BY <1>1
  <1>7. QED
    BY <1>4, <1>5, <1>6 DEF IInv

LEMMA Invariant == Spec => []IInv
  BY InitInvariant, StepInvariant, PTL DEF Spec

(* However many servers and however their steps mix with the cleaner's,    *)
(* the variables keep their types, and the disk holds a tree: no directory *)
(* and no saved picture without the directory it is in.                    *)
THEOREM TypeCorrect == Spec => []TypeOK
  <1>1. IInv => TypeOK
    <2> SUFFICES ASSUME IInv
                 PROVE  TypeOK
      OBVIOUS
    <2>1. now \in 0..LastDay
      BY CalendarFacts DEF IInv, Types
    <2>2. \A d \in dirs : Len(d) \in 1..3 /\ (Len(d) = 1 \/ Parent(d) \in dirs)
      BY DEF IInv, Tree
    <2>3. ASSUME NEW c \in Captures
          PROVE  /\ cap[c].at \in {"none", "access", "mkdir", "save", "saved", "lost", "failed", "deleted"}
                 /\ cap[c].level \in 1..4 /\ cap[c].asked \in 0..now /\ cap[c].exists \in BOOLEAN
                 /\ cap[c].at # "none" => Len(cap[c].date) = 3
                 /\ cap[c].at = "saved" => cap[c].date \in dirs
      <3>1. cap[c] \in CapTypes /\ Stage(c) /\ now \in Nat
        BY DEF IInv, Types
      <3>2. cap[c].level \in 1..4 /\ cap[c].asked \in 0..now
        BY <3>1 DEF CapTypes, Stage
      <3>3. QED
        BY <3>1, <3>2 DEF CapTypes, Stage
    <2>4. Len(stack) <= 4
      <3>1. CASE stack = << >>
        BY <3>1
      <3>2. CASE stack # << >>
        BY <3>2, StackFacts
      <3>3. QED
        BY <3>1, <3>2
    <2>5. QED
      BY <2>1, <2>2, <2>3, <2>4 DEF TypeOK
  <1>2. QED
    BY <1>1, Invariant, PTL

(* Run as root, and for every number of days that are kept, a picture      *)
(* whose address has been given away is saved unless the camera fails, the *)
(* year was old when the request came, the date is mixed or another server *)
(* made the directory in between (server.cpp:285-371): no clean-up comes   *)
(* between CreatDir's look and the saving.                                 *)
THEOREM PromisesAreKept == Spec => []PromisedIsSaved
  <1>1. IInv => PromisedIsSaved
    BY DEF IInv, PathStands, Promised, PromisedIsSaved
  <1>2. QED
    BY <1>1, Invariant, PTL

(* The cleaner deletes no picture before its time (clean.cpp:26-29), but   *)
(* for a mixed date.                                                       *)
THEOREM NothingGoesEarly == Spec => EarlyOnlyIfMixed
  <1> DEFINE A == \A c \in Captures : cap[c].at = "saved" /\ cap'[c].at = "deleted"
                     => now - cap[c].asked >= CleanDays \/ Mixed(c)
  <1>1. IInv /\ [Next]_vars => [A]_vars
    <2> SUFFICES ASSUME IInv, Next, NEW c \in Captures,
                        cap[c].at = "saved", cap'[c].at = "deleted", ~Mixed(c)
                 PROVE  now - cap[c].asked >= CleanDays
      OBVIOUS
    <2>1. cap \in [Captures -> CapTypes] /\ cap[c].asked \in Nat /\ now \in Nat /\ cap[c].date \in Seq(Nat)
      BY DEF IInv, Types, CapTypes
    <2>2. DeleteFile
      <3>1. cap'[c] # cap[c]
        OBVIOUS
      <3>2. ~Tick /\ ~OnTimer /\ ~ScanDir /\ ~ScanEnds
        BY <3>1 DEF Tick, OnTimer, ScanDir, ScanEnds
      <3>3. ASSUME NEW x \in Captures, Server(x)
            PROVE  FALSE
        <4>1. cap'[x].at # "deleted" /\ \A y \in Captures : y # x => cap'[y] = cap[y]
          BY <2>1, <3>3 DEF Server, ReadClock, AccessDir, MakeDir, MakeDirFails, SavePicture, CameraFails,
                            NextLevel, CapTypes, Parts
        <4>2. QED
          BY <3>1, <4>1
      <3>4. QED
        BY <3>2, <3>3 DEF Next, Cleaner
    <2>3. stack # << >> /\ Len(Top.dir) = 3 /\ c \in Top.todo
      BY <2>1, <2>2 DEF DeleteFile, CapTypes
    <2>4. Top = stack[4] /\ CallIsOld(4)
      <3>1. Len(stack) \in 1..4 /\ Len(Top.dir) = Len(stack) - 1 /\ CallIsOld(Len(stack))
        BY <2>3, StackFacts
      <3>2. \A n \in 1..4 : 3 = n - 1 => n = 4
        OBVIOUS
      <3>3. Len(stack) = 4
        BY <2>3, <3>1, <3>2, Zenon
      <3>4. QED
        BY <3>1, <3>3 DEF Top
    <2>5. cap[c].date = Top.dir /\ ~Young(cap[c].date)
      BY <2>3, <2>4 DEF CallIsOld
    <2>6. PICK day \in cap[c].asked..cap[c].asked + 1 : cap[c].date = Date(day)
      BY DEF Mixed
    <2>7. day \in Nat /\ day >= cap[c].asked
      BY <2>1, <2>6
    <2>8. Start(cap[c].date) = day
      <3>1. Len(cap[c].date) = 3 /\ Len(cap[c].date) \in 1..3
        BY <2>3, <2>5
      <3>2. day = cap[c].date[1] * DaysPerYear + cap[c].date[2] * DaysPerMonth + cap[c].date[3]
        BY <2>6, <2>7, DateFacts
      <3>3. Start(cap[c].date) = cap[c].date[1] * DaysPerYear + cap[c].date[2] * DaysPerMonth + cap[c].date[3]
        BY <2>1, <3>1, StartFacts
      <3>4. QED
        BY <3>2, <3>3, Zenon
    <2>9. QED
      BY <2>1, <2>5, <2>7, <2>8, CalendarFacts DEF Young
  <1>2. QED
    BY <1>1, Invariant, PTL DEF Spec, EarlyOnlyIfMixed
=============================================================================
