--------------------------- MODULE AsyncBotProofs ---------------------------
(***************************************************************************)
(* Theorems about AsyncBot: the threads that share a bot keep to their     *)
(* types, the search has one owner, a wait for a move finds it, and the    *)
(* bot implements SearchBot, for any number of calls and any search length.*)
(***************************************************************************)
EXTENDS AsyncBot, TLAPS

Busy   == {"begin", "search", "stopCallback", "join", "finish"}
Owning == {"using", "killing", "notifyingDead", "joining", "deleted"}

\* Where the threads can be.  Only the search thread ends a search, so that a
\* user who has seen isRunning false, in a call that launches none, owns it.
Phases ==
  /\ sPc \in Busy => isRunning
  /\ sPc \in {"top", "finish", "dead"} => cbPc = "none"
  /\ cbPc # "none" => queued.callback
  /\ uPc \in Owning => ~isRunning

\* What becomes of the launches: the last one is answered once it is over,
\* unless the bot was killed, and the one to come has an id of its own.
Jobs ==
  /\ isRunning \/ queued.onMove => queued.id > 0
  /\ queued.id <= calls
  /\ \A i \in answered : i <= calls
  /\ uPc \in {"launching", "relaunching"} =>
       calls > 0 /\ queued.id # calls /\ calls \notin answered
  /\ queued.onMove /\ ~isRunning => queued.id \in answered \/ isKilled

\* The types, in three groups: flags, where the threads are, and the calls.
FlagTypes ==
  /\ isRunning \in BOOLEAN /\ isPondering \in BOOLEAN /\ isKilled \in BOOLEAN
  /\ shouldStopNow \in BOOLEAN
  /\ isSearchBegun \in BOOLEAN /\ callbackLoopShouldStop \in BOOLEAN

PlaceTypes ==
  /\ sPc \in {"top", "begin", "search", "stopCallback", "join", "finish", "dead"}
  /\ cbPc \in {"none", "start", "woken", "period", "calling", "done"}
  /\ uPc \in {"idle", "stopped", "using", "ending", "launching", "relaunching",
              "notifying", "killing", "notifyingDead", "joining", "deleted"}
  /\ asleep \subseteq {"user", "search", "report"}

CallTypes ==
  /\ queued \in [id : 0 .. MaxCalls, onMove : BOOLEAN, callback : BOOLEAN]
  /\ visits \in 0 .. MaxVisits
  /\ call \in [kind : Kinds, callback : BOOLEAN]
  /\ calls \in 0 .. MaxCalls
  /\ answered \subseteq 1 .. MaxCalls

LEMMA TypeParts == TypeOK <=> FlagTypes /\ PlaceTypes /\ CallTypes
BY DEF TypeOK, FlagTypes, PlaceTypes, CallTypes

IInv == TypeOK /\ Phases /\ Jobs

\* The inductive invariant holds initially.
LEMMA InvInit == Init => IInv
<1> SUFFICES ASSUME Init PROVE IInv
  OBVIOUS
<1> USE BotAssumption DEF Init, Job
<1>1. FlagTypes /\ PlaceTypes
  BY DEF FlagTypes, PlaceTypes
<1>2. CallTypes
  BY DEF CallTypes, Kinds, Launches
<1>3. Phases /\ Jobs
  BY DEF Phases, Jobs, Busy, Owning
<1>4. QED
  BY <1>1, <1>2, <1>3, TypeParts DEF IInv

\* Every step keeps FlagTypes.
LEMMA FlagNext == FlagTypes /\ CallTypes /\ [Next]_vars => FlagTypes'
<1> SUFFICES ASSUME FlagTypes, CallTypes, [Next]_vars PROVE FlagTypes'
  OBVIOUS
<1> USE DEF FlagTypes, control, search, report, user, Return, GoTo
<1>1. ASSUME NEW k \in Kinds \ {"none"}, NEW c \in BOOLEAN, Call(k, c) PROVE FlagTypes'
  BY <1>1 DEF Call, Kinds, Launches
<1>2. CASE StopAndWait \/ WaitEnd
  BY <1>2 DEF StopAndWait, WaitEnd, WaitForSearchToEnd
<1>3. CASE UseSearch \/ StopFirst \/ StillRunning
  BY <1>3 DEF UseSearch, StopFirst, StillRunning
<1>4. CASE LaunchRefused
  BY <1>4 DEF LaunchRefused
<1>5. CASE Launch
  BY <1>5 DEF Launch, Job
<1>6. CASE Notify \/ DestroyKill \/ DestroyNotify \/ Delete
  BY <1>6 DEF Notify, DestroyKill, DestroyNotify, Delete
<1>7. CASE StopWithoutWait \/ SetKilled \/ Playout
  BY <1>7 DEF StopWithoutWait, SetKilled, Playout
<1>8. CASE WaitToSearch \/ SearchThreadEnds
  BY <1>8 DEF WaitToSearch, SearchThreadEnds
<1>9. CASE PickUp
  BY <1>9 DEF PickUp
<1>10. CASE BeginSearch
  <2>1. queued.callback \in BOOLEAN
    BY DEF CallTypes
  <2>2. QED
    BY <2>1, <1>10 DEF BeginSearch
<1>11. CASE SearchEnds \/ StopCallbackLoop \/ JoinCallbackLoop
  BY <1>11 DEF SearchEnds, StopCallbackLoop, JoinCallbackLoop
<1>12. CASE Finish
  BY <1>12 DEF Finish
<1>13. CASE ReportWaits \/ ReportBegins
  BY <1>13 DEF ReportWaits, ReportBegins, ReportTo
<1>14. CASE ReportPeriod \/ ReportCalled
  BY <1>14 DEF ReportPeriod, ReportCalled, ReportTo
<1>15. CASE SpuriousWakeup
  BY <1>15 DEF SpuriousWakeup
<1>16. CASE UNCHANGED vars
  BY <1>16 DEF vars
<1>17. QED
  BY <1>1, <1>2, <1>3, <1>4, <1>5, <1>6, <1>7, <1>8, <1>9, <1>10,
     <1>11, <1>12, <1>13, <1>14, <1>15, <1>16 DEF Next, User, Searcher, Reporter

\* Every step keeps PlaceTypes.
LEMMA PlaceNext == PlaceTypes /\ [Next]_vars => PlaceTypes'
<1> SUFFICES ASSUME PlaceTypes, [Next]_vars PROVE PlaceTypes'
  OBVIOUS
<1> USE DEF PlaceTypes, control, search, report, user, Return, GoTo
<1>1. ASSUME NEW k \in Kinds \ {"none"}, NEW c \in BOOLEAN, Call(k, c) PROVE PlaceTypes'
  BY <1>1 DEF Call, Kinds, Launches
<1>2. CASE StopAndWait \/ WaitEnd
  BY <1>2 DEF StopAndWait, WaitEnd, WaitForSearchToEnd
<1>3. CASE UseSearch \/ StopFirst \/ StillRunning
  BY <1>3 DEF UseSearch, StopFirst, StillRunning
<1>4. CASE LaunchRefused
  BY <1>4 DEF LaunchRefused
<1>5. CASE Launch
  BY <1>5 DEF Launch, Job
<1>6. CASE Notify \/ DestroyKill \/ DestroyNotify \/ Delete
  BY <1>6 DEF Notify, DestroyKill, DestroyNotify, Delete
<1>7. CASE StopWithoutWait \/ SetKilled \/ Playout
  BY <1>7 DEF StopWithoutWait, SetKilled, Playout
<1>8. CASE WaitToSearch \/ SearchThreadEnds
  BY <1>8 DEF WaitToSearch, SearchThreadEnds
<1>9. CASE PickUp \/ BeginSearch
  BY <1>9 DEF PickUp, BeginSearch
<1>10. CASE SearchEnds \/ StopCallbackLoop \/ JoinCallbackLoop
  BY <1>10 DEF SearchEnds, StopCallbackLoop, JoinCallbackLoop
<1>11. CASE Finish
  BY <1>11 DEF Finish
<1>12. CASE ReportWaits \/ ReportBegins
  BY <1>12 DEF ReportWaits, ReportBegins, ReportTo
<1>13. CASE ReportPeriod \/ ReportCalled
  BY <1>13 DEF ReportPeriod, ReportCalled, ReportTo
<1>14. CASE SpuriousWakeup
  BY <1>14 DEF SpuriousWakeup
<1>15. CASE UNCHANGED vars
  BY <1>15 DEF vars
<1>16. QED
  BY <1>1, <1>2, <1>3, <1>4, <1>5, <1>6, <1>7, <1>8, <1>9, <1>10,
     <1>11, <1>12, <1>13, <1>14, <1>15 DEF Next, User, Searcher, Reporter

\* Every step keeps CallTypes.
LEMMA CallNext == CallTypes /\ Jobs /\ [Next]_vars => CallTypes'
<1> SUFFICES ASSUME CallTypes, Jobs, [Next]_vars PROVE CallTypes'
  OBVIOUS
<1> USE BotAssumption DEF CallTypes, control, search, report, user, Return, GoTo
<1>1. ASSUME NEW k \in Kinds \ {"none"}, NEW c \in BOOLEAN, Call(k, c) PROVE CallTypes'
  BY <1>1 DEF Call, Kinds, Launches
<1>2. CASE StopAndWait \/ WaitEnd
  BY <1>2 DEF StopAndWait, WaitEnd, WaitForSearchToEnd
<1>3. CASE UseSearch \/ StopFirst \/ StillRunning
  BY <1>3 DEF UseSearch, StopFirst, StillRunning
<1>4. CASE LaunchRefused
  BY <1>4 DEF LaunchRefused
<1>5. CASE Launch
  BY <1>5 DEF Launch, Job
<1>6. CASE Notify \/ DestroyKill \/ DestroyNotify \/ Delete
  BY <1>6 DEF Notify, DestroyKill, DestroyNotify, Delete
<1>7. CASE StopWithoutWait
  BY <1>7 DEF StopWithoutWait
<1>8. CASE SetKilled
  BY <1>8 DEF SetKilled
<1>9. CASE Playout
  BY <1>9 DEF Playout
<1>10. CASE WaitToSearch \/ SearchThreadEnds
  BY <1>10 DEF WaitToSearch, SearchThreadEnds
<1>11. CASE PickUp
  BY <1>11 DEF PickUp
<1>12. CASE BeginSearch
  BY <1>12 DEF BeginSearch
<1>13. CASE SearchEnds \/ StopCallbackLoop \/ JoinCallbackLoop
  BY <1>13 DEF SearchEnds, StopCallbackLoop, JoinCallbackLoop
<1>14. CASE Finish
  <2>1. queued.onMove => queued.id \in 1 .. MaxCalls
    BY DEF Jobs
  <2>2. answered' \subseteq 1 .. MaxCalls
    BY <2>1, <1>14 DEF Finish
  <2>3. QED
    BY <2>2, <1>14 DEF Finish
<1>15. CASE ReportWaits \/ ReportBegins
  BY <1>15 DEF ReportWaits, ReportBegins, ReportTo
<1>16. CASE ReportPeriod \/ ReportCalled
  BY <1>16 DEF ReportPeriod, ReportCalled, ReportTo
<1>17. CASE SpuriousWakeup
  BY <1>17 DEF SpuriousWakeup
<1>18. CASE UNCHANGED vars
  BY <1>18 DEF vars
<1>19. QED
  BY <1>1, <1>2, <1>3, <1>4, <1>5, <1>6, <1>7, <1>8, <1>9, <1>10,
     <1>11, <1>12, <1>13, <1>14, <1>15, <1>16, <1>17, <1>18 DEF Next, User, Searcher, Reporter

\* Every step keeps Phases.
LEMMA PhasesNext == TypeOK /\ Phases /\ [Next]_vars => Phases'
<1> SUFFICES ASSUME TypeOK, Phases, [Next]_vars PROVE Phases'
  OBVIOUS
<1> USE DEF TypeOK, Phases, Busy, Owning, control, search, report, user, Return, GoTo
<1>1. ASSUME NEW k \in Kinds \ {"none"}, NEW c \in BOOLEAN, Call(k, c) PROVE Phases'
  BY <1>1 DEF Call, Kinds, Launches
<1>2. CASE StopAndWait \/ WaitEnd
  BY <1>2 DEF StopAndWait, WaitEnd, WaitForSearchToEnd
<1>3. CASE UseSearch \/ StopFirst \/ StillRunning \/ LaunchRefused
  BY <1>3 DEF UseSearch, StopFirst, StillRunning, LaunchRefused
<1>4. CASE Launch
  BY <1>4 DEF Launch, Job
<1>5. CASE Notify \/ DestroyKill \/ DestroyNotify \/ Delete
  BY <1>5 DEF Notify, DestroyKill, DestroyNotify, Delete
<1>6. CASE StopWithoutWait \/ SetKilled \/ Playout \/ SpuriousWakeup
  BY <1>6 DEF StopWithoutWait, SetKilled, Playout, SpuriousWakeup
<1>7. CASE WaitToSearch \/ SearchThreadEnds \/ PickUp \/ BeginSearch
  BY <1>7 DEF WaitToSearch, SearchThreadEnds, PickUp, BeginSearch, AtTop
<1>8. CASE SearchEnds \/ StopCallbackLoop \/ JoinCallbackLoop \/ Finish
  BY <1>8 DEF SearchEnds, StopCallbackLoop, JoinCallbackLoop, Finish
<1>9. CASE Reporter
  BY <1>9 DEF Reporter, ReportWaits, ReportBegins, ReportPeriod, ReportCalled, ReportTo
<1>10. CASE UNCHANGED vars
  BY <1>10 DEF vars
<1>11. QED
  BY <1>1, <1>2, <1>3, <1>4, <1>5, <1>6, <1>7, <1>8, <1>9, <1>10 DEF Next, User, Searcher

\* A step that ends no search, launches none and leads no call into a launch
\* keeps Jobs.
JobsKept ==
  /\ UNCHANGED <<isRunning, queued, calls, answered>>
  /\ isKilled => isKilled'
  /\ uPc' \in {"launching", "relaunching"} => uPc \in {"launching", "relaunching"}

LEMMA KeptJobs == Jobs /\ JobsKept => Jobs'
BY DEF Jobs, JobsKept

\* Most steps of the user's thread are such steps.
LEMMA UserKeepsJobs ==
  User => \/ JobsKept \/ Launch
          \/ \E k \in Kinds \ {"none"}, c \in BOOLEAN : Call(k, c)
<1> USE DEF JobsKept, control, search, report, user, Return, GoTo
<1>1. ASSUME StopAndWait \/ WaitEnd PROVE JobsKept
  BY <1>1 DEF StopAndWait, WaitEnd, WaitForSearchToEnd
<1>2. ASSUME UseSearch \/ StopFirst \/ StillRunning \/ LaunchRefused PROVE JobsKept
  BY <1>2 DEF UseSearch, StopFirst, StillRunning, LaunchRefused
<1>3. ASSUME Notify \/ DestroyKill \/ DestroyNotify \/ Delete PROVE JobsKept
  BY <1>3 DEF Notify, DestroyKill, DestroyNotify, Delete
<1>4. QED
  BY <1>1, <1>2, <1>3 DEF User

\* And every step of the other threads that does not end a search.
LEMMA OthersKeepJobs ==
  [Next]_vars => User \/ JobsKept \/ SearchThreadEnds \/ Finish
<1> USE DEF JobsKept, control, search, report, user
<1>1. ASSUME StopWithoutWait \/ SetKilled \/ Playout \/ SpuriousWakeup PROVE JobsKept
  BY <1>1 DEF StopWithoutWait, SetKilled, Playout, SpuriousWakeup
<1>2. ASSUME WaitToSearch \/ PickUp \/ BeginSearch PROVE JobsKept
  BY <1>2 DEF WaitToSearch, PickUp, BeginSearch
<1>3. ASSUME SearchEnds \/ StopCallbackLoop \/ JoinCallbackLoop PROVE JobsKept
  BY <1>3 DEF SearchEnds, StopCallbackLoop, JoinCallbackLoop
<1>4. ASSUME Reporter PROVE JobsKept
  BY <1>4 DEF Reporter, ReportWaits, ReportBegins, ReportPeriod, ReportCalled, ReportTo
<1>5. ASSUME UNCHANGED vars PROVE JobsKept
  BY <1>5 DEF vars
<1>6. QED
  BY <1>1, <1>2, <1>3, <1>4, <1>5 DEF Next, Searcher

\* Every step keeps Jobs.
LEMMA JobsNext == CallTypes /\ Phases /\ Jobs /\ [Next]_vars => Jobs'
<1> SUFFICES ASSUME CallTypes, Phases, Jobs, [Next]_vars PROVE Jobs'
  OBVIOUS
<1>1. CASE JobsKept
  BY <1>1, KeptJobs
<1>2. ASSUME NEW k \in Kinds \ {"none"}, NEW c \in BOOLEAN, Call(k, c) PROVE Jobs'
  BY <1>2, BotAssumption DEF Call, Kinds, Launches, CallTypes, Jobs, control, search, report
<1>3. CASE Launch
  BY <1>3 DEF Launch, Job, CallTypes, Jobs, search, report, GoTo
<1>4. CASE SearchThreadEnds
  BY <1>4 DEF SearchThreadEnds, Jobs, report, user
<1>5. CASE Finish
  BY <1>5 DEF Finish, Phases, Busy, Jobs, report, user
<1>6. QED
  BY <1>1, <1>2, <1>3, <1>4, <1>5, UserKeepsJobs, OthersKeepJobs

\* Every step keeps the inductive invariant.
LEMMA InvNext == IInv /\ [Next]_vars => IInv'
<1> SUFFICES ASSUME IInv, [Next]_vars PROVE IInv'
  OBVIOUS
<1>1. FlagTypes /\ PlaceTypes /\ CallTypes /\ Phases /\ Jobs
  BY TypeParts DEF IInv
<1>2. FlagTypes' /\ PlaceTypes' /\ CallTypes'
  BY <1>1, FlagNext, PlaceNext, CallNext
<1>3. TypeOK'
  BY <1>2 DEF TypeOK, FlagTypes, PlaceTypes, CallTypes
<1>4. Phases' /\ Jobs'
  BY <1>1, PhasesNext, JobsNext DEF IInv
<1>5. QED
  BY <1>3, <1>4 DEF IInv

\* Every behaviour keeps the inductive invariant.
LEMMA Invariant == Spec => []IInv
BY InvInit, InvNext, PTL DEF Spec

\* The variables of the bot's threads keep their types.
THEOREM TypeCorrect == Spec => []TypeOK
<1>1. IInv => TypeOK
  BY DEF IInv
<1>2. QED
  BY <1>1, Invariant, PTL

\* Nobody searches while the user owns the search, nor after the bot's
\* destructor has stopped it, whenever the stops and the kill arrive.
THEOREM OneOwnerHolds == Spec => []OneOwner
<1>1. IInv => OneOwner
  BY DEF IInv, TypeOK, Phases, OneOwner, Searching, Busy, Owning
<1>2. QED
  BY <1>1, Invariant, PTL

\* genMove's assertion onMoveWasCalled cannot fail but for a killed bot.
THEOREM MoveIsThereHolds == Spec => MoveIsThere
<1>1. ASSUME IInv, [Next]_vars
      PROVE  [uPc = "ending" /\ uPc' = "idle" /\ queued.onMove
                => queued.id \in answered \/ isKilled]_vars
  <2> SUFFICES ASSUME Next, uPc = "ending", uPc' = "idle", queued.onMove
               PROVE  queued.id \in answered \/ isKilled
    BY <1>1
  <2> USE DEF control, search, report, user, Return, GoTo
  <2>1. ~isRunning
    <3>1. CASE User
      BY <3>1 DEF User, Call, StopAndWait, UseSearch, WaitEnd, StopFirst, StillRunning,
         LaunchRefused, Launch, Notify, DestroyKill, DestroyNotify, Delete, WaitForSearchToEnd
    <3>2. CASE StopWithoutWait \/ SetKilled \/ Playout \/ SpuriousWakeup
      BY <3>2 DEF StopWithoutWait, SetKilled, Playout, SpuriousWakeup
    <3>3. CASE Searcher
      BY <3>3 DEF Searcher, WaitToSearch, SearchThreadEnds, PickUp, BeginSearch, SearchEnds,
         StopCallbackLoop, JoinCallbackLoop, Finish
    <3>4. CASE Reporter
      BY <3>4 DEF Reporter, ReportWaits, ReportBegins, ReportPeriod, ReportCalled, ReportTo
    <3>5. QED
      BY <3>1, <3>2, <3>3, <3>4 DEF Next
  <2>2. QED
    BY <2>1, <1>1 DEF IInv, Jobs
<1>2. QED
  BY <1>1, Invariant, PTL DEF Spec, MoveIsThere

----------------------------------------------------------------------------
(* The bot implements SearchBot *)

LEMMA BotInit == Init => Bot!Init
BY DEF Init, Bot!Init, Bot!NoJob, Job

\* A step of the user's thread, or of the one that stops and kills.
LEMMA BotUser ==
  IInv /\ (User \/ StopWithoutWait \/ SetKilled) => [Bot!Next]_(Bot!vars)
<1> SUFFICES ASSUME IInv, User \/ StopWithoutWait \/ SetKilled PROVE [Bot!Next]_(Bot!vars)
  OBVIOUS
<1> USE DEF control, search, report, user, Return, GoTo, Bot!vars
<1>1. ASSUME NEW k \in Kinds \ {"none"}, NEW c \in BOOLEAN, Call(k, c)
      PROVE  [Bot!Next]_(Bot!vars)
  BY <1>1 DEF Call, Kinds, Launches, Bot!Next, Bot!Stop
<1>2. CASE StopAndWait \/ WaitEnd \/ UseSearch \/ StillRunning
  BY <1>2 DEF StopAndWait, WaitEnd, WaitForSearchToEnd, UseSearch, StillRunning
<1>3. CASE StopFirst \/ LaunchRefused \/ StopWithoutWait
  BY <1>3 DEF StopFirst, LaunchRefused, StopWithoutWait, Bot!Next, Bot!Stop
<1>4. CASE Launch
  <2>1. queued'.id = calls /\ calls \in Nat \ {0} /\ calls \notin answered
    BY <1>4, BotAssumption DEF Launch, Job, IInv, TypeOK, Jobs
  <2>2. queued'.onMove \in BOOLEAN
    BY <1>4 DEF Launch, Job
  <2>3. Bot!Launch
    BY <1>4, <2>1, <2>2 DEF Launch, Bot!Launch, Bot!NoJob
  <2>4. QED
    BY <2>3 DEF Bot!Next
<1>5. CASE Notify \/ DestroyNotify \/ Delete
  BY <1>5 DEF Notify, DestroyNotify, Delete
<1>6. CASE DestroyKill \/ SetKilled
  <2>1. Bot!Kill
    <3>1. CASE DestroyKill
      BY <3>1 DEF DestroyKill, Bot!Kill
    <3>2. CASE SetKilled
      BY <3>2 DEF SetKilled, Bot!Kill
    <3>3. QED
      BY <1>6, <3>1, <3>2
  <2>2. QED
    BY <2>1 DEF Bot!Next
<1>7. QED
  BY <1>1, <1>2, <1>3, <1>4, <1>5, <1>6 DEF User

\* A step of the search thread.
LEMMA BotSearcher == IInv /\ (Searcher \/ Playout) => [Bot!Next]_(Bot!vars)
<1> SUFFICES ASSUME IInv, Searcher \/ Playout PROVE [Bot!Next]_(Bot!vars)
  OBVIOUS
<1> USE DEF control, search, report, user, Bot!vars
<1>1. CASE WaitToSearch \/ PickUp \/ BeginSearch \/ Playout
  BY <1>1 DEF WaitToSearch, PickUp, BeginSearch, Playout
<1>2. CASE SearchEnds \/ StopCallbackLoop \/ JoinCallbackLoop
  BY <1>2 DEF SearchEnds, StopCallbackLoop, JoinCallbackLoop
<1>3. isRunning => [id |-> queued.id, onMove |-> queued.onMove] # [id |-> 0, onMove |-> FALSE]
  BY DEF IInv, TypeOK, Jobs
<1>4. CASE SearchThreadEnds
  <2>1. CASE isRunning
    BY <1>3, <1>4, <2>1 DEF SearchThreadEnds, Bot!Next, Bot!End, Bot!NoJob
  <2>2. CASE ~isRunning
    BY <1>4, <2>2 DEF SearchThreadEnds
  <2>3. QED
    BY <2>1, <2>2
<1>5. CASE Finish
  <2>1. isRunning
    BY <1>5 DEF Finish, IInv, Phases, Busy
  <2>2. Bot!End
    BY <1>3, <1>5, <2>1 DEF Finish, Bot!End, Bot!NoJob
  <2>3. QED
    BY <2>2 DEF Bot!Next
<1>6. QED
  BY <1>1, <1>2, <1>4, <1>5 DEF Searcher

\* The bot keeps the contract of SearchBot, whatever its threads do.
THEOREM BotImplements == Spec => BotSpec
<1>1. IInv /\ [Next]_vars => [Bot!Next]_(Bot!vars)
  <2> SUFFICES ASSUME IInv, [Next]_vars PROVE [Bot!Next]_(Bot!vars)
    OBVIOUS
  <2> USE DEF control, search, report, user, Bot!vars
  <2>1. CASE Reporter \/ SpuriousWakeup
    BY <2>1 DEF Reporter, ReportWaits, ReportBegins, ReportPeriod, ReportCalled, ReportTo,
       SpuriousWakeup
  <2>2. CASE UNCHANGED vars
    BY <2>2 DEF vars
  <2>3. QED
    BY <2>1, <2>2, BotUser, BotSearcher DEF Next
<1>2. QED
  BY <1>1, BotInit, Invariant, PTL DEF Spec, BotSpec, Bot!Spec
=============================================================================
