------------------------------ MODULE AsyncBot ------------------------------
(***************************************************************************)
(* search/asyncbot.cpp: one thread uses the bot (its API is documented as  *)
(* single-threaded), one thread searches, one thread reports while a       *)
(* search runs, and another thread may stop or kill the bot at any time.   *)
(* A critical section of controlMutex is one action; what happens outside  *)
(* it (the stop flag, the search itself, a notification after an unlock)   *)
(* is an action of its own.  A thread waiting on a condition variable is   *)
(* in asleep until it is notified, or wakes for no reason.                 *)
(***************************************************************************)
EXTENDS Naturals, FiniteSets

CONSTANTS
  MaxCalls,    \* bound: calls of the API that may launch or change a search
  MaxVisits    \* the visits after which a search ends by itself

ASSUME BotAssumption == MaxCalls \in Nat /\ MaxVisits \in Nat \ {0}

VARIABLES
  isRunning, isPondering, isKilled,   \* under controlMutex
  shouldStopNow,                      \* atomic
  queued,        \* what the last launch stored: queuedSearchId, queuedOnMove, analyzeCallback
  sPc,           \* the search thread
  visits,        \* the playouts of the search that runs
  isSearchBegun, callbackLoopShouldStop,
  cbPc,          \* the thread of callbackLoop
  uPc, call,     \* the user's thread: where it is, and in which call
  asleep,        \* threads in the wait of a condition variable
  calls,         \* how many calls the user made
  answered       \* the launches whose onMove was called

control == <<isRunning, isPondering, isKilled, queued>>
search  == <<sPc, visits>>
report  == <<isSearchBegun, callbackLoopShouldStop, cbPc>>
user    == <<uPc, call, calls>>
vars == <<control, shouldStopNow, search, report, user, asleep, answered>>

Launches == {"genmove", "analyze", "ponder"}
Kinds    == Launches \cup {"none", "set", "wait", "destroy"}
Job(i, m, c) == [id |-> i, onMove |-> m, callback |-> c]

Init ==
  /\ isRunning = FALSE /\ isPondering = FALSE /\ isKilled = FALSE
  /\ shouldStopNow = FALSE
  /\ queued = Job(0, FALSE, FALSE)
  /\ sPc = "top" /\ visits = 0
  /\ isSearchBegun = FALSE /\ callbackLoopShouldStop = FALSE /\ cbPc = "none"
  /\ uPc = "idle" /\ call = [kind |-> "none", callback |-> FALSE] /\ calls = 0
  /\ asleep = {}
  /\ answered = {}

(***************************************************************************)
(* The user's thread.                                                      *)
(***************************************************************************)
Return == uPc' = "idle" /\ UNCHANGED <<call, calls>>
GoTo(pc) == uPc' = pc /\ UNCHANGED <<call, calls>>

\* A call begins.  A setter, makeMove, clearSearch, getSearchStopAndWait and
\* the destructor start with the store of stopAndWait, outside the mutex.
Call(kind, callback) ==
  /\ uPc = "idle"
  /\ calls < MaxCalls
  /\ calls' = calls + 1
  /\ call' = [kind |-> kind, callback |-> callback]
  /\ CASE kind \in {"set", "destroy"} -> uPc' = "stopped" /\ shouldStopNow' = TRUE
       [] kind = "wait"               -> uPc' = "ending" /\ UNCHANGED shouldStopNow
       [] kind \in Launches           -> uPc' = "launching" /\ UNCHANGED shouldStopNow
  /\ UNCHANGED <<control, search, report, asleep, answered>>

\* while(isRunning) userWaitingForStop.wait(lock): the user goes on only when
\* it sees isRunning false.
WaitForSearchToEnd(next) ==
  /\ "user" \notin asleep
  /\ IF isRunning THEN asleep' = asleep \cup {"user"} /\ UNCHANGED user
                  ELSE GoTo(next) /\ UNCHANGED asleep

StopAndWait ==
  /\ uPc = "stopped"
  /\ WaitForSearchToEnd(IF call.kind = "destroy" THEN "killing" ELSE "using")
  /\ UNCHANGED <<control, shouldStopNow, search, report, answered>>

\* The setter changes the search, outside the mutex.
UseSearch ==
  /\ uPc = "using"
  /\ Return
  /\ UNCHANGED <<control, shouldStopNow, search, report, asleep, answered>>

\* A synchronous genmove, or gtp.cpp's genMove, after its launch.
WaitEnd ==
  /\ uPc = "ending"
  /\ WaitForSearchToEnd("idle")
  /\ UNCHANGED <<control, shouldStopNow, search, report, answered>>

\* genMoveAsync, genMoveAsyncAnalyze, analyzeAsync, with the mutex held: the
\* store of stopAndWaitAlreadyLocked, on the first pass only.
StopFirst ==
  /\ uPc = "launching"
  /\ call.kind # "ponder"
  /\ isRunning
  /\ shouldStopNow' = TRUE
  /\ GoTo("relaunching")
  /\ asleep' = asleep \cup {"user"}
  /\ UNCHANGED <<control, search, report, answered>>

StillRunning ==
  /\ uPc = "relaunching"
  /\ "user" \notin asleep
  /\ isRunning
  /\ asleep' = asleep \cup {"user"}
  /\ UNCHANGED <<control, shouldStopNow, search, report, user, answered>>

\* A launch that finds the bot killed gives up; ponder also when it runs.
LaunchRefused ==
  /\ uPc \in {"launching", "relaunching"} /\ "user" \notin asleep
  /\ \/ call.kind = "ponder" /\ (isRunning \/ isKilled) /\ UNCHANGED shouldStopNow
     \/ call.kind # "ponder" /\ ~isRunning /\ isKilled /\ shouldStopNow' = TRUE
  /\ Return
  /\ UNCHANGED <<control, search, report, asleep, answered>>

Launch ==
  /\ uPc \in {"launching", "relaunching"} /\ "user" \notin asleep
  /\ ~isRunning /\ ~isKilled
  /\ queued' = Job(calls, call.kind = "genmove", call.callback /\ call.kind # "ponder")
  /\ isRunning' = TRUE
  /\ isPondering' = (call.kind = "ponder")
  /\ shouldStopNow' = FALSE
  /\ GoTo("notifying")
  /\ UNCHANGED <<isKilled, search, report, asleep, answered>>

\* threadWaitingToSearch.notify_all(), after the unlock.
Notify ==
  /\ uPc = "notifying"
  /\ asleep' = asleep \ {"search"}
  /\ Return
  /\ UNCHANGED <<control, shouldStopNow, search, report, answered>>

DestroyKill ==
  /\ uPc = "killing"
  /\ isKilled' = TRUE
  /\ GoTo("notifyingDead")
  /\ UNCHANGED <<isRunning, isPondering, queued, shouldStopNow, search, report, asleep, answered>>

DestroyNotify ==
  /\ uPc = "notifyingDead"
  /\ asleep' = asleep \ {"search"}
  /\ GoTo("joining")
  /\ UNCHANGED <<control, shouldStopNow, search, report, answered>>

Delete ==
  /\ uPc = "joining"
  /\ sPc = "dead"
  /\ GoTo("deleted")
  /\ UNCHANGED <<control, shouldStopNow, search, report, asleep, answered>>

User ==
  \/ \E kind \in Kinds \ {"none"}, callback \in BOOLEAN : Call(kind, callback)
  \/ StopAndWait \/ UseSearch \/ WaitEnd \/ StopFirst \/ StillRunning
  \/ LaunchRefused \/ Launch \/ Notify
  \/ DestroyKill \/ DestroyNotify \/ Delete

(***************************************************************************)
(* Another thread, for as long as the bot is not being deleted.            *)
(***************************************************************************)
Alive == uPc \notin {"killing", "notifyingDead", "joining", "deleted"}

StopWithoutWait ==
  /\ Alive
  /\ shouldStopNow' = TRUE
  /\ UNCHANGED <<control, search, report, user, asleep, answered>>

SetKilled ==
  /\ Alive
  /\ isKilled' = TRUE
  /\ shouldStopNow' = TRUE
  /\ asleep' = asleep \ {"search"}
  /\ UNCHANGED <<isRunning, isPondering, queued, search, report, user, answered>>

(***************************************************************************)
(* The search thread.                                                      *)
(***************************************************************************)
AtTop == sPc = "top" /\ "search" \notin asleep

WaitToSearch ==
  /\ AtTop
  /\ ~isRunning /\ ~isKilled
  /\ asleep' = asleep \cup {"search"}
  /\ UNCHANGED <<control, shouldStopNow, search, report, user, answered>>

SearchThreadEnds ==
  /\ AtTop
  /\ isKilled
  /\ isRunning' = FALSE /\ isPondering' = FALSE
  /\ asleep' = asleep \ {"user"}
  /\ sPc' = "dead"
  /\ UNCHANGED <<isKilled, queued, shouldStopNow, visits, report, user, answered>>

\* Mutant: the stop flag is cleared here, and not by the launch alone.
PickUpFresh ==
  /\ AtTop
  /\ isRunning /\ ~isKilled
  /\ shouldStopNow' = FALSE
  /\ sPc' = "begin" /\ visits' = 0
  /\ isSearchBegun' = FALSE /\ callbackLoopShouldStop' = FALSE
  /\ cbPc' = IF queued.callback THEN "start" ELSE "none"
  /\ UNCHANGED <<control, user, asleep, answered>>

\* The copies of the fields, and the thread of the callback loop.
PickUp ==
  /\ AtTop
  /\ isRunning /\ ~isKilled
  /\ sPc' = "begin" /\ visits' = 0
  /\ isSearchBegun' = FALSE /\ callbackLoopShouldStop' = FALSE
  /\ cbPc' = IF queued.callback THEN "start" ELSE "none"
  /\ UNCHANGED <<control, shouldStopNow, user, asleep, answered>>

\* runWholeSearch: beginSearch, then the searchBegun function.
BeginSearch ==
  /\ sPc = "begin"
  /\ sPc' = "search"
  /\ isSearchBegun' = queued.callback
  /\ asleep' = asleep \ {"report"}
  /\ UNCHANGED <<control, shouldStopNow, visits, callbackLoopShouldStop, cbPc, user, answered>>

Playout ==
  /\ sPc = "search"
  /\ ~shouldStopNow
  /\ visits < MaxVisits
  /\ visits' = visits + 1
  /\ UNCHANGED <<control, shouldStopNow, sPc, report, user, asleep, answered>>

SearchEnds ==
  /\ sPc = "search"
  /\ shouldStopNow \/ visits = MaxVisits
  /\ sPc' = IF queued.callback THEN "stopCallback" ELSE "finish"
  /\ UNCHANGED <<control, shouldStopNow, visits, report, user, asleep, answered>>

\* Mutant: the callback thread is told to stop and not joined.
StopCallbackLoopUnjoined ==
  /\ sPc = "stopCallback"
  /\ callbackLoopShouldStop' = TRUE
  /\ asleep' = asleep \ {"report"}
  /\ sPc' = "finish"
  /\ UNCHANGED <<control, shouldStopNow, visits, isSearchBegun, cbPc, user, answered>>

StopCallbackLoop ==
  /\ sPc = "stopCallback"
  /\ callbackLoopShouldStop' = TRUE
  /\ asleep' = asleep \ {"report"}
  /\ sPc' = "join"
  /\ UNCHANGED <<control, shouldStopNow, visits, isSearchBegun, cbPc, user, answered>>

JoinCallbackLoop ==
  /\ sPc = "join"
  /\ cbPc = "done"
  /\ cbPc' = "none"
  /\ sPc' = "finish"
  /\ UNCHANGED <<control, shouldStopNow, visits, isSearchBegun, callbackLoopShouldStop,
                 user, asleep, answered>>

\* Mutants: a search that was stopped calls no onMove; the user is not notified.
FinishUnanswered ==
  /\ sPc = "finish"
  /\ answered' = IF queued.onMove /\ ~shouldStopNow THEN answered \cup {queued.id} ELSE answered
  /\ isRunning' = FALSE /\ isPondering' = FALSE
  /\ asleep' = asleep \ {"user"}
  /\ sPc' = "top"
  /\ UNCHANGED <<isKilled, queued, shouldStopNow, visits, report, user>>

FinishUnnotified ==
  /\ sPc = "finish"
  /\ answered' = IF queued.onMove THEN answered \cup {queued.id} ELSE answered
  /\ isRunning' = FALSE /\ isPondering' = FALSE
  /\ sPc' = "top"
  /\ UNCHANGED <<isKilled, queued, shouldStopNow, visits, report, user, asleep>>

\* queuedOnMove is called with the mutex held.
Finish ==
  /\ sPc = "finish"
  /\ answered' = IF queued.onMove THEN answered \cup {queued.id} ELSE answered
  /\ isRunning' = FALSE /\ isPondering' = FALSE
  /\ asleep' = asleep \ {"user"}
  /\ sPc' = "top"
  /\ UNCHANGED <<isKilled, queued, shouldStopNow, visits, report, user>>

Searcher ==
  \/ WaitToSearch \/ SearchThreadEnds \/ PickUp \/ BeginSearch \/ SearchEnds
  \/ StopCallbackLoop \/ JoinCallbackLoop \/ Finish

(***************************************************************************)
(* The thread of callbackLoop.                                             *)
(***************************************************************************)
ReportTo(pc) ==
  /\ cbPc' = pc
  /\ UNCHANGED <<control, shouldStopNow, search, isSearchBegun, callbackLoopShouldStop,
                 user, asleep, answered>>

\* while(!isSearchBegun) wait, with the stop seen only after a wait.
ReportWaits ==
  /\ cbPc \in {"start", "woken"} /\ "report" \notin asleep
  /\ ~isSearchBegun
  /\ cbPc = "woken" => ~callbackLoopShouldStop
  /\ cbPc' = "woken"
  /\ asleep' = asleep \cup {"report"}
  /\ UNCHANGED <<control, shouldStopNow, search, isSearchBegun, callbackLoopShouldStop,
                 user, answered>>

ReportBegins ==
  /\ cbPc \in {"start", "woken"} /\ "report" \notin asleep
  /\ \/ cbPc = "woken" /\ callbackLoopShouldStop /\ ReportTo("done")
     \/ isSearchBegun /\ (cbPc = "woken" => ~callbackLoopShouldStop) /\ ReportTo("period")

\* wait_for: the stop, or the period went by; without root values it waits again.
ReportPeriod ==
  /\ cbPc = "period"
  /\ \/ callbackLoopShouldStop /\ ReportTo("done")
     \/ ~callbackLoopShouldStop /\ visits > 0 /\ ReportTo("calling")

\* analyzeCallback(search), outside the mutex; one with no period ends.
ReportCalled ==
  /\ cbPc = "calling"
  /\ ReportTo("period") \/ ReportTo("done")

Reporter == ReportWaits \/ ReportBegins \/ ReportPeriod \/ ReportCalled

\* A wait may return without a notification.
SpuriousWakeup ==
  \E t \in asleep :
    /\ asleep' = asleep \ {t}
    /\ UNCHANGED <<control, shouldStopNow, search, report, user, answered>>

Next == User \/ StopWithoutWait \/ SetKilled \/ Searcher \/ Playout \/ Reporter \/ SpuriousWakeup

Spec == Init /\ [][Next]_vars

\* Every thread runs when it can; a search for a move reaches its limits
\* (pondering and analysis have none that matter), and no call has to come.
Called == uPc # "idle" /\ User
Fairness ==
  /\ WF_vars(Called)
  /\ WF_vars(Searcher)
  /\ WF_vars(Reporter)
  /\ WF_vars(queued.onMove /\ Playout)

FairSpec == Spec /\ Fairness

(***************************************************************************)
(* Properties.                                                             *)
(***************************************************************************)
TypeOK ==
  /\ isRunning \in BOOLEAN /\ isPondering \in BOOLEAN /\ isKilled \in BOOLEAN
  /\ shouldStopNow \in BOOLEAN
  /\ queued \in [id : 0 .. MaxCalls, onMove : BOOLEAN, callback : BOOLEAN]
  /\ sPc \in {"top", "begin", "search", "stopCallback", "join", "finish", "dead"}
  /\ visits \in 0 .. MaxVisits
  /\ isSearchBegun \in BOOLEAN /\ callbackLoopShouldStop \in BOOLEAN
  /\ cbPc \in {"none", "start", "woken", "period", "calling", "done"}
  /\ uPc \in {"idle", "stopped", "using", "ending", "launching", "relaunching",
              "notifying", "killing", "notifyingDead", "joining", "deleted"}
  /\ call \in [kind : Kinds, callback : BOOLEAN]
  /\ asleep \subseteq {"user", "search", "report"}
  /\ calls \in 0 .. MaxCalls
  /\ answered \subseteq 1 .. MaxCalls

\* The search object is not locked: it has one owner at a time.  While the
\* user changes it (a setter after stopAndWait) or is about to store a new
\* launch, and once the bot is deleted, neither the search thread nor the
\* callback thread is inside a search.
Searching == sPc \in {"begin", "search", "stopCallback", "join", "finish"} \/ cbPc # "none"
OneOwner ==
  \/ uPc \in {"using", "killing", "notifyingDead", "joining", "deleted"}
  \/ ~isRunning
  => ~Searching

\* gtp.cpp's genMove asserts onMoveWasCalled after waitForSearchToEnd: a wait
\* that returns finds the answer of the launch before it, unless the bot was
\* killed in between.
MoveIsThere ==
  [][uPc = "ending" /\ uPc' = "idle" /\ queued.onMove => queued.id \in answered \/ isKilled]_vars

\* No wake-up is lost: a user that stopped the search, or waits for a move,
\* or deletes the bot, comes back.
StopReturns ==
  /\ uPc \in {"stopped", "relaunching"} ~> uPc \in {"idle", "deleted"}
  /\ uPc = "ending" /\ queued.onMove ~> uPc = "idle"

\* The bot keeps the contract of SearchBot: launches do not overlap, a stop is
\* not forgotten while its search runs, each launch is answered once.
Bot == INSTANCE SearchBot WITH
  job <- IF isRunning THEN [id |-> queued.id, onMove |-> queued.onMove]
                      ELSE [id |-> 0, onMove |-> FALSE],
  stop <- shouldStopNow, killed <- isKilled
BotSpec == Bot!Spec
=============================================================================
