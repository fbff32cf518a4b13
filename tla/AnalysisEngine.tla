--------------------------- MODULE AnalysisEngine ---------------------------
(***************************************************************************)
(* command/analysis.cpp: the main thread reads queries and terminate       *)
(* actions, each analysis thread serves one request after the other with a *)
(* bot of its own, and a writer prints the replies.  The bots are modelled *)
(* by what SearchBot promises, which AsyncBot is shown to implement; their *)
(* search threads are interleaved with all the others.  The two queues are *)
(* core/threadsafequeue.h: a push wakes the waiting threads only when the  *)
(* queue was empty.                                                        *)
(***************************************************************************)
EXTENDS Integers, Sequences, FiniteSets

CONSTANTS
  Threads,       \* the analysis threads
  MaxRequests,   \* bound: requests made of the queries
  MaxActions,    \* bound: terminate actions
  Priority,      \* the priority each request is made with
  Reporting      \* the requests made with reportDuringSearch

ASSUME EngineAssumption ==
  /\ MaxRequests \in Nat /\ MaxActions \in Nat
  /\ Threads \cap {"in queue", "popped", "terminated", "writer"} = {}
  /\ Priority \in [1 .. MaxRequests -> Int] /\ Reporting \subseteq 1 .. MaxRequests

Requests == 1 .. MaxRequests
None == 0
IN_QUEUE   == "in queue"
POPPED     == "popped"
TERMINATED == "terminated"

Reply(r, during) == [id |-> r, isDuringSearch |-> during]

VARIABLES
  quitWithoutWaiting,             \* the command line's flag
  status,                         \* of each request made
  open,                           \* openRequests
  freed,                          \* requests deleted by their thread
  toAnalyzeQueue, toWriteQueue,
  analyzeReadOnly, writeReadOnly,
  mPc, mTodo, mBot, actions,      \* the main thread, the requests its step has left
  tPc, tRequest,                  \* the analysis threads
  bPc, stop, killed, found, moved,    \* their bots: moved has the jobs that answered
  asleep,                         \* threads in the wait of a queue
  written, writerDone

analyze  == <<toAnalyzeQueue, analyzeReadOnly>>
write    == <<toWriteQueue, writeReadOnly>>
main     == <<mPc, mTodo, mBot, actions>>
thread   == <<tPc, tRequest>>
bots     == <<bPc, stop, killed, found, moved>>
out      == <<written, writerDone>>
vars == <<quitWithoutWaiting, status, open, freed, analyze, write, main, thread, bots, asleep, out>>

Init ==
  /\ quitWithoutWaiting \in BOOLEAN
  /\ status = <<>>
  /\ open = {} /\ freed = {}
  /\ toAnalyzeQueue = {} /\ toWriteQueue = <<>>
  /\ analyzeReadOnly = FALSE /\ writeReadOnly = FALSE
  /\ mPc = "reading" /\ mTodo = {} /\ mBot = None /\ actions = 0
  /\ tPc = [t \in Threads |-> "waitPop"] /\ tRequest = [t \in Threads |-> None]
  /\ bPc = [t \in Threads |-> "idle"]
  /\ stop = [t \in Threads |-> FALSE] /\ killed = [t \in Threads |-> FALSE]
  /\ found = [t \in Threads |-> FALSE] /\ moved = [t \in Threads |-> {}]
  /\ asleep = {}
  /\ written = <<>> /\ writerDone = FALSE

\* pushToWrite: forcePush, which wakes the writer when the queue was empty
\* and does nothing once it is read-only.
Push(m) ==
  /\ toWriteQueue' = IF writeReadOnly THEN toWriteQueue ELSE Append(toWriteQueue, m)
  /\ asleep' = IF toWriteQueue = <<>> THEN asleep \ {"writer"} ELSE asleep
  /\ UNCHANGED writeReadOnly
PushNothing == UNCHANGED <<write, asleep>>

\* Everything printed or about to be.
Replies == written \o toWriteQueue

First(S) == CHOOSE r \in S : \A q \in S : r <= q

(***************************************************************************)
(* The main thread.                                                        *)
(***************************************************************************)
\* A query for n turns makes n requests, all open before the first is queued.
Query(n) ==
  /\ mPc = "reading"
  /\ Len(status) + n <= MaxRequests
  /\ LET new == Len(status) + 1 .. Len(status) + n IN
       /\ status' = status \o [i \in 1 .. n |-> IN_QUEUE]
       /\ open' = open \cup new
       /\ mTodo' = new
  /\ mPc' = "queueing"
  /\ UNCHANGED <<quitWithoutWaiting, freed, analyze, write, mBot, actions, thread, bots, asleep, out>>

Queue ==
  /\ mPc = "queueing"
  /\ toAnalyzeQueue' = toAnalyzeQueue \cup {First(mTodo)}
  /\ asleep' = IF toAnalyzeQueue = {} THEN asleep \ Threads ELSE asleep
  /\ mTodo' = mTodo \ {First(mTodo)}
  /\ mPc' = IF mTodo' = {} THEN "reading" ELSE "queueing"
  /\ UNCHANGED <<quitWithoutWaiting, status, open, freed, analyzeReadOnly, write, mBot, actions,
                 thread, bots, out>>

\* terminate and terminate_all, for the open requests they match, with
\* openRequestsMutex held until the last of them is dealt with.
Locked == mPc \in {"terminating", "stopping"}

Terminate(R) ==
  /\ mPc = "reading"
  /\ actions < MaxActions
  /\ actions' = actions + 1
  /\ mTodo' = R
  /\ mPc' = "terminating"
  /\ UNCHANGED <<quitWithoutWaiting, status, open, freed, analyze, write, mBot, thread, bots, asleep, out>>

Terminated == mTodo' = mTodo \ {First(mTodo)} /\ mPc' = IF mTodo' = {} THEN "reading" ELSE "terminating"

\* terminateRequest: the exchange of the status, and what it asks for.
TerminateRequest ==
  /\ mPc = "terminating"
  /\ LET r == First(mTodo) IN
       /\ status' = [status EXCEPT ![r] = TERMINATED]
       /\ IF status[r] \in Threads
          THEN mBot' = status[r] /\ mPc' = "stopping" /\ PushNothing /\ UNCHANGED mTodo
          ELSE /\ IF status[r] = IN_QUEUE THEN Push(Reply(r, FALSE)) ELSE PushNothing
               /\ Terminated /\ UNCHANGED mBot
  /\ UNCHANGED <<quitWithoutWaiting, open, freed, analyze, actions, thread, bots, out>>

\* bots[threadIdx]->stopWithoutWait(), after the exchange.
StopItsBot ==
  /\ mPc = "stopping"
  /\ stop' = [stop EXCEPT ![mBot] = TRUE]
  /\ Terminated /\ mBot' = None
  /\ UNCHANGED <<quitWithoutWaiting, status, open, freed, analyze, write, actions, thread,
                 bPc, killed, found, moved, asleep, out>>

EndOfInput ==
  /\ mPc = "reading"
  /\ mPc' = IF quitWithoutWaiting THEN "closeWrite" ELSE "closeAnalyze"
  /\ UNCHANGED <<quitWithoutWaiting, status, open, freed, analyze, write, mTodo, mBot, actions,
                 thread, bots, asleep, out>>

\* Mutant: the waiting threads are not woken.
CloseAnalyzeSilent ==
  /\ mPc = "closeAnalyze"
  /\ analyzeReadOnly' = TRUE
  /\ mPc' = IF quitWithoutWaiting THEN "stopBots" ELSE "join"
  /\ UNCHANGED <<quitWithoutWaiting, status, open, freed, toAnalyzeQueue, write, mTodo, mBot, actions,
                 thread, bots, asleep, out>>

CloseAnalyze ==
  /\ mPc = "closeAnalyze"
  /\ analyzeReadOnly' = TRUE
  /\ asleep' = asleep \ Threads
  /\ mPc' = IF quitWithoutWaiting THEN "stopBots" ELSE "join"
  /\ UNCHANGED <<quitWithoutWaiting, status, open, freed, toAnalyzeQueue, write, mTodo, mBot, actions,
                 thread, bots, out>>

CloseWrite ==
  /\ \/ mPc = "closeWrite" /\ mPc' = "closeAnalyze"
     \/ mPc = "join" /\ ~quitWithoutWaiting /\ (\A t \in Threads : tPc[t] = "done")
        /\ mPc' = "joinWriter"
  /\ writeReadOnly' = TRUE
  /\ asleep' = asleep \ {"writer"}
  /\ UNCHANGED <<quitWithoutWaiting, status, open, freed, analyze, toWriteQueue, mTodo, mBot, actions,
                 thread, bots, out>>

\* stopWithoutWait on every bot, then setKilled on every bot.
StopBots ==
  /\ mPc = "stopBots"
  /\ stop' = [t \in Threads |-> TRUE]
  /\ mPc' = "killBots"
  /\ UNCHANGED <<quitWithoutWaiting, status, open, freed, analyze, write, mTodo, mBot, actions, thread,
                 bPc, killed, found, moved, asleep, out>>

KillBots ==
  /\ mPc = "killBots"
  /\ stop' = [t \in Threads |-> TRUE]
  /\ killed' = [t \in Threads |-> TRUE]
  /\ mPc' = "join"
  /\ UNCHANGED <<quitWithoutWaiting, status, open, freed, analyze, write, mTodo, mBot, actions, thread,
                 bPc, found, moved, asleep, out>>

Join ==
  /\ \/ mPc = "join" /\ quitWithoutWaiting /\ (\A t \in Threads : tPc[t] = "done")
        /\ mPc' = "joinWriter"
     \/ mPc = "joinWriter" /\ writerDone /\ mPc' = "ended"
  /\ UNCHANGED <<quitWithoutWaiting, status, open, freed, analyze, write, mTodo, mBot, actions, thread,
                 bots, asleep, out>>

(***************************************************************************)
(* An analysis thread.                                                     *)
(***************************************************************************)
To(t, pc) == tPc' = [tPc EXCEPT ![t] = pc]

Before(q, r) == Priority[q] > Priority[r] \/ (Priority[q] = Priority[r] /\ q <= r)

WaitPop(t) ==
  /\ tPc[t] = "waitPop" /\ t \notin asleep
  /\ \/ /\ toAnalyzeQueue = {} /\ ~analyzeReadOnly
        /\ asleep' = asleep \cup {t}
        /\ UNCHANGED <<toAnalyzeQueue, thread>>
     \/ /\ toAnalyzeQueue = {} /\ analyzeReadOnly
        /\ To(t, "done")
        /\ UNCHANGED <<toAnalyzeQueue, tRequest, asleep>>
     \/ \E r \in toAnalyzeQueue :
          /\ \A q \in toAnalyzeQueue : Before(r, q)
          /\ toAnalyzeQueue' = toAnalyzeQueue \ {r}
          /\ tRequest' = [tRequest EXCEPT ![t] = r]
          /\ To(t, "popped")
          /\ UNCHANGED asleep
  /\ UNCHANGED <<quitWithoutWaiting, status, open, freed, analyzeReadOnly, write, main, bots, out>>

\* Mutant: the status is set without the compare.
ClaimUnchecked(t) ==
  /\ tPc[t] = "popped"
  /\ LET r == tRequest[t] IN
       status' = [status EXCEPT ![r] = POPPED] /\ To(t, "launch")
  /\ UNCHANGED <<quitWithoutWaiting, open, freed, analyze, write, main, tRequest, bots,
                 asleep, out>>

\* The first compare-exchange: a request terminated in the queue is skipped.
Claim(t) ==
  /\ tPc[t] = "popped"
  /\ LET r == tRequest[t] IN
       IF status[r] = IN_QUEUE
       THEN status' = [status EXCEPT ![r] = POPPED] /\ To(t, "launch")
       ELSE UNCHANGED status /\ To(t, "clear")
  /\ UNCHANGED <<quitWithoutWaiting, open, freed, analyze, write, main, tRequest, bots,
                 asleep, out>>

\* Mutant: the stop flag is not cleared.
LaunchSearchStopped(t) ==
  /\ tPc[t] = "launch"
  /\ IF killed[t] THEN UNCHANGED bPc /\ To(t, "report")
     ELSE /\ bPc' = [bPc EXCEPT ![t] = "launched"]
          /\ To(t, "searching")
  /\ UNCHANGED <<quitWithoutWaiting, status, open, freed, analyze, write, main, tRequest,
                 stop, killed, found, moved, asleep, out>>

\* setPosition and the other setters, then genMoveSynchronous: a bot that was
\* killed takes no job.
LaunchSearch(t) ==
  /\ tPc[t] = "launch"
  /\ IF killed[t] THEN UNCHANGED <<bPc, stop>> /\ To(t, "report")
     ELSE /\ bPc' = [bPc EXCEPT ![t] = "launched"]
          /\ stop' = [stop EXCEPT ![t] = FALSE]
          /\ To(t, "searching")
  /\ UNCHANGED <<quitWithoutWaiting, status, open, freed, analyze, write, main, tRequest,
                 killed, found, moved, asleep, out>>

\* Mutant: the thread does not wait for its bot.
SearchReturnedEarly(t) ==
  /\ tPc[t] = "searching"
  /\ To(t, "report")
  /\ UNCHANGED <<quitWithoutWaiting, status, open, freed, analyze, write, main, tRequest, bots,
                 asleep, out>>

\* The thread's wait ends with the job.
SearchReturned(t) ==
  /\ tPc[t] = "searching"
  /\ bPc[t] = "idle"
  /\ To(t, "report")
  /\ UNCHANGED <<quitWithoutWaiting, status, open, freed, analyze, write, main, tRequest, bots,
                 asleep, out>>

Report(t) ==
  /\ tPc[t] = "report"
  /\ IF found[t] \/ status[tRequest[t]] = TERMINATED
     THEN Push(Reply(tRequest[t], FALSE)) ELSE PushNothing
  /\ To(t, "clear")
  /\ UNCHANGED <<quitWithoutWaiting, status, open, freed, analyze, main, tRequest, bots, out>>

\* Mutant: openRequestsMutex is not taken.
EraseUnlocked(t) ==
  /\ tPc[t] = "clear"
  /\ found' = [found EXCEPT ![t] = FALSE]
  /\ open' = open \ {tRequest[t]}
  /\ To(t, "delete")
  /\ UNCHANGED <<quitWithoutWaiting, status, freed, analyze, write, main, tRequest,
                 bPc, stop, killed, moved, asleep, out>>

\* clearSearch, then the request is closed under openRequestsMutex.
Erase(t) ==
  /\ tPc[t] = "clear"
  /\ ~Locked
  /\ found' = [found EXCEPT ![t] = FALSE]
  /\ open' = open \ {tRequest[t]}
  /\ To(t, "delete")
  /\ UNCHANGED <<quitWithoutWaiting, status, freed, analyze, write, main, tRequest,
                 bPc, stop, killed, moved, asleep, out>>

DeleteRequest(t) ==
  /\ tPc[t] = "delete"
  /\ freed' = freed \cup {tRequest[t]}
  /\ tRequest' = [tRequest EXCEPT ![t] = None]
  /\ To(t, "waitPop")
  /\ UNCHANGED <<quitWithoutWaiting, status, open, analyze, write, main, bots, asleep, out>>

AnalysisThread(t) ==
  \/ WaitPop(t) \/ Claim(t) \/ LaunchSearch(t) \/ SearchReturned(t)
  \/ Report(t) \/ Erase(t) \/ DeleteRequest(t)

(***************************************************************************)
(* The bot of an analysis thread.                                          *)
(***************************************************************************)
\* onSearchBegun: the second compare-exchange, or else the search stops itself.
SearchBegun(t) ==
  /\ bPc[t] = "launched"
  /\ bPc' = [bPc EXCEPT ![t] = "searching"]
  /\ IF status[tRequest[t]] = POPPED
     THEN status' = [status EXCEPT ![tRequest[t]] = t] /\ UNCHANGED stop
     ELSE stop' = [stop EXCEPT ![t] = TRUE] /\ UNCHANGED status
  /\ UNCHANGED <<quitWithoutWaiting, open, freed, analyze, write, main, thread,
                 killed, found, moved, asleep, out>>

\* Playouts, after the first of which there is something to report.
Playout(t) ==
  /\ bPc[t] = "searching"
  /\ ~stop[t] /\ ~found[t]
  /\ found' = [found EXCEPT ![t] = TRUE]
  /\ UNCHANGED <<quitWithoutWaiting, status, open, freed, analyze, write, main, thread,
                 bPc, stop, killed, moved, asleep, out>>

\* The callback of reportDuringSearch (bound: one report for each request).
ReportDuringSearch(t) ==
  /\ bPc[t] = "searching"
  /\ found[t] /\ tRequest[t] \in Reporting
  /\ \A i \in DOMAIN Replies : Replies[i].id # tRequest[t]
  /\ Push(Reply(tRequest[t], TRUE))
  /\ UNCHANGED <<quitWithoutWaiting, status, open, freed, analyze, main, thread, bots, out>>

SearchEnds(t) ==
  /\ bPc[t] = "searching"
  /\ stop[t] \/ found[t]
  /\ bPc' = [bPc EXCEPT ![t] = "idle"]
  /\ moved' = [moved EXCEPT ![t] = @ \cup {tRequest[t]}]
  /\ UNCHANGED <<quitWithoutWaiting, status, open, freed, analyze, write, main, thread,
                 stop, killed, found, asleep, out>>

\* Killed between the launch and the search thread's look at it.
LaunchKilled(t) ==
  /\ bPc[t] = "launched"
  /\ killed[t]
  /\ bPc' = [bPc EXCEPT ![t] = "idle"]
  /\ UNCHANGED <<quitWithoutWaiting, status, open, freed, analyze, write, main, thread,
                 stop, killed, found, moved, asleep, out>>

BotThread(t) == SearchBegun(t) \/ Playout(t) \/ SearchEnds(t) \/ LaunchKilled(t)

(***************************************************************************)
(* The writer.                                                             *)
(***************************************************************************)
Writer ==
  /\ ~writerDone /\ "writer" \notin asleep
  /\ \/ /\ toWriteQueue = <<>> /\ ~writeReadOnly
        /\ asleep' = asleep \cup {"writer"}
        /\ UNCHANGED <<toWriteQueue, out>>
     \/ /\ toWriteQueue = <<>> /\ writeReadOnly
        /\ writerDone' = TRUE
        /\ UNCHANGED <<toWriteQueue, written, asleep>>
     \/ /\ toWriteQueue # <<>>
        /\ written' = Append(written, Head(toWriteQueue))
        /\ toWriteQueue' = Tail(toWriteQueue)
        /\ UNCHANGED <<writerDone, asleep>>
  /\ UNCHANGED <<quitWithoutWaiting, status, open, freed, analyze, writeReadOnly, main, thread, bots>>

(***************************************************************************)
(* The engine.  Input need not come; every thread runs when it can, and a  *)
(* search reaches its limits.                                              *)
(***************************************************************************)
Input ==
  \/ \E n \in 1 .. MaxRequests : Query(n)
  \/ \E R \in (SUBSET open) \ {{}} : Terminate(R)
  \/ EndOfInput

MainStep ==
  \/ Queue \/ TerminateRequest \/ StopItsBot
  \/ CloseAnalyze \/ CloseWrite \/ StopBots \/ KillBots \/ Join

Next ==
  \/ Input \/ MainStep \/ Writer
  \/ \E t \in Threads : AnalysisThread(t) \/ BotThread(t) \/ ReportDuringSearch(t)

Spec ==
  /\ Init /\ [][Next]_vars
  /\ WF_vars(MainStep) /\ WF_vars(Writer)
  /\ \A t \in Threads : WF_vars(AnalysisThread(t)) /\ WF_vars(BotThread(t))

(***************************************************************************)
(* Properties.                                                             *)
(***************************************************************************)
TypeOK ==
  /\ \A r \in DOMAIN status : status[r] \in {IN_QUEUE, POPPED, TERMINATED} \cup Threads
  /\ DOMAIN status \subseteq Requests
  /\ open \subseteq DOMAIN status /\ freed \subseteq DOMAIN status
  /\ toAnalyzeQueue \subseteq DOMAIN status
  /\ tRequest \in [Threads -> DOMAIN status \cup {None}]
  /\ asleep \subseteq Threads \cup {"writer"}

Final(r) == {i \in DOMAIN Replies : Replies[i].id = r /\ ~Replies[i].isDuringSearch}

\* docs/Analysis_Engine.md: every query, terminated or not, concludes with
\* exactly one reply where isDuringSearch is false, except when quitting
\* without waiting.  No request gets two, nothing follows it, and a request is
\* deleted only after it has it, whoever of the two threads had to write it.
OneFinalReply ==
  \A r \in DOMAIN status :
    /\ Cardinality(Final(r)) <= 1
    /\ \A i \in Final(r) : \A j \in DOMAIN Replies : j > i => Replies[j].id # r
    /\ r \in freed /\ ~quitWithoutWaiting => Final(r) # {}

\* The stop a terminate action sends to a bot after it saw the request there
\* never hits the search of the next request.
Quitting == mPc \in {"stopBots", "killBots", "join", "joinWriter", "ended"} /\ quitWithoutWaiting
StopHitsItsOwn ==
  \A t \in Threads :
    bPc[t] = "searching" /\ stop[t] => status[tRequest[t]] = TERMINATED \/ Quitting

\* No thread looks at a request another one deleted.
LiveRequests ==
  /\ freed \cap (open \cup toAnalyzeQueue \cup mTodo) = {}
  /\ \A t \in Threads : tRequest[t] \notin freed

\* Every query is answered, and the engine that sees the end of its input ends:
\* no wake-up of a queue is lost and nobody waits for a search nobody runs.
Concludes ==
  /\ \A r \in Requests :
       r \in open /\ ~quitWithoutWaiting ~>
         \E i \in DOMAIN written : written[i].id = r /\ ~written[i].isDuringSearch
  /\ mPc \in {"closeWrite", "closeAnalyze"} ~> mPc = "ended"

Bot(t) == INSTANCE SearchBot WITH
  job <- IF bPc[t] = "idle" THEN [id |-> None, onMove |-> FALSE]
                            ELSE [id |-> tRequest[t], onMove |-> TRUE],
  stop <- stop[t], killed <- killed[t], answered <- moved[t]
BotsStart == \A t \in Threads : Bot(t)!Init
BotsStep == \A t \in Threads : [Bot(t)!Next]_(Bot(t)!vars)

\* The engine uses each bot the way SearchBot allows, which is what AsyncBot
\* is shown to provide.
BotsKept == BotsStart /\ [][BotsStep]_vars
=============================================================================
