------------------------ MODULE AnalysisEngineProofs ------------------------
(***************************************************************************)
(* Theorems about AnalysisEngine, for any number of threads and requests:  *)
(* nobody touches a deleted request, a stop never hits the search of       *)
(* another request, each bot is used the way SearchBot allows, and each    *)
(* request gets one final reply.                                           *)
(***************************************************************************)
EXTENDS AnalysisEngine, SequenceTheorems, FiniteSetTheorems, TLAPS

Values  == {IN_QUEUE, POPPED, TERMINATED} \cup Threads
Serving == {"popped", "launch", "searching", "report", "clear", "delete"}
Made    == 1 .. Len(status)

Types ==
  /\ quitWithoutWaiting \in BOOLEAN
  /\ status \in Seq(Values)
  /\ tPc \in [Threads -> Serving \cup {"waitPop", "done"}]
  /\ tRequest \in [Threads -> Nat]
  /\ bPc \in [Threads -> {"idle", "launched", "searching"}]
  /\ stop \in [Threads -> BOOLEAN]
  /\ killed \in [Threads -> BOOLEAN]
  /\ moved \in [Threads -> SUBSET Nat]

\* Where a request is: waiting to be queued, in the queue, with one thread, or
\* deleted; and the main thread's work list is made of requests.
Places ==
  /\ open \subseteq Made /\ toAnalyzeQueue \subseteq Made
  /\ freed \subseteq Made /\ mTodo \subseteq Made
  /\ \A t \in Threads :
       IF tPc[t] \in Serving
       THEN tRequest[t] \in Made /\ tRequest[t] \notin freed /\ tRequest[t] \notin toAnalyzeQueue
       ELSE tRequest[t] = None
  /\ \A t, u \in Threads : tPc[t] \in Serving /\ tRequest[t] = tRequest[u] => t = u
  /\ \A t \in Threads : tPc[t] = "delete" => tRequest[t] \notin open
  /\ freed \cap open = {} /\ freed \cap toAnalyzeQueue = {} /\ freed \cap mTodo = {}

\* What the main thread is working at.
Work ==
  /\ mPc = "queueing" => /\ mTodo # {} /\ mTodo \cap toAnalyzeQueue = {}
                         /\ \A t \in Threads : tRequest[t] \notin mTodo
  /\ Locked => mTodo # {} /\ mTodo \subseteq open
  /\ mPc \notin {"queueing", "terminating", "stopping"} => mTodo = {}
  /\ mPc \in {"stopBots", "killBots"} => quitWithoutWaiting

\* What the status of a request says of its thread.
Statuses ==
  /\ \A r \in Made : status[r] \in Threads /\ r \in open => tRequest[status[r]] = r
  /\ \A t \in Threads :
       tPc[t] = "launch" \/ bPc[t] = "launched" => status[tRequest[t]] \in {POPPED, TERMINATED}
  /\ \A t \in Threads : bPc[t] # "idle" => tPc[t] = "searching"
  /\ mPc = "stopping" => /\ mBot \in Threads /\ tRequest[mBot] = First(mTodo)
                         /\ status[First(mTodo)] = TERMINATED

\* A stop is for the request that is terminated, or for the end of the engine.
Stops ==
  \A t \in Threads :
    bPc[t] # "idle" /\ stop[t] => status[tRequest[t]] = TERMINATED \/ Quitting

\* A bot has answered no request its thread still has to launch.
Answers ==
  \A t \in Threads : \A i \in moved[t] :
    \/ i \in freed
    \/ /\ i = tRequest[t]
       /\ tPc[t] \in {"report", "clear", "delete"} \/ (tPc[t] = "searching" /\ bPc[t] = "idle")

IInv == Types /\ Places /\ Work /\ Statuses /\ Stops /\ Answers

Closing == EndOfInput \/ CloseAnalyze \/ CloseWrite \/ StopBots \/ KillBots \/ Join

\* The head of a work list is one of its requests.  The least number of a set is
\* found with the well-founded order of the finite sets of smaller numbers.
LEMMA FirstIsIn ==
  ASSUME NEW S, S \subseteq Nat, S # {}
  PROVE  First(S) \in S
<1> DEFINE Below(r) == 0 .. r
           Belows == {Below(r) : r \in S}
<1>1. \A r \in S : Below(r) \in FiniteSubsetsOf(Nat)
  <2> TAKE r \in S
  <2>1. r \in Int /\ 0 \in Int
    OBVIOUS
  <2>2. IsFiniteSet(Below(r))
    BY <2>1, FS_Interval
  <2>3. Below(r) \subseteq Nat
    BY <2>1
  <2>4. QED
    BY <2>2, <2>3 DEF FiniteSubsetsOf
<1>2. Belows \subseteq FiniteSubsetsOf(Nat) /\ Belows # {}
  BY <1>1
<1> HIDE DEF Belows
<1>3. PICK B \in Belows : \A C \in Belows : <<C, B>> \notin StrictSubsetOrdering(Nat)
  BY <1>2, FS_StrictSubsetOrderingWellFounded, WFMin
<1>4. PICK r \in S : B = Below(r)
  BY DEF Belows
<1>5. \A q \in S : r <= q
  <2> SUFFICES ASSUME NEW q \in S, ~(r <= q) PROVE FALSE
    OBVIOUS
  <2>1. q \in Nat /\ r \in Nat /\ q < r
    OBVIOUS
  <2>2. Below(q) \subseteq Below(r) /\ Below(q) # Below(r)
    <3>1. r \in Below(r) /\ r \notin Below(q)
      BY <2>1
    <3>2. QED
      BY <2>1, <3>1
  <2>3. Below(q) \in SUBSET Nat /\ Below(r) \in SUBSET Nat
    BY <2>1
  <2>4. <<Below(q), Below(r)>> \in StrictSubsetOrdering(Nat)
    BY <2>2, <2>3 DEF StrictSubsetOrdering
  <2>5. Below(q) \in Belows
    BY DEF Belows
  <2>6. QED
    BY <1>3, <1>4, <2>4, <2>5
<1>6. QED
  BY <1>5 DEF First

\* Appending the requests of a query keeps the statuses before them.
LEMMA Longer ==
  ASSUME Types, NEW n \in 1 .. MaxRequests,
         status' = status \o [i \in 1 .. n |-> IN_QUEUE]
  PROVE  /\ status' \in Seq(Values)
         /\ Len(status') = Len(status) + n
         /\ \A r \in Made : status'[r] = status[r]
         /\ \A r \in Len(status) + 1 .. Len(status) + n : status'[r] = IN_QUEUE
<1> DEFINE new == [i \in 1 .. n |-> IN_QUEUE]
<1>0. MaxRequests \in Nat
  BY EngineAssumption
<1>1. n \in Nat
  BY <1>0
<1>2. new \in Seq(Values) /\ Len(new) = n
  BY <1>1 DEF Values
<1>3. status \in Seq(Values)
  BY DEF Types
<1>4. \A i \in 1 .. n : new[i] = IN_QUEUE
  OBVIOUS
<1>5. status' = status \o new
  OBVIOUS
<1> HIDE DEF new
<1>6. /\ status \o new \in Seq(Values)
      /\ Len(status \o new) = Len(status) + n
      /\ \A i \in 1 .. Len(status) + n :
           (status \o new)[i] = IF i <= Len(status) THEN status[i] ELSE new[i - Len(status)]
  BY <1>2, <1>3, ConcatProperties
<1>7. Len(status) \in Nat
  BY <1>3
<1>8. QED
  BY <1>1, <1>4, <1>5, <1>6, <1>7 DEF Made

\* What a query changes.
LEMMA Queried ==
  ASSUME Types, NEW n \in 1 .. MaxRequests, Query(n)
  PROVE  \E N \in SUBSET (Nat \ {0}) :
           /\ N # {} /\ N \cap Made = {} /\ Made' = Made \cup N
           /\ \A r \in Made : status'[r] = status[r]
           /\ \A r \in N : status'[r] = IN_QUEUE
           /\ open' = open \cup N /\ mTodo' = N
           /\ mPc = "reading" /\ mPc' = "queueing"
           /\ UNCHANGED <<freed, toAnalyzeQueue, tPc, tRequest, bPc, stop, moved>>
<1> DEFINE N == Len(status) + 1 .. Len(status) + n
<1>1. n \in Nat \ {0} /\ Len(status) \in Nat
  <2>1. MaxRequests \in Nat
    BY EngineAssumption
  <2>2. QED
    BY <2>1 DEF Types
<1>2. /\ Len(status') = Len(status) + n
      /\ \A r \in Made : status'[r] = status[r]
      /\ \A r \in N : status'[r] = IN_QUEUE
  BY Longer DEF Query
<1>3. N \subseteq Nat \ {0} /\ N \cap Made = {} /\ Made' = Made \cup N
  BY <1>1, <1>2 DEF Made
<1>4. Len(status) + 1 \in N
  BY <1>1
<1>5. /\ open' = open \cup N /\ mTodo' = N
      /\ mPc = "reading" /\ mPc' = "queueing"
      /\ UNCHANGED <<freed, toAnalyzeQueue, tPc, tRequest, bPc, stop, moved>>
  BY DEF Query, analyze, thread, bots
<1> HIDE DEF N
<1>6. QED
  BY <1>2, <1>3, <1>4, <1>5

\* The request the main thread works at is one of those it has to.
LEMMA FirstTodo ==
  ASSUME Types, Places, mTodo # {}
  PROVE  First(mTodo) \in mTodo /\ First(mTodo) \in Made /\ First(mTodo) # None
<1>1. mTodo \subseteq Made /\ Made \subseteq Nat \ {0}
  BY DEF Types, Places, Made
<1>2. First(mTodo) \in mTodo
  BY <1>1, FirstIsIn
<1>3. QED
  BY <1>1, <1>2 DEF None

\* No thread is named like a status.
LEMMA Names == Threads \cap {IN_QUEUE, POPPED, TERMINATED} = {}
BY EngineAssumption DEF IN_QUEUE, POPPED, TERMINATED

\* A change of one status.
LEMMA Changed ==
  ASSUME Types, NEW r \in Made, NEW v \in Values, status' = [status EXCEPT ![r] = v]
  PROVE  /\ status' \in Seq(Values)
         /\ Made' = Made
         /\ \A q \in Made : status'[q] = IF q = r THEN v ELSE status[q]
BY ExceptSeq DEF Types, Made

\* The changes of a status by the main thread, by a thread, and by a bot.
LEMMA TerminateChanges ==
  ASSUME Types, Places, Work, TerminateRequest
  PROVE  /\ First(mTodo) \in mTodo /\ First(mTodo) \in Made /\ First(mTodo) \in open
         /\ Made' = Made
         /\ \A q \in Made : status'[q] = IF q = First(mTodo) THEN TERMINATED ELSE status[q]
<1>1. First(mTodo) \in mTodo /\ First(mTodo) \in Made /\ First(mTodo) \in open
  BY FirstTodo DEF TerminateRequest, Work, Locked
<1>2. status' = [status EXCEPT ![First(mTodo)] = TERMINATED] /\ TERMINATED \in Values
  BY DEF TerminateRequest, Values
<1>3. QED
  BY <1>1, <1>2, Changed

LEMMA ClaimChanges ==
  ASSUME Types, Places, NEW t \in Threads, Claim(t)
  PROVE  /\ tRequest[t] \in Made /\ Made' = Made
         /\ status[tRequest[t]] = IN_QUEUE =>
              \A q \in Made : status'[q] = IF q = tRequest[t] THEN POPPED ELSE status[q]
         /\ status[tRequest[t]] # IN_QUEUE => status' = status
<1>1. tRequest[t] \in Made
  BY DEF Claim, Places, Serving
<1>2. status[tRequest[t]] # IN_QUEUE => status' = status
  BY DEF Claim
<1>3. CASE status[tRequest[t]] = IN_QUEUE
  <2>1. status' = [status EXCEPT ![tRequest[t]] = POPPED] /\ POPPED \in Values
    BY <1>3 DEF Claim, Values
  <2>2. QED
    BY <1>1, <1>3, <2>1, Changed
<1>4. QED
  BY <1>1, <1>2, <1>3 DEF Made

LEMMA BeginChanges ==
  ASSUME Types, Places, Statuses, NEW t \in Threads, SearchBegun(t)
  PROVE  /\ tRequest[t] \in Made /\ Made' = Made
         /\ status[tRequest[t]] = POPPED =>
              \A q \in Made : status'[q] = IF q = tRequest[t] THEN t ELSE status[q]
         /\ status[tRequest[t]] # POPPED => status' = status
<1>1. tRequest[t] \in Made
  BY DEF SearchBegun, Places, Serving, Statuses
<1>2. status[tRequest[t]] # POPPED => status' = status
  BY DEF SearchBegun
<1>3. CASE status[tRequest[t]] = POPPED
  <2>1. status' = [status EXCEPT ![tRequest[t]] = t] /\ t \in Values
    BY <1>3 DEF SearchBegun, Values
  <2>2. QED
    BY <1>1, <1>3, <2>1, Changed
<1>4. QED
  BY <1>1, <1>2, <1>3 DEF Made

\* The inductive invariant holds initially.
LEMMA InvInit == Init => IInv
<1> SUFFICES ASSUME Init PROVE IInv
  OBVIOUS
<1> USE DEF Init
<1>1. Types
  <2>1. status \in Seq(Values)
    OBVIOUS
  <2>2. tPc \in [Threads -> Serving \cup {"waitPop", "done"}] /\ tRequest \in [Threads -> Nat]
    BY DEF None
  <2>3. moved \in [Threads -> SUBSET Nat]
    OBVIOUS
  <2>4. QED
    BY <2>1, <2>2, <2>3 DEF Types
<1>2. Places /\ Work
  BY DEF Places, Work, Made, Serving, Locked
<1>3. Statuses /\ Stops /\ Answers
  BY DEF Statuses, Stops, Answers, Made
<1>4. QED
  BY <1>1, <1>2, <1>3 DEF IInv

\* Every step keeps Types.
LEMMA TypesNext == Types /\ Places /\ Work /\ Statuses /\ [Next]_vars => Types'
<1> SUFFICES ASSUME Types, Places, Work, Statuses, [Next]_vars PROVE Types'
  OBVIOUS
<1> USE DEF Types, analyze, write, main, thread, bots, out
<1>1. ASSUME NEW n \in 1 .. MaxRequests, Query(n) PROVE Types'
  BY <1>1, Longer DEF Query
<1>2. CASE Queue
  BY <1>2 DEF Queue
<1>3. ASSUME NEW R \in (SUBSET open) \ {{}}, Terminate(R) PROVE Types'
  BY <1>3 DEF Terminate
<1>4. CASE TerminateRequest
  <2>1. First(mTodo) \in Made
    BY <1>4, FirstTodo DEF TerminateRequest, Work, Locked
  <2>2. status' \in Seq(Values)
    BY <1>4, <2>1, Changed DEF TerminateRequest, Values
  <2>3. QED
    BY <1>4, <2>2 DEF TerminateRequest, Terminated, Push, PushNothing
<1>5. CASE StopItsBot
  BY <1>5 DEF StopItsBot, Terminated
<1>6. CASE Closing
  BY <1>6 DEF Closing, EndOfInput, CloseAnalyze, CloseWrite, StopBots, KillBots, Join
<1>7. CASE Writer
  BY <1>7 DEF Writer
<1>8. ASSUME NEW t \in Threads, WaitPop(t) PROVE Types'
  <2>1. toAnalyzeQueue \subseteq Nat
    BY DEF Places, Made
  <2>2. tRequest' \in [Threads -> Nat]
    BY <1>8, <2>1 DEF WaitPop
  <2>3. tPc' \in [Threads -> Serving \cup {"waitPop", "done"}]
    BY <1>8 DEF WaitPop, To, Serving
  <2>4. QED
    BY <1>8, <2>2, <2>3 DEF WaitPop
<1>9. ASSUME NEW t \in Threads, Claim(t) PROVE Types'
  <2>1. tRequest[t] \in Made
    BY <1>9 DEF Claim, Places, Serving
  <2>2. status' \in Seq(Values)
    BY <1>9, <2>1, Changed DEF Claim, Values
  <2>3. tPc' \in [Threads -> Serving \cup {"waitPop", "done"}]
    <3>1. PICK pc \in {"launch", "clear"} : tPc' = [tPc EXCEPT ![t] = pc]
      BY <1>9 DEF Claim, To
    <3>2. pc \in Serving
      BY DEF Serving
    <3>3. QED
      BY <3>1, <3>2
  <2>4. QED
    BY <1>9, <2>2, <2>3 DEF Claim
<1>10. ASSUME NEW t \in Threads, LaunchSearch(t) PROVE Types'
  <2>1. tPc' \in [Threads -> Serving \cup {"waitPop", "done"}]
    <3>1. PICK pc \in {"report", "searching"} : tPc' = [tPc EXCEPT ![t] = pc]
      BY <1>10 DEF LaunchSearch, To
    <3>2. pc \in Serving
      BY DEF Serving
    <3>3. QED
      BY <3>1, <3>2
  <2>2. bPc' \in [Threads -> {"idle", "launched", "searching"}]
    BY <1>10 DEF LaunchSearch
  <2>3. stop' \in [Threads -> BOOLEAN]
    BY <1>10 DEF LaunchSearch
  <2>4. QED
    BY <1>10, <2>1, <2>2, <2>3 DEF LaunchSearch
<1>11. ASSUME NEW t \in Threads, SearchReturned(t) PROVE Types'
  BY <1>11 DEF SearchReturned, To, Serving
<1>12. ASSUME NEW t \in Threads, Report(t) PROVE Types'
  BY <1>12 DEF Report, To, Serving
<1>13. ASSUME NEW t \in Threads, Erase(t) PROVE Types'
  BY <1>13 DEF Erase, To, Serving
<1>14. ASSUME NEW t \in Threads, DeleteRequest(t) PROVE Types'
  BY <1>14 DEF DeleteRequest, To, Serving, None
<1>15. ASSUME NEW t \in Threads, SearchBegun(t) PROVE Types'
  <2>1. tRequest[t] \in Made
    BY <1>15 DEF SearchBegun, Places, Serving, Statuses
  <2>2. status' \in Seq(Values)
    BY <1>15, <2>1, Changed DEF SearchBegun, Values
  <2>3. QED
    BY <1>15, <2>2 DEF SearchBegun
<1>16. ASSUME NEW t \in Threads, Playout(t) PROVE Types'
  BY <1>16 DEF Playout
<1>17. ASSUME NEW t \in Threads, ReportDuringSearch(t) PROVE Types'
  BY <1>17 DEF ReportDuringSearch, Push
<1>18. ASSUME NEW t \in Threads, SearchEnds(t) PROVE Types'
  BY <1>18 DEF SearchEnds
<1>19. ASSUME NEW t \in Threads, LaunchKilled(t) PROVE Types'
  BY <1>19 DEF LaunchKilled
<1>20. CASE UNCHANGED vars
  BY <1>20 DEF vars
<1>21. QED
  BY <1>1, <1>2, <1>3, <1>4, <1>5, <1>6, <1>7, <1>8, <1>9, <1>10, <1>11,
     <1>12, <1>13, <1>14, <1>15, <1>16, <1>17, <1>18, <1>19, <1>20
     DEF Next, Input, MainStep, Closing, AnalysisThread, BotThread

\* Every step keeps Places.
LEMMA PlacesNext == Types /\ Places /\ Work /\ Statuses /\ [Next]_vars => Places'
<1> SUFFICES ASSUME Types, Places, Work, Statuses, [Next]_vars PROVE Places'
  OBVIOUS
<1> USE DEF Types, Places, Made, Serving, None, analyze, write, main, thread, bots, out
<1>1. ASSUME NEW n \in 1 .. MaxRequests, Query(n) PROVE Places'
  <2> HIDE DEF Made
  <2>1. PICK N \in SUBSET (Nat \ {0}) :
           /\ N # {} /\ N \cap Made = {} /\ Made' = Made \cup N
           /\ open' = open \cup N /\ mTodo' = N
           /\ UNCHANGED <<freed, toAnalyzeQueue, tPc, tRequest>>
    BY <1>1, Queried
  <2>2. QED
    BY <2>1
<1>2. CASE Queue
  <2>1. mTodo # {}
    BY <1>2 DEF Queue, Work
  <2>2. First(mTodo) \in mTodo /\ First(mTodo) \in Made
    BY <2>1, FirstTodo
  <2>3. \A t \in Threads : tRequest[t] # First(mTodo)
    BY <1>2, <2>2 DEF Queue, Work
  <2>4. QED
    BY <1>2, <2>2, <2>3 DEF Queue
<1>3. ASSUME NEW R \in (SUBSET open) \ {{}}, Terminate(R) PROVE Places'
  BY <1>3 DEF Terminate
<1>4. CASE TerminateRequest
  <2> HIDE DEF Made
  <2>1. First(mTodo) \in Made
    BY <1>4, FirstTodo DEF TerminateRequest, Work, Locked
  <2>2. Made' = Made
    BY <1>4, <2>1, Changed DEF TerminateRequest, Values
  <2>3. mTodo' \subseteq mTodo
    BY <1>4 DEF TerminateRequest, Terminated
  <2>4. UNCHANGED <<open, freed, toAnalyzeQueue, tPc, tRequest>>
    BY <1>4 DEF TerminateRequest
  <2>5. QED
    BY <2>2, <2>3, <2>4
<1>5. CASE StopItsBot
  BY <1>5 DEF StopItsBot, Terminated
<1>6. CASE Closing
  BY <1>6 DEF Closing, EndOfInput, CloseAnalyze, CloseWrite, StopBots, KillBots, Join
<1>7. CASE Writer
  BY <1>7 DEF Writer
<1>8. ASSUME NEW t \in Threads, WaitPop(t) PROVE Places'
  <2>1. tPc[t] = "waitPop" /\ tRequest[t] = None
    BY <1>8 DEF WaitPop
  <2>2. UNCHANGED <<status, open, freed, mTodo>>
    BY <1>8 DEF WaitPop
  <2>3. CASE UNCHANGED <<toAnalyzeQueue, tPc, tRequest>>
    BY <2>2, <2>3
  <2>4. CASE UNCHANGED <<toAnalyzeQueue, tRequest>> /\ tPc' = [tPc EXCEPT ![t] = "done"]
    BY <2>1, <2>2, <2>4
  <2>5. ASSUME NEW r \in toAnalyzeQueue,
               toAnalyzeQueue' = toAnalyzeQueue \ {r},
               tRequest' = [tRequest EXCEPT ![t] = r], tPc' = [tPc EXCEPT ![t] = "popped"]
        PROVE  Places'
    <3>1. r \in Made /\ r \notin freed /\ r # None
      BY DEF None
    <3>2. \A u \in Threads : tRequest[u] # r
      BY <3>1
    <3>3. \A u \in Threads : u # t => tRequest'[u] = tRequest[u] /\ tPc'[u] = tPc[u]
      BY <2>5
    <3>4. tRequest'[t] = r /\ tPc'[t] = "popped"
      BY <2>5
    <3>5. QED
      BY <2>2, <2>5, <3>1, <3>2, <3>3, <3>4
  <2>6. QED
    BY <1>8, <2>3, <2>4, <2>5 DEF WaitPop, To
<1>9. ASSUME NEW t \in Threads, Claim(t) PROVE Places'
  <2> HIDE DEF Made
  <2>1. tPc[t] = "popped" /\ tRequest[t] \in Made
    BY <1>9 DEF Claim
  <2>2. Made' = Made
    BY <1>9, <2>1, Changed DEF Claim, Values, Made
  <2>3. tPc'[t] \in {"launch", "clear"} /\ \A u \in Threads : u # t => tPc'[u] = tPc[u]
    BY <1>9 DEF Claim, To
  <2>4. UNCHANGED <<open, freed, toAnalyzeQueue, mTodo, tRequest>>
    BY <1>9 DEF Claim
  <2>5. \A u \in Threads : (tPc'[u] \in Serving <=> tPc[u] \in Serving) /\ (tPc'[u] = "delete" <=> tPc[u] = "delete")
    BY <2>1, <2>3
  <2>6. QED
    BY <2>2, <2>4, <2>5
<1>10. ASSUME NEW t \in Threads, LaunchSearch(t) PROVE Places'
  BY <1>10 DEF LaunchSearch, To
<1>11. ASSUME NEW t \in Threads, SearchReturned(t) PROVE Places'
  BY <1>11 DEF SearchReturned, To
<1>12. ASSUME NEW t \in Threads, Report(t) PROVE Places'
  BY <1>12 DEF Report, To, Push, PushNothing
<1>13. ASSUME NEW t \in Threads, Erase(t) PROVE Places'
  BY <1>13 DEF Erase, To
<1>14. ASSUME NEW t \in Threads, DeleteRequest(t) PROVE Places'
  <2>1. tPc[t] = "delete" /\ ~(tRequest[t] \in open)
    BY <1>14 DEF DeleteRequest
  <2>2. tRequest[t] \notin mTodo
    <3>1. CASE mPc = "queueing"
      BY <3>1 DEF Work
    <3>2. CASE Locked
      BY <2>1, <3>2 DEF Work
    <3>3. CASE mPc \notin {"queueing", "terminating", "stopping"}
      BY <3>3 DEF Work
    <3>4. QED
      BY <3>1, <3>2, <3>3 DEF Locked
  <2>3. \A u \in Threads : u # t => tRequest[u] # tRequest[t]
    BY <2>1
  <2>4. /\ freed' = freed \cup {tRequest[t]}
        /\ tRequest' = [tRequest EXCEPT ![t] = None] /\ tPc' = [tPc EXCEPT ![t] = "waitPop"]
        /\ UNCHANGED <<status, open, toAnalyzeQueue, mTodo>>
    BY <1>14 DEF DeleteRequest, To
  <2>5. /\ tRequest'[t] = None /\ tPc'[t] = "waitPop"
        /\ \A u \in Threads : u # t => tRequest'[u] = tRequest[u] /\ tPc'[u] = tPc[u]
    BY <2>4
  <2>6. \A u \in Threads : u # t /\ tPc[u] \in Serving => tRequest[u] \notin freed'
    BY <2>3, <2>4
  <2>7. freed' \subseteq Made /\ freed' \cap open = {} /\ freed' \cap toAnalyzeQueue = {}
        /\ freed' \cap mTodo = {}
    BY <2>1, <2>2, <2>4
  <2>8. QED
    BY <2>4, <2>5, <2>6, <2>7
<1>15. ASSUME NEW t \in Threads, SearchBegun(t) PROVE Places'
  BY <1>15 DEF SearchBegun
<1>16. ASSUME NEW t \in Threads, Playout(t) PROVE Places'
  BY <1>16 DEF Playout
<1>17. ASSUME NEW t \in Threads, ReportDuringSearch(t) PROVE Places'
  BY <1>17 DEF ReportDuringSearch, Push
<1>18. ASSUME NEW t \in Threads, SearchEnds(t) PROVE Places'
  BY <1>18 DEF SearchEnds
<1>19. ASSUME NEW t \in Threads, LaunchKilled(t) PROVE Places'
  BY <1>19 DEF LaunchKilled
<1>20. CASE UNCHANGED vars
  BY <1>20 DEF vars
<1>21. QED
  BY <1>1, <1>2, <1>3, <1>4, <1>5, <1>6, <1>7, <1>8, <1>9, <1>10, <1>11,
     <1>12, <1>13, <1>14, <1>15, <1>16, <1>17, <1>18, <1>19, <1>20
     DEF Next, Input, MainStep, Closing, AnalysisThread, BotThread

\* Every step keeps Work.
LEMMA WorkNext == Types /\ Places /\ Work /\ Statuses /\ [Next]_vars => Work'
<1> SUFFICES ASSUME Types, Places, Work, Statuses, [Next]_vars PROVE Work'
  OBVIOUS
<1> USE DEF Work, Locked, analyze, write, main, thread, bots, out
<1>1. ASSUME NEW n \in 1 .. MaxRequests, Query(n) PROVE Work'
  <2>1. PICK N \in SUBSET (Nat \ {0}) :
           /\ N # {} /\ N \cap Made = {}
           /\ mTodo' = N /\ mPc' = "queueing"
           /\ UNCHANGED <<toAnalyzeQueue, tRequest>>
    BY <1>1, Queried
  <2>2. \A t \in Threads : tRequest[t] \notin N
    BY <2>1 DEF Places, None
  <2>3. N \cap toAnalyzeQueue = {}
    BY <2>1 DEF Places
  <2>4. QED
    BY <2>1, <2>2, <2>3
<1>2. CASE Queue
  BY <1>2 DEF Queue
<1>3. ASSUME NEW R \in (SUBSET open) \ {{}}, Terminate(R) PROVE Work'
  <2>1. R \subseteq open /\ R # {}
    OBVIOUS
  <2>2. mTodo' = R /\ mPc' = "terminating" /\ open' = open
    BY <1>3 DEF Terminate
  <2>3. QED
    BY <2>1, <2>2
<1>4. CASE TerminateRequest
  BY <1>4 DEF TerminateRequest, Terminated, Push, PushNothing
<1>5. CASE StopItsBot
  BY <1>5 DEF StopItsBot, Terminated
<1>6. CASE Closing
  BY <1>6 DEF Closing, EndOfInput, CloseAnalyze, CloseWrite, StopBots, KillBots, Join
<1>7. CASE Writer
  BY <1>7 DEF Writer
<1>8. ASSUME NEW t \in Threads, WaitPop(t) PROVE Work'
  <2>1. mPc = "queueing" => \A u \in Threads : tRequest'[u] \notin mTodo
    BY <1>8 DEF WaitPop, To, Types
  <2>2. toAnalyzeQueue' \subseteq toAnalyzeQueue /\ UNCHANGED <<open, mTodo, mPc, quitWithoutWaiting>>
    BY <1>8 DEF WaitPop
  <2>3. QED
    BY <2>1, <2>2
<1>9. ASSUME NEW t \in Threads, Claim(t) PROVE Work'
  BY <1>9 DEF Claim, To
<1>10. ASSUME NEW t \in Threads, LaunchSearch(t) PROVE Work'
  BY <1>10 DEF LaunchSearch, To
<1>11. ASSUME NEW t \in Threads, SearchReturned(t) PROVE Work'
  BY <1>11 DEF SearchReturned, To
<1>12. ASSUME NEW t \in Threads, Report(t) PROVE Work'
  BY <1>12 DEF Report, To, Push, PushNothing
<1>13. ASSUME NEW t \in Threads, Erase(t) PROVE Work'
  BY <1>13 DEF Erase, To
<1>14. ASSUME NEW t \in Threads, DeleteRequest(t) PROVE Work'
  <2>1. None \notin mTodo
    BY DEF Places, Made, None
  <2>2. \A u \in Threads : tRequest'[u] \in {None, tRequest[u]}
    BY <1>14 DEF DeleteRequest, Types
  <2>3. UNCHANGED <<open, mTodo, mPc, toAnalyzeQueue, quitWithoutWaiting>>
    BY <1>14 DEF DeleteRequest
  <2>4. QED
    BY <2>1, <2>2, <2>3
<1>15. ASSUME NEW t \in Threads, SearchBegun(t) PROVE Work'
  BY <1>15 DEF SearchBegun
<1>16. ASSUME NEW t \in Threads, Playout(t) PROVE Work'
  BY <1>16 DEF Playout
<1>17. ASSUME NEW t \in Threads, ReportDuringSearch(t) PROVE Work'
  BY <1>17 DEF ReportDuringSearch, Push
<1>18. ASSUME NEW t \in Threads, SearchEnds(t) PROVE Work'
  BY <1>18 DEF SearchEnds
<1>19. ASSUME NEW t \in Threads, LaunchKilled(t) PROVE Work'
  BY <1>19 DEF LaunchKilled
<1>20. CASE UNCHANGED vars
  BY <1>20 DEF vars
<1>21. QED
  BY <1>1, <1>2, <1>3, <1>4, <1>5, <1>6, <1>7, <1>8, <1>9, <1>10, <1>11,
     <1>12, <1>13, <1>14, <1>15, <1>16, <1>17, <1>18, <1>19, <1>20
     DEF Next, Input, MainStep, Closing, AnalysisThread, BotThread

\* Launching a search changes neither the status of a request nor who holds which.
LEMMA LaunchKeepsStatuses ==
    ASSUME Types, Statuses, NEW t \in Threads, LaunchSearch(t)
    PROVE  Statuses'
<1>1. tPc[t] = "launch" /\ bPc[t] = "idle"
  BY DEF LaunchSearch, Statuses
<1>2. /\ status' = status /\ open' = open /\ mPc' = mPc /\ mTodo' = mTodo /\ mBot' = mBot
      /\ tRequest' = tRequest
  BY DEF LaunchSearch, main, thread
<1>3. \A u \in Threads : u # t => tPc'[u] = tPc[u] /\ bPc'[u] = bPc[u]
  BY DEF LaunchSearch, To, Types
<1>4. \/ tPc'[t] = "report" /\ bPc'[t] = "idle"
      \/ tPc'[t] = "searching" /\ bPc'[t] = "launched"
  BY <1>1 DEF LaunchSearch, To, Types
<1>5. Made' = Made
  BY <1>2 DEF Made
<1>6. \A u \in Threads : /\ tPc'[u] = "launch" \/ bPc'[u] = "launched" => tPc[u] = "launch" \/ bPc[u] = "launched"
                         /\ bPc'[u] # "idle" => tPc'[u] = "searching"
  BY <1>1, <1>3, <1>4 DEF Statuses
<1>7. \A u \in Threads : tPc'[u] = "launch" \/ bPc'[u] = "launched" => status[tRequest[u]] \in {POPPED, TERMINATED}
  BY <1>6 DEF Statuses
<1> QED
  BY <1>2, <1>5, <1>6, <1>7 DEF Statuses

\* Every step keeps Statuses.
LEMMA StatusesNext == Types /\ Places /\ Work /\ Statuses /\ [Next]_vars => Statuses'
<1> SUFFICES ASSUME Types, Places, Work, Statuses, [Next]_vars PROVE Statuses'
  OBVIOUS
<1> USE DEF Types, Places, Statuses, Made, Serving, None, analyze, write, main, thread, bots, out
<1>1. ASSUME NEW n \in 1 .. MaxRequests, Query(n) PROVE Statuses'
  <2> HIDE DEF Made
  <2>1. PICK N \in SUBSET (Nat \ {0}) :
           /\ N \cap Made = {} /\ Made' = Made \cup N
           /\ \A r \in Made : status'[r] = status[r]
           /\ \A r \in N : status'[r] = IN_QUEUE
           /\ open' = open \cup N /\ mPc' = "queueing"
           /\ UNCHANGED <<tPc, tRequest, bPc>>
    BY <1>1, Queried
  <2>2. IN_QUEUE \notin Threads
    BY Names
  <2>3. \A u \in Threads : tPc[u] = "launch" \/ bPc[u] = "launched" => tRequest[u] \in Made
    OBVIOUS
  <2>4. \A r \in Made' : status'[r] \in Threads /\ r \in open' => tRequest[status'[r]] = r
    BY <2>1, <2>2
  <2>5. QED
    BY <2>1, <2>3, <2>4
<1>2. CASE Queue
  BY <1>2 DEF Queue
<1>3. ASSUME NEW R \in (SUBSET open) \ {{}}, Terminate(R) PROVE Statuses'
  BY <1>3 DEF Terminate
<1>4. CASE TerminateRequest
  <2> HIDE DEF Made
  <2> DEFINE r == First(mTodo)
  <2>1. r \in mTodo /\ r \in Made /\ r \in open
    BY <1>4, TerminateChanges
  <2>2. TERMINATED \in Values /\ TERMINATED \notin Threads
    BY Names DEF Values
  <2>3. UNCHANGED <<open, tPc, tRequest, bPc>>
    BY <1>4 DEF TerminateRequest
  <2>4. Made' = Made /\ \A q \in Made : status'[q] = IF q = r THEN TERMINATED ELSE status[q]
    BY <1>4, TerminateChanges
  <2>5. mPc' = "stopping" => mTodo' = mTodo /\ mBot' = status[r] /\ status[r] \in Threads
    BY <1>4 DEF TerminateRequest, Terminated
  <2> HIDE DEF r
  <2>6. mPc' = "stopping" => tRequest[mBot'] = r
    BY <2>1, <2>5
  <2>7. \A u \in Threads : tPc[u] = "launch" \/ bPc[u] = "launched" => tRequest[u] \in Made
    OBVIOUS
  <2>8. \A q \in Made' : status'[q] \in Threads /\ q \in open' => tRequest'[status'[q]] = q
    BY <2>2, <2>3, <2>4
  <2>9. \A u \in Threads : tPc'[u] = "launch" \/ bPc'[u] = "launched"
                             => status'[tRequest'[u]] \in {POPPED, TERMINATED}
    BY <2>3, <2>4, <2>7
  <2>10. mPc' = "stopping" => /\ mBot' \in Threads /\ tRequest'[mBot'] = First(mTodo')
                              /\ status'[First(mTodo')] = TERMINATED
    BY <2>1, <2>3, <2>4, <2>5, <2>6 DEF r
  <2>11. QED
    BY <2>3, <2>8, <2>9, <2>10
<1>5. CASE StopItsBot
  BY <1>5 DEF StopItsBot, Terminated
<1>6. CASE Closing
  BY <1>6 DEF Closing, EndOfInput, CloseAnalyze, CloseWrite, StopBots, KillBots, Join
<1>7. CASE Writer
  BY <1>7 DEF Writer
<1>8. ASSUME NEW t \in Threads, WaitPop(t) PROVE Statuses'
  <2> HIDE DEF Made
  <2>1. tPc[t] = "waitPop" /\ tRequest[t] = None /\ bPc[t] = "idle"
    BY <1>8 DEF WaitPop
  <2>2. UNCHANGED <<status, open, mPc, mTodo, mBot, bPc>>
    BY <1>8 DEF WaitPop
  <2>3. \A u \in Threads : u # t => tRequest'[u] = tRequest[u] /\ tPc'[u] = tPc[u]
    BY <1>8 DEF WaitPop, To
  <2>4. tPc'[t] \in {"waitPop", "done", "popped"}
    BY <1>8, <2>1 DEF WaitPop, To
  <2>5. \A r \in Made : status[r] = t => r \notin open
    BY <2>1 DEF Made
  <2>6. mPc = "stopping" => mBot # t
    BY <2>1, FirstTodo DEF Work, Locked
  <2>7. Made' = Made
    BY <2>2 DEF Made
  <2>8. QED
    BY <2>1, <2>2, <2>3, <2>4, <2>5, <2>6, <2>7
<1>9. ASSUME NEW t \in Threads, Claim(t) PROVE Statuses'
  <2> HIDE DEF Made
  <2> DEFINE r == tRequest[t]
  <2>1. tPc[t] = "popped" /\ r \in Made /\ bPc[t] = "idle"
    BY <1>9 DEF Claim
  <2>2. UNCHANGED <<open, mPc, mTodo, mBot, bPc, tRequest>>
    BY <1>9 DEF Claim
  <2>3. \A u \in Threads : u # t => tPc'[u] = tPc[u]
    BY <1>9 DEF Claim, To
  <2>4. POPPED \in Values /\ POPPED \notin Threads /\ IN_QUEUE # TERMINATED
    BY Names DEF Values, IN_QUEUE, TERMINATED
  <2>5. CASE status[r] # IN_QUEUE
    <3>1. UNCHANGED status /\ tPc'[t] = "clear"
      BY <1>9, <2>5 DEF Claim, To
    <3>2. QED
      BY <2>1, <2>2, <2>3, <3>1 DEF Made
  <2>6. CASE status[r] = IN_QUEUE
    <3>1. tPc'[t] = "launch"
      BY <1>9, <2>6 DEF Claim, To
    <3>2. Made' = Made /\ \A q \in Made : status'[q] = IF q = r THEN POPPED ELSE status[q]
      BY <1>9, <2>6, ClaimChanges
    <3>3. mPc = "stopping" => First(mTodo) # r /\ First(mTodo) \in Made
      BY <2>4, <2>6, FirstTodo DEF Work, Locked
    <3>4. \A u \in Threads : tPc[u] = "launch" \/ bPc[u] = "launched" => tRequest[u] \in Made
      OBVIOUS
    <3> HIDE DEF r
    <3>5. \A u \in Threads : tPc'[u] = "launch" \/ bPc'[u] = "launched"
                               => status'[tRequest'[u]] \in {POPPED, TERMINATED}
      BY <2>1, <2>2, <2>3, <3>2, <3>4 DEF r
    <3>6. \A q \in Made' : status'[q] \in Threads /\ q \in open' => tRequest'[status'[q]] = q
      <4> TAKE q \in Made'
      <4> HAVE status'[q] \in Threads /\ q \in open'
      <4>1. q \in Made /\ q # r /\ status'[q] = status[q]
        BY <2>4, <3>2
      <4>2. tRequest[status[q]] = q
        BY <2>2, <4>1
      <4> QED
        BY <2>2, <4>1, <4>2
    <3>7. QED
      BY <2>1, <2>2, <2>3, <3>2, <3>3, <3>5, <3>6
  <2>7. QED
    BY <2>5, <2>6
<1>10. ASSUME NEW t \in Threads, LaunchSearch(t) PROVE Statuses'
  <2> HIDE DEF Types, Statuses
  <2> QED
    BY <1>10, LaunchKeepsStatuses
<1>11. ASSUME NEW t \in Threads, SearchReturned(t) PROVE Statuses'
  BY <1>11 DEF SearchReturned, To
<1>12. ASSUME NEW t \in Threads, Report(t) PROVE Statuses'
  BY <1>12 DEF Report, To, Push, PushNothing
<1>13. ASSUME NEW t \in Threads, Erase(t) PROVE Statuses'
  BY <1>13 DEF Erase, To
<1>14. ASSUME NEW t \in Threads, DeleteRequest(t) PROVE Statuses'
  <2> HIDE DEF Made
  <2>1. tPc[t] = "delete" /\ bPc[t] = "idle" /\ tRequest[t] \notin open
    BY <1>14 DEF DeleteRequest
  <2>2. UNCHANGED <<status, open, mPc, mTodo, mBot, bPc>>
    BY <1>14 DEF DeleteRequest
  <2>3. \A u \in Threads : u # t => tRequest'[u] = tRequest[u] /\ tPc'[u] = tPc[u]
    BY <1>14 DEF DeleteRequest, To
  <2>4. tPc'[t] = "waitPop"
    BY <1>14 DEF DeleteRequest, To
  <2>5. \A r \in Made : status[r] = t => r \notin open
    BY <2>1
  <2>6. mPc = "stopping" => mBot # t
    BY <2>1, FirstTodo DEF Work, Locked
  <2>7. Made' = Made
    BY <2>2 DEF Made
  <2>8. QED
    BY <2>1, <2>2, <2>3, <2>4, <2>5, <2>6, <2>7
<1>15. ASSUME NEW t \in Threads, SearchBegun(t) PROVE Statuses'
  <2> HIDE DEF Made
  <2> DEFINE r == tRequest[t]
  <2>1. bPc[t] = "launched" /\ tPc[t] = "searching" /\ r \in Made
    BY <1>15 DEF SearchBegun
  <2>2. UNCHANGED <<open, mPc, mTodo, mBot, tPc, tRequest>>
    BY <1>15 DEF SearchBegun
  <2>3. bPc'[t] = "searching" /\ \A u \in Threads : u # t => bPc'[u] = bPc[u]
    BY <1>15 DEF SearchBegun
  <2>4. CASE status[r] # POPPED
    <3>1. UNCHANGED status
      BY <1>15, <2>4 DEF SearchBegun
    <3>2. QED
      BY <2>1, <2>2, <2>3, <3>1 DEF Made
  <2>5. CASE status[r] = POPPED
    <3>2. Made' = Made /\ \A q \in Made : status'[q] = IF q = r THEN t ELSE status[q]
      BY <1>15, <2>5, BeginChanges
    <3>3. mPc = "stopping" => First(mTodo) # r /\ First(mTodo) \in Made
      BY <2>5, FirstTodo DEF Work, Locked, POPPED, TERMINATED
    <3>4. \A u \in Threads : tPc[u] = "launch" \/ bPc[u] = "launched"
                               => tRequest[u] \in Made /\ (u # t => tRequest[u] # r)
      BY <2>1
    <3>5. \A u \in Threads : tPc'[u] = "launch" \/ bPc'[u] = "launched"
                               => status'[tRequest'[u]] \in {POPPED, TERMINATED}
      BY <2>1, <2>2, <2>3, <3>2, <3>4
    <3>6. \A q \in Made' : status'[q] \in Threads /\ q \in open' => tRequest'[status'[q]] = q
      BY <2>2, <3>2
    <3>7. QED
      BY <2>1, <2>2, <2>3, <3>2, <3>3, <3>5, <3>6
  <2>6. QED
    BY <2>4, <2>5
<1>16. ASSUME NEW t \in Threads, Playout(t) PROVE Statuses'
  BY <1>16 DEF Playout
<1>17. ASSUME NEW t \in Threads, ReportDuringSearch(t) PROVE Statuses'
  BY <1>17 DEF ReportDuringSearch, Push
<1>18. ASSUME NEW t \in Threads, SearchEnds(t) PROVE Statuses'
  BY <1>18 DEF SearchEnds
<1>19. ASSUME NEW t \in Threads, LaunchKilled(t) PROVE Statuses'
  BY <1>19 DEF LaunchKilled
<1>20. CASE UNCHANGED vars
  BY <1>20 DEF vars
<1>21. QED
  BY <1>1, <1>2, <1>3, <1>4, <1>5, <1>6, <1>7, <1>8, <1>9, <1>10, <1>11,
     <1>12, <1>13, <1>14, <1>15, <1>16, <1>17, <1>18, <1>19, <1>20
     DEF Next, Input, MainStep, Closing, AnalysisThread, BotThread

\* Every step keeps Stops.
LEMMA StopsNext == Types /\ Places /\ Work /\ Statuses /\ Stops /\ [Next]_vars => Stops'
<1> SUFFICES ASSUME Types, Places, Work, Statuses, Stops, [Next]_vars PROVE Stops'
  OBVIOUS
<1> USE DEF Types, Places, Stops, Quitting, analyze, write, main, thread, bots, out
<1>1. ASSUME NEW n \in 1 .. MaxRequests, Query(n) PROVE Stops'
  <2>1. PICK N \in SUBSET (Nat \ {0}) :
           /\ \A r \in Made : status'[r] = status[r]
           /\ mPc = "reading" /\ UNCHANGED <<tRequest, bPc, stop>>
    BY <1>1, Queried
  <2>2. \A u \in Threads : bPc[u] # "idle" => tRequest[u] \in Made
    BY DEF Statuses, Serving
  <2>3. QED
    BY <2>1, <2>2
<1>2. CASE Queue
  BY <1>2 DEF Queue
<1>3. ASSUME NEW R \in (SUBSET open) \ {{}}, Terminate(R) PROVE Stops'
  BY <1>3 DEF Terminate
<1>4. CASE TerminateRequest
  BY <1>4 DEF TerminateRequest, Terminated, Push, PushNothing
<1>5. CASE StopItsBot
  <2>1. mPc = "stopping" /\ mBot \in Threads /\ status[tRequest[mBot]] = TERMINATED
    BY <1>5 DEF StopItsBot, Statuses
  <2>2. UNCHANGED <<status, tRequest, bPc, quitWithoutWaiting>>
        /\ stop' = [stop EXCEPT ![mBot] = TRUE]
    BY <1>5 DEF StopItsBot
  <2>3. \A u \in Threads : u # mBot => stop'[u] = stop[u]
    BY <2>2
  <2>4. QED
    BY <2>1, <2>2, <2>3
<1>6. CASE Closing
  <2>1. CASE EndOfInput
    BY <2>1 DEF EndOfInput
  <2>2. CASE CloseAnalyze
    BY <2>2 DEF CloseAnalyze
  <2>3. CASE CloseWrite
    BY <2>3 DEF CloseWrite
  <2>4. CASE StopBots
    BY <2>4 DEF StopBots, Work
  <2>5. CASE KillBots
    BY <2>5 DEF KillBots, Work
  <2>6. CASE Join
    BY <2>6 DEF Join
  <2>7. QED
    BY <1>6, <2>1, <2>2, <2>3, <2>4, <2>5, <2>6 DEF Closing
<1>7. CASE Writer
  BY <1>7 DEF Writer
<1>8. ASSUME NEW t \in Threads, WaitPop(t) PROVE Stops'
  <2>1. tPc[t] = "waitPop" /\ bPc[t] = "idle"
    BY <1>8 DEF WaitPop, Statuses
  <2>2. UNCHANGED <<status, mPc, quitWithoutWaiting, bPc, stop>>
    BY <1>8 DEF WaitPop
  <2>3. \A u \in Threads : u # t => tRequest'[u] = tRequest[u]
    BY <1>8 DEF WaitPop
  <2>4. QED
    BY <2>1, <2>2, <2>3
<1>9. ASSUME NEW t \in Threads, Claim(t) PROVE Stops'
  <2>1. tPc[t] = "popped" /\ bPc[t] = "idle" /\ tRequest[t] \in Made
    BY <1>9 DEF Claim, Statuses, Serving
  <2>2. UNCHANGED <<mPc, quitWithoutWaiting, bPc, stop, tRequest>>
    BY <1>9 DEF Claim
  <2>3. \A u \in Threads : bPc[u] # "idle" => tRequest[u] \in Made /\ tRequest[u] # tRequest[t]
    BY <2>1 DEF Statuses, Serving
  <2>4. \A q \in Made : q # tRequest[t] => status'[q] = status[q]
    <3>1. CASE status' = [status EXCEPT ![tRequest[t]] = POPPED]
      BY <2>1, <3>1, Changed DEF Values
    <3>2. CASE UNCHANGED status
      BY <3>2
    <3>3. QED
      BY <1>9, <3>1, <3>2 DEF Claim
  <2>5. QED
    BY <2>2, <2>3, <2>4
<1>10. ASSUME NEW t \in Threads, LaunchSearch(t) PROVE Stops'
  BY <1>10 DEF LaunchSearch, To
<1>11. ASSUME NEW t \in Threads, SearchReturned(t) PROVE Stops'
  BY <1>11 DEF SearchReturned, To
<1>12. ASSUME NEW t \in Threads, Report(t) PROVE Stops'
  BY <1>12 DEF Report, To, Push, PushNothing
<1>13. ASSUME NEW t \in Threads, Erase(t) PROVE Stops'
  BY <1>13 DEF Erase, To
<1>14. ASSUME NEW t \in Threads, DeleteRequest(t) PROVE Stops'
  <2>1. tPc[t] = "delete" /\ bPc[t] = "idle"
    BY <1>14 DEF DeleteRequest, Statuses
  <2>2. UNCHANGED <<status, mPc, quitWithoutWaiting, bPc, stop>>
    BY <1>14 DEF DeleteRequest
  <2>3. \A u \in Threads : u # t => tRequest'[u] = tRequest[u]
    BY <1>14 DEF DeleteRequest
  <2>4. QED
    BY <2>1, <2>2, <2>3
<1>15. ASSUME NEW t \in Threads, SearchBegun(t) PROVE Stops'
  <2>1. bPc[t] = "launched" /\ tRequest[t] \in Made
        /\ status[tRequest[t]] \in {POPPED, TERMINATED}
    BY <1>15 DEF SearchBegun, Statuses, Serving
  <2>2. UNCHANGED <<mPc, quitWithoutWaiting, tRequest>>
        /\ \A u \in Threads : u # t => bPc'[u] = bPc[u] /\ stop'[u] = stop[u]
    BY <1>15 DEF SearchBegun
  <2>3. \A u \in Threads : u # t /\ bPc[u] # "idle"
                             => tRequest[u] \in Made /\ tRequest[u] # tRequest[t]
    BY DEF Statuses, Serving
  <2>4. CASE status[tRequest[t]] = POPPED
    <3>1. status' = [status EXCEPT ![tRequest[t]] = t] /\ stop' = stop /\ t \in Values
      BY <1>15, <2>4 DEF SearchBegun, Values
    <3>2. \A q \in Made : q # tRequest[t] => status'[q] = status[q]
      BY <2>1, <3>1, Changed
    <3>3. stop[t] => Quitting
      BY <2>1, <2>4 DEF POPPED, TERMINATED
    <3>4. QED
      BY <2>2, <2>3, <3>1, <3>2, <3>3
  <2>5. CASE status[tRequest[t]] # POPPED
    <3>1. UNCHANGED status
      BY <1>15, <2>5 DEF SearchBegun
    <3>2. QED
      BY <2>1, <2>2, <2>3, <2>5, <3>1
  <2>6. QED
    BY <2>4, <2>5
<1>16. ASSUME NEW t \in Threads, Playout(t) PROVE Stops'
  BY <1>16 DEF Playout
<1>17. ASSUME NEW t \in Threads, ReportDuringSearch(t) PROVE Stops'
  BY <1>17 DEF ReportDuringSearch, Push
<1>18. ASSUME NEW t \in Threads, SearchEnds(t) PROVE Stops'
  BY <1>18 DEF SearchEnds
<1>19. ASSUME NEW t \in Threads, LaunchKilled(t) PROVE Stops'
  BY <1>19 DEF LaunchKilled
<1>20. CASE UNCHANGED vars
  BY <1>20 DEF vars
<1>21. QED
  BY <1>1, <1>2, <1>3, <1>4, <1>5, <1>6, <1>7, <1>8, <1>9, <1>10, <1>11,
     <1>12, <1>13, <1>14, <1>15, <1>16, <1>17, <1>18, <1>19, <1>20
     DEF Next, Input, MainStep, Closing, AnalysisThread, BotThread

\* Every step keeps Answers.
LEMMA AnswersNext == Types /\ Places /\ Statuses /\ Answers /\ [Next]_vars => Answers'
<1> SUFFICES ASSUME Types, Places, Statuses, Answers, [Next]_vars PROVE Answers'
  OBVIOUS
<1> USE DEF Types, Places, Answers, Serving, analyze, write, main, thread, bots, out
<1>1. ASSUME NEW n \in 1 .. MaxRequests, Query(n) PROVE Answers'
  BY <1>1 DEF Query
<1>2. CASE Queue
  BY <1>2 DEF Queue
<1>3. ASSUME NEW R \in (SUBSET open) \ {{}}, Terminate(R) PROVE Answers'
  BY <1>3 DEF Terminate
<1>4. CASE TerminateRequest
  BY <1>4 DEF TerminateRequest, Terminated, Push, PushNothing
<1>5. CASE StopItsBot
  BY <1>5 DEF StopItsBot, Terminated
<1>6. CASE Closing
  BY <1>6 DEF Closing, EndOfInput, CloseAnalyze, CloseWrite, StopBots, KillBots, Join
<1>7. CASE Writer
  BY <1>7 DEF Writer
<1>8. ASSUME NEW t \in Threads, WaitPop(t) PROVE Answers'
  BY <1>8 DEF WaitPop, To
<1>9. ASSUME NEW t \in Threads, Claim(t) PROVE Answers'
  <2>1. tPc[t] = "popped"
    BY <1>9 DEF Claim
  <2>2. UNCHANGED <<freed, moved, tRequest, bPc>>
    BY <1>9 DEF Claim
  <2>3. \A u \in Threads : u # t => tPc'[u] = tPc[u]
    BY <1>9 DEF Claim, To
  <2>4. QED
    BY <2>1, <2>2, <2>3
<1>10. ASSUME NEW t \in Threads, LaunchSearch(t) PROVE Answers'
  BY <1>10 DEF LaunchSearch, To
<1>11. ASSUME NEW t \in Threads, SearchReturned(t) PROVE Answers'
  BY <1>11 DEF SearchReturned, To
<1>12. ASSUME NEW t \in Threads, Report(t) PROVE Answers'
  BY <1>12 DEF Report, To, Push, PushNothing
<1>13. ASSUME NEW t \in Threads, Erase(t) PROVE Answers'
  BY <1>13 DEF Erase, To
<1>14. ASSUME NEW t \in Threads, DeleteRequest(t) PROVE Answers'
  BY <1>14 DEF DeleteRequest, To
<1>15. ASSUME NEW t \in Threads, SearchBegun(t) PROVE Answers'
  BY <1>15 DEF SearchBegun
<1>16. ASSUME NEW t \in Threads, Playout(t) PROVE Answers'
  BY <1>16 DEF Playout
<1>17. ASSUME NEW t \in Threads, ReportDuringSearch(t) PROVE Answers'
  BY <1>17 DEF ReportDuringSearch, Push
<1>18. ASSUME NEW t \in Threads, SearchEnds(t) PROVE Answers'
  <2>1. tPc[t] = "searching" /\ bPc[t] = "searching"
    BY <1>18 DEF SearchEnds, Statuses
  <2>2. UNCHANGED <<freed, tPc, tRequest>>
    BY <1>18 DEF SearchEnds
  <2>3. /\ bPc'[t] = "idle" /\ moved'[t] = moved[t] \cup {tRequest[t]}
        /\ \A u \in Threads : u # t => bPc'[u] = bPc[u] /\ moved'[u] = moved[u]
    BY <1>18 DEF SearchEnds
  <2>4. SUFFICES ASSUME NEW u \in Threads, NEW i \in moved'[u], i \notin freed'
                 PROVE  /\ i = tRequest'[u]
                        /\ \/ tPc'[u] \in {"report", "clear", "delete"}
                           \/ tPc'[u] = "searching" /\ bPc'[u] = "idle"
    OBVIOUS
  <2>5. CASE u = t
    <3>1. i \notin moved[t]
      BY <2>1, <2>2, <2>4, <2>5
    <3>2. i = tRequest[t]
      BY <2>3, <2>5, <3>1
    <3>3. QED
      BY <2>1, <2>2, <2>3, <2>5, <3>2
  <2>6. CASE u # t
    BY <2>2, <2>3, <2>4, <2>6
  <2>7. QED
    BY <2>5, <2>6
<1>19. ASSUME NEW t \in Threads, LaunchKilled(t) PROVE Answers'
  BY <1>19 DEF LaunchKilled
<1>20. CASE UNCHANGED vars
  BY <1>20 DEF vars
<1>21. QED
  BY <1>1, <1>2, <1>3, <1>4, <1>5, <1>6, <1>7, <1>8, <1>9, <1>10, <1>11,
     <1>12, <1>13, <1>14, <1>15, <1>16, <1>17, <1>18, <1>19, <1>20
     DEF Next, Input, MainStep, Closing, AnalysisThread, BotThread

\* Every step keeps the inductive invariant.
LEMMA InvNext == IInv /\ [Next]_vars => IInv'
BY TypesNext, PlacesNext, WorkNext, StatusesNext, StopsNext, AnswersNext DEF IInv

\* Every behaviour keeps the inductive invariant.
LEMMA Invariant == Spec => []IInv
BY InvInit, InvNext, PTL DEF Spec

\* No thread looks at a request another one deleted, for any number of threads,
\* queries and terminate actions.
THEOREM LiveRequestsHold == Spec => []LiveRequests
<1>1. IInv => LiveRequests
  <2> SUFFICES ASSUME IInv PROVE LiveRequests
    OBVIOUS
  <2>1. freed \cap (open \cup toAnalyzeQueue \cup mTodo) = {}
    BY DEF IInv, Places
  <2>2. \A t \in Threads : tRequest[t] \notin freed
    BY DEF IInv, Places, Made, None
  <2>3. QED
    BY <2>1, <2>2 DEF LiveRequests
<1>2. QED
  BY <1>1, Invariant, PTL

\* A stop a bot still sees while it searches is for the request it searches.
THEOREM StopsHitTheirOwn == Spec => []StopHitsItsOwn
<1>1. IInv => StopHitsItsOwn
  BY DEF IInv, Stops, StopHitsItsOwn
<1>2. QED
  BY <1>1, Invariant, PTL

----------------------------------------------------------------------------
(* Each bot is used the way SearchBot allows *)

LEMMA BotsInit == Init => \A t \in Threads : Bot(t)!Init
BY DEF Init, Bot!Init, Bot!NoJob, None

\* A bot a step leaves alone.
Same(u) ==
  /\ bPc'[u] = bPc[u] /\ stop'[u] = stop[u] /\ killed'[u] = killed[u] /\ moved'[u] = moved[u]
  /\ bPc[u] # "idle" => tRequest'[u] = tRequest[u]

LEMMA SameStutters == ASSUME NEW u \in Threads, Same(u) PROVE UNCHANGED Bot(u)!vars
BY DEF Same, Bot!vars

\* The steps that leave every bot alone.
LEMMA MainLeavesBots ==
  ASSUME IInv, [Next]_vars,
         (\E n \in 1 .. MaxRequests : Query(n)) \/ (\E R \in (SUBSET open) \ {{}} : Terminate(R))
           \/ Queue \/ TerminateRequest \/ EndOfInput \/ CloseAnalyze \/ CloseWrite \/ Join
           \/ Writer \/ UNCHANGED vars
  PROVE  \A u \in Threads : Same(u)
<1>1. UNCHANGED <<bPc, stop, killed, moved, tRequest>>
  BY DEF Query, Terminate, Queue, TerminateRequest, EndOfInput, CloseAnalyze, CloseWrite, Join,
     Writer, bots, thread, vars
<1>2. QED
  BY <1>1 DEF Same

LEMMA ThreadLeavesBots ==
  ASSUME IInv, NEW t \in Threads,
         WaitPop(t) \/ Claim(t) \/ SearchReturned(t) \/ Report(t) \/ Erase(t) \/ DeleteRequest(t)
           \/ Playout(t) \/ ReportDuringSearch(t)
  PROVE  \A u \in Threads : Same(u)
<1>1. UNCHANGED <<bPc, stop, killed, moved>>
  BY DEF WaitPop, Claim, SearchReturned, Report, Erase, DeleteRequest, Playout,
     ReportDuringSearch, bots
<1>2. CASE UNCHANGED tRequest
  BY <1>1, <1>2 DEF Same
<1>3. CASE tPc[t] \in {"waitPop", "delete"} /\ \E r : tRequest' = [tRequest EXCEPT ![t] = r]
  <2>1. bPc[t] = "idle"
    BY <1>3 DEF IInv, Statuses
  <2>2. \A u \in Threads : u # t => tRequest'[u] = tRequest[u]
    BY <1>3 DEF IInv, Types
  <2>3. QED
    BY <1>1, <2>1, <2>2 DEF Same
<1>4. UNCHANGED tRequest
      \/ (tPc[t] \in {"waitPop", "delete"} /\ \E r : tRequest' = [tRequest EXCEPT ![t] = r])
  BY DEF WaitPop, Claim, SearchReturned, Report, Erase, DeleteRequest, Playout,
     ReportDuringSearch, thread
<1>5. QED
  BY <1>2, <1>3, <1>4

\* The steps that stop or kill bots.
LEMMA StopSteps ==
  ASSUME IInv, StopItsBot \/ StopBots \/ KillBots, NEW u \in Threads
  PROVE  [Bot(u)!Next]_(Bot(u)!vars)
<1> USE DEF IInv, Types
<1>1. UNCHANGED <<bPc, moved, tRequest>>
  BY DEF StopItsBot, StopBots, KillBots, thread
<1>2. CASE StopItsBot
  <2>1. stop'[u] \in {stop[u], TRUE} /\ killed'[u] = killed[u]
    BY <1>2 DEF StopItsBot
  <2>2. CASE stop'[u] = stop[u]
    BY <1>1, <2>1, <2>2, SameStutters DEF Same
  <2>3. CASE stop'[u] = TRUE
    BY <1>1, <2>1, <2>3 DEF Bot!Next, Bot!Stop
  <2>4. QED
    BY <2>1, <2>2, <2>3
<1>3. CASE StopBots
  BY <1>1, <1>3 DEF StopBots, Bot!Next, Bot!Stop
<1>4. CASE KillBots
  BY <1>1, <1>4 DEF KillBots, Bot!Next, Bot!Kill
<1>5. QED
  BY <1>2, <1>3, <1>4

\* A launch finds the bot idle, with a request the bot has not answered.
LEMMA LaunchSteps ==
  ASSUME IInv, NEW t \in Threads, LaunchSearch(t)
  PROVE  [Bot(t)!Next]_(Bot(t)!vars) /\ \A u \in Threads \ {t} : Same(u)
<1> USE DEF IInv, Types
<1>1. tPc[t] = "launch" /\ bPc[t] = "idle"
  BY DEF LaunchSearch, Statuses
<1>2. \A u \in Threads \ {t} : Same(u)
  BY DEF LaunchSearch, Same
<1>3. tRequest[t] \in Nat \ {0} /\ tRequest[t] \notin moved[t]
  <2>1. tRequest[t] \in Made /\ tRequest[t] \notin freed
    BY <1>1 DEF Places, Serving
  <2>2. QED
    BY <1>1, <2>1 DEF Answers, Made
<1>4. UNCHANGED <<tRequest, killed, moved>>
  BY DEF LaunchSearch
<1>5. CASE killed[t]
  BY <1>4, <1>5, SameStutters DEF LaunchSearch, Same
<1>6. CASE ~killed[t]
  <2>1. bPc'[t] = "launched" /\ stop'[t] = FALSE
    BY <1>6 DEF LaunchSearch
  <2>2. Bot(t)!Launch
    BY <1>1, <1>3, <1>4, <1>6, <2>1 DEF Bot!Launch, Bot!NoJob, None
  <2>3. QED
    BY <1>2, <2>2 DEF Bot!Next
<1>7. QED
  BY <1>2, <1>5, <1>6

\* A search that begins is the job that was launched.
LEMMA BegunStutters ==
  ASSUME NEW t \in Threads, bPc[t] # "idle", bPc'[t] = "searching",
         UNCHANGED <<tRequest, killed>>, moved'[t] = moved[t], stop'[t] = stop[t]
  PROVE  UNCHANGED Bot(t)!vars
BY DEF Bot!vars

LEMMA BegunStops ==
  ASSUME NEW t \in Threads, bPc[t] # "idle", bPc'[t] = "searching",
         UNCHANGED <<tRequest, killed>>, moved'[t] = moved[t], stop'[t] = TRUE
  PROVE  Bot(t)!Next
<1>1. Bot(t)!Stop
  BY DEF Bot!Stop
<1>2. QED
  BY <1>1 DEF Bot!Next

\* The steps of a bot.
LEMMA BotSteps ==
  ASSUME IInv, NEW t \in Threads, SearchBegun(t) \/ SearchEnds(t) \/ LaunchKilled(t)
  PROVE  [Bot(t)!Next]_(Bot(t)!vars) /\ \A u \in Threads \ {t} : Same(u)
<1> USE DEF IInv, Types
<1>1. bPc[t] # "idle" /\ tRequest[t] \in Nat \ {0}
  <2>1. bPc[t] # "idle"
    BY DEF SearchBegun, SearchEnds, LaunchKilled
  <2>2. tRequest[t] \in Made
    BY <2>1 DEF Statuses, Places, Serving
  <2>3. QED
    BY <2>1, <2>2 DEF Made
<1>2. UNCHANGED <<tRequest, killed>>
  BY DEF SearchBegun, SearchEnds, LaunchKilled, thread
<1>3. \A u \in Threads \ {t} : Same(u)
  BY <1>2 DEF SearchBegun, SearchEnds, LaunchKilled, Same
<1>4. CASE SearchBegun(t)
  <2>1. bPc'[t] = "searching" /\ moved'[t] = moved[t] /\ stop'[t] \in {stop[t], TRUE}
    BY <1>4 DEF SearchBegun
  <2>2. CASE stop'[t] = stop[t]
    BY <1>1, <1>2, <1>3, <2>1, <2>2, BegunStutters
  <2>3. CASE stop'[t] = TRUE
    BY <1>1, <1>2, <1>3, <2>1, <2>3, BegunStops
  <2>4. QED
    BY <1>3, <2>1, <2>2, <2>3
<1>5. CASE SearchEnds(t)
  <2>1. bPc'[t] = "idle" /\ moved'[t] = moved[t] \cup {tRequest[t]} /\ stop'[t] = stop[t]
    BY <1>5 DEF SearchEnds
  <2>2. Bot(t)!End
    BY <1>1, <1>2, <2>1 DEF Bot!End, Bot!NoJob, None
  <2>3. QED
    BY <1>3, <2>2 DEF Bot!Next
<1>6. CASE LaunchKilled(t)
  <2>1. bPc'[t] = "idle" /\ moved'[t] = moved[t] /\ stop'[t] = stop[t] /\ killed[t]
    BY <1>6 DEF LaunchKilled
  <2>2. Bot(t)!End
    BY <1>1, <1>2, <2>1 DEF Bot!End, Bot!NoJob, None
  <2>3. QED
    BY <1>3, <2>2 DEF Bot!Next
<1>7. QED
  BY <1>4, <1>5, <1>6

\* The engine uses every bot within its contract, which BotImplements of
\* AsyncBotProofs shows the bot keeps.
THEOREM BotsAreKept == Spec => BotsKept
<1>1. IInv /\ [Next]_vars => \A u \in Threads : [Bot(u)!Next]_(Bot(u)!vars)
  <2> SUFFICES ASSUME IInv, [Next]_vars, NEW u \in Threads PROVE [Bot(u)!Next]_(Bot(u)!vars)
    OBVIOUS
  <2>1. CASE StopItsBot \/ StopBots \/ KillBots
    BY <2>1, StopSteps
  <2>2. ASSUME NEW t \in Threads,
               LaunchSearch(t) \/ SearchBegun(t) \/ SearchEnds(t) \/ LaunchKilled(t)
        PROVE  [Bot(u)!Next]_(Bot(u)!vars)
    <3>1. CASE u = t
      BY <2>2, <3>1, LaunchSteps, BotSteps
    <3>2. CASE u # t
      <4>1. Same(u)
        BY <2>2, <3>2, LaunchSteps, BotSteps
      <4>2. QED
        BY <4>1, SameStutters
    <3>3. QED
      BY <3>1, <3>2
  <2>3. CASE Same(u)
    BY <2>3, SameStutters
  <2>4. \/ Same(u) \/ StopItsBot \/ StopBots \/ KillBots
        \/ \E t \in Threads :
             LaunchSearch(t) \/ SearchBegun(t) \/ SearchEnds(t) \/ LaunchKilled(t)
    BY MainLeavesBots, ThreadLeavesBots
       DEF Next, Input, MainStep, AnalysisThread, BotThread
  <2>5. QED
    BY <2>1, <2>2, <2>3, <2>4
<1>2. IInv /\ [Next]_vars => BotsStep
  BY <1>1 DEF BotsStep
<1>3. Init => BotsStart
  BY BotsInit DEF BotsStart
<1>4. QED
  BY <1>2, <1>3, Invariant, PTL DEF Spec, BotsKept

----------------------------------------------------------------------------
(* Each request gets one final reply, and nothing follows it *)

ReplySet == [id : Nat, isDuringSearch : BOOLEAN]

OutTypes ==
  /\ written \in Seq(ReplySet) /\ toWriteQueue \in Seq(ReplySet)
  /\ found \in [Threads -> BOOLEAN]

\* The final reply of r is still to come: from the terminate action that meets it
\* before a thread does, or from the thread that serves it.
Answering == {"launch", "searching", "report"}
Pending(r) ==
  \/ status[r] = IN_QUEUE
  \/ \E t \in Threads : tRequest[t] = r /\ tPc[t] \in Answering

\* A request a thread has claimed is out of the queue for good, and a search
\* that is over has a result unless it was stopped.
Claimed ==
  /\ \A t \in Threads :
       tPc[t] \in Answering \cup {"clear", "delete"} => status[tRequest[t]] # IN_QUEUE
  /\ \A r \in freed : status[r] # IN_QUEUE

Searched ==
  /\ \A t \in Threads : killed[t] => quitWithoutWaiting
  /\ \A t \in Threads :
       tPc[t] = "report" \/ (tPc[t] = "searching" /\ bPc[t] = "idle") =>
         found[t] \/ status[tRequest[t]] = TERMINATED \/ quitWithoutWaiting

\* The queue of the writer is closed last.
ClosedLast ==
  /\ mPc = "closeWrite" => quitWithoutWaiting
  /\ writeReadOnly /\ ~quitWithoutWaiting =>
       mPc \in {"joinWriter", "ended"} /\ \A t \in Threads : tPc[t] = "done"

\* A request has its final reply when nobody is to write it, and not before; it
\* is the last of its replies.
Replied ==
  /\ \A i \in DOMAIN Replies : Replies[i].id \in Made
  /\ \A r \in Made : \A i \in Final(r) : \A j \in DOMAIN Replies : j > i => Replies[j].id # r
  /\ \A r \in Made : Pending(r) => Final(r) = {}
  /\ \A r \in Made : ~Pending(r) => Final(r) # {} \/ quitWithoutWaiting

RInv == OutTypes /\ Claimed /\ Searched /\ ClosedLast /\ Replied

----------------------------------------------------------------------------
(* What a step does to the replies *)

\* What is said is a sequence of replies.
LEMMA RepliesType == OutTypes => Replies \in Seq(ReplySet)
BY ConcatProperties DEF OutTypes, Replies

\* A push appends to everything said, or is lost because the queue is closed.
LEMMA PushSays ==
  ASSUME OutTypes, NEW m \in ReplySet, Push(m), written' = written
  PROVE  /\ toWriteQueue' \in Seq(ReplySet)
         /\ \/ writeReadOnly /\ Replies' = Replies
            \/ ~writeReadOnly /\ Replies' = Append(Replies, m)
<1> USE DEF OutTypes
<1>1. CASE writeReadOnly
  <2>1. toWriteQueue' = toWriteQueue
    BY <1>1, Zenon DEF Push
  <2>2. Replies' = Replies
    BY <2>1, Zenon DEF Replies
  <2>3. toWriteQueue' \in Seq(ReplySet)
    BY <2>1
  <2> QED
    BY <1>1, <2>2, <2>3
<1>2. CASE ~writeReadOnly
  <2>1. toWriteQueue' = Append(toWriteQueue, m)
    BY <1>2 DEF Push
  <2>2. toWriteQueue' \in Seq(ReplySet)
    BY <2>1, AppendProperties
  <2>3. <<m>> \in Seq(ReplySet)
    OBVIOUS
  <2>4. written \o (toWriteQueue \o <<m>>) = (written \o toWriteQueue) \o <<m>>
    BY <2>3, ConcatAssociative
  <2>5. Append(toWriteQueue, m) = toWriteQueue \o <<m>>
    BY AppendIsConcat
  <2>6. Append(Replies, m) = Replies \o <<m>>
    BY RepliesType, AppendIsConcat
  <2> QED
    BY <1>2, <2>1, <2>2, <2>4, <2>5, <2>6 DEF Replies
<1> QED
  BY <1>1, <1>2

\* The writer moves a reply from the queue to what is written.
LEMMA WriterSaysNothing ==
  ASSUME OutTypes, Writer
  PROVE  written' \in Seq(ReplySet) /\ toWriteQueue' \in Seq(ReplySet) /\ Replies' = Replies
<1> USE DEF OutTypes
<1>1. CASE UNCHANGED <<written, toWriteQueue>>
  BY <1>1 DEF Replies
<1>2. CASE /\ toWriteQueue # <<>>
           /\ written' = Append(written, Head(toWriteQueue)) /\ toWriteQueue' = Tail(toWriteQueue)
  <2> DEFINE h == Head(toWriteQueue)
             q == Tail(toWriteQueue)
  <2>1. h \in ReplySet /\ q \in Seq(ReplySet)
    BY <1>2, HeadTailProperties
  <2>2. <<h>> \in Seq(ReplySet)
    BY <2>1
  <2>3. toWriteQueue = <<h>> \o q
    BY <1>2
  <2>4. (written \o <<h>>) \o q = written \o (<<h>> \o q)
    BY <2>1, <2>2, ConcatAssociative
  <2>5. Append(written, h) = written \o <<h>>
    BY <2>1, AppendIsConcat
  <2>6. Append(written, h) \in Seq(ReplySet)
    BY <2>1, AppendProperties
  <2> QED
    BY <1>2, <2>1, <2>3, <2>4, <2>5, <2>6 DEF Replies
<1> QED
  BY <1>1, <1>2 DEF Writer, out, write

\* Nothing is said, and nobody whose reply was to come loses it.
LEMMA NothingSaid ==
  ASSUME OutTypes, Replied, Replies' = Replies, quitWithoutWaiting' = quitWithoutWaiting,
         Made \subseteq Made', \A r \in Made' \ Made : Pending(r)',
         \A r \in Made : Pending(r)' => Pending(r),
         \A r \in Made : Pending(r) => Pending(r)' \/ quitWithoutWaiting
  PROVE  Replied'
<1> HIDE DEF Pending, Made
<1>1. \A r : Final(r)' = Final(r)
  BY DEF Final
<1>2. \A i \in DOMAIN Replies' : Replies'[i].id \in Made'
  BY DEF Replied
<1>3. \A r \in Made' \ Made : Final(r) = {}
  BY DEF Replied, Final
<1>4. ASSUME NEW r \in Made', NEW i \in Final(r)', NEW j \in DOMAIN Replies', j > i
      PROVE  Replies'[j].id # r
  BY <1>1, <1>3, <1>4 DEF Replied
<1>5. ASSUME NEW r \in Made', Pending(r)' PROVE Final(r)' = {}
  BY <1>1, <1>3, <1>5 DEF Replied
<1>6. ASSUME NEW r \in Made', ~Pending(r)' PROVE Final(r)' # {} \/ quitWithoutWaiting'
  BY <1>1, <1>6 DEF Replied
<1> QED
  BY <1>2, <1>4, <1>5, <1>6 DEF Replied

\* The replies to a request after a reply m is appended.
LEMMA FinalGrows ==
  ASSUME OutTypes, NEW m \in ReplySet, Replies' = Append(Replies, m)
  PROVE  /\ Len(Replies) \in Nat /\ DOMAIN Replies = 1 .. Len(Replies)
         /\ DOMAIN Replies' = 1 .. Len(Replies) + 1
         /\ \A i \in DOMAIN Replies' : i \in DOMAIN Replies \/ i = Len(Replies) + 1
         /\ \A i \in DOMAIN Replies : Replies'[i] = Replies[i]
         /\ Replies'[Len(Replies) + 1] = m
         /\ \A r : Final(r)' = Final(r) \cup
              (IF m.id = r /\ ~m.isDuringSearch THEN {Len(Replies) + 1} ELSE {})
<1>1. Replies \in Seq(ReplySet)
  BY RepliesType
<1>2. /\ Len(Replies) \in Nat /\ DOMAIN Replies = 1 .. Len(Replies)
      /\ DOMAIN Replies' = 1 .. Len(Replies) + 1
      /\ \A i \in DOMAIN Replies : Replies'[i] = Replies[i]
      /\ Replies'[Len(Replies) + 1] = m
  BY <1>1, AppendProperties
<1>3. \A i \in DOMAIN Replies' : i \in DOMAIN Replies \/ i = Len(Replies) + 1
  BY <1>2
<1>4. ASSUME NEW r
      PROVE  Final(r)' = Final(r) \cup
               (IF m.id = r /\ ~m.isDuringSearch THEN {Len(Replies) + 1} ELSE {})
  BY <1>2 DEF Final
<1> QED
  BY <1>2, <1>3, <1>4

\* The final reply of a request whose reply was to come.
LEMMA FinalSaid ==
  ASSUME OutTypes, Replied, NEW r \in Made, r \in Nat, Pending(r), ~Pending(r)',
         Replies' = Append(Replies, Reply(r, FALSE)),
         quitWithoutWaiting' = quitWithoutWaiting, Made' = Made,
         \A q \in Made \ {r} : Pending(q)' <=> Pending(q)
  PROVE  Replied'
<1> HIDE DEF Pending, Made
<1> DEFINE m == Reply(r, FALSE)
<1>0. m \in ReplySet /\ m.id = r /\ ~m.isDuringSearch
  BY DEF Reply, ReplySet
<1>1. /\ Len(Replies) \in Nat /\ DOMAIN Replies = 1 .. Len(Replies)
      /\ \A i \in DOMAIN Replies' : i \in DOMAIN Replies \/ i = Len(Replies) + 1
      /\ \A i \in DOMAIN Replies : Replies'[i] = Replies[i]
      /\ Replies'[Len(Replies) + 1] = m
      /\ \A q : Final(q)' = Final(q) \cup
           (IF m.id = q /\ ~m.isDuringSearch THEN {Len(Replies) + 1} ELSE {})
  BY <1>0, FinalGrows
<1>9. /\ Final(r)' = Final(r) \cup {Len(Replies) + 1}
      /\ \A q \in Made \ {r} : Final(q)' = Final(q)
  BY <1>0, <1>1
<1> HIDE DEF m
<1>2. Final(r) = {}
  BY DEF Replied
<1>3. \A i \in DOMAIN Replies' : Replies'[i].id \in Made'
  BY <1>0, <1>1 DEF Replied
<1>4. ASSUME NEW q \in Made', NEW i \in Final(q)', NEW j \in DOMAIN Replies', j > i
      PROVE  Replies'[j].id # q
  <2>1. CASE q = r
    BY <1>1, <1>9, <1>2, <1>4, <2>1
  <2>2. CASE q # r
    <3>1. i \in Final(q) /\ i \in DOMAIN Replies
      BY <1>1, <1>9, <1>4, <2>2 DEF Final
    <3>2. CASE j \in DOMAIN Replies
      BY <1>1, <1>4, <3>1, <3>2 DEF Replied
    <3>3. CASE j = Len(Replies) + 1
      BY <1>0, <1>1, <2>2, <3>3
    <3> QED
      BY <1>1, <3>2, <3>3
  <2> QED
    BY <2>1, <2>2
<1>5. ASSUME NEW q \in Made', Pending(q)' PROVE Final(q)' = {}
  BY <1>1, <1>9, <1>5 DEF Replied
<1>6. ASSUME NEW q \in Made', ~Pending(q)' PROVE Final(q)' # {} \/ quitWithoutWaiting'
  BY <1>1, <1>9, <1>6 DEF Replied
<1> QED
  BY <1>3, <1>4, <1>5, <1>6 DEF Replied

\* A reply during the search of a request.
LEMMA DuringSaid ==
  ASSUME OutTypes, Replied, NEW r \in Made, r \in Nat, Pending(r),
         Replies' = Append(Replies, Reply(r, TRUE)),
         quitWithoutWaiting' = quitWithoutWaiting, Made' = Made,
         \A q \in Made : Pending(q)' <=> Pending(q)
  PROVE  Replied'
<1> HIDE DEF Pending, Made
<1> DEFINE m == Reply(r, TRUE)
<1>0. m \in ReplySet /\ m.id = r /\ m.isDuringSearch
  BY DEF Reply, ReplySet
<1>1. /\ Len(Replies) \in Nat /\ DOMAIN Replies = 1 .. Len(Replies)
      /\ \A i \in DOMAIN Replies' : i \in DOMAIN Replies \/ i = Len(Replies) + 1
      /\ \A i \in DOMAIN Replies : Replies'[i] = Replies[i]
      /\ Replies'[Len(Replies) + 1] = m
      /\ \A q \in Made : Final(q)' = Final(q)
  BY <1>0, FinalGrows
<1> HIDE DEF m
<1>2. Final(r) = {}
  BY DEF Replied
<1>3. \A i \in DOMAIN Replies' : Replies'[i].id \in Made'
  BY <1>0, <1>1 DEF Replied
<1>4. ASSUME NEW q \in Made', NEW i \in Final(q)', NEW j \in DOMAIN Replies', j > i
      PROVE  Replies'[j].id # q
  <2>1. i \in Final(q) /\ q # r
    BY <1>1, <1>2, <1>4
  <2>4. i \in DOMAIN Replies
    BY <2>1 DEF Final
  <2>2. CASE j \in DOMAIN Replies
    BY <1>1, <1>4, <2>1, <2>2, <2>4 DEF Replied
  <2>3. CASE j = Len(Replies) + 1
    BY <1>0, <1>1, <2>1, <2>3
  <2> QED
    BY <1>1, <2>2, <2>3
<1>5. ASSUME NEW q \in Made', Pending(q)' PROVE Final(q)' = {}
  BY <1>1, <1>5 DEF Replied
<1>6. ASSUME NEW q \in Made', ~Pending(q)' PROVE Final(q)' # {} \/ quitWithoutWaiting'
  BY <1>1, <1>6 DEF Replied
<1> QED
  BY <1>3, <1>4, <1>5, <1>6 DEF Replied

----------------------------------------------------------------------------
(* Every step keeps the invariant *)

\* Nothing is asked and nothing is said at first.
LEMMA RInvInit == Init => RInv
<1> SUFFICES ASSUME Init PROVE RInv
  OBVIOUS
<1>1. Replies = <<>> /\ Made = {} /\ freed = {}
  BY DEF Init, Replies, Made
<1>2. OutTypes
  BY DEF Init, OutTypes
<1>3. Claimed /\ Searched /\ ClosedLast
  BY DEF Init, Claimed, Searched, ClosedLast, Answering
<1>4. Replied
  BY <1>1 DEF Replied
<1> QED
  BY <1>2, <1>3, <1>4 DEF RInv

\* Only replies are pushed.
LEMMA OutTypesNext == IInv /\ OutTypes /\ [Next]_vars => OutTypes'
<1> SUFFICES ASSUME IInv, OutTypes, [Next]_vars PROVE OutTypes'
  OBVIOUS
<1>0. Types /\ Places /\ Work
  BY DEF IInv
<1>1. CASE UNCHANGED <<written, toWriteQueue, found>>
  BY <1>1 DEF OutTypes
<1>2. CASE TerminateRequest
  <2>1. First(mTodo) \in Nat
    BY <1>0, <1>2, TerminateChanges DEF Made
  <2>2. written' = written /\ found' = found
    BY <1>2 DEF TerminateRequest, bots, out
  <2>3. PushNothing \/ Push(Reply(First(mTodo), FALSE))
    BY <1>2 DEF TerminateRequest
  <2>4. Reply(First(mTodo), FALSE) \in ReplySet
    BY <2>1 DEF Reply, ReplySet
  <2>5. toWriteQueue' \in Seq(ReplySet)
    BY <2>2, <2>3, <2>4, PushSays DEF PushNothing, write, OutTypes
  <2> QED
    BY <2>2, <2>5 DEF OutTypes
<1>3. CASE Writer
  BY <1>3, WriterSaysNothing DEF OutTypes, Writer, bots
<1>4. ASSUME NEW t \in Threads, Report(t) \/ ReportDuringSearch(t) PROVE OutTypes'
  <2>1. written' = written /\ found' = found
    BY <1>4 DEF Report, ReportDuringSearch, bots, out
  <2>2. PushNothing \/ \E during \in BOOLEAN : Push(Reply(tRequest[t], during))
    BY <1>4 DEF Report, ReportDuringSearch
  <2>3. \A during \in BOOLEAN : Reply(tRequest[t], during) \in ReplySet
    BY <1>0 DEF Reply, ReplySet, Types
  <2>4. toWriteQueue' \in Seq(ReplySet)
    BY <2>1, <2>2, <2>3, PushSays DEF PushNothing, write, OutTypes
  <2> QED
    BY <2>1, <2>4 DEF OutTypes
<1>5. ASSUME NEW t \in Threads, Erase(t) \/ Playout(t) PROVE OutTypes'
  BY <1>5 DEF Erase, Playout, OutTypes, write, out
<1> QED
  BY <1>1, <1>2, <1>3, <1>4, <1>5
     DEF Next, Input, MainStep, AnalysisThread, BotThread, Query, Queue, Terminate, StopItsBot,
         EndOfInput, CloseAnalyze, CloseWrite, StopBots, KillBots, Join, WaitPop, Claim,
         LaunchSearch, SearchReturned, DeleteRequest, SearchBegun, SearchEnds, LaunchKilled,
         write, bots, out, vars

\* What a step may do to the status of a request.
LEMMA StatusSteps ==
  ASSUME IInv, [Next]_vars, NEW r \in Made
  PROVE  /\ r \in Made'
         /\ status[r] # IN_QUEUE => status'[r] # IN_QUEUE
         /\ status[r] = TERMINATED => status'[r] = TERMINATED
<1>0. Types /\ Places /\ Work /\ Statuses
  BY DEF IInv
<1>1. CASE UNCHANGED status
  BY <1>1 DEF Made
<1>2. ASSUME NEW n \in 1 .. MaxRequests, Query(n)
      PROVE  r \in Made' /\ status'[r] = status[r]
  BY <1>0, <1>2, Queried
<1>3. CASE TerminateRequest
  BY <1>0, <1>3, TerminateChanges DEF IN_QUEUE, TERMINATED
<1>4. ASSUME NEW t \in Threads, Claim(t)
      PROVE  r \in Made' /\ status'[r] \in {status[r], POPPED}
             /\ (status'[r] # status[r] => status[r] = IN_QUEUE)
  BY <1>0, <1>4, ClaimChanges
<1>5. ASSUME NEW t \in Threads, SearchBegun(t)
      PROVE  r \in Made' /\ status'[r] \in {status[r], t}
             /\ (status'[r] # status[r] => status[r] = POPPED)
  BY <1>0, <1>5, BeginChanges
<1> QED
  BY <1>1, <1>2, <1>3, <1>4, <1>5, Names
     DEF Next, Input, MainStep, AnalysisThread, BotThread, Queue, Terminate, StopItsBot,
         EndOfInput, CloseAnalyze, CloseWrite, StopBots, KillBots, Join, WaitPop, LaunchSearch,
         SearchReturned, Report, Erase, DeleteRequest, Playout, ReportDuringSearch, SearchEnds,
         LaunchKilled, Writer, vars, IN_QUEUE, POPPED, TERMINATED

\* A thread serves a request from the pop to the deletion.
LEMMA ThreadSteps ==
  ASSUME IInv, [Next]_vars, NEW u \in Threads
  PROVE  \/ UNCHANGED <<tPc[u], tRequest[u]>>
         \/ WaitPop(u) /\ tPc'[u] \in {"waitPop", "popped", "done"}
         \/ DeleteRequest(u) /\ tPc'[u] = "waitPop"
         \/ /\ tRequest'[u] = tRequest[u]
            /\ \/ Claim(u) /\ tPc'[u] \in {"launch", "clear"}
               \/ LaunchSearch(u) /\ tPc'[u] \in {"report", "searching"}
               \/ SearchReturned(u) /\ tPc'[u] = "report"
               \/ Report(u) /\ tPc'[u] = "clear"
               \/ Erase(u) /\ tPc'[u] = "delete"
<1>0. Types
  BY DEF IInv
<1>1. CASE UNCHANGED <<tPc, tRequest>>
  BY <1>1
<1>2. ASSUME NEW t \in Threads, AnalysisThread(t), t # u
      PROVE  UNCHANGED <<tPc[u], tRequest[u]>>
  BY <1>0, <1>2 DEF Types, AnalysisThread, WaitPop, Claim, LaunchSearch, SearchReturned, Report,
                    Erase, DeleteRequest, To, thread
<1>3. CASE WaitPop(u)
  BY <1>0, <1>3 DEF Types, WaitPop, To, thread
<1>4. CASE DeleteRequest(u)
  BY <1>0, <1>4 DEF Types, DeleteRequest, To
<1>5. CASE Claim(u)
  BY <1>0, <1>5 DEF Types, Claim, To
<1>6. CASE LaunchSearch(u)
  BY <1>0, <1>6 DEF Types, LaunchSearch, To
<1>7. CASE SearchReturned(u)
  BY <1>0, <1>7 DEF Types, SearchReturned, To
<1>8. CASE Report(u)
  BY <1>0, <1>8 DEF Types, Report, To
<1>9. CASE Erase(u)
  BY <1>0, <1>9 DEF Types, Erase, To
<1> QED
  BY <1>1, <1>2, <1>3, <1>4, <1>5, <1>6, <1>7, <1>8, <1>9
     DEF Next, Input, MainStep, AnalysisThread, BotThread, Query, Queue, Terminate,
         TerminateRequest, StopItsBot, EndOfInput, CloseAnalyze, CloseWrite, StopBots, KillBots,
         Join, SearchBegun, Playout, ReportDuringSearch, SearchEnds, LaunchKilled, Writer,
         thread, vars

\* A claimed request never goes back to the queue.
LEMMA ClaimedNext == IInv /\ Claimed /\ [Next]_vars => Claimed'
<1> SUFFICES ASSUME IInv, Claimed, [Next]_vars PROVE Claimed'
  OBVIOUS
<1>0. Types /\ Places
  BY DEF IInv
<1>1. ASSUME NEW u \in Threads, tPc'[u] \in Answering \cup {"clear", "delete"}
      PROVE  status'[tRequest'[u]] # IN_QUEUE
  <2>1. CASE Claim(u)
    <3>1. tRequest'[u] = tRequest[u] /\ tRequest[u] \in Made
      BY <1>0, <2>1 DEF Claim, Places, Serving
    <3>2. status'[tRequest[u]] # IN_QUEUE
      BY <1>0, <2>1, <3>1, ClaimChanges DEF IN_QUEUE, POPPED
    <3> QED
      BY <3>1, <3>2
  <2>2. CASE tRequest'[u] = tRequest[u] /\ tPc[u] \in Answering \cup {"clear", "delete"}
    <3>1. tRequest[u] \in Made
      BY <1>0, <2>2 DEF Places, Serving, Answering
    <3> QED
      BY <2>2, <3>1, StatusSteps DEF Claimed
  <2> QED
    BY <1>1, <2>1, <2>2, ThreadSteps DEF Answering, LaunchSearch, SearchReturned, Report, Erase
<1>2. ASSUME NEW r \in freed' PROVE status'[r] # IN_QUEUE
  <2>1. r \in Made /\ status[r] # IN_QUEUE
    <3>1. CASE r \in freed
      BY <1>0, <3>1 DEF Places, Claimed
    <3>2. CASE r \notin freed
      <4>1. PICK t \in Threads : DeleteRequest(t)
        BY <1>2, <3>2
           DEF Next, Input, MainStep, AnalysisThread, BotThread, Query, Queue, Terminate,
               TerminateRequest, StopItsBot, EndOfInput, CloseAnalyze, CloseWrite, StopBots,
               KillBots, Join, WaitPop, Claim, LaunchSearch, SearchReturned, Report, Erase,
               SearchBegun, Playout, ReportDuringSearch, SearchEnds, LaunchKilled, Writer, vars
      <4>2. r = tRequest[t] /\ tPc[t] = "delete"
        BY <1>2, <3>2, <4>1 DEF DeleteRequest
      <4> QED
        BY <1>0, <4>2 DEF Claimed, Places, Serving
    <3> QED
      BY <3>1, <3>2
  <2> QED
    BY <2>1, StatusSteps
<1> QED
  BY <1>1, <1>2 DEF Claimed

\* What a step does to the bot of a thread and to its result.
LEMMA BotChanges ==
  ASSUME IInv, OutTypes, [Next]_vars, NEW u \in Threads
  PROVE  /\ killed'[u] => killed[u] \/ quitWithoutWaiting
         /\ found[u] => found'[u] \/ Erase(u)
         /\ bPc'[u] = "idle" => bPc[u] = "idle" \/ SearchEnds(u) \/ LaunchKilled(u)
         /\ quitWithoutWaiting' = quitWithoutWaiting
<1>0. Types /\ Work
  BY DEF IInv
<1>1. quitWithoutWaiting' = quitWithoutWaiting
  BY DEF Next, Input, MainStep, AnalysisThread, BotThread, Query, Queue, Terminate,
         TerminateRequest, StopItsBot, EndOfInput, CloseAnalyze, CloseWrite, StopBots, KillBots,
         Join, WaitPop, Claim, LaunchSearch, SearchReturned, Report, Erase, DeleteRequest,
         SearchBegun, Playout, ReportDuringSearch, SearchEnds, LaunchKilled, Writer, vars
<1>2. killed' = killed \/ KillBots
  BY DEF Next, Input, MainStep, AnalysisThread, BotThread, Query, Queue, Terminate,
         TerminateRequest, StopItsBot, EndOfInput, CloseAnalyze, CloseWrite, StopBots,
         Join, WaitPop, Claim, LaunchSearch, SearchReturned, Report, Erase, DeleteRequest,
         SearchBegun, Playout, ReportDuringSearch, SearchEnds, LaunchKilled, Writer, bots, vars
<1>3. killed'[u] => killed[u] \/ quitWithoutWaiting
  BY <1>0, <1>2 DEF KillBots, Work
<1>4. found' = found \/ \E t \in Threads : Erase(t) \/ Playout(t)
  BY DEF Next, Input, MainStep, AnalysisThread, BotThread, Query, Queue, Terminate,
         TerminateRequest, StopItsBot, EndOfInput, CloseAnalyze, CloseWrite, StopBots, KillBots,
         Join, WaitPop, Claim, LaunchSearch, SearchReturned, Report, DeleteRequest,
         SearchBegun, ReportDuringSearch, SearchEnds, LaunchKilled, Writer, bots, vars
<1>5. found[u] => found'[u] \/ Erase(u)
  BY <1>4 DEF OutTypes, Erase, Playout
<1>6. \/ bPc' = bPc
      \/ \E t \in Threads : LaunchSearch(t) \/ SearchBegun(t) \/ SearchEnds(t) \/ LaunchKilled(t)
  BY DEF Next, Input, MainStep, AnalysisThread, BotThread, Query, Queue, Terminate,
         TerminateRequest, StopItsBot, EndOfInput, CloseAnalyze, CloseWrite, StopBots, KillBots,
         Join, WaitPop, Claim, SearchReturned, Report, Erase, DeleteRequest,
         Playout, ReportDuringSearch, Writer, bots, vars
<1>7. bPc'[u] = "idle" => bPc[u] = "idle" \/ SearchEnds(u) \/ LaunchKilled(u)
  BY <1>0, <1>6 DEF Types, LaunchSearch, SearchBegun, SearchEnds, LaunchKilled
<1> QED
  BY <1>1, <1>3, <1>5, <1>7

\* A search only ends with a result, by a stop for its request, or in the end.
LEMMA SearchedNext == IInv /\ OutTypes /\ Searched /\ [Next]_vars => Searched'
<1> SUFFICES ASSUME IInv, OutTypes, Searched, [Next]_vars PROVE Searched'
  OBVIOUS
<1>0. Types /\ Places /\ Statuses /\ Stops
  BY DEF IInv
<1>1. ASSUME NEW u \in Threads, killed'[u] PROVE quitWithoutWaiting'
  BY <1>1, BotChanges DEF Searched
<1>2. ASSUME NEW u \in Threads, ~quitWithoutWaiting',
             tPc'[u] = "report" \/ (tPc'[u] = "searching" /\ bPc'[u] = "idle")
      PROVE  found'[u] \/ status'[tRequest'[u]] = TERMINATED
  <2>1. ~quitWithoutWaiting /\ ~killed[u]
    BY <1>2, BotChanges DEF Searched
  <2>2. ~LaunchSearch(u)
    BY <1>0, <1>2, <2>1 DEF LaunchSearch, To, Types
  <2>3. tRequest'[u] = tRequest[u] /\ tPc[u] \in {"report", "searching"} /\ ~Erase(u)
    BY <1>2, <2>2, ThreadSteps DEF SearchReturned, Erase
  <2>4. found[u] \/ status[tRequest[u]] = TERMINATED
    <3>1. CASE tPc[u] = "report" \/ bPc[u] = "idle"
      BY <2>1, <2>3, <3>1 DEF Searched
    <3>2. CASE tPc[u] = "searching" /\ bPc[u] # "idle"
      <4>1. ~SearchReturned(u)
        BY <3>2 DEF SearchReturned
      <4>2. tPc'[u] = "searching"
        BY <1>2, <2>2, <3>2, <4>1, ThreadSteps
      <4>3. SearchEnds(u)
        BY <1>2, <2>1, <3>2, <4>2, BotChanges DEF LaunchKilled
      <4>4. ~Quitting
        BY <2>1 DEF Quitting
      <4> QED
        BY <1>0, <3>2, <4>3, <4>4 DEF SearchEnds, Stops
    <3> QED
      BY <2>3, <3>1, <3>2
  <2>5. tRequest[u] \in Made
    BY <1>0, <2>3 DEF Places, Serving
  <2>6. CASE found[u]
    BY <2>3, <2>6, BotChanges
  <2>7. CASE status[tRequest[u]] = TERMINATED
    BY <2>3, <2>5, <2>7, StatusSteps
  <2> QED
    BY <2>4, <2>6, <2>7
<1> QED
  BY <1>1, <1>2 DEF Searched

\* The queue of the writer is closed after the threads are joined, or on quitting.
LEMMA ClosedLastNext == IInv /\ OutTypes /\ ClosedLast /\ [Next]_vars => ClosedLast'
<1> SUFFICES ASSUME IInv, OutTypes, ClosedLast, [Next]_vars PROVE ClosedLast'
  OBVIOUS
<1>0. quitWithoutWaiting' = quitWithoutWaiting
  <2>1. CASE Threads = {}
    BY DEF Next, Input, MainStep, AnalysisThread, BotThread, Query, Queue, Terminate,
           TerminateRequest, StopItsBot, EndOfInput, CloseAnalyze, CloseWrite, StopBots, KillBots,
           Join, WaitPop, Claim, LaunchSearch, SearchReturned, Report, Erase, DeleteRequest,
           SearchBegun, Playout, ReportDuringSearch, SearchEnds, LaunchKilled, Writer, vars
  <2> QED
    BY <2>1, BotChanges
<1>1. mPc' = "closeWrite" => quitWithoutWaiting
  BY DEF ClosedLast, Next, Input, MainStep, AnalysisThread, BotThread, Query, Queue, Terminate,
         TerminateRequest, Terminated, StopItsBot, EndOfInput, CloseAnalyze, CloseWrite, StopBots,
         KillBots, Join, WaitPop, Claim, LaunchSearch, SearchReturned, Report, Erase,
         DeleteRequest, SearchBegun, Playout, ReportDuringSearch, SearchEnds, LaunchKilled,
         Writer, main, vars
<1>2. ASSUME writeReadOnly', ~quitWithoutWaiting
      PROVE  mPc' \in {"joinWriter", "ended"} /\ \A u \in Threads : tPc'[u] = "done"
  <2>1. CASE writeReadOnly
    <3>1. mPc \in {"joinWriter", "ended"} /\ \A u \in Threads : tPc[u] = "done"
      BY <1>2, <2>1 DEF ClosedLast
    <3>2. \A u \in Threads : tPc'[u] = "done"
      BY <3>1, ThreadSteps DEF WaitPop, Claim, LaunchSearch, SearchReturned, Report, Erase,
                               DeleteRequest
    <3>3. mPc' \in {"joinWriter", "ended"}
      BY <3>1
         DEF Next, Input, MainStep, AnalysisThread, BotThread, Query, Queue, Terminate,
             TerminateRequest, StopItsBot, EndOfInput, CloseAnalyze, CloseWrite, StopBots,
             KillBots, Join, WaitPop, Claim, LaunchSearch, SearchReturned, Report, Erase,
             DeleteRequest, SearchBegun, Playout, ReportDuringSearch, SearchEnds, LaunchKilled,
             Writer, main, vars
    <3> QED
      BY <3>2, <3>3
  <2>2. CASE ~writeReadOnly
    <3>1. CloseWrite
      BY <1>2, <2>2
         DEF Next, Input, MainStep, AnalysisThread, BotThread, Query, Queue, Terminate,
             TerminateRequest, StopItsBot, EndOfInput, CloseAnalyze, StopBots,
             KillBots, Join, WaitPop, Claim, LaunchSearch, SearchReturned, Report, Erase,
             DeleteRequest, SearchBegun, Playout, ReportDuringSearch, SearchEnds, LaunchKilled,
             Writer, Push, PushNothing, write, vars
    <3> QED
      BY <1>2, <3>1 DEF CloseWrite, ClosedLast, thread
  <2> QED
    BY <2>1, <2>2
<1> QED
  BY <1>0, <1>1, <1>2 DEF ClosedLast

\* A step that says nothing and leaves it open who is still to be answered.
LEMMA Quiet ==
  ASSUME OutTypes, Replied, Replies' = Replies, quitWithoutWaiting' = quitWithoutWaiting,
         Made' = Made, \A r \in Made : Pending(r)' <=> Pending(r)
  PROVE  Replied'
<1> HIDE DEF Pending, Made
<1> QED
  BY NothingSaid

\* The steps of the main thread.
LEMMA MainReplied ==
  ASSUME IInv, RInv, (\E n \in 1 .. MaxRequests : Query(n)) \/ TerminateRequest
  PROVE  Replied'
<1>0. /\ Types /\ Places /\ Work /\ Statuses
      /\ OutTypes /\ Claimed /\ ClosedLast /\ Replied
  BY DEF IInv, RInv
<1>1. ASSUME NEW n \in 1 .. MaxRequests, Query(n) PROVE Replied'
  <2>1. PICK N \in SUBSET (Nat \ {0}) :
          /\ N \cap Made = {} /\ Made' = Made \cup N
          /\ \A r \in Made : status'[r] = status[r]
          /\ \A r \in N : status'[r] = IN_QUEUE
          /\ UNCHANGED <<tPc, tRequest>>
    BY <1>0, <1>1, Queried
  <2>2. Replies' = Replies /\ quitWithoutWaiting' = quitWithoutWaiting
    BY <1>1 DEF Query, Replies, write, out
  <2>3. \A r \in Made' \ Made : Pending(r)'
    BY <2>1 DEF Pending
  <2>4. \A r \in Made : Pending(r)' <=> Pending(r)
    BY <2>1 DEF Pending
  <2>5. Made \subseteq Made'
    BY <2>1
  <2> QED
    BY <1>0, <2>2, <2>3, <2>4, <2>5, NothingSaid
<1>2. CASE TerminateRequest
  <2>0. PICK r \in Made : r = First(mTodo)
    BY <1>0, <1>2, TerminateChanges
  <2>1. /\ Made' = Made
        /\ \A q \in Made : status'[q] = IF q = r THEN TERMINATED ELSE status[q]
    BY <1>0, <1>2, <2>0, TerminateChanges
  <2>2. /\ UNCHANGED <<quitWithoutWaiting, tPc, tRequest, written>>
        /\ IF status[r] = IN_QUEUE THEN Push(Reply(r, FALSE)) ELSE UNCHANGED toWriteQueue
    BY <1>0, <1>2, <2>0, Names DEF TerminateRequest, thread, out, PushNothing, write
  <2>3. \A q \in Made \ {r} : Pending(q)' <=> Pending(q)
    BY <2>1, <2>2 DEF Pending
  <2>4. CASE status[r] # IN_QUEUE
    <3>1. Pending(r)' <=> Pending(r)
      BY <2>1, <2>2, <2>4 DEF Pending, IN_QUEUE, TERMINATED
    <3>2. Replies' = Replies
      BY <2>2, <2>4 DEF Replies
    <3> QED
      BY <1>0, <2>1, <2>2, <2>3, <3>1, <3>2, Quiet
  <2>5. CASE status[r] = IN_QUEUE
    <3>1. Pending(r) /\ ~Pending(r)'
      BY <1>0, <2>1, <2>2, <2>5 DEF Pending, Claimed, IN_QUEUE, TERMINATED
    <3>2. r \in Nat /\ Reply(r, FALSE) \in ReplySet
      BY <2>1 DEF Made, Reply, ReplySet
    <3>3. \/ writeReadOnly /\ Replies' = Replies
          \/ Replies' = Append(Replies, Reply(r, FALSE))
      BY <1>0, <2>2, <2>5, <3>2, PushSays
    <3>4. writeReadOnly => quitWithoutWaiting
      BY <1>0, <1>2 DEF ClosedLast, TerminateRequest
    <3>5. CASE writeReadOnly /\ Replies' = Replies
      BY <1>0, <2>1, <2>2, <2>3, <3>1, <3>4, <3>5, NothingSaid
    <3>6. CASE Replies' = Append(Replies, Reply(r, FALSE))
      BY <1>0, <2>1, <2>2, <2>3, <3>1, <3>2, <3>6, FinalSaid
    <3> QED
      BY <3>3, <3>5, <3>6
  <2> QED
    BY <2>4, <2>5
<1> QED
  BY <1>1, <1>2

\* The steps of an analysis thread that say nothing.
LEMMA ThreadReplied ==
  ASSUME IInv, RInv, NEW t \in Threads,
         WaitPop(t) \/ Claim(t) \/ LaunchSearch(t) \/ SearchReturned(t) \/ Erase(t)
           \/ DeleteRequest(t) \/ SearchBegun(t)
  PROVE  Replied'
<1>0. Types /\ Places /\ Statuses /\ OutTypes /\ Replied
  BY DEF IInv, RInv
<1>1. Replies' = Replies /\ quitWithoutWaiting' = quitWithoutWaiting
  BY DEF WaitPop, Claim, LaunchSearch, SearchReturned, Erase, DeleteRequest, SearchBegun,
         Replies, write, out
<1>2. CASE WaitPop(t) \/ DeleteRequest(t) \/ LaunchSearch(t) \/ SearchReturned(t) \/ Erase(t)
  <2>1. status' = status
    BY <1>2 DEF WaitPop, DeleteRequest, LaunchSearch, SearchReturned, Erase
  <2>2. \A u \in Threads : u # t => tPc'[u] = tPc[u] /\ tRequest'[u] = tRequest[u]
    BY <1>0, <1>2 DEF Types, WaitPop, DeleteRequest, LaunchSearch, SearchReturned, Erase, To,
                      thread
  <2>3. \/ tPc[t] \notin Answering /\ tPc'[t] \notin Answering
        \/ tPc[t] \in Answering /\ tPc'[t] \in Answering /\ tRequest'[t] = tRequest[t]
    BY <1>0, <1>2 DEF Types, WaitPop, DeleteRequest, LaunchSearch, SearchReturned, Erase, To,
                      thread, Answering
  <2>4. \A r \in Made : Pending(r)' <=> Pending(r)
    BY <2>1, <2>2, <2>3 DEF Pending
  <2> QED
    BY <1>0, <1>1, <2>1, <2>4, Quiet DEF Made
<1>3. CASE Claim(t)
  <2>1. /\ tRequest[t] \in Made /\ Made' = Made
        /\ status[tRequest[t]] = IN_QUEUE =>
             \A q \in Made : status'[q] = IF q = tRequest[t] THEN POPPED ELSE status[q]
        /\ status[tRequest[t]] # IN_QUEUE => status' = status
    BY <1>0, <1>3, ClaimChanges
  <2>2. /\ tPc[t] \notin Answering /\ tRequest' = tRequest
        /\ tPc'[t] = (IF status[tRequest[t]] = IN_QUEUE THEN "launch" ELSE "clear")
        /\ \A u \in Threads : u # t => tPc'[u] = tPc[u]
    BY <1>0, <1>3 DEF Types, Claim, To, Answering
  <2>3. \A r \in Made : Pending(r)' <=> Pending(r)
    <3>1. CASE status[tRequest[t]] = IN_QUEUE
      <4>1. Pending(tRequest[t]) /\ Pending(tRequest[t])'
        BY <2>2, <3>1 DEF Pending, Answering
      <4>2. \A r \in Made : r # tRequest[t] => (Pending(r)' <=> Pending(r))
        BY <2>1, <2>2, <3>1 DEF Pending
      <4> QED
        BY <2>2, <4>1, <4>2 DEF Pending
    <3>2. CASE status[tRequest[t]] # IN_QUEUE
      BY <2>1, <2>2, <3>2 DEF Pending, Answering
    <3> QED
      BY <3>1, <3>2
  <2> QED
    BY <1>0, <1>1, <2>1, <2>3, Quiet
<1>4. CASE SearchBegun(t)
  <2>1. /\ tRequest[t] \in Made /\ Made' = Made
        /\ \A q \in Made : status'[q] = status[q] \/ (status[q] = POPPED /\ status'[q] = t)
    BY <1>0, <1>4, BeginChanges
  <2>2. UNCHANGED <<tPc, tRequest>>
    BY <1>4 DEF SearchBegun, thread
  <2>3. \A q \in Made : status'[q] = IN_QUEUE <=> status[q] = IN_QUEUE
    BY <2>1, Names DEF IN_QUEUE, POPPED
  <2>4. \A r \in Made : Pending(r)' <=> Pending(r)
    BY <2>2, <2>3 DEF Pending
  <2> QED
    BY <1>0, <1>1, <2>1, <2>4, Quiet
<1> QED
  BY <1>2, <1>3, <1>4

\* The report of a search and the reports during it.
LEMMA ReportReplied ==
  ASSUME IInv, RInv, NEW t \in Threads, Report(t) \/ ReportDuringSearch(t)
  PROVE  Replied'
<1>0. /\ Types /\ Places /\ Statuses
      /\ OutTypes /\ Claimed /\ Searched /\ ClosedLast /\ Replied
  BY DEF IInv, RInv
<1>1. tPc[t] \in Answering
  BY <1>0 DEF Report, ReportDuringSearch, Statuses, Answering
<1>2. PICK r \in Made : r = tRequest[t] /\ r \in Nat /\ status[r] # IN_QUEUE
  BY <1>0, <1>1 DEF Places, Serving, Answering, Claimed, Types
<1>3. Pending(r) /\ UNCHANGED <<status, tRequest, written, quitWithoutWaiting>> /\ Made' = Made
  BY <1>1, <1>2 DEF Pending, Report, ReportDuringSearch, thread, out, Made
<1>4. writeReadOnly => quitWithoutWaiting
  BY <1>0, <1>1 DEF ClosedLast, Answering
<1>5. CASE Report(t)
  <2>1. /\ tPc'[t] = "clear" /\ \A u \in Threads : u # t => tPc'[u] = tPc[u]
    BY <1>0, <1>5 DEF Types, Report, To
  <2>2. \A u \in Threads : tPc[u] \in Answering /\ tRequest[u] = r => u = t
    BY <1>0, <1>1, <1>2 DEF Places, Serving, Answering
  <2>3. ~Pending(r)'
    BY <1>2, <1>3, <2>1, <2>2 DEF Pending, Answering
  <2>4. \A q \in Made \ {r} : Pending(q)' <=> Pending(q)
    BY <1>2, <1>3, <2>1 DEF Pending
  <2>5. \/ quitWithoutWaiting /\ Replies' = Replies
        \/ Replies' = Append(Replies, Reply(r, FALSE))
    <3>1. CASE Push(Reply(r, FALSE))
      <4>1. Reply(r, FALSE) \in ReplySet
        BY <1>2 DEF Reply, ReplySet
      <4> QED
        BY <1>0, <1>3, <1>4, <3>1, <4>1, PushSays
    <3>2. CASE ~(found[t] \/ status[r] = TERMINATED)
      <4>1. quitWithoutWaiting
        BY <1>0, <1>2, <1>5, <3>2 DEF Searched, Report
      <4>2. Replies' = Replies
        BY <1>2, <1>3, <1>5, <3>2 DEF Report, PushNothing, write, Replies
      <4> QED
        BY <4>1, <4>2
    <3> QED
      BY <1>2, <1>5, <3>1, <3>2 DEF Report
  <2>6. CASE quitWithoutWaiting /\ Replies' = Replies
    BY <1>0, <1>3, <2>3, <2>4, <2>6, NothingSaid
  <2>7. CASE Replies' = Append(Replies, Reply(r, FALSE))
    BY <1>0, <1>2, <1>3, <2>3, <2>4, <2>7, FinalSaid
  <2> QED
    BY <2>5, <2>6, <2>7
<1>6. CASE ReportDuringSearch(t)
  <2>1. tPc' = tPc /\ Push(Reply(r, TRUE))
    BY <1>2, <1>6 DEF ReportDuringSearch, thread
  <2>2. \A q \in Made : Pending(q)' <=> Pending(q)
    BY <1>3, <2>1 DEF Pending
  <2>3. Reply(r, TRUE) \in ReplySet
    BY <1>2 DEF Reply, ReplySet
  <2>4. Replies' = Replies \/ Replies' = Append(Replies, Reply(r, TRUE))
    BY <1>0, <1>3, <2>1, <2>3, PushSays
  <2>5. CASE Replies' = Replies
    BY <1>0, <1>3, <2>2, <2>5, Quiet
  <2>6. CASE Replies' = Append(Replies, Reply(r, TRUE))
    BY <1>0, <1>2, <1>3, <2>2, <2>6, DuringSaid
  <2> QED
    BY <2>4, <2>5, <2>6
<1> QED
  BY <1>5, <1>6

\* Every other step leaves the requests, the threads and the replies alone.
LEMMA RepliedNext == IInv /\ RInv /\ [Next]_vars => Replied'
<1> SUFFICES ASSUME IInv, RInv, [Next]_vars PROVE Replied'
  OBVIOUS
<1>0. OutTypes /\ Replied
  BY DEF RInv
<1>1. CASE UNCHANGED <<status, tPc, tRequest, quitWithoutWaiting>> /\ Replies' = Replies
  <2>1. Made' = Made /\ \A r \in Made : Pending(r)' <=> Pending(r)
    BY <1>1 DEF Made, Pending
  <2> QED
    BY <1>0, <1>1, <2>1, Quiet
<1>2. CASE UNCHANGED <<status, tPc, tRequest, quitWithoutWaiting, written, toWriteQueue>>
  BY <1>1, <1>2 DEF Replies
<1>3. CASE Writer
  BY <1>0, <1>1, <1>3, WriterSaysNothing DEF Writer, thread
<1>4. ASSUME NEW t \in Threads, Playout(t) \/ SearchEnds(t) \/ LaunchKilled(t) PROVE Replied'
  BY <1>2, <1>4 DEF Playout, SearchEnds, LaunchKilled, thread, write, out
<1> QED
  BY <1>2, <1>3, <1>4, MainReplied, ThreadReplied, ReportReplied
     DEF Next, Input, MainStep, AnalysisThread, BotThread, Queue, Terminate, StopItsBot,
         EndOfInput, CloseAnalyze, CloseWrite, StopBots, KillBots, Join, thread, write, out, vars

\* Every behaviour keeps the invariant.
LEMMA RInvariant == Spec => []RInv
<1>1. IInv /\ RInv /\ [Next]_vars => RInv'
  BY OutTypesNext, ClaimedNext, SearchedNext, ClosedLastNext, RepliedNext DEF RInv
<1> QED
  BY <1>1, RInvInit, Invariant, PTL DEF Spec

\* Every request gets at most one final reply, nothing about it follows, and it
\* is deleted only after it has it, for any number of threads, queries and
\* terminate actions, whoever of the two threads writes it.
THEOREM OneReplyEach == Spec => []OneFinalReply
<1>1. IInv /\ RInv => OneFinalReply
  <2> SUFFICES ASSUME IInv, RInv, NEW r \in DOMAIN status
               PROVE  /\ Cardinality(Final(r)) <= 1
                      /\ \A i \in Final(r) : \A j \in DOMAIN Replies : j > i => Replies[j].id # r
                      /\ r \in freed /\ ~quitWithoutWaiting => Final(r) # {}
    BY DEF OneFinalReply
  <2>1. r \in Made /\ Replied /\ Claimed /\ Places /\ Types /\ OutTypes
    BY DEF IInv, RInv, Types, Made
  <2>2. \A i \in Final(r) : \A j \in DOMAIN Replies : j > i => Replies[j].id # r
    BY <2>1 DEF Replied
  <2>3. Cardinality(Final(r)) <= 1
    <3>1. CASE Final(r) = {}
      BY <3>1, FS_EmptySet
    <3>2. CASE Final(r) # {}
      <4>1. PICK i \in Final(r) : TRUE
        BY <3>2
      <4>2. DOMAIN Replies \subseteq Nat
        BY <2>1, RepliesType
      <4>3. \A j \in Final(r) : j = i
        BY <2>2, <4>2 DEF Final
      <4>4. Final(r) = {i}
        BY <4>1, <4>3
      <4>5. Cardinality({i}) = 1
        BY FS_Singleton, Zenon
      <4> QED
        BY <4>4, <4>5
    <3> QED
      BY <3>1, <3>2
  <2>4. ASSUME r \in freed, ~quitWithoutWaiting PROVE Final(r) # {}
    <3>1. ~Pending(r)
      BY <2>1, <2>4 DEF Pending, Claimed, Places, Serving, Answering
    <3> QED
      BY <2>1, <2>4, <3>1 DEF Replied
  <2> QED
    BY <2>2, <2>3, <2>4
<1> QED
  BY <1>1, Invariant, RInvariant, PTL

=============================================================================
