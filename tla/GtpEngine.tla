----------------------------- MODULE GtpEngine -----------------------------
(***************************************************************************)
(* engine/GtpEngine.kt, the GTP client of the app: coroutines send commands *)
(* and poll for the reply to their id, a read loop per engine routes the    *)
(* lines of its stdout, and threads start and stop engines.  Each step ends *)
(* where another thread can run: a `synchronized` block is one step, two    *)
(* assignments outside a lock are two.                                      *)
(*                                                                          *)
(* An engine is either an executable ("exec", the CPU build) or the shared  *)
(* library that runs inside the app ("jni", the GPU build: KataNative.kt,   *)
(* android_jni.cpp).  How it answers a line is command/gtp.cpp.  A jni      *)
(* engine reads the app's own `cin`: what its buffer holds when the engine  *)
(* quits is there for the next one.                                         *)
(*                                                                          *)
(* Fields that are not @Volatile are taken to be sequentially consistent.   *)
(* "info" lines, stderr and the texts of commands and replies are left out: *)
(* a line is the id it carries and what it is, with the blank line after it. *)
(***************************************************************************)
EXTENDS Integers, Sequences, FiniteSets

CONSTANTS
    Callers,     \* coroutines that may be inside send()
    Main,        \* the main thread, which starts engines
    Stoppers,    \* threads that call stop(): Main (newGame), IO threads (cancelEngineLoading)
    Kinds,       \* subset of {"jni", "exec"}: the builds installed
    MaxEngines,  \* bound: engines started
    MaxId        \* bound: command ids taken

ASSUME GtpAssumption ==
    /\ Kinds \subseteq {"jni", "exec"}
    /\ MaxEngines \in Nat /\ MaxId \in Nat

Threads == {Main} \cup Stoppers
Engines == 1..MaxEngines
Ids     == 1..MaxId

NoEngine == 0   \* null
NoId     == 0   \* null, or a line without an id

Lines   == [what : {"command", "genmove", "analysis", "quit", "newline"},
            id : 0..MaxId, to : Engines]
Outputs == [what : {"reply", "header", "move"}, id : 0..MaxId]
Replies == [id : Ids, of : 0..MaxId]

VARIABLES
    process, writer,      \* GtpEngine's fields: an engine or NoEngine
    nextCmdId, awaiting,
    replies,              \* the map, as the set of its entries
    kind, state,          \* of every engine: its build; "none", "loading", "running", "exited"
    open,                 \* the app's ends of the engine's pipes are open
    watched,              \* KataProcess.exited has been counted down (jni)
    toEngine, fromEngine, \* the pipes: stdin and stdout
    stdin,                \* lines read ahead: by `cin` of the app (0), by each executable
    cinEof,               \* `cin` of the app has met the end of a file
    genmove, analysis,    \* the command the engine is busy with, the analysis it may interrupt
    reader,               \* read loop of each engine: [at, currentId, text]
    caller,               \* each coroutine: [pc, id, target]
    thread,               \* each thread inside stop() or start(): [pc, p, w]
    starting,             \* the main thread is in start()
    stoppedTwice          \* history: the engines two stop()s held the writer of at once

fields  == <<process, writer, nextCmdId, awaiting, replies>>
native  == <<kind, state, stdin, cinEof, genmove, analysis>>
pipes   == <<open, toEngine, fromEngine>>
control == <<thread, starting, stoppedTwice>>
vars    == <<fields, native, pipes, watched, reader, caller, control>>

Idle == [pc |-> "idle", p |-> NoEngine, w |-> NoEngine]
NotSending == [pc |-> "idle", id |-> NoId, target |-> NoEngine]
Reading == [at |-> "read", currentId |-> NoId, text |-> NoId]
Done == [at |-> "off", currentId |-> NoId, text |-> NoId]

Init ==
    /\ process = NoEngine /\ writer = NoEngine
    /\ nextCmdId = 0 /\ awaiting = {} /\ replies = {}
    /\ kind = [e \in Engines |-> "exec"] /\ state = [e \in Engines |-> "none"]
    /\ open = [e \in Engines |-> FALSE] /\ watched = [e \in Engines |-> FALSE]
    /\ toEngine = [e \in Engines |-> <<>>] /\ fromEngine = [e \in Engines |-> <<>>]
    /\ stdin = [b \in {0} \cup Engines |-> <<>>] /\ cinEof = FALSE
    /\ genmove = [e \in Engines |-> NoId] /\ analysis = [e \in Engines |-> NoId]
    /\ reader = [e \in Engines |-> Done]
    /\ caller = [c \in Callers |-> NotSending]
    /\ thread = [t \in Threads |-> Idle]
    /\ starting = FALSE /\ stoppedTwice = {}

----------------------------------------------------------------------------
(* What the app sees of an engine *)

\* g_engineRunning: one flag for all the engines that ran in this process.
EngineRunning == \E e \in Engines : kind[e] = "jni" /\ state[e] \in {"loading", "running"}

InProcess(p) == p # NoEngine /\ kind[p] = "jni"

\* Process.isAlive(): a KataProcess lives until its latch is counted down.
IsAlive(e) == IF kind[e] = "jni" THEN ~watched[e] ELSE state[e] # "exited"

isRunning == process # NoEngine /\ IsAlive(process)

\* The writer throws once its end is closed, or nobody reads the pipe.
WriteFails(w) == ~open[w] \/ (kind[w] = "exec" /\ state[w] = "exited")

\* The pipe after a line is written; what a dead engine is sent is lost.
Written(w, what, id) ==
    IF WriteFails(w) \/ state[w] = "exited" THEN toEngine
    ELSE [toEngine EXCEPT ![w] = Append(@, [what |-> what, id |-> id, to |-> w])]

\* The checks send(), sendAsync() and interrupt() make under the lock.
CanWrite == isRunning /\ writer # NoEngine

----------------------------------------------------------------------------
(* send() *)

Waiting(c) == caller[c].pc = "wait"

TakeId(c) ==
    /\ caller[c].pc = "idle" /\ nextCmdId < MaxId
    /\ nextCmdId' = nextCmdId + 1
    /\ caller' = [caller EXCEPT ![c] = [pc |-> "write", id |-> nextCmdId + 1,
                                        target |-> NoEngine]]
    /\ UNCHANGED <<process, writer, awaiting, replies, native, pipes, watched, reader, control>>

Return(c) == caller' = [caller EXCEPT ![c] = NotSending]

NotRunning(c) ==
    /\ caller[c].pc = "write" /\ ~CanWrite
    /\ Return(c)
    /\ UNCHANGED <<fields, native, pipes, watched, reader, control>>

Write(c, what) ==
    /\ caller[c].pc = "write" /\ CanWrite
    /\ awaiting' = awaiting \cup {caller[c].id}
    /\ toEngine' = Written(writer, what, caller[c].id)
    /\ IF WriteFails(writer) THEN Return(c)
       ELSE caller' = [caller EXCEPT ![c].pc = "wait", ![c].target = process]
    /\ UNCHANGED <<process, writer, nextCmdId, replies, native, open, fromEngine, watched,
                   reader, control>>

\* The loop takes the reply once it is there ...
TakeReply(c) ==
    /\ Waiting(c)
    /\ \E r \in replies : r.id = caller[c].id /\ replies' = replies \ {r}
    /\ awaiting' = awaiting \ {caller[c].id}
    /\ Return(c)
    /\ UNCHANGED <<process, writer, nextCmdId, native, pipes, watched, reader, control>>

\* ... or gives up: the engine is gone, or 15000 turns have passed.  It looked for
\* the reply a moment before, so one that is delivered just now stays in the map.
GiveUp(c) ==
    /\ awaiting' = awaiting \ {caller[c].id}
    /\ Return(c)
    /\ UNCHANGED <<process, writer, nextCmdId, replies, native, pipes, watched, reader, control>>

EngineGone(c) == Waiting(c) /\ ~isRunning /\ GiveUp(c)
TimedOut(c)   == Waiting(c) /\ isRunning /\ GiveUp(c)

\* The coroutine is cancelled: delay() throws, and the id stays in awaiting.
Cancelled(c) ==
    /\ Waiting(c)
    /\ Return(c)
    /\ UNCHANGED <<fields, native, pipes, watched, reader, control>>

\* sendAsync("kata-search_analyze_cancellable ..."): nobody waits for the reply.
SendAsync ==
    /\ CanWrite /\ nextCmdId < MaxId
    /\ nextCmdId' = nextCmdId + 1
    /\ toEngine' = Written(writer, "analysis", nextCmdId + 1)
    /\ UNCHANGED <<process, writer, awaiting, replies, native, open, fromEngine, watched, reader,
                   caller, control>>

\* An empty line for an engine that analyses; any other engine skips it.
Interrupt ==
    /\ CanWrite /\ analysis[writer] # NoId /\ toEngine[writer] = <<>>
    /\ toEngine' = Written(writer, "newline", NoId)
    /\ UNCHANGED <<fields, native, open, fromEngine, watched, reader, caller, control>>

----------------------------------------------------------------------------
(* readLoop: one thread per engine *)

Contains(id) == id \in awaiting

\* A reply that nobody waits for is dropped.
Complete(id, text) ==
    IF id # NoId /\ Contains(id) THEN [at |-> "deliver", currentId |-> id, text |-> text] ELSE Reading

\* Mutant: the text after a header goes to the coroutine that has waited longest.
OnLineInOrder(currentId, line) ==
    CASE line.what = "reply"  -> Complete(line.id, line.id)
      [] line.what = "header" -> [Reading EXCEPT !.currentId = line.id]
      [] line.what = "move"   -> IF awaiting = {} THEN Reading
                                 ELSE Complete(CHOOSE i \in awaiting : \A j \in awaiting : i <= j, line.id)

\* Mutant: the header's id is not kept.
OnLineHeaderDropped(currentId, line) ==
    CASE line.what = "reply"  -> Complete(line.id, line.id)
      [] line.what = "header" -> Reading
      [] line.what = "move"   -> Complete(currentId, line.id)

\* "=N ..." is a reply of one line, "=N" the header of one whose text is still to
\* come; `text` is the command whose text was collected.
OnLine(currentId, line) ==
    CASE line.what = "reply"  -> Complete(line.id, line.id)
      [] line.what = "header" -> [Reading EXCEPT !.currentId = line.id]
      [] line.what = "move"   -> Complete(currentId, line.id)

ReadLine(e) ==
    /\ reader[e].at = "read" /\ fromEngine[e] # <<>>
    /\ reader' = [reader EXCEPT ![e] = OnLine(reader[e].currentId, Head(fromEngine[e]))]
    /\ fromEngine' = [fromEngine EXCEPT ![e] = Tail(@)]
    /\ UNCHANGED <<fields, native, open, toEngine, watched, caller, control>>

Deliver(e) ==
    /\ reader[e].at = "deliver"
    /\ replies' = {r \in replies : r.id # reader[e].currentId}
                   \cup {[id |-> reader[e].currentId, of |-> reader[e].text]}
    /\ reader' = [reader EXCEPT ![e] = Reading]
    /\ UNCHANGED <<process, writer, nextCmdId, awaiting, native, pipes, watched, caller, control>>

\* The stream ends: the app closed its end, or every writer has gone.  What the
\* BufferedReader holds may or may not be read first when the app closed it.
EndOfOutput(e) ==
    /\ reader[e].at = "read"
    /\ \/ ~open[e]
       \/ kind[e] = "exec" /\ state[e] = "exited" /\ fromEngine[e] = <<>>
    /\ reader' = [reader EXCEPT ![e] = Done]
    /\ fromEngine' = [fromEngine EXCEPT ![e] = <<>>]
    /\ UNCHANGED <<fields, native, open, toEngine, watched, caller, control>>

----------------------------------------------------------------------------
(* The engine: command/gtp.cpp *)

\* The input buffer of engine e: the app's `cin`, or its own.
Stdin(e) == IF kind[e] = "jni" THEN 0 ELSE e

\* What getline(cin) reads from: the buffer, filled from the pipe when empty.
Input(e) == IF stdin[Stdin(e)] = <<>> THEN toEngine[e] ELSE stdin[Stdin(e)]

Output(what, id) == [what |-> what, id |-> id]

\* A search that ends prints its move, or "play cancelled".
Cancellation(e) == IF analysis[e] = NoId THEN <<>> ELSE <<Output("move", analysis[e])>>

Loaded(e) ==
    /\ state[e] = "loading"
    /\ state' = [state EXCEPT ![e] = "running"]
    /\ UNCHANGED <<fields, kind, stdin, cinEof, genmove, analysis, pipes, watched, reader,
                   caller, control>>

\* What was not read from its pipe is lost with the engine.
Exit(e) ==
    /\ state' = [state EXCEPT ![e] = "exited"]
    /\ toEngine' = [toEngine EXCEPT ![e] = <<>>]

\* An exception while loading or on the way out: the engine ends by itself.
LoadFails(e) ==
    /\ state[e] = "loading"
    /\ Exit(e)
    /\ UNCHANGED <<fields, kind, stdin, cinEof, genmove, analysis, open, fromEngine, watched,
                   reader,
                   caller, control>>

\* One turn of the command loop on a line of kind `what`.  Any line, an empty
\* one too, first stops the analysis.
Execute(e, what, printed, exits) ==
    /\ state[e] = "running" /\ genmove[e] = NoId
    /\ Input(e) # <<>> /\ ~(kind[e] = "jni" /\ cinEof)
    /\ LET line == Head(Input(e)) IN
         /\ line.what = what
         /\ fromEngine' = [fromEngine EXCEPT ![e] = @ \o Cancellation(e) \o printed[line.id]]
         /\ genmove' = [genmove EXCEPT ![e] = IF what = "genmove" THEN line.id ELSE NoId]
         /\ analysis' = [analysis EXCEPT ![e] = IF what = "analysis" THEN line.id ELSE NoId]
    /\ stdin' = [stdin EXCEPT ![Stdin(e)] = Tail(Input(e))]
    /\ IF exits THEN Exit(e)
       ELSE /\ toEngine' = IF stdin[Stdin(e)] = <<>> THEN [toEngine EXCEPT ![e] = <<>>] ELSE toEngine
            /\ UNCHANGED state
    /\ UNCHANGED <<fields, kind, cinEof, open, watched, reader, caller, control>>

PrintsReply  == [i \in 0..MaxId |-> <<Output("reply", i)>>]
PrintsHeader == [i \in 0..MaxId |-> <<Output("header", i)>>]
PrintsNothing == [i \in 0..MaxId |-> <<>>]

Answers(e)     == Execute(e, "command", PrintsReply, FALSE)
StartsMove(e)  == Execute(e, "genmove", PrintsHeader, FALSE)
Analyses(e)    == Execute(e, "analysis", PrintsHeader, FALSE)
Interrupted(e) == Execute(e, "newline", PrintsNothing, FALSE)
Quits(e)       == Execute(e, "quit", PrintsReply, TRUE)

\* kata-genmove_analyze holds the command loop until the move is chosen.
Moves(e) ==
    /\ state[e] = "running" /\ genmove[e] # NoId
    /\ fromEngine' = [fromEngine EXCEPT ![e] = Append(@, Output("move", genmove[e]))]
    /\ genmove' = [genmove EXCEPT ![e] = NoId]
    /\ UNCHANGED <<fields, kind, state, stdin, cinEof, analysis, open, toEngine, watched, reader,
                   caller, control>>

AnalysisEnds(e) ==
    /\ state[e] = "running" /\ analysis[e] # NoId
    /\ fromEngine' = [fromEngine EXCEPT ![e] = @ \o Cancellation(e)]
    /\ analysis' = [analysis EXCEPT ![e] = NoId]
    /\ UNCHANGED <<fields, kind, state, stdin, cinEof, genmove, open, toEngine, watched, reader,
                   caller, control>>

AtEnd(e) == (kind[e] = "jni" /\ cinEof) \/ (Input(e) = <<>> /\ ~open[e])

\* getline fails: the pipe is closed and read out, or an engine before this one
\* left `cin` at its end.  Nothing ever clears it.
EndOfInput(e) ==
    /\ state[e] = "running" /\ genmove[e] = NoId
    /\ AtEnd(e)
    /\ Exit(e)
    /\ cinEof' = (cinEof \/ kind[e] = "jni")
    /\ fromEngine' = [fromEngine EXCEPT ![e] = @ \o Cancellation(e)]
    /\ analysis' = [analysis EXCEPT ![e] = NoId]
    /\ UNCHANGED <<fields, kind, stdin, genmove, open, watched, reader, caller, control>>

\* The katago-watch thread of a KataProcess, which polls the one flag.
Watch(e) ==
    /\ kind[e] = "jni" /\ state[e] # "none" /\ ~watched[e] /\ ~EngineRunning
    /\ watched' = [watched EXCEPT ![e] = TRUE]
    /\ UNCHANGED <<fields, native, pipes, reader, caller, control>>

----------------------------------------------------------------------------
(* stop() *)

At(t, pc) == thread[t].pc = pc
Goto(t, pc) == thread' = [thread EXCEPT ![t].pc = pc]

CallStop(t) ==
    /\ At(t, "idle")
    /\ thread' = [thread EXCEPT ![t] = [pc |-> "capture", p |-> process, w |-> NoEngine]]
    /\ UNCHANGED <<fields, native, pipes, watched, reader, caller, starting, stoppedTwice>>

\* Who holds the writer that is captured here, if another stop() does.
HeldBy(t) == {u \in Threads \ {t} : thread[u].w = writer}

CaptureWriter(t) ==
    /\ At(t, "capture")
    /\ thread' = [thread EXCEPT ![t].pc = "quit", ![t].w = writer]
    /\ stoppedTwice' = IF writer = NoEngine \/ HeldBy(t) = {} THEN stoppedTwice
                       ELSE stoppedTwice \cup {writer}
    /\ UNCHANGED <<fields, native, pipes, watched, reader, caller, starting>>

WriteQuit(t) ==
    /\ At(t, "quit")
    /\ Goto(t, IF thread[t].p = NoEngine THEN "null" ELSE IF InProcess(thread[t].p) THEN "wait" ELSE "destroy")
    /\ toEngine' = IF thread[t].w = NoEngine THEN toEngine ELSE Written(thread[t].w, "quit", NoId)
    /\ UNCHANGED <<fields, native, open, fromEngine, watched, reader, caller, starting,
                   stoppedTwice>>

\* A KataProcess is given 40 s to leave its thread; a slow one is torn down anyway.
WaitForExit(t) ==
    /\ At(t, "wait") /\ Goto(t, "destroy")
    /\ ~EngineRunning
    /\ UNCHANGED <<fields, native, pipes, watched, reader, caller, starting, stoppedTwice>>

WaitTimesOut(t) ==
    /\ At(t, "wait") /\ Goto(t, "destroy")
    /\ EngineRunning
    /\ UNCHANGED <<fields, native, pipes, watched, reader, caller, starting, stoppedTwice>>

\* destroy(), waitFor(2 s), destroyForcibly(): the pipes are closed; an
\* executable is killed, a KataProcess only counts as exited.
Destroy(t) ==
    /\ At(t, "destroy") /\ Goto(t, "null")
    /\ LET p == thread[t].p IN
         /\ open' = [open EXCEPT ![p] = FALSE]
         /\ watched' = [watched EXCEPT ![p] = TRUE]
         /\ IF InProcess(p) THEN UNCHANGED <<state, toEngine>> ELSE Exit(p)
    /\ UNCHANGED <<fields, kind, stdin, cinEof, genmove, analysis, fromEngine, reader, caller,
                   starting, stoppedTwice>>

\* Mutant: the fields are cleared as a pair.
ForgetPair(t) ==
    /\ At(t, "null") /\ Goto(t, "compare")
    /\ IF process = thread[t].p /\ writer = thread[t].w
       THEN process' = NoEngine /\ writer' = NoEngine
       ELSE UNCHANGED <<process, writer>>
    /\ UNCHANGED <<nextCmdId, awaiting, replies, native, pipes, watched, reader, caller,
                   starting, stoppedTwice>>

\* Mutant: the writer stays in place.
ForgetProcess(t) ==
    /\ At(t, "null") /\ Goto(t, "compare")
    /\ process' = IF process = thread[t].p THEN NoEngine ELSE process
    /\ UNCHANGED <<writer, nextCmdId, awaiting, replies, native, pipes, watched, reader, caller,
                   starting, stoppedTwice>>

Forget(t) ==
    /\ At(t, "null") /\ Goto(t, "compare")
    /\ process' = IF process = thread[t].p THEN NoEngine ELSE process
    /\ writer' = IF writer = thread[t].w THEN NoEngine ELSE writer
    /\ UNCHANGED <<nextCmdId, awaiting, replies, native, pipes, watched, reader, caller,
                   starting, stoppedTwice>>

\* start() goes on where its stop() returns.
Leave(t) ==
    thread' = [thread EXCEPT ![t] =
                   [Idle EXCEPT !.pc = IF t = Main /\ starting THEN "launch" ELSE "idle"]]

\* `if (process !== p) return`, after the block above has cleared `process`.
Superseded(t) ==
    /\ At(t, "compare") /\ process # thread[t].p
    /\ Leave(t)
    /\ UNCHANGED <<fields, native, pipes, watched, reader, caller, starting, stoppedTwice>>

Current(t) ==
    /\ At(t, "compare") /\ process = thread[t].p
    /\ Goto(t, "clear")
    /\ UNCHANGED <<fields, native, pipes, watched, reader, caller, starting, stoppedTwice>>

ClearAwaiting(t) ==
    /\ At(t, "clear") /\ Goto(t, "clearReplies")
    /\ awaiting' = {}
    /\ UNCHANGED <<process, writer, nextCmdId, replies, native, pipes, watched, reader, caller,
                   starting, stoppedTwice>>

ClearReplies(t) ==
    /\ At(t, "clearReplies") /\ Leave(t)
    /\ replies' = {}
    /\ UNCHANGED <<process, writer, nextCmdId, awaiting, native, pipes, watched, reader, caller,
                   starting, stoppedTwice>>

----------------------------------------------------------------------------
(* start() *)

CallStart ==
    /\ At(Main, "idle") /\ ~starting
    /\ starting' = TRUE
    /\ thread' = [thread EXCEPT ![Main] = [pc |-> "capture", p |-> process, w |-> NoEngine]]
    /\ UNCHANGED <<fields, native, pipes, watched, reader, caller, stoppedTwice>>

\* KataNative.start or ProcessBuilder.start.  A jni engine is only started when
\* the last one has left its thread; it takes over file descriptors 0, 1 and 2.
Launch(e, k) ==
    /\ At(Main, "launch")
    /\ state[e] = "none" /\ \A f \in Engines : f < e => state[f] # "none"
    /\ k = "jni" => ~EngineRunning
    /\ kind' = [kind EXCEPT ![e] = k]
    /\ state' = [state EXCEPT ![e] = "loading"]
    /\ open' = [open EXCEPT ![e] = TRUE]
    /\ thread' = [thread EXCEPT ![Main] = [pc |-> "setProcess", p |-> e, w |-> NoEngine]]
    /\ UNCHANGED <<fields, stdin, cinEof, genmove, analysis, toEngine, fromEngine, watched, reader,
                   caller, starting, stoppedTwice>>

\* startEngineInFd gave up after 30 s, or the executable did not start.
LaunchFails ==
    /\ At(Main, "launch")
    /\ thread' = [thread EXCEPT ![Main] = Idle] /\ starting' = FALSE
    /\ UNCHANGED <<fields, native, pipes, watched, reader, caller, stoppedTwice>>

ExitedImmediately ==
    /\ At(Main, "setProcess") /\ ~IsAlive(thread[Main].p)
    /\ thread' = [thread EXCEPT ![Main] = Idle] /\ starting' = FALSE
    /\ UNCHANGED <<fields, native, pipes, watched, reader, caller, stoppedTwice>>

SetProcess ==
    /\ At(Main, "setProcess") /\ IsAlive(thread[Main].p)
    /\ process' = thread[Main].p
    /\ Goto(Main, "setWriter")
    /\ UNCHANGED <<writer, nextCmdId, awaiting, replies, native, pipes, watched, reader, caller,
                   starting, stoppedTwice>>

SetWriter ==
    /\ At(Main, "setWriter")
    /\ writer' = thread[Main].p
    /\ Goto(Main, "startReader")
    /\ UNCHANGED <<process, nextCmdId, awaiting, replies, native, pipes, watched, reader, caller,
                   starting, stoppedTwice>>

StartReader ==
    /\ At(Main, "startReader")
    /\ reader' = [reader EXCEPT ![thread[Main].p] = Reading]
    /\ thread' = [thread EXCEPT ![Main] = Idle] /\ starting' = FALSE
    /\ UNCHANGED <<fields, native, pipes, watched, caller, stoppedTwice>>

----------------------------------------------------------------------------

Poll(c) == TakeReply(c) \/ EngineGone(c)

Sending(c) ==
    \/ TakeId(c) \/ NotRunning(c)
    \/ \E what \in {"command", "genmove"} : Write(c, what)
    \/ Poll(c) \/ TimedOut(c) \/ Cancelled(c)

ReadLoop(e) == ReadLine(e) \/ Deliver(e) \/ EndOfOutput(e)

CommandLoop(e) ==
    Answers(e) \/ StartsMove(e) \/ Analyses(e) \/ Interrupted(e) \/ Quits(e) \/ EndOfInput(e)

Engine(e) ==
    Loaded(e) \/ LoadFails(e) \/ CommandLoop(e) \/ Moves(e) \/ AnalysisEnds(e) \/ Watch(e)

Stopping(t) ==
    \/ CaptureWriter(t) \/ WriteQuit(t) \/ WaitForExit(t) \/ Destroy(t) \/ Forget(t)
    \/ Superseded(t) \/ Current(t) \/ ClearAwaiting(t) \/ ClearReplies(t)

Starting ==
    \/ \E e \in Engines, k \in Kinds : Launch(e, k)
    \/ LaunchFails \/ ExitedImmediately \/ SetProcess \/ SetWriter \/ StartReader

Next ==
    \/ \E c \in Callers : Sending(c)
    \/ SendAsync \/ Interrupt
    \/ \E e \in Engines : ReadLoop(e) \/ Engine(e)
    \/ \E t \in Stoppers : CallStop(t)
    \/ \E t \in Threads : Stopping(t) \/ WaitTimesOut(t)
    \/ CallStart \/ Starting

\* Threads are scheduled, coroutines resumed, and an engine that was given a
\* command works on it.  Nothing has to call send(), start() or stop(), and no
\* time limit has to run out.
Fairness ==
    /\ \A c \in Callers :
         WF_vars(NotRunning(c) \/ Poll(c) \/ \E what \in {"command", "genmove"} : Write(c, what))
    /\ \A e \in Engines : /\ WF_vars(ReadLine(e) \/ Deliver(e))
                          /\ WF_vars(Loaded(e) \/ CommandLoop(e) \/ Moves(e))
                          /\ WF_vars(Watch(e))
    /\ WF_vars(Stopping(Main) \/ Starting)
    /\ \A t \in Stoppers \ {Main} : WF_vars(Stopping(t))

Spec == Init /\ [][Next]_vars
FairSpec == Spec /\ Fairness

----------------------------------------------------------------------------
(* Properties *)

\* Every variable of GtpEngine.kt, KataNative.kt and the engine keeps its type.
TypeOK ==
    /\ process \in 0..MaxEngines /\ writer \in 0..MaxEngines
    /\ nextCmdId \in 0..MaxId /\ awaiting \subseteq Ids /\ replies \subseteq Replies
    /\ kind \in [Engines -> {"jni", "exec"}]
    /\ state \in [Engines -> {"none", "loading", "running", "exited"}]
    /\ open \in [Engines -> BOOLEAN] /\ watched \in [Engines -> BOOLEAN]
    /\ toEngine \in [Engines -> Seq(Lines)] /\ fromEngine \in [Engines -> Seq(Outputs)]
    /\ stdin \in [0..MaxEngines -> Seq(Lines)] /\ cinEof \in BOOLEAN
    /\ genmove \in [Engines -> 0..MaxId] /\ analysis \in [Engines -> 0..MaxId]
    /\ reader \in [Engines -> [at : {"off", "read", "deliver"}, currentId : 0..MaxId,
                               text : 0..MaxId]]
    /\ caller \in [Callers -> [pc : {"idle", "write", "wait"}, id : 0..MaxId,
                               target : 0..MaxEngines]]
    /\ thread \in [Threads -> [pc : {"idle", "capture", "quit", "wait", "destroy", "null", "compare",
                                     "clear", "clearReplies", "launch", "setProcess", "setWriter",
                                     "startReader"},
                               p : 0..MaxEngines, w : 0..MaxEngines]]
    /\ starting \in BOOLEAN /\ stoppedTwice \subseteq Engines

\* The map of replies only ever holds, under an id, the whole text of the reply to
\* that very command: an interrupted analysis, a move being searched, a command of
\* another coroutine or of an engine that was replaced never leaks into it.
RepliesMatch == \A r \in replies : r.of = r.id

\* "never destroy or clear the *new* process's pipes/state" (GtpEngine.kt:120-123):
\* whoever waits for the engine in place, while it lives, is in `awaiting`. This does
\* not hold when an IO thread stops engines; README.md, "Known disagreements".
WaitingIsAwaited ==
    \A c \in Callers : Waiting(c) /\ caller[c].target = process /\ isRunning
                           => caller[c].id \in awaiting

\* An engine that quits was told so by a stop() that meant this engine.  The buffer of
\* `cin` is shared by the jni engines, so a "quit" left over in it ends the next one;
\* that happens only where two stop()s held one engine at the same time (the main
\* thread's and an IO thread's, or two IO threads'), and each wrote its "quit".
QuitsByItsOwnStop ==
    [][\A e \in Engines : Quits(e) =>
           LET told == Head(Input(e)).to IN told = e \/ told \in stoppedTwice]_vars

\* The other half of the same comment: an engine whose pipes were destroyed is not
\* left, or put, in place; only the stop() that captured it may be about to remove it.
PipesKept ==
    process # NoEngine /\ ~open[process]
        => \E t \in Threads : thread[t].pc = "null" /\ thread[t].p = process

\* When only the main thread stops engines (see WaitingIsAwaited for the others), who
\* waits for the engine in place returns, or the engine is stopped, replaced or dies:
\* no time limit is needed.
Served ==
    [](\A t \in Threads \ {Main} : thread[t].pc = "idle")
        => \A c \in Callers : (Waiting(c) /\ caller[c].target = process)
                                ~> (~Waiting(c) \/ caller[c].target # process)

=============================================================================
