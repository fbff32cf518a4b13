-------------------------- MODULE GtpEngineProofs --------------------------
(***************************************************************************)
(* Theorems about GtpEngine, for any number of coroutines, threads that     *)
(* stop engines, engines started and ids taken: the types, and that no text *)
(* is ever delivered as the reply to another command.                       *)
(***************************************************************************)
EXTENDS GtpEngine, SequenceTheorems, TLAPS

(* The types, by the part of the state they speak of. *)

FieldsType ==
    /\ process \in 0..MaxEngines /\ writer \in 0..MaxEngines
    /\ nextCmdId \in 0..MaxId /\ awaiting \subseteq Ids /\ replies \subseteq Replies

NativeType ==
    /\ kind \in [Engines -> {"jni", "exec"}]
    /\ state \in [Engines -> {"none", "loading", "running", "exited"}]
    /\ open \in [Engines -> BOOLEAN] /\ watched \in [Engines -> BOOLEAN] /\ cinEof \in BOOLEAN

InputType == toEngine \in [Engines -> Seq(Lines)] /\ stdin \in [0..MaxEngines -> Seq(Lines)]

OutputType ==
    /\ fromEngine \in [Engines -> Seq(Outputs)]
    /\ genmove \in [Engines -> 0..MaxId] /\ analysis \in [Engines -> 0..MaxId]

\* Only a reply with an id is delivered.
ReaderType ==
    /\ reader \in [Engines -> [at : {"off", "read", "deliver"}, currentId : 0..MaxId, text : 0..MaxId]]
    /\ \A e \in Engines : reader[e].at = "deliver" => reader[e].currentId # NoId

\* Who sends has taken an id.
CallerType ==
    /\ caller \in [Callers -> [pc : {"idle", "write", "wait"}, id : 0..MaxId, target : 0..MaxEngines]]
    /\ \A c \in Callers : caller[c].pc # "idle" => caller[c].id # NoId

ThreadStates ==
    [pc : {"idle", "capture", "quit", "wait", "destroy", "null", "compare", "clear", "clearReplies",
           "launch", "setProcess", "setWriter", "startReader"},
     p : 0..MaxEngines, w : 0..MaxEngines]

\* Once the main thread has launched an engine it holds on to it.
ThreadType ==
    /\ thread \in [Threads -> ThreadStates]
    /\ \A t \in Threads : thread[t].pc \in {"wait", "destroy", "setProcess", "setWriter", "startReader"}
                              => thread[t].p # NoEngine
    /\ starting \in BOOLEAN

HistoryType == stoppedTwice \subseteq Engines

TypeInv ==
    /\ FieldsType /\ NativeType /\ InputType /\ OutputType /\ ReaderType /\ CallerType /\ ThreadType
    /\ HistoryType

\* The invariant is the type invariant and a little more.
LEMMA TypeInvTypes == TypeInv => TypeOK
BY DEF TypeInv, FieldsType, NativeType, InputType, OutputType, ReaderType, CallerType,
   ThreadType, ThreadStates, HistoryType, TypeOK

\* The types hold initially.
LEMMA TypeInit == Init => TypeInv
<1> SUFFICES ASSUME Init PROVE TypeInv
  OBVIOUS
<1> USE GtpAssumption DEF Init, NoEngine, NoId, Engines, Ids
<1>1. {0} \cup Engines = 0..MaxEngines
  OBVIOUS
<1>2. FieldsType
  BY DEF FieldsType
<1>8. NativeType
  BY DEF NativeType
<1>7. OutputType
  BY DEF OutputType
<1>3. InputType
  <2> HIDE DEF Engines
  <2>1. stdin = [b \in 0..MaxEngines |-> <<>>]
    BY <1>1, Zenon
  <2>2. toEngine = [e \in Engines |-> <<>>] /\ <<>> \in Seq(Lines)
    OBVIOUS
  <2> QED
    BY <2>1, <2>2 DEF InputType
<1>4. ReaderType
  BY DEF ReaderType, Done
<1>5. CallerType
  BY DEF CallerType, NotSending
<1>6. ThreadType
  <2>1. Idle \in ThreadStates /\ Idle.pc = "idle"
    BY DEF ThreadStates, Idle
  <2>2. thread = [t \in Threads |-> Idle] /\ starting = FALSE
    OBVIOUS
  <2> QED
    BY <2>1, <2>2 DEF ThreadType
<1>9. HistoryType
  BY DEF HistoryType
<1> QED
  BY <1>2, <1>3, <1>4, <1>5, <1>6, <1>7, <1>8, <1>9 DEF TypeInv

\* A line written to an engine leaves the pipes well typed.
LEMMA WrittenType ==
    ASSUME InputType, NEW w \in Engines, NEW id \in 0..MaxId,
           NEW what \in {"command", "genmove", "analysis", "quit", "newline"}
    PROVE  Written(w, what, id) \in [Engines -> Seq(Lines)]
<1> DEFINE line == [what |-> what, id |-> id, to |-> w]
<1>1. line \in Lines
  BY DEF Lines
<1>2. toEngine \in [Engines -> Seq(Lines)]
  BY DEF InputType
<1>3. Append(toEngine[w], line) \in Seq(Lines)
  BY <1>1, <1>2
<1> HIDE DEF line
<1>4. [toEngine EXCEPT ![w] = Append(@, line)] \in [Engines -> Seq(Lines)]
  BY <1>2, <1>3
<1> QED
  BY <1>2, <1>4 DEF Written, line

\* What an engine reads next is a sequence of lines, and so is the rest of it.
LEMMA InputLines ==
    ASSUME InputType, NEW e \in Engines
    PROVE  /\ Stdin(e) \in 0..MaxEngines /\ Input(e) \in Seq(Lines)
           /\ Input(e) # <<>> => Head(Input(e)) \in Lines /\ Tail(Input(e)) \in Seq(Lines)
<1>1. Stdin(e) \in 0..MaxEngines
  BY GtpAssumption DEF Stdin, Engines
<1>2. Input(e) \in Seq(Lines)
  BY <1>1 DEF Input, InputType
<1> QED
  BY <1>1, <1>2

----------------------------------------------------------------------------
(* Each part keeps its type *)

\* Commands take ids and wait, the read loop delivers, threads start and stop.
LEMMA FieldsStep == TypeInv /\ Next => FieldsType'
<1> SUFFICES ASSUME TypeInv, Next PROVE FieldsType'
  OBVIOUS
<1> USE GtpAssumption DEF FieldsType, fields, NoEngine, NoId, Ids
<1>0. FieldsType /\ ReaderType /\ CallerType /\ ThreadType
  BY DEF TypeInv
<1>1. ASSUME NEW c \in Callers, Sending(c) PROVE FieldsType'
  <2>1. caller[c].pc # "idle" => caller[c].id \in Ids
    BY <1>0 DEF CallerType
  <2>2. CASE TakeId(c)
    <3>1. nextCmdId < MaxId /\ nextCmdId' = nextCmdId + 1
      BY <2>2 DEF TakeId
    <3>2. UNCHANGED <<process, writer, awaiting, replies>>
      BY <2>2 DEF TakeId
    <3> QED
      BY <1>0, <3>1, <3>2
  <2>6. CASE NotRunning(c) \/ Cancelled(c)
    BY <1>0, <2>6 DEF NotRunning, Cancelled
  <2>3. ASSUME NEW what \in {"command", "genmove"}, Write(c, what) PROVE FieldsType'
    BY <1>0, <2>1, <2>3 DEF Write
  <2>4. CASE TakeReply(c)
    BY <1>0, <2>4 DEF TakeReply
  <2>5. CASE EngineGone(c) \/ TimedOut(c)
    BY <1>0, <2>5 DEF EngineGone, TimedOut, GiveUp
  <2> QED
    BY <1>1, <2>2, <2>3, <2>4, <2>5, <2>6 DEF Sending, Poll
<1>2. CASE SendAsync
  <2>1. nextCmdId < MaxId /\ nextCmdId' = nextCmdId + 1
    BY <1>2 DEF SendAsync
  <2>2. UNCHANGED <<process, writer, awaiting, replies>>
    BY <1>2 DEF SendAsync
  <2> QED
    BY <1>0, <2>1, <2>2
<1>7. CASE Interrupt
  BY <1>0, <1>7 DEF Interrupt
<1>3. ASSUME NEW e \in Engines, ReadLoop(e) PROVE FieldsType'
  <2>1. CASE Deliver(e)
    <3>1. [id |-> reader[e].currentId, of |-> reader[e].text] \in Replies
      BY <1>0, <2>1 DEF ReaderType, Deliver, Replies
    <3> QED
      BY <1>0, <2>1, <3>1 DEF Deliver
  <2> QED
    BY <1>0, <1>3, <2>1 DEF ReadLoop, ReadLine, EndOfOutput
<1>4. ASSUME NEW e \in Engines, Engine(e) PROVE FieldsType'
  BY <1>0, <1>4 DEF Engine, CommandLoop, Loaded, LoadFails, Execute, Answers, StartsMove, Analyses,
     Interrupted, Quits, EndOfInput, Moves, AnalysisEnds, Watch
<1>5. ASSUME NEW t \in Threads, CallStop(t) \/ Stopping(t) \/ WaitTimesOut(t) PROVE FieldsType'
  BY <1>0, <1>5 DEF CallStop, Stopping, WaitTimesOut, CaptureWriter, WriteQuit, WaitForExit, Destroy,
     Forget, Superseded, Current, ClearAwaiting, ClearReplies
<1>6. CASE CallStart \/ Starting
  <2>1. thread[Main].p \in 0..MaxEngines
    BY <1>0 DEF ThreadType, ThreadStates, Threads
  <2> QED
    BY <1>0, <1>6, <2>1 DEF CallStart, Starting, Launch, LaunchFails, ExitedImmediately, SetProcess,
       SetWriter, StartReader
<1> QED
  BY <1>1, <1>2, <1>3, <1>4, <1>5, <1>6, <1>7 DEF Next, Threads

\* Coroutines.
LEMMA CallerStep == TypeInv /\ Next => CallerType'
<1> SUFFICES ASSUME TypeInv, Next PROVE CallerType'
  OBVIOUS
<1> USE GtpAssumption DEF CallerType, NoEngine, NoId
<1>0. FieldsType /\ CallerType
  BY DEF TypeInv
<1>1. ASSUME NEW c \in Callers, Sending(c) PROVE CallerType'
  BY <1>0, <1>1 DEF FieldsType, Sending, Poll, TakeId, NotRunning, Write, CanWrite, TakeReply,
     EngineGone, TimedOut, GiveUp, Cancelled, Waiting, Return, NotSending
<1>2. CASE SendAsync \/ Interrupt
  BY <1>0, <1>2 DEF SendAsync, Interrupt
<1>3. ASSUME NEW e \in Engines, ReadLoop(e) \/ Engine(e) PROVE CallerType'
  BY <1>0, <1>3 DEF ReadLoop, ReadLine, Deliver, EndOfOutput, Engine, CommandLoop, Loaded, LoadFails,
     Execute, Answers, StartsMove, Analyses, Interrupted, Quits, EndOfInput, Moves, AnalysisEnds, Watch
<1>4. ASSUME NEW t \in Threads, CallStop(t) \/ Stopping(t) \/ WaitTimesOut(t) PROVE CallerType'
  BY <1>0, <1>4 DEF CallStop, Stopping, WaitTimesOut, CaptureWriter, WriteQuit, WaitForExit, Destroy,
     Forget, Superseded, Current, ClearAwaiting, ClearReplies
<1>5. CASE CallStart \/ Starting
  BY <1>0, <1>5 DEF CallStart, Starting, Launch, LaunchFails, ExitedImmediately, SetProcess,
     SetWriter, StartReader
<1> QED
  BY <1>1, <1>2, <1>3, <1>4, <1>5 DEF Next, Threads

\* Engines.
LEMMA NativeStep == TypeInv /\ Next => NativeType'
<1> SUFFICES ASSUME TypeInv, Next PROVE NativeType'
  OBVIOUS
<1> USE GtpAssumption DEF native, pipes
<1>0. NativeType /\ ThreadType
  BY DEF TypeInv
<1>1. ASSUME NEW c \in Callers, Sending(c) PROVE NativeType'
  <2>1. UNCHANGED <<kind, state, open, watched, cinEof>>
    BY <1>1 DEF Sending, Poll, TakeId, NotRunning, Write, TakeReply, EngineGone, TimedOut, GiveUp, Cancelled
  <2> QED
    BY <1>0, <2>1 DEF NativeType
<1>2. CASE SendAsync \/ Interrupt
  <2>1. UNCHANGED <<kind, state, open, watched, cinEof>>
    BY <1>2 DEF SendAsync, Interrupt
  <2> QED
    BY <1>0, <2>1 DEF NativeType
<1>3. ASSUME NEW e \in Engines, ReadLoop(e) PROVE NativeType'
  <2>1. UNCHANGED <<kind, state, open, watched, cinEof>>
    BY <1>3 DEF ReadLoop, ReadLine, Deliver, EndOfOutput
  <2> QED
    BY <1>0, <2>1 DEF NativeType
<1>4. ASSUME NEW e \in Engines, Engine(e) PROVE NativeType'
  <2>1. CASE Loaded(e)
    BY <1>0, <2>1 DEF Loaded, NativeType
  <2>2. CASE LoadFails(e)
    BY <1>0, <2>2 DEF LoadFails, Exit, NativeType
  <2>3. ASSUME NEW what, NEW printed, NEW exits \in BOOLEAN, Execute(e, what, printed, exits)
        PROVE  NativeType'
    <3>1. UNCHANGED <<kind, open, watched, cinEof>>
      BY <2>3 DEF Execute
    <3>2. state' = state \/ state' = [state EXCEPT ![e] = "exited"]
      BY <2>3 DEF Execute, Exit
    <3> QED
      BY <1>0, <3>1, <3>2 DEF NativeType
  <2>4. CASE EndOfInput(e)
    BY <1>0, <2>4 DEF EndOfInput, Exit, NativeType
  <2>5. CASE Moves(e) \/ AnalysisEnds(e)
    BY <1>0, <2>5 DEF Moves, AnalysisEnds, NativeType
  <2>6. CASE Watch(e)
    BY <1>0, <2>6 DEF Watch, NativeType
  <2> QED
    BY <1>4, <2>1, <2>2, <2>3, <2>4, <2>5, <2>6
    DEF Engine, CommandLoop, Answers, StartsMove, Analyses, Interrupted, Quits
<1>5. ASSUME NEW t \in Threads, CallStop(t) \/ Stopping(t) \/ WaitTimesOut(t) PROVE NativeType'
  <2>1. CASE Destroy(t)
    BY <1>0, <2>1 DEF Destroy, Exit, NativeType
  <2>2. CASE CallStop(t) \/ CaptureWriter(t) \/ WriteQuit(t) \/ WaitForExit(t) \/ WaitTimesOut(t)
    BY <1>0, <2>2 DEF CallStop, CaptureWriter, WriteQuit, WaitForExit, WaitTimesOut, NativeType
  <2>3. CASE Forget(t) \/ Superseded(t) \/ Current(t) \/ ClearAwaiting(t) \/ ClearReplies(t)
    BY <1>0, <2>3 DEF Forget, Superseded, Current, ClearAwaiting, ClearReplies, NativeType
  <2> QED
    BY <1>5, <2>1, <2>2, <2>3 DEF Stopping
<1>6. CASE CallStart \/ Starting
  <2>1. ASSUME NEW e \in Engines, NEW k \in Kinds, Launch(e, k) PROVE NativeType'
    BY <1>0, <2>1 DEF Launch, NativeType
  <2>2. CASE CallStart \/ LaunchFails \/ ExitedImmediately \/ SetProcess \/ SetWriter \/ StartReader
    BY <1>0, <2>2 DEF CallStart, LaunchFails, ExitedImmediately, SetProcess, SetWriter, StartReader, NativeType
  <2> QED
    BY <1>6, <2>1, <2>2 DEF Starting
<1> QED
  BY <1>1, <1>2, <1>3, <1>4, <1>5, <1>6 DEF Next, Threads

\* The pipes to the engines, and what they have read ahead.
LEMMA InputStep == TypeInv /\ Next => InputType'
<1> SUFFICES ASSUME TypeInv, Next PROVE InputType'
  OBVIOUS
<1> USE DEF native, pipes
<1>0. InputType /\ FieldsType /\ CallerType /\ ThreadType
  BY DEF TypeInv
<1>1. ASSUME NEW w \in Engines, NEW id \in 0..MaxId, UNCHANGED stdin,
             NEW what \in {"command", "genmove", "analysis", "quit", "newline"},
             toEngine' = Written(w, what, id)
      PROVE  InputType'
  BY <1>0, <1>1, WrittenType DEF InputType
<1>2. ASSUME UNCHANGED <<toEngine, stdin>> PROVE InputType'
  BY <1>0, <1>2 DEF InputType
<1>3. ASSUME NEW e \in Engines, Exit(e), UNCHANGED stdin PROVE InputType'
  BY <1>0, <1>3 DEF Exit, InputType
<1>4. CanWrite => writer \in Engines
  BY <1>0, GtpAssumption DEF CanWrite, FieldsType, Engines, NoEngine
<1>5. ASSUME NEW c \in Callers, Sending(c) PROVE InputType'
  <2>1. ASSUME NEW what \in {"command", "genmove"}, Write(c, what) PROVE InputType'
    <3>1. caller[c].id \in 0..MaxId
      BY <1>0 DEF CallerType
    <3> QED
      BY <1>1, <1>4, <2>1, <3>1 DEF Write
  <2>2. CASE TakeId(c) \/ NotRunning(c) \/ TakeReply(c) \/ EngineGone(c) \/ TimedOut(c) \/ Cancelled(c)
    BY <1>2, <2>2 DEF TakeId, NotRunning, TakeReply, EngineGone, TimedOut, GiveUp, Cancelled
  <2> QED
    BY <1>5, <2>1, <2>2 DEF Sending, Poll
<1>6. CASE SendAsync
  <2>1. nextCmdId + 1 \in 0..MaxId
    BY <1>0, <1>6, GtpAssumption DEF FieldsType, SendAsync
  <2> QED
    BY <1>1, <1>4, <1>6, <2>1 DEF SendAsync
<1>7. CASE Interrupt
  BY <1>1, <1>4, <1>7, GtpAssumption DEF Interrupt, NoId
<1>8. ASSUME NEW e \in Engines, ReadLoop(e) PROVE InputType'
  BY <1>2, <1>8 DEF ReadLoop, ReadLine, Deliver, EndOfOutput
<1>9. ASSUME NEW e \in Engines, Engine(e) PROVE InputType'
  <2>1. CASE Loaded(e) \/ Moves(e) \/ AnalysisEnds(e) \/ Watch(e)
    BY <1>2, <2>1 DEF Loaded, Moves, AnalysisEnds, Watch
  <2>2. CASE LoadFails(e) \/ EndOfInput(e)
    BY <1>3, <2>2 DEF LoadFails, EndOfInput
  <2>3. ASSUME NEW what, NEW printed, NEW exits \in BOOLEAN, Execute(e, what, printed, exits)
        PROVE  InputType'
    <3>1. stdin' = [stdin EXCEPT ![Stdin(e)] = Tail(Input(e))] /\ Tail(Input(e)) \in Seq(Lines)
      BY <1>0, <2>3, InputLines DEF Execute
    <3>2. toEngine' = toEngine \/ toEngine' = [toEngine EXCEPT ![e] = <<>>]
      BY <2>3 DEF Execute, Exit
    <3>3. toEngine' \in [Engines -> Seq(Lines)]
      <4>1. toEngine \in [Engines -> Seq(Lines)] /\ <<>> \in Seq(Lines)
        BY <1>0 DEF InputType
      <4>2. [toEngine EXCEPT ![e] = <<>>] \in [Engines -> Seq(Lines)]
        BY <4>1
      <4> QED
        BY <3>2, <4>1, <4>2
    <3>4. stdin' \in [0..MaxEngines -> Seq(Lines)]
      BY <1>0, <3>1 DEF InputType
    <3> QED
      BY <3>3, <3>4 DEF InputType
  <2> QED
    BY <1>9, <2>1, <2>2, <2>3
    DEF Engine, CommandLoop, Answers, StartsMove, Analyses, Interrupted, Quits
<1>10. ASSUME NEW t \in Threads, CallStop(t) \/ Stopping(t) \/ WaitTimesOut(t) PROVE InputType'
  <2>0. thread[t].p \in 0..MaxEngines /\ thread[t].w \in 0..MaxEngines
    BY <1>0 DEF ThreadType, ThreadStates
  <2>1. CASE Destroy(t)
    <3>1. thread[t].p \in Engines
      BY <1>0, <2>0, <2>1, GtpAssumption DEF ThreadType, Destroy, At, NoEngine, Engines
    <3> QED
      BY <1>2, <1>3, <2>1, <3>1 DEF Destroy
  <2>2. CASE WriteQuit(t)
    <3>1. thread[t].w # NoEngine => thread[t].w \in Engines
      BY <2>0, GtpAssumption DEF NoEngine, Engines
    <3> QED
      BY <1>1, <1>2, <2>2, <3>1, GtpAssumption DEF WriteQuit, NoId
  <2>3. CASE CallStop(t) \/ CaptureWriter(t) \/ WaitForExit(t) \/ WaitTimesOut(t)
    BY <1>2, <2>3 DEF CallStop, CaptureWriter, WaitForExit, WaitTimesOut
  <2>4. CASE Forget(t) \/ Superseded(t) \/ Current(t) \/ ClearAwaiting(t) \/ ClearReplies(t)
    BY <1>2, <2>4 DEF Forget, Superseded, Current, ClearAwaiting, ClearReplies
  <2> QED
    BY <1>10, <2>1, <2>2, <2>3, <2>4 DEF Stopping
<1>11. CASE CallStart \/ Starting
  BY <1>2, <1>11 DEF CallStart, Starting, Launch, LaunchFails, ExitedImmediately, SetProcess, SetWriter,
     StartReader
<1> QED
  BY <1>5, <1>6, <1>7, <1>8, <1>9, <1>10, <1>11 DEF Next, Threads

\* What an engine prints is a sequence of output lines.
LEMMA PrintedTypes ==
    /\ PrintsReply \in [0..MaxId -> Seq(Outputs)] /\ PrintsHeader \in [0..MaxId -> Seq(Outputs)]
    /\ PrintsNothing \in [0..MaxId -> Seq(Outputs)]
    /\ \A i \in 0..MaxId : Output("move", i) \in Outputs
    /\ OutputType => \A e \in Engines : Cancellation(e) \in Seq(Outputs)
<1>1. \A i \in 0..MaxId : \A w \in {"reply", "header", "move"} : Output(w, i) \in Outputs
  BY DEF Output, Outputs
<1> QED
  BY <1>1 DEF PrintsReply, PrintsHeader, PrintsNothing, Cancellation, OutputType

\* The engines' stdout, and what they are busy with.
LEMMA OutputStep == TypeInv /\ Next => OutputType'
<1> SUFFICES ASSUME TypeInv, Next PROVE OutputType'
  OBVIOUS
<1> USE DEF native, pipes
<1>0. OutputType /\ InputType
  BY DEF TypeInv
<1>1. ASSUME UNCHANGED <<fromEngine, genmove, analysis>> PROVE OutputType'
  BY <1>0, <1>1 DEF OutputType
<1>2. ASSUME NEW c \in Callers, Sending(c) PROVE OutputType'
  BY <1>1, <1>2 DEF Sending, Poll, TakeId, NotRunning, Write, TakeReply, EngineGone, TimedOut, GiveUp, Cancelled
<1>3. CASE SendAsync \/ Interrupt
  BY <1>1, <1>3 DEF SendAsync, Interrupt
<1>4. ASSUME NEW e \in Engines, ReadLoop(e) PROVE OutputType'
  <2>1. CASE ReadLine(e)
    BY <1>0, <2>1 DEF ReadLine, OutputType
  <2>2. CASE Deliver(e)
    BY <1>1, <2>2 DEF Deliver
  <2>3. CASE EndOfOutput(e)
    BY <1>0, <2>3 DEF EndOfOutput, OutputType
  <2> QED
    BY <1>4, <2>1, <2>2, <2>3 DEF ReadLoop
<1>5. ASSUME NEW e \in Engines, Engine(e) PROVE OutputType'
  <2>0. fromEngine[e] \in Seq(Outputs) /\ genmove[e] \in 0..MaxId /\ Cancellation(e) \in Seq(Outputs)
    BY <1>0, PrintedTypes DEF OutputType
  <2>1. CASE Loaded(e) \/ LoadFails(e) \/ Watch(e)
    BY <1>1, <2>1 DEF Loaded, LoadFails, Watch
  <2>2. ASSUME NEW what, NEW printed \in [0..MaxId -> Seq(Outputs)], NEW exits \in BOOLEAN,
               Execute(e, what, printed, exits)
        PROVE  OutputType'
    <3>1. Head(Input(e)).id \in 0..MaxId
      BY <1>0, <2>2, InputLines DEF Execute, Lines
    <3>2. fromEngine[e] \o Cancellation(e) \o printed[Head(Input(e)).id] \in Seq(Outputs)
      BY <2>0, <3>1
    <3>3. fromEngine' \in [Engines -> Seq(Outputs)]
      BY <1>0, <2>2, <3>2 DEF Execute, OutputType
    <3>4. genmove' \in [Engines -> 0..MaxId]
      BY <1>0, <2>2, <3>1, GtpAssumption DEF Execute, OutputType, NoId
    <3>5. analysis' \in [Engines -> 0..MaxId]
      BY <1>0, <2>2, <3>1, GtpAssumption DEF Execute, OutputType, NoId
    <3> QED
      BY <3>3, <3>4, <3>5 DEF OutputType
  <2>3. CASE EndOfInput(e)
    BY <1>0, <2>0, <2>3, GtpAssumption DEF EndOfInput, OutputType, NoId
  <2>4. CASE Moves(e)
    <3>1. Append(fromEngine[e], Output("move", genmove[e])) \in Seq(Outputs)
      BY <2>0, PrintedTypes
    <3> QED
      BY <1>0, <2>4, <3>1, GtpAssumption DEF Moves, OutputType, NoId
  <2>5. CASE AnalysisEnds(e)
    BY <1>0, <2>0, <2>5, GtpAssumption DEF AnalysisEnds, OutputType, NoId
  <2> QED
    BY <1>5, <2>1, <2>2, <2>3, <2>4, <2>5, PrintedTypes
    DEF Engine, CommandLoop, Answers, StartsMove, Analyses, Interrupted, Quits
<1>6. ASSUME NEW t \in Threads, CallStop(t) \/ Stopping(t) \/ WaitTimesOut(t) PROVE OutputType'
  BY <1>1, <1>6 DEF CallStop, Stopping, WaitTimesOut, CaptureWriter, WriteQuit, WaitForExit, Destroy,
     Forget, Superseded, Current, ClearAwaiting, ClearReplies
<1>7. CASE CallStart \/ Starting
  BY <1>1, <1>7 DEF CallStart, Starting, Launch, LaunchFails, ExitedImmediately, SetProcess, SetWriter,
     StartReader
<1> QED
  BY <1>2, <1>3, <1>4, <1>5, <1>6, <1>7 DEF Next, Threads

\* The read loops: an id is only delivered to when it was found in `awaiting`.
LEMMA ReaderStep == TypeInv /\ Next => ReaderType'
<1> SUFFICES ASSUME TypeInv, Next PROVE ReaderType'
  OBVIOUS
<1>0. ReaderType /\ OutputType /\ FieldsType /\ ThreadType
  BY DEF TypeInv
<1>1. ASSUME UNCHANGED reader PROVE ReaderType'
  BY <1>0, <1>1 DEF ReaderType
<1>2. /\ Reading.at = "read" /\ Done.at = "off"
      /\ Reading \in [at : {"off", "read", "deliver"}, currentId : 0..MaxId, text : 0..MaxId]
      /\ Done \in [at : {"off", "read", "deliver"}, currentId : 0..MaxId, text : 0..MaxId]
  BY GtpAssumption DEF Reading, Done, NoId
<1>3. ASSUME NEW c \in Callers, Sending(c) PROVE ReaderType'
  BY <1>1, <1>3 DEF Sending, Poll, TakeId, NotRunning, Write, TakeReply, EngineGone, TimedOut, GiveUp, Cancelled
<1>4. CASE SendAsync \/ Interrupt
  BY <1>1, <1>4 DEF SendAsync, Interrupt
<1>5. ASSUME NEW e \in Engines, ReadLoop(e) PROVE ReaderType'
  <2>1. CASE ReadLine(e)
    <3> DEFINE line == Head(fromEngine[e])
               next == OnLine(reader[e].currentId, line)
    <3>1. line \in Outputs /\ reader[e].currentId \in 0..MaxId
      BY <1>0, <2>1 DEF ReadLine, OutputType, ReaderType
    <3>2. /\ next \in [at : {"off", "read", "deliver"}, currentId : 0..MaxId, text : 0..MaxId]
          /\ next.at = "deliver" => next.currentId # NoId
      BY <3>1, <1>2 DEF OnLine, Complete, Outputs, Reading
    <3> HIDE DEF next
    <3>3. reader' = [reader EXCEPT ![e] = next]
      BY <2>1 DEF ReadLine, next
    <3> QED
      BY <1>0, <3>2, <3>3 DEF ReaderType
  <2>2. CASE Deliver(e)
    BY <1>0, <1>2, <2>2 DEF Deliver, ReaderType
  <2>3. CASE EndOfOutput(e)
    BY <1>0, <1>2, <2>3 DEF EndOfOutput, ReaderType
  <2> QED
    BY <1>5, <2>1, <2>2, <2>3 DEF ReadLoop
<1>6. ASSUME NEW e \in Engines, Engine(e) PROVE ReaderType'
  BY <1>1, <1>6 DEF Engine, CommandLoop, Loaded, LoadFails, Execute, Answers, StartsMove, Analyses,
     Interrupted, Quits, EndOfInput, Moves, AnalysisEnds, Watch
<1>7. ASSUME NEW t \in Threads, CallStop(t) \/ Stopping(t) \/ WaitTimesOut(t) PROVE ReaderType'
  BY <1>1, <1>7 DEF CallStop, Stopping, WaitTimesOut, CaptureWriter, WriteQuit, WaitForExit, Destroy,
     Forget, Superseded, Current, ClearAwaiting, ClearReplies
<1>8. CASE CallStart \/ Starting
  <2>1. CASE StartReader
    BY <1>0, <1>2, <2>1 DEF StartReader, ReaderType
  <2> QED
    BY <1>1, <1>8, <2>1 DEF CallStart, Starting, Launch, LaunchFails, ExitedImmediately, SetProcess, SetWriter
<1> QED
  BY <1>3, <1>4, <1>5, <1>6, <1>7, <1>8 DEF Next, Threads

\* Threads inside stop() or start().
LEMMA ThreadStep == TypeInv /\ Next => ThreadType'
<1> SUFFICES ASSUME TypeInv, Next PROVE ThreadType'
  OBVIOUS
<1> USE DEF ThreadType
<1>0. ThreadType /\ FieldsType
  BY DEF TypeInv
<1>1. ASSUME UNCHANGED control PROVE ThreadType'
  BY <1>0, <1>1 DEF control
<1>2. ASSUME NEW t \in Threads, NEW s \in ThreadStates, starting' \in BOOLEAN,
             s.pc \in {"wait", "destroy", "setProcess", "setWriter", "startReader"} => s.p # NoEngine,
             thread' = [thread EXCEPT ![t] = s]
      PROVE  ThreadType'
  BY <1>0, <1>2
<1>3. /\ Idle \in ThreadStates /\ Idle.pc = "idle"
      /\ [Idle EXCEPT !.pc = "launch"] \in ThreadStates
      /\ [Idle EXCEPT !.pc = "launch"].pc = "launch"
      /\ [Idle EXCEPT !.pc = "idle"] = Idle
  BY GtpAssumption DEF Idle, ThreadStates, NoEngine
<1>4. ASSUME NEW c \in Callers, Sending(c) PROVE ThreadType'
  BY <1>1, <1>4 DEF Sending, Poll, TakeId, NotRunning, Write, TakeReply, EngineGone, TimedOut, GiveUp, Cancelled
<1>5. CASE SendAsync \/ Interrupt
  BY <1>1, <1>5 DEF SendAsync, Interrupt
<1>6. ASSUME NEW e \in Engines, ReadLoop(e) \/ Engine(e) PROVE ThreadType'
  BY <1>1, <1>6 DEF ReadLoop, ReadLine, Deliver, EndOfOutput, Engine, CommandLoop, Loaded, LoadFails,
     Execute, Answers, StartsMove, Analyses, Interrupted, Quits, EndOfInput, Moves, AnalysisEnds, Watch
<1>7. ASSUME NEW t \in Threads, CallStop(t) \/ Stopping(t) \/ WaitTimesOut(t) PROVE ThreadType'
  <2>0. thread[t] \in ThreadStates /\ starting \in BOOLEAN
    BY <1>0
  <2>1. CASE CallStop(t)
    <3>1. [pc |-> "capture", p |-> process, w |-> NoEngine] \in ThreadStates
      BY <1>0, GtpAssumption DEF FieldsType, ThreadStates, NoEngine
    <3> QED
      BY <1>2, <2>0, <2>1, <3>1 DEF CallStop
  <2>2. CASE CaptureWriter(t)
    <3>1. PICK s : s = [thread[t] EXCEPT !.pc = "quit", !.w = writer]
      OBVIOUS
    <3>2. s \in ThreadStates /\ s.pc = "quit"
      BY <1>0, <2>0, <3>1 DEF FieldsType, ThreadStates
    <3>3. thread' = [thread EXCEPT ![t] = s] /\ starting' = starting
      BY <2>2, <3>1 DEF CaptureWriter
    <3> QED
      BY <1>2, <2>0, <3>2, <3>3
  <2>3. ASSUME NEW pc \in {"wait", "destroy", "null", "compare", "clear", "clearReplies"},
               Goto(t, pc), UNCHANGED starting,
               pc \in {"wait", "destroy"} => thread[t].p # NoEngine
        PROVE  ThreadType'
    <3>1. [thread[t] EXCEPT !.pc = pc] \in ThreadStates
      BY <2>0, <2>3 DEF ThreadStates
    <3>2. [thread[t] EXCEPT !.pc = pc].pc = pc /\ [thread[t] EXCEPT !.pc = pc].p = thread[t].p
      BY <2>0 DEF ThreadStates
    <3> QED
      BY <1>2, <2>0, <2>3, <3>1, <3>2 DEF Goto
  <2>4. CASE WriteQuit(t)
    BY <2>3, <2>4 DEF WriteQuit
  <2>5. CASE WaitForExit(t) \/ WaitTimesOut(t)
    BY <1>0, <2>3, <2>5 DEF WaitForExit, WaitTimesOut, At
  <2>6. CASE Destroy(t) \/ Forget(t) \/ Current(t) \/ ClearAwaiting(t)
    BY <2>3, <2>6 DEF Destroy, Forget, Current, ClearAwaiting
  <2>7. CASE Superseded(t) \/ ClearReplies(t)
    BY <1>2, <1>3, <2>0, <2>7 DEF Superseded, ClearReplies, Leave
  <2> QED
    BY <1>7, <2>1, <2>2, <2>4, <2>5, <2>6, <2>7 DEF Stopping
<1>8. CASE CallStart \/ Starting
  <2>0. Main \in Threads /\ thread[Main] \in ThreadStates /\ starting \in BOOLEAN
    BY <1>0 DEF Threads
  <2>1. CASE CallStart
    <3>1. [pc |-> "capture", p |-> process, w |-> NoEngine] \in ThreadStates
      BY <1>0, GtpAssumption DEF FieldsType, ThreadStates, NoEngine
    <3> QED
      BY <1>2, <2>0, <2>1, <3>1 DEF CallStart
  <2>2. ASSUME NEW e \in Engines, NEW k \in Kinds, Launch(e, k) PROVE ThreadType'
    <3>1. [pc |-> "setProcess", p |-> e, w |-> NoEngine] \in ThreadStates /\ e # NoEngine
      BY GtpAssumption DEF ThreadStates, NoEngine, Engines
    <3> QED
      BY <1>2, <2>0, <2>2, <3>1 DEF Launch
  <2>3. CASE LaunchFails \/ ExitedImmediately \/ StartReader
    BY <1>2, <1>3, <2>0, <2>3 DEF LaunchFails, ExitedImmediately, StartReader
  <2>4. ASSUME NEW pc \in {"setWriter", "startReader"}, Goto(Main, pc), UNCHANGED starting,
               thread[Main].p # NoEngine
        PROVE  ThreadType'
    <3>1. [thread[Main] EXCEPT !.pc = pc] \in ThreadStates
      BY <2>0, <2>4 DEF ThreadStates
    <3>2. [thread[Main] EXCEPT !.pc = pc].p = thread[Main].p
      BY <2>0 DEF ThreadStates
    <3> QED
      BY <1>2, <2>0, <2>4, <3>1, <3>2 DEF Goto
  <2>5. CASE SetProcess \/ SetWriter
    BY <1>0, <2>0, <2>4, <2>5 DEF SetProcess, SetWriter, At
  <2> QED
    BY <1>8, <2>1, <2>2, <2>3, <2>5 DEF Starting
<1> QED
  BY <1>4, <1>5, <1>6, <1>7, <1>8 DEF Next, Threads

\* Only a writer, which is an engine, is stopped twice.
LEMMA HistoryStep == TypeInv /\ Next => HistoryType'
<1> SUFFICES ASSUME TypeInv, Next PROVE HistoryType'
  OBVIOUS
<1>0. HistoryType /\ (writer # NoEngine => writer \in Engines)
  BY GtpAssumption DEF TypeInv, FieldsType, NoEngine, Engines
<1>1. CASE UNCHANGED stoppedTwice
  BY <1>0, <1>1 DEF HistoryType
<1>2. ASSUME NEW t \in Threads, CaptureWriter(t) PROVE HistoryType'
  BY <1>0, <1>2 DEF CaptureWriter, HistoryType
<1> USE DEF control
<1>3. ASSUME NEW c \in Callers, Sending(c) PROVE HistoryType'
  BY <1>1, <1>3 DEF Sending, Poll, TakeId, NotRunning, Write, TakeReply, EngineGone, TimedOut, GiveUp, Cancelled
<1>4. CASE SendAsync \/ Interrupt
  BY <1>1, <1>4 DEF SendAsync, Interrupt
<1>5. ASSUME NEW e \in Engines, ReadLoop(e) \/ Engine(e) PROVE HistoryType'
  BY <1>1, <1>5 DEF ReadLoop, ReadLine, Deliver, EndOfOutput, Engine, CommandLoop, Loaded, LoadFails,
     Execute, Answers, StartsMove, Analyses, Interrupted, Quits, EndOfInput, Moves, AnalysisEnds, Watch
<1>6. ASSUME NEW t \in Threads, CallStop(t) \/ Stopping(t) \/ WaitTimesOut(t) PROVE HistoryType'
  BY <1>1, <1>2, <1>6 DEF CallStop, Stopping, WriteQuit, WaitForExit, WaitTimesOut, Destroy, Forget,
     Superseded, Current, ClearAwaiting, ClearReplies
<1>7. CASE CallStart \/ Starting
  BY <1>1, <1>7 DEF CallStart, Starting, Launch, LaunchFails, ExitedImmediately, SetProcess, SetWriter, StartReader
<1> QED
  BY <1>3, <1>4, <1>5, <1>6, <1>7 DEF Next, Threads

\* A stuttering step keeps the types.
LEMMA TypeNext == TypeInv /\ [Next]_vars => TypeInv'
<1>1. ASSUME TypeInv, Next PROVE TypeInv'
  BY <1>1, FieldsStep, NativeStep, InputStep, OutputStep, ReaderStep, CallerStep, ThreadStep, HistoryStep DEF TypeInv
<1>2. ASSUME TypeInv, UNCHANGED vars PROVE TypeInv'
  BY <1>2 DEF TypeInv, FieldsType, NativeType, InputType, OutputType, ReaderType, CallerType, ThreadType,
     HistoryType, vars, fields, native, pipes, control
<1> QED
  BY <1>1, <1>2

\* Every field of the client, of its threads and of the engines keeps its type.
THEOREM Types == Spec => []TypeOK
<1>1. Spec => []TypeInv
  BY TypeInit, TypeNext, PTL DEF Spec
<1> QED
  BY <1>1, TypeInvTypes, PTL

----------------------------------------------------------------------------
(* No text is delivered as the reply to another command *)

\* The id the read loop is collecting a text for.
Collecting(e) == IF reader[e].at = "read" THEN reader[e].currentId ELSE NoId

\* RepliesMatch is not inductive: it needs what is still in the pipe to be in order.
\* A text right after a header is the header's, and so is the first text for what the
\* loop collects ...
Follows(s) ==
    \A k \in 2..Len(s) : s[k].what = "move" /\ s[k - 1].what = "header" => s[k - 1].id = s[k].id
StartsWith(s, id) == s # <<>> /\ s[1].what = "move" => id \in {NoId, s[1].id}

\* ... and a text the engine still has to print, for command b, will not be taken
\* for another command's header.
MayPrint(s, id, b) ==
    b # NoId => IF s = <<>> THEN id \in {NoId, b}
                ELSE s[Len(s)].what = "header" => s[Len(s)].id = b

StreamOK(s, id, g, a) == Follows(s) /\ StartsWith(s, id) /\ MayPrint(s, id, g) /\ MayPrint(s, id, a)

StreamInv == \A e \in Engines : StreamOK(fromEngine[e], Collecting(e), genmove[e], analysis[e])

ReplyInv ==
    /\ TypeInv /\ StreamInv /\ RepliesMatch
    /\ \A e \in Engines : reader[e].at = "deliver" => reader[e].text = reader[e].currentId

\* The command loop prints a header and turns to its command.
LEMMA HeaderPrinted ==
    ASSUME NEW s \in Seq(Outputs), NEW i \in 0..MaxId, NEW id, Follows(s), StartsWith(s, id)
    PROVE  /\ StreamOK(Append(s, Output("header", i)), id, i, NoId)
           /\ StreamOK(Append(s, Output("header", i)), id, NoId, i)
<1> DEFINE h == Output("header", i)
           t == Append(s, h)
<1>1. h \in Outputs /\ h.what = "header" /\ h.id = i
  BY DEF Output, Outputs
<1> HIDE DEF h
<1>2. /\ t \in Seq(Outputs) /\ Len(t) = Len(s) + 1 /\ t # <<>> /\ t[Len(t)] = h
      /\ \A k \in 1..Len(s) : t[k] = s[k]
      /\ s # <<>> => t[1] = s[1]
      /\ s = <<>> => t[1] = h
  BY <1>1
<1> HIDE DEF t
<1>3. Follows(t) /\ StartsWith(t, id)
  BY <1>1, <1>2 DEF Follows, StartsWith
<1>4. MayPrint(t, id, i) /\ MayPrint(t, id, NoId)
  BY <1>1, <1>2 DEF MayPrint
<1> QED
  BY <1>3, <1>4 DEF StreamOK, t, h

\* A reply of one line fits anywhere.
LEMMA ReplyPrinted ==
    ASSUME NEW s \in Seq(Outputs), NEW i \in 0..MaxId, NEW id, Follows(s), StartsWith(s, id)
    PROVE  StreamOK(Append(s, Output("reply", i)), id, NoId, NoId)
<1> DEFINE r == Output("reply", i)
           t == Append(s, r)
<1>1. r \in Outputs /\ r.what = "reply"
  BY DEF Output, Outputs
<1> HIDE DEF r
<1>2. /\ t \in Seq(Outputs) /\ Len(t) = Len(s) + 1 /\ t # <<>> /\ t[Len(t)] = r
      /\ \A k \in 1..Len(s) : t[k] = s[k]
      /\ s # <<>> => t[1] = s[1]
      /\ s = <<>> => t[1] = r
  BY <1>1
<1> HIDE DEF t
<1>3. Follows(t) /\ StartsWith(t, id)
  BY <1>1, <1>2 DEF Follows, StartsWith
<1>4. MayPrint(t, id, NoId)
  BY DEF MayPrint
<1> QED
  BY <1>3, <1>4 DEF StreamOK, t, r

\* A search that ends prints the text of its own command.
LEMMA MovePrinted ==
    ASSUME NEW s \in Seq(Outputs), NEW b \in 0..MaxId, b # NoId, NEW id,
           Follows(s), StartsWith(s, id), MayPrint(s, id, b)
    PROVE  /\ Append(s, Output("move", b)) \in Seq(Outputs)
           /\ \A g, a : StreamOK(Append(s, Output("move", b)), id, g, a)
<1> DEFINE m == Output("move", b)
           t == Append(s, m)
<1>1. m \in Outputs /\ m.what = "move" /\ m.id = b
  BY DEF Output, Outputs
<1> HIDE DEF m
<1>2. /\ t \in Seq(Outputs) /\ Len(t) = Len(s) + 1 /\ t # <<>> /\ t[Len(t)] = m
      /\ \A k \in 1..Len(s) : t[k] = s[k]
      /\ s # <<>> => t[1] = s[1] /\ Len(s) > 0
      /\ s = <<>> => t[1] = m /\ Len(s) = 0
  BY <1>1
<1> HIDE DEF t
<1>3. Follows(t)
  <2> SUFFICES ASSUME NEW k \in 2..Len(t), t[k].what = "move", t[k - 1].what = "header"
               PROVE  t[k - 1].id = t[k].id
    BY DEF Follows
  <2>1. CASE k \in 2..Len(s)
    <3>1. t[k] = s[k] /\ t[k - 1] = s[k - 1]
      BY <1>2, <2>1
    <3> QED
      BY <2>1, <3>1 DEF Follows
  <2>2. CASE k = Len(t)
    <3>1. t[k] = m /\ t[k - 1] = s[Len(s)] /\ s # <<>>
      BY <1>2, <2>2
    <3> QED
      BY <1>1, <3>1 DEF MayPrint
  <2> QED
    BY <1>2, <2>1, <2>2
<1>4. StartsWith(t, id)
  BY <1>1, <1>2 DEF StartsWith, MayPrint
<1>5. \A c : MayPrint(t, id, c)
  BY <1>1, <1>2 DEF MayPrint
<1> QED
  BY <1>2, <1>3, <1>4, <1>5 DEF StreamOK, t, m

\* The read loop takes the first line.
LEMMA LineTaken ==
    ASSUME NEW s \in Seq(Outputs), s # <<>>, NEW id, NEW g, NEW a, StreamOK(s, id, g, a), NEW next,
           next = IF Head(s).what = "header" THEN Head(s).id ELSE NoId
    PROVE  StreamOK(Tail(s), next, g, a)
<1> DEFINE t == Tail(s)
<1>1. /\ t \in Seq(Outputs) /\ Len(t) = Len(s) - 1 /\ Head(s) = s[1]
      /\ \A k \in 1..Len(t) : t[k] = s[k + 1]
      /\ t = <<>> => Len(s) = 1
      /\ t # <<>> => Len(t) > 0 /\ t[Len(t)] = s[Len(s)] /\ t[1] = s[2] /\ 2 \in 2..Len(s)
  <2>1. Len(s) \in Nat \ {0}
    OBVIOUS
  <2>2. /\ t \in Seq(Outputs) /\ Len(t) = Len(s) - 1 /\ Head(s) = s[1]
        /\ \A k \in 1..Len(t) : t[k] = s[k + 1]
    BY HeadTailProperties
  <2> HIDE DEF t
  <2>3. t = <<>> => Len(t) = 0
    OBVIOUS
  <2>4. t # <<>> => Len(t) > 0 /\ Len(t) \in 1..Len(t) /\ 1 \in 1..Len(t)
    BY <2>2
  <2> QED
    BY <2>1, <2>2, <2>3, <2>4
<1> HIDE DEF t
<1>2. Follows(t)
  <2> SUFFICES ASSUME NEW k \in 2..Len(t), t[k].what = "move", t[k - 1].what = "header"
               PROVE  t[k - 1].id = t[k].id
    BY DEF Follows
  <2>1. k + 1 \in 2..Len(s) /\ t[k] = s[k + 1] /\ t[k - 1] = s[(k + 1) - 1]
    BY <1>1
  <2> QED
    BY <2>1 DEF Follows, StreamOK
<1>3. StartsWith(t, next)
  BY <1>1 DEF StartsWith, StreamOK, Follows
<1>4. MayPrint(t, next, g) /\ MayPrint(t, next, a)
  BY <1>1 DEF MayPrint, StreamOK
<1> QED
  BY <1>2, <1>3, <1>4 DEF StreamOK, t

\* Nothing has been printed, and nothing is waited for.
LEMMA ReplyInit == Init => ReplyInv
<1> SUFFICES ASSUME Init PROVE ReplyInv
  OBVIOUS
<1>1. RepliesMatch /\ TypeInv
  BY TypeInit DEF Init, RepliesMatch
<1>2. ASSUME NEW e \in Engines PROVE fromEngine[e] = <<>> /\ genmove[e] = NoId /\ analysis[e] = NoId
  BY <1>2 DEF Init
<1>3. ASSUME NEW e \in Engines PROVE reader[e].at = "off"
  BY <1>3 DEF Init, Done
<1>4. StreamInv
  BY <1>2 DEF StreamInv, StreamOK, Follows, StartsWith, MayPrint
<1> QED
  BY <1>1, <1>3, <1>4 DEF ReplyInv

\* One engine's stream changes and stays in order.
LEMMA StreamStep ==
    ASSUME StreamInv, NEW e \in Engines,
           StreamOK(fromEngine'[e], Collecting(e)', genmove'[e], analysis'[e]),
           \A f \in Engines \ {e} : /\ fromEngine'[f] = fromEngine[f] /\ reader'[f] = reader[f]
                                    /\ genmove'[f] = genmove[f] /\ analysis'[f] = analysis[f]
    PROVE  StreamInv'
<1> SUFFICES ASSUME NEW f \in Engines
             PROVE  StreamOK(fromEngine'[f], Collecting(f)', genmove'[f], analysis'[f])
  BY DEF StreamInv
<1>1. CASE f = e
  BY <1>1
<1>2. CASE f # e
  <2>1. Collecting(f)' = Collecting(f)
    BY <1>2 DEF Collecting
  <2> QED
    BY <1>2, <2>1 DEF StreamInv
<1> QED
  BY <1>1, <1>2

\* The engine's own steps keep its stream in order.
LEMMA EngineStream ==
    ASSUME TypeInv, StreamInv, NEW e \in Engines, Engine(e)
    PROVE  StreamInv'
<1> USE DEF native, pipes
<1> DEFINE s == fromEngine[e]
           id == Collecting(e)
<1>1. /\ s \in Seq(Outputs) /\ genmove[e] \in 0..MaxId /\ analysis[e] \in 0..MaxId
      /\ StreamOK(s, id, genmove[e], analysis[e])
      /\ fromEngine \in [Engines -> Seq(Outputs)]
      /\ genmove \in [Engines -> 0..MaxId] /\ analysis \in [Engines -> 0..MaxId]
  BY DEF TypeInv, OutputType, StreamInv
<1>2. UNCHANGED reader
  BY DEF Engine, CommandLoop, Loaded, LoadFails, Execute, Answers, StartsMove, Analyses,
     Interrupted, Quits, EndOfInput, Moves, AnalysisEnds, Watch
<1>3. id' = id
  BY <1>2 DEF Collecting
<1>4. ASSUME UNCHANGED <<fromEngine, genmove, analysis>> PROVE StreamInv'
  BY <1>2, <1>4 DEF StreamInv, Collecting
<1>5. /\ s \o Cancellation(e) \in Seq(Outputs)
      /\ Follows(s \o Cancellation(e)) /\ StartsWith(s \o Cancellation(e), id)
      /\ StreamOK(s \o Cancellation(e), id, NoId, NoId)
  <2>1. CASE analysis[e] = NoId
    <3>1. s \o Cancellation(e) = s
      BY <1>1, <2>1 DEF Cancellation
    <3> QED
      BY <1>1, <3>1 DEF StreamOK, MayPrint
  <2>2. CASE analysis[e] # NoId
    <3>1. Output("move", analysis[e]) \in Outputs
      BY <1>1, PrintedTypes
    <3>2. s \o Cancellation(e) = Append(s, Output("move", analysis[e]))
      BY <1>1, <2>2, <3>1 DEF Cancellation
    <3> QED
      BY <1>1, <2>2, <3>2, MovePrinted DEF StreamOK
  <2> QED
    BY <2>1, <2>2
<1>6. ASSUME NEW what \in {"command", "genmove", "analysis", "newline", "quit"},
             NEW printed \in [0..MaxId -> Seq(Outputs)],
             NEW exits \in BOOLEAN, Execute(e, what, printed, exits),
             \A i \in 0..MaxId :
                 StreamOK(s \o Cancellation(e) \o printed[i], id,
                          IF what = "genmove" THEN i ELSE NoId, IF what = "analysis" THEN i ELSE NoId)
      PROVE  StreamInv'
  <2> DEFINE i == Head(Input(e)).id
  <2>1. i \in 0..MaxId
    BY <1>6, InputLines DEF Execute, Lines, TypeInv
  <2>2. /\ fromEngine' = [fromEngine EXCEPT ![e] = @ \o Cancellation(e) \o printed[i]]
        /\ genmove' = [genmove EXCEPT ![e] = IF what = "genmove" THEN i ELSE NoId]
        /\ analysis' = [analysis EXCEPT ![e] = IF what = "analysis" THEN i ELSE NoId]
    BY <1>6 DEF Execute
  <2> HIDE DEF i
  <2> QED
    BY <1>1, <1>2, <1>3, <1>6, <2>1, <2>2, StreamStep
<1>7. CASE Loaded(e) \/ LoadFails(e) \/ Watch(e)
  BY <1>4, <1>7 DEF Loaded, LoadFails, Watch
<1>8. CASE Answers(e) \/ Quits(e)
  <2>1. \A i \in 0..MaxId : s \o Cancellation(e) \o PrintsReply[i]
                              = Append(s \o Cancellation(e), Output("reply", i))
    BY <1>5 DEF PrintsReply, Output, Outputs
  <2>2. \A i \in 0..MaxId : StreamOK(s \o Cancellation(e) \o PrintsReply[i], id, NoId, NoId)
    BY <1>5, <2>1, ReplyPrinted
  <2>3. CASE Answers(e)
    BY <1>6, <2>2, <2>3, PrintedTypes DEF Answers
  <2>4. CASE Quits(e)
    BY <1>6, <2>2, <2>4, PrintedTypes DEF Quits
  <2> QED
    BY <1>8, <2>3, <2>4
<1>9. CASE StartsMove(e) \/ Analyses(e)
  <2>1. \A i \in 0..MaxId : s \o Cancellation(e) \o PrintsHeader[i]
                              = Append(s \o Cancellation(e), Output("header", i))
    BY <1>5 DEF PrintsHeader, Output, Outputs
  <2>2. \A i \in 0..MaxId : /\ StreamOK(s \o Cancellation(e) \o PrintsHeader[i], id, i, NoId)
                            /\ StreamOK(s \o Cancellation(e) \o PrintsHeader[i], id, NoId, i)
    BY <1>5, <2>1, HeaderPrinted
  <2>3. CASE StartsMove(e)
    BY <1>6, <2>2, <2>3, PrintedTypes DEF StartsMove
  <2>4. CASE Analyses(e)
    BY <1>6, <2>2, <2>4, PrintedTypes DEF Analyses
  <2> QED
    BY <1>9, <2>3, <2>4
<1>10. CASE Interrupted(e)
  <2>1. \A i \in 0..MaxId : s \o Cancellation(e) \o PrintsNothing[i] = s \o Cancellation(e)
    BY <1>5 DEF PrintsNothing
  <2> QED
    BY <1>5, <1>6, <1>10, <2>1, PrintedTypes DEF Interrupted
<1>11. CASE EndOfInput(e)
  <2>1. /\ fromEngine' = [fromEngine EXCEPT ![e] = s \o Cancellation(e)]
        /\ analysis' = [analysis EXCEPT ![e] = NoId] /\ UNCHANGED genmove /\ genmove[e] = NoId
    BY <1>11 DEF EndOfInput
  <2> QED
    BY <1>1, <1>2, <1>3, <1>5, <2>1, StreamStep
<1>12. CASE Moves(e)
  <2>1. /\ fromEngine' = [fromEngine EXCEPT ![e] = Append(s, Output("move", genmove[e]))]
        /\ genmove' = [genmove EXCEPT ![e] = NoId] /\ UNCHANGED analysis /\ genmove[e] # NoId
    BY <1>12 DEF Moves
  <2>2. StreamOK(Append(s, Output("move", genmove[e])), id, NoId, analysis[e])
    BY <1>1, <2>1, MovePrinted DEF StreamOK
  <2> QED
    BY <1>1, <1>2, <1>3, <2>1, <2>2, StreamStep
<1>13. CASE AnalysisEnds(e)
  <2>1. /\ fromEngine' = [fromEngine EXCEPT ![e] = s \o Cancellation(e)]
        /\ analysis' = [analysis EXCEPT ![e] = NoId] /\ UNCHANGED genmove /\ analysis[e] # NoId
    BY <1>13 DEF AnalysisEnds
  <2>2. s \o Cancellation(e) = Append(s, Output("move", analysis[e]))
    BY <1>1, <2>1, PrintedTypes DEF Cancellation
  <2>3. StreamOK(s \o Cancellation(e), id, genmove[e], NoId)
    BY <1>1, <2>1, <2>2, MovePrinted DEF StreamOK
  <2> QED
    BY <1>1, <1>2, <1>3, <2>1, <2>3, StreamStep
<1> QED
  BY <1>7, <1>8, <1>9, <1>10, <1>11, <1>12, <1>13 DEF Engine, CommandLoop

\* The read loop takes a line off its stream and delivers only to the line's command.
LEMMA ReadStream ==
    ASSUME ReplyInv, NEW e \in Engines, ReadLine(e)
    PROVE  /\ StreamInv'
           /\ reader'[e].at = "deliver" => reader'[e].text = reader'[e].currentId
<1> USE DEF native, pipes
<1> DEFINE s == fromEngine[e]
           line == Head(s)
           next == OnLine(reader[e].currentId, line)
<1>1. /\ s \in Seq(Outputs) /\ s # <<>> /\ line \in Outputs /\ line = s[1] /\ reader[e].at = "read"
      /\ StreamOK(s, Collecting(e), genmove[e], analysis[e])
      /\ fromEngine \in [Engines -> Seq(Outputs)] /\ Collecting(e) = reader[e].currentId
  BY DEF ReplyInv, TypeInv, OutputType, StreamInv, ReadLine, Collecting
<1>2. reader' = [reader EXCEPT ![e] = next] /\ reader'[e] = next
  BY DEF ReadLine, ReplyInv, TypeInv, ReaderType
<1>3. next.at = "read" => next.currentId = IF line.what = "header" THEN line.id ELSE NoId
  BY <1>1 DEF OnLine, Complete, Reading, Outputs
<1>4. next.at = "deliver" => next.text = next.currentId /\ line.what # "header"
  BY <1>1 DEF OnLine, Complete, Reading, Outputs, StreamOK, StartsWith
<1>5. next.at \in {"read", "deliver"}
  BY <1>1 DEF OnLine, Complete, Reading, Outputs
<1> HIDE DEF next
<1>6. Collecting(e)' = IF line.what = "header" THEN line.id ELSE NoId
  BY <1>2, <1>3, <1>4, <1>5 DEF Collecting
<1>7. StreamOK(Tail(s), Collecting(e)', genmove[e], analysis[e])
  BY <1>1, <1>6, LineTaken
<1>8. /\ fromEngine' = [fromEngine EXCEPT ![e] = Tail(s)] /\ UNCHANGED <<genmove, analysis>>
  BY DEF ReadLine
<1>9. StreamInv'
  BY <1>1, <1>2, <1>7, <1>8, StreamStep DEF ReplyInv
<1> QED
  BY <1>2, <1>4, <1>9

\* Every step keeps the streams and the map of replies in order.
LEMMA ReplyNext == ReplyInv /\ [Next]_vars => ReplyInv'
<1> SUFFICES ASSUME ReplyInv, [Next]_vars PROVE ReplyInv'
  OBVIOUS
<1> DEFINE Delivers == \A e \in Engines : reader[e].at = "deliver" => reader[e].text = reader[e].currentId
<1>0. TypeInv /\ StreamInv /\ RepliesMatch /\ Delivers /\ TypeInv'
  BY TypeNext DEF ReplyInv
<1>1. ASSUME UNCHANGED <<fromEngine, genmove, analysis, reader>>, replies' \subseteq replies
      PROVE  ReplyInv'
  BY <1>0, <1>1 DEF ReplyInv, StreamInv, Collecting, RepliesMatch
<1>2. ASSUME NEW c \in Callers, Sending(c) PROVE ReplyInv'
  <2>1. UNCHANGED <<fromEngine, genmove, analysis, reader>> /\ replies' \subseteq replies
    BY <1>2 DEF Sending, Poll, TakeId, NotRunning, Write, TakeReply, EngineGone, TimedOut, GiveUp,
       Cancelled, native, pipes, fields
  <2> QED
    BY <1>1, <2>1
<1>3. CASE SendAsync \/ Interrupt
  BY <1>1, <1>3 DEF SendAsync, Interrupt, native, fields
<1>4. ASSUME NEW e \in Engines, ReadLine(e) PROVE ReplyInv'
  <2>1. UNCHANGED replies
    BY <1>4 DEF ReadLine, fields
  <2>2. RepliesMatch'
    BY <1>0, <2>1 DEF RepliesMatch
  <2>3. \A f \in Engines \ {e} : reader'[f] = reader[f]
    BY <1>4 DEF ReadLine
  <2> QED
    BY <1>0, <1>4, <2>2, <2>3, ReadStream DEF ReplyInv
<1>5. ASSUME NEW e \in Engines, Deliver(e) PROVE ReplyInv'
  <2>1. reader' = [reader EXCEPT ![e] = Reading] /\ reader[e].at = "deliver"
    BY <1>5 DEF Deliver
  <2>2. UNCHANGED <<fromEngine, genmove, analysis>>
    BY <1>5 DEF Deliver, native, pipes
  <2>3. reader'[e] = Reading /\ \A f \in Engines \ {e} : reader'[f] = reader[f]
    BY <1>0, <2>1 DEF TypeInv, ReaderType
  <2>4. \A f \in Engines : Collecting(f)' = Collecting(f)
    BY <2>1, <2>3 DEF Collecting, Reading
  <2>5. StreamInv'
    BY <1>0, <2>2, <2>4 DEF StreamInv
  <2>6. RepliesMatch'
    BY <1>0, <1>5, <2>1 DEF RepliesMatch, Deliver
  <2>7. Delivers'
    BY <1>0, <2>3 DEF Reading
  <2> QED
    BY <1>0, <2>5, <2>6, <2>7 DEF ReplyInv
<1>6. ASSUME NEW e \in Engines, NEW r \in {Done, Reading}, reader' = [reader EXCEPT ![e] = r],
             UNCHANGED <<replies, genmove, analysis>>,
             fromEngine' \in {fromEngine, [fromEngine EXCEPT ![e] = <<>>]}
      PROVE  ReplyInv'
  <2>1. reader'[e] = r /\ \A f \in Engines \ {e} : reader'[f] = reader[f]
    BY <1>0, <1>6 DEF TypeInv, ReaderType
  <2>2. r.at \in {"off", "read"} /\ Collecting(e)' = NoId
    BY <1>6, <2>1 DEF Collecting, Done, Reading
  <2>3. fromEngine'[e] \in {fromEngine[e], <<>>} /\ \A f \in Engines \ {e} : fromEngine'[f] = fromEngine[f]
    BY <1>0, <1>6 DEF TypeInv, OutputType
  <2>4. StreamOK(fromEngine'[e], NoId, genmove[e], analysis[e])
    <3>1. StreamOK(fromEngine[e], Collecting(e), genmove[e], analysis[e])
      BY <1>0 DEF StreamInv
    <3>2. StreamOK(<<>>, NoId, genmove[e], analysis[e])
      BY DEF StreamOK, Follows, StartsWith, MayPrint
    <3>3. StreamOK(fromEngine[e], NoId, genmove[e], analysis[e])
      BY <3>1 DEF StreamOK, StartsWith, MayPrint
    <3> QED
      BY <2>3, <3>2, <3>3
  <2>5. StreamInv'
    BY <1>0, <1>6, <2>1, <2>2, <2>3, <2>4, StreamStep
  <2>6. RepliesMatch'
    BY <1>0, <1>6 DEF RepliesMatch
  <2>7. Delivers'
    BY <1>0, <2>1, <2>2
  <2> QED
    BY <1>0, <2>5, <2>6, <2>7 DEF ReplyInv
<1>7. ASSUME NEW e \in Engines, EndOfOutput(e) PROVE ReplyInv'
  BY <1>6, <1>7 DEF EndOfOutput, fields, native
<1>8. ASSUME NEW e \in Engines, Engine(e) PROVE ReplyInv'
  <2>1. UNCHANGED <<replies, reader>>
    BY <1>8 DEF Engine, CommandLoop, Loaded, LoadFails, Execute, Answers, StartsMove, Analyses,
       Interrupted, Quits, EndOfInput, Moves, AnalysisEnds, Watch, fields
  <2> QED
    BY <1>0, <1>8, <2>1, EngineStream DEF ReplyInv, RepliesMatch
<1>9. ASSUME NEW t \in Threads, CallStop(t) \/ Stopping(t) \/ WaitTimesOut(t) PROVE ReplyInv'
  <2>1. UNCHANGED <<fromEngine, genmove, analysis, reader>> /\ replies' \subseteq replies
    BY <1>9 DEF CallStop, Stopping, WaitTimesOut, CaptureWriter, WriteQuit, WaitForExit, Destroy,
       Forget, Superseded, Current, ClearAwaiting, ClearReplies, fields, native, pipes
  <2> QED
    BY <1>1, <2>1
<1>10. CASE StartReader
  <2>1. thread[Main].p \in Engines
    <3>1. Main \in Threads /\ thread[Main].pc = "startReader" /\ thread[Main].p \in 0..MaxEngines
      BY <1>0, <1>10 DEF TypeInv, ThreadType, ThreadStates, Threads, StartReader, At
    <3> QED
      BY <1>0, <3>1, GtpAssumption DEF TypeInv, ThreadType, NoEngine, Engines
  <2> QED
    BY <1>6, <1>10, <2>1 DEF StartReader, fields, native, pipes
<1>11. CASE CallStart \/ Starting
  <2>1. CASE CallStart \/ LaunchFails \/ ExitedImmediately \/ SetProcess \/ SetWriter
    BY <1>1, <2>1 DEF CallStart, LaunchFails, ExitedImmediately, SetProcess, SetWriter, fields, native, pipes
  <2>2. ASSUME NEW e \in Engines, NEW k \in Kinds, Launch(e, k) PROVE ReplyInv'
    BY <1>1, <2>2 DEF Launch, fields
  <2> QED
    BY <1>10, <1>11, <2>1, <2>2 DEF Starting
<1>12. CASE UNCHANGED vars
  BY <1>1, <1>12 DEF vars, fields, native, pipes
<1> QED
  BY <1>2, <1>3, <1>4, <1>5, <1>7, <1>8, <1>9, <1>11, <1>12 DEF Next, ReadLoop, Threads

\* Under the id of a command the map of replies only ever holds the reply to that very
\* command, whatever is interrupted, cancelled, timed out, stopped or restarted.
THEOREM RepliesReachTheirCommand == Spec => []RepliesMatch
<1>1. ReplyInv => RepliesMatch
  BY DEF ReplyInv
<1> QED
  BY <1>1, ReplyInit, ReplyNext, PTL DEF Spec

----------------------------------------------------------------------------
(* No engine without pipes is in place *)

\* Engines in place, and those a thread holds, have been launched.
Launched ==
    /\ process # NoEngine => state[process] # "none"
    /\ \A t \in Threads : thread[t].p # NoEngine => state[thread[t].p] # "none"

\* PipesKept is not inductive: start() must be the only one to know the engine it is
\* about to put in place.
NewEngineIsPrivate ==
    At(Main, "setProcess") =>
        LET e == thread[Main].p IN
          open[e] /\ process # e /\ \A t \in Threads \ {Main} : thread[t].p # e

PipeInv == TypeInv /\ Launched /\ NewEngineIsPrivate /\ PipesKept

\* There is no engine to begin with.
LEMMA PipeInit == Init => PipeInv
<1> SUFFICES ASSUME Init PROVE PipeInv
  OBVIOUS
<1>1. process = NoEngine
  BY DEF Init
<1>2. \A t \in Threads : thread[t].pc = "idle" /\ thread[t].p = NoEngine
  BY DEF Init, Idle
<1> QED
  BY <1>1, <1>2, TypeInit DEF PipeInv, Launched, NewEngineIsPrivate, PipesKept, At, Threads

\* Steps of coroutines, read loops and engines.
LEMMA PipeOthers ==
    ASSUME PipeInv, UNCHANGED <<process, open, thread>>,
           \A e \in Engines : state[e] # "none" => state'[e] # "none"
    PROVE  Launched' /\ NewEngineIsPrivate' /\ PipesKept'
<1>1. /\ process \in 0..MaxEngines
      /\ \A t \in Threads : thread[t].p \in 0..MaxEngines
  BY DEF PipeInv, TypeInv, FieldsType, ThreadType, ThreadStates
<1>2. \A e \in 0..MaxEngines : e # NoEngine => e \in Engines
  BY GtpAssumption DEF NoEngine, Engines
<1> QED
  BY <1>1, <1>2 DEF PipeInv, Launched, NewEngineIsPrivate, PipesKept, At

\* One step of a thread t in stop().
LEMMA PipeStop ==
    ASSUME PipeInv, NEW t \in Threads, CallStop(t) \/ Stopping(t) \/ WaitTimesOut(t)
    PROVE  Launched' /\ NewEngineIsPrivate' /\ PipesKept'
<1> USE DEF At
<1>0. /\ TypeInv /\ Launched /\ NewEngineIsPrivate /\ PipesKept
      /\ thread \in [Threads -> ThreadStates] /\ thread[t] \in ThreadStates
      /\ process \in 0..MaxEngines /\ Main \in Threads
  BY DEF PipeInv, TypeInv, ThreadType, FieldsType, Threads
<1>1. \A u \in Threads \ {t} : thread'[u] = thread[u]
  BY <1>0 DEF CallStop, Stopping, WaitTimesOut, CaptureWriter, WriteQuit, WaitForExit, Destroy,
     Forget, Superseded, Current, ClearAwaiting, ClearReplies, Goto, Leave
<1>2. ASSUME UNCHANGED <<process, open, state>>, thread[t].pc # "null", thread'[t].pc # "setProcess",
             thread'[t].p \in {NoEngine, process, thread[t].p}
      PROVE  Launched' /\ NewEngineIsPrivate' /\ PipesKept'
  <2>1. Launched'
    BY <1>0, <1>1, <1>2 DEF Launched
  <2>2. NewEngineIsPrivate'
    <3> SUFFICES ASSUME thread'[Main].pc = "setProcess"
                 PROVE  /\ open[thread'[Main].p] /\ process # thread'[Main].p
                        /\ \A u \in Threads \ {Main} : thread'[u].p # thread'[Main].p
      BY <1>2 DEF NewEngineIsPrivate
    <3>1. t # Main /\ thread'[Main] = thread[Main]
      BY <1>0, <1>1, <1>2
    <3>2. thread[Main].p # NoEngine
      BY <1>0, <3>1 DEF TypeInv, ThreadType
    <3> QED
      BY <1>0, <1>1, <1>2, <3>1, <3>2 DEF NewEngineIsPrivate
  <2>3. PipesKept'
    BY <1>0, <1>1, <1>2 DEF PipesKept
  <2> QED
    BY <2>1, <2>2, <2>3
<1>3. ASSUME NEW pc \in {"wait", "destroy", "null", "compare", "clear", "clearReplies"}, Goto(t, pc)
      PROVE  thread'[t].pc = pc /\ thread'[t].p = thread[t].p
  BY <1>0, <1>3 DEF Goto, ThreadStates
<1>4. CASE CallStop(t)
  <2>1. thread'[t].pc = "capture" /\ thread'[t].p = process /\ thread[t].pc = "idle"
    BY <1>0, <1>4 DEF CallStop
  <2> QED
    BY <1>2, <1>4, <2>1 DEF CallStop, fields, native, pipes
<1>5. CASE CaptureWriter(t)
  <2>1. thread'[t].pc = "quit" /\ thread'[t].p = thread[t].p /\ thread[t].pc = "capture"
    BY <1>0, <1>5 DEF CaptureWriter, ThreadStates
  <2> QED
    BY <1>2, <1>5, <2>1 DEF CaptureWriter, fields, native, pipes
<1>6. CASE WaitForExit(t) \/ WaitTimesOut(t) \/ Current(t) \/ ClearAwaiting(t)
  BY <1>2, <1>3, <1>6 DEF WaitForExit, WaitTimesOut, Current, ClearAwaiting, fields, native, pipes
<1>7. CASE WriteQuit(t)
  <2>1. thread'[t].pc \in {"null", "wait", "destroy"} /\ thread'[t].p = thread[t].p /\ thread[t].pc = "quit"
    BY <1>3, <1>7 DEF WriteQuit
  <2> QED
    BY <1>2, <1>7, <2>1 DEF WriteQuit, fields, native
<1>8. CASE Superseded(t) \/ ClearReplies(t)
  <2>1. thread'[t].pc \in {"launch", "idle"} /\ thread'[t].p = NoEngine
        /\ thread[t].pc \in {"compare", "clearReplies"}
    BY <1>0, <1>8 DEF Superseded, ClearReplies, Leave, Idle
  <2> QED
    BY <1>2, <1>8, <2>1 DEF Superseded, ClearReplies, fields, native, pipes
<1>9. CASE Destroy(t)
  <2> DEFINE p == thread[t].p
  <2>1. thread'[t].pc = "null" /\ thread'[t].p = p /\ thread[t].pc = "destroy"
    BY <1>3, <1>9 DEF Destroy
  <2>2. /\ UNCHANGED process /\ open' = [open EXCEPT ![p] = FALSE]
        /\ state' = state \/ state' = [state EXCEPT ![p] = "exited"]
    BY <1>9 DEF Destroy, Exit, fields
  <2>3. \A e \in Engines : /\ e # p => open'[e] = open[e]
                           /\ state[e] # "none" => state'[e] # "none"
    BY <1>0, <2>2 DEF TypeInv, NativeType
  <2>4. \A e \in 0..MaxEngines : e # NoEngine => e \in Engines
    BY GtpAssumption DEF NoEngine, Engines
  <2>5. \A u \in Threads : thread'[u].p = thread[u].p /\ thread[u].p \in 0..MaxEngines
    BY <1>0, <1>1, <2>1 DEF ThreadStates
  <2>6. Launched'
    BY <1>0, <2>2, <2>3, <2>4, <2>5 DEF Launched
  <2>7. NewEngineIsPrivate'
    <3> SUFFICES ASSUME thread'[Main].pc = "setProcess"
                 PROVE  /\ open'[thread'[Main].p] /\ process' # thread'[Main].p
                        /\ \A u \in Threads \ {Main} : thread'[u].p # thread'[Main].p
      BY DEF NewEngineIsPrivate
    <3>1. t # Main /\ thread'[Main] = thread[Main] /\ thread[Main].p # NoEngine
      BY <1>0, <1>1, <2>1 DEF TypeInv, ThreadType
    <3>2. /\ open[thread[Main].p] /\ process # thread[Main].p
          /\ \A u \in Threads \ {Main} : thread[u].p # thread[Main].p
      BY <1>0, <3>1 DEF NewEngineIsPrivate
    <3> QED
      BY <2>2, <2>3, <2>4, <2>5, <3>1, <3>2
  <2>8. PipesKept'
    <3> SUFFICES ASSUME process # NoEngine, ~open'[process]
                 PROVE  \E u \in Threads : thread'[u].pc = "null" /\ thread'[u].p = process
      BY <2>2 DEF PipesKept
    <3>1. CASE process = p
      BY <2>1, <3>1
    <3>2. CASE process # p
      BY <1>0, <1>1, <2>1, <2>3, <2>4, <3>2 DEF PipesKept
    <3> QED
      BY <3>1, <3>2
  <2> QED
    BY <2>6, <2>7, <2>8
<1>10. CASE Forget(t)
  <2>1. thread'[t].pc = "compare" /\ thread'[t].p = thread[t].p
    BY <1>3, <1>10 DEF Forget
  <2>2. /\ UNCHANGED <<open, state>> /\ process' = IF process = thread[t].p THEN NoEngine ELSE process
    BY <1>10 DEF Forget, native, pipes
  <2>3. Launched'
    BY <1>0, <1>1, <2>1, <2>2 DEF Launched
  <2>4. NewEngineIsPrivate'
    <3> SUFFICES ASSUME thread'[Main].pc = "setProcess"
                 PROVE  /\ open[thread'[Main].p] /\ process' # thread'[Main].p
                        /\ \A u \in Threads \ {Main} : thread'[u].p # thread'[Main].p
      BY <2>2 DEF NewEngineIsPrivate
    <3>1. t # Main /\ thread'[Main] = thread[Main] /\ thread[Main].p # NoEngine
      BY <1>0, <1>1, <2>1 DEF TypeInv, ThreadType
    <3> QED
      BY <1>0, <1>1, <2>1, <2>2, <3>1 DEF NewEngineIsPrivate
  <2>5. PipesKept'
    BY <1>0, <1>1, <2>2 DEF PipesKept
  <2> QED
    BY <2>3, <2>4, <2>5
<1> QED
  BY <1>4, <1>5, <1>6, <1>7, <1>8, <1>9, <1>10 DEF Stopping

\* One step of the main thread in start().
LEMMA PipeStart ==
    ASSUME PipeInv, CallStart \/ Starting
    PROVE  Launched' /\ NewEngineIsPrivate' /\ PipesKept'
<1> USE DEF At
<1>0. /\ TypeInv /\ Launched /\ NewEngineIsPrivate /\ PipesKept
      /\ thread \in [Threads -> ThreadStates] /\ thread[Main] \in ThreadStates
      /\ process \in 0..MaxEngines /\ Main \in Threads
  BY DEF PipeInv, TypeInv, ThreadType, FieldsType, Threads
<1>1. \A u \in Threads \ {Main} : thread'[u] = thread[u]
  BY <1>0 DEF CallStart, Starting, Launch, LaunchFails, ExitedImmediately, SetProcess, SetWriter,
     StartReader, Goto
<1>2. ASSUME UNCHANGED <<process, open, state>>, thread[Main].pc # "null", thread'[Main].pc # "setProcess",
             thread'[Main].p \in {NoEngine, process, thread[Main].p}
      PROVE  Launched' /\ NewEngineIsPrivate' /\ PipesKept'
  <2>1. Launched'
    BY <1>0, <1>1, <1>2 DEF Launched
  <2>2. NewEngineIsPrivate'
    BY <1>2 DEF NewEngineIsPrivate
  <2>3. PipesKept'
    BY <1>0, <1>1, <1>2 DEF PipesKept
  <2> QED
    BY <2>1, <2>2, <2>3
<1>3. CASE CallStart
  <2>1. thread'[Main].pc = "capture" /\ thread'[Main].p = process /\ thread[Main].pc = "idle"
    BY <1>0, <1>3 DEF CallStart
  <2> QED
    BY <1>2, <1>3, <2>1 DEF CallStart, fields, native, pipes
<1>4. CASE LaunchFails \/ ExitedImmediately \/ StartReader
  <2>1. /\ thread'[Main].pc = "idle" /\ thread'[Main].p = NoEngine
        /\ thread[Main].pc \in {"launch", "setProcess", "startReader"}
    BY <1>0, <1>4 DEF LaunchFails, ExitedImmediately, StartReader, Idle
  <2> QED
    BY <1>2, <1>4, <2>1 DEF LaunchFails, ExitedImmediately, StartReader, fields, native, pipes
<1>5. CASE SetWriter
  <2>1. thread'[Main].pc = "startReader" /\ thread'[Main].p = thread[Main].p /\ thread[Main].pc = "setWriter"
    BY <1>0, <1>5 DEF SetWriter, Goto, ThreadStates
  <2> QED
    BY <1>2, <1>5, <2>1 DEF SetWriter, native, pipes
<1>6. CASE SetProcess
  <2>1. /\ thread'[Main].pc = "setWriter" /\ thread'[Main].p = thread[Main].p
        /\ thread[Main].pc = "setProcess" /\ process' = thread[Main].p /\ UNCHANGED <<open, state>>
    BY <1>0, <1>6 DEF SetProcess, Goto, ThreadStates, native, pipes
  <2>2. Launched'
    BY <1>0, <1>1, <2>1 DEF Launched
  <2> QED
    BY <1>0, <2>1, <2>2 DEF NewEngineIsPrivate, PipesKept
<1>7. ASSUME NEW e \in Engines, NEW k \in Kinds, Launch(e, k)
      PROVE  Launched' /\ NewEngineIsPrivate' /\ PipesKept'
  <2>1. /\ thread'[Main].pc = "setProcess" /\ thread'[Main].p = e /\ thread[Main].pc = "launch"
        /\ UNCHANGED process /\ state[e] = "none"
    BY <1>0, <1>7 DEF Launch, fields
  <2>2. state'[e] = "loading" /\ open'[e] /\ e # NoEngine
    BY <1>0, <1>7, GtpAssumption DEF Launch, TypeInv, NativeType, NoEngine, Engines
  <2>3. \A f \in Engines \ {e} : state'[f] = state[f] /\ open'[f] = open[f]
    BY <1>0, <1>7 DEF Launch, TypeInv, NativeType
  <2>4. \A f \in 0..MaxEngines : f # NoEngine => f \in Engines
    BY GtpAssumption DEF NoEngine, Engines
  <2>5. process # e /\ \A u \in Threads : thread[u].p # e /\ thread[u].p \in 0..MaxEngines
    BY <1>0, <2>1, <2>2 DEF Launched, ThreadStates
  <2>6. Launched'
    BY <1>0, <1>1, <2>1, <2>2, <2>3, <2>4, <2>5 DEF Launched
  <2>7. NewEngineIsPrivate'
    BY <1>1, <2>1, <2>2, <2>5 DEF NewEngineIsPrivate
  <2>8. PipesKept'
    BY <1>0, <1>1, <2>1, <2>3, <2>4, <2>5 DEF PipesKept
  <2> QED
    BY <2>6, <2>7, <2>8
<1> QED
  BY <1>3, <1>4, <1>5, <1>6, <1>7 DEF Starting

\* Every step.
LEMMA PipeNext == PipeInv /\ [Next]_vars => PipeInv'
<1> SUFFICES ASSUME PipeInv, [Next]_vars PROVE PipeInv'
  OBVIOUS
<1> USE DEF native, pipes, fields, control
<1>0. TypeInv'
  BY TypeNext DEF PipeInv
<1>1. ASSUME NEW c \in Callers, Sending(c) PROVE PipeInv'
  <2>1. UNCHANGED <<process, open, thread, state>>
    BY <1>1 DEF Sending, Poll, TakeId, NotRunning, Write, TakeReply, EngineGone, TimedOut, GiveUp, Cancelled
  <2> QED
    BY <1>0, <2>1, PipeOthers DEF PipeInv
<1>2. CASE SendAsync \/ Interrupt
  <2>1. UNCHANGED <<process, open, thread, state>>
    BY <1>2 DEF SendAsync, Interrupt
  <2> QED
    BY <1>0, <2>1, PipeOthers DEF PipeInv
<1>3. ASSUME NEW e \in Engines, ReadLoop(e) PROVE PipeInv'
  <2>1. UNCHANGED <<process, open, thread, state>>
    BY <1>3 DEF ReadLoop, ReadLine, Deliver, EndOfOutput
  <2> QED
    BY <1>0, <2>1, PipeOthers DEF PipeInv
<1>4. ASSUME NEW e \in Engines, Engine(e) PROVE PipeInv'
  <2>1. UNCHANGED <<process, open, thread>>
    BY <1>4 DEF Engine, CommandLoop, Loaded, LoadFails, Execute, Answers, StartsMove, Analyses,
       Interrupted, Quits, EndOfInput, Moves, AnalysisEnds, Watch
  <2>2. \/ state' = state \/ state' = [state EXCEPT ![e] = "running"]
        \/ state' = [state EXCEPT ![e] = "exited"]
    BY <1>4 DEF Engine, CommandLoop, Loaded, LoadFails, Execute, Answers, StartsMove, Analyses,
       Interrupted, Quits, EndOfInput, Moves, AnalysisEnds, Watch, Exit
  <2>3. \A f \in Engines : state[f] # "none" => state'[f] # "none"
    BY <2>2 DEF PipeInv, TypeInv, NativeType
  <2> QED
    BY <1>0, <2>1, <2>3, PipeOthers DEF PipeInv
<1>5. ASSUME NEW t \in Threads, CallStop(t) \/ Stopping(t) \/ WaitTimesOut(t) PROVE PipeInv'
  BY <1>0, <1>5, PipeStop DEF PipeInv
<1>6. CASE CallStart \/ Starting
  BY <1>0, <1>6, PipeStart DEF PipeInv
<1>7. CASE UNCHANGED vars
  <2>1. UNCHANGED <<process, open, thread, state>>
    BY <1>7 DEF vars
  <2> QED
    BY <1>0, <2>1, PipeOthers DEF PipeInv
<1> QED
  BY <1>1, <1>2, <1>3, <1>4, <1>5, <1>6, <1>7 DEF Next, Threads

\* An engine whose pipes stop() has destroyed is not left, or put, in place: only the
\* stop() that captured it is about to remove it.
THEOREM PipesAreKept == Spec => []PipesKept
<1>1. PipeInv => PipesKept
  BY DEF PipeInv
<1> QED
  BY <1>1, PipeInit, PipeNext, PTL DEF Spec

----------------------------------------------------------------------------
(* An engine quits only when it was told to *)

\* No line, or no two lines, of a sequence is a "quit".
NoQuit(s)  == \A i \in 1..Len(s) : s[i].what # "quit"
OneQuit(s) == \A i, j \in 1..Len(s) : s[i].what = "quit" /\ s[j].what = "quit" => i = j

\* Every line is in the pipe, or in the buffer, of the engine it was written to;
\* only `cin` is shared, and what it holds was read from one pipe.
LinesTo ==
    /\ \A e \in Engines :
        /\ \A i \in 1..Len(toEngine[e]) : toEngine[e][i].to = e
        /\ \A i \in 1..Len(stdin[e]) : stdin[e][i].to = e
    /\ \A i, j \in 1..Len(stdin[0]) : stdin[0][i].to = stdin[0][j].to

\* At most one jni engine is on its thread.
OneJni ==
    \A e, f \in Engines :
        /\ kind[e] = "jni" /\ state[e] \in {"loading", "running"}
        /\ kind[f] = "jni" /\ state[f] \in {"loading", "running"}
        => e = f

\* A "quit" that `cin` has read ahead, for an engine that was not stopped twice, is the
\* only one, and the engine it was written to is the one that reads `cin`.
Shared ==
    \A i \in 1..Len(stdin[0]) :
        stdin[0][i].what = "quit" /\ stdin[0][i].to \notin stoppedTwice /\ ~cinEof =>
            LET e == stdin[0][i].to IN
              /\ OneQuit(stdin[0])
              /\ kind[e] = "jni" /\ state[e] = "running" /\ NoQuit(toEngine[e])

\* A "quit" for engine e has been written and not been carried out.
QuitOf(e) ==
    \/ ~NoQuit(toEngine[e])
    \/ \E i \in 1..Len(stdin[0]) : stdin[0][i].what = "quit" /\ stdin[0][i].to = e

\* stop() has written its "quit" and not yet forgotten the writer; start() has launched
\* an engine and not yet put its writer in place.
Telling == {"wait", "destroy", "null"}
Placing == {"setProcess", "setWriter"}

\* Nobody is about to tell engine e anything, and if it is still the writer, the
\* stop() that told it holds it.
ToldBy(e) ==
    /\ \A t \in Threads : ~(thread[t].pc = "quit" /\ thread[t].w = e)
    /\ writer = e => \E t \in Threads : thread[t].pc \in Telling /\ thread[t].w = e
    /\ thread[Main].pc \in Placing => thread[Main].p # e

\* stop() writes one "quit" and forgets the writer: an engine that has one to
\* read is told nothing more.
ToldOnce ==
    \A e \in Engines \ stoppedTwice :
        OneQuit(toEngine[e]) /\ (QuitOf(e) => state[e] # "none" /\ ToldBy(e))

\* A writer that is in place or held is that of an engine which was put in place.
WriterKnown ==
    \A e \in Engines :
        writer = e \/ (\E t \in Threads : thread[t].w = e) =>
            state[e] # "none" /\ (thread[Main].pc \in Placing => thread[Main].p # e)

\* One stop() holds it.
OneHolder ==
    \A e \in Engines \ stoppedTwice, t, u \in Threads :
        thread[t].w = e /\ thread[u].w = e => t = u

QuitState == LinesTo /\ OneJni /\ Shared /\ ToldOnce /\ WriterKnown /\ OneHolder

QuitInv == PipeInv /\ QuitState

\* Lines that are written and read.
LEMMA QuitSequences ==
    ASSUME NEW s \in Seq(Lines)
    PROVE  /\ \A l \in Lines : /\ Append(s, l) \in Seq(Lines)
                               /\ Len(Append(s, l)) = Len(s) + 1 /\ Append(s, l)[Len(s) + 1] = l
                               /\ \A i \in 1..Len(s) : Append(s, l)[i] = s[i]
           /\ \A l \in Lines : l.what # "quit" /\ NoQuit(s) => NoQuit(Append(s, l))
           /\ \A l \in Lines : l.what # "quit" /\ OneQuit(s) => OneQuit(Append(s, l))
           /\ \A l \in Lines : NoQuit(s) => OneQuit(Append(s, l))
           /\ s # <<>> => /\ Head(s) = s[1] /\ Len(s) > 0
                          /\ \A i \in 1..Len(Tail(s)) : i + 1 \in 1..Len(s) /\ Tail(s)[i] = s[i + 1]
           /\ s # <<>> /\ NoQuit(s) => NoQuit(Tail(s))
           /\ s # <<>> /\ OneQuit(s) => OneQuit(Tail(s))
           /\ s # <<>> /\ OneQuit(s) /\ Head(s).what = "quit" => NoQuit(Tail(s))
           /\ NoQuit(<<>>) /\ OneQuit(<<>>)
<1>1. \A l \in Lines : /\ Append(s, l) \in Seq(Lines)
                       /\ Len(Append(s, l)) = Len(s) + 1 /\ Append(s, l)[Len(s) + 1] = l
                       /\ \A i \in 1..Len(s) : Append(s, l)[i] = s[i]
  BY AppendProperties
<1>2. Len(s) \in Nat
  OBVIOUS
<1>3. \A l \in Lines : /\ l.what # "quit" /\ NoQuit(s) => NoQuit(Append(s, l))
                       /\ l.what # "quit" /\ OneQuit(s) => OneQuit(Append(s, l))
                       /\ NoQuit(s) => OneQuit(Append(s, l))
  <2> SUFFICES ASSUME NEW l \in Lines
               PROVE  /\ l.what # "quit" /\ NoQuit(s) => NoQuit(Append(s, l))
                      /\ l.what # "quit" /\ OneQuit(s) => OneQuit(Append(s, l))
                      /\ NoQuit(s) => OneQuit(Append(s, l))
    OBVIOUS
  <2>1. \A i \in 1..Len(Append(s, l)) :
           \/ i = Len(s) + 1 /\ Append(s, l)[i] = l
           \/ i \in 1..Len(s) /\ Append(s, l)[i] = s[i]
    BY <1>1, <1>2
  <2> QED
    BY <2>1 DEF NoQuit, OneQuit
<1>4. ASSUME s # <<>>
      PROVE  /\ Head(s) = s[1] /\ Len(s) > 0
             /\ \A i \in 1..Len(Tail(s)) : i + 1 \in 1..Len(s) /\ Tail(s)[i] = s[i + 1]
  <2>1. Len(s) > 0 /\ Len(Tail(s)) = Len(s) - 1 /\ \A i \in 1..Len(s) - 1 : Tail(s)[i] = s[i + 1]
    BY <1>4, HeadTailProperties, EmptySeq
  <2> QED
    BY <1>2, <1>4, <2>1
<1>5. ASSUME s # <<>>, NoQuit(s) PROVE NoQuit(Tail(s))
  BY <1>4, <1>5 DEF NoQuit
<1>6. ASSUME s # <<>>, OneQuit(s) PROVE OneQuit(Tail(s))
  <2> SUFFICES ASSUME NEW i \in 1..Len(Tail(s)), NEW j \in 1..Len(Tail(s)),
                      Tail(s)[i].what = "quit", Tail(s)[j].what = "quit"
               PROVE  i = j
    BY DEF OneQuit
  <2>1. s[i + 1].what = "quit" /\ s[j + 1].what = "quit" /\ i + 1 \in 1..Len(s) /\ j + 1 \in 1..Len(s)
    BY <1>4, <1>6
  <2>2. i + 1 = j + 1
    BY <1>6, <2>1 DEF OneQuit
  <2> QED
    BY <2>2
<1>7. ASSUME s # <<>>, OneQuit(s), Head(s).what = "quit" PROVE NoQuit(Tail(s))
  <2> SUFFICES ASSUME NEW i \in 1..Len(Tail(s)), Tail(s)[i].what = "quit" PROVE FALSE
    BY DEF NoQuit
  <2>1. s[i + 1].what = "quit" /\ i + 1 \in 1..Len(s) /\ s[1].what = "quit" /\ 1 \in 1..Len(s)
    BY <1>2, <1>4, <1>7
  <2>2. i + 1 = 1
    BY <1>7, <2>1 DEF OneQuit
  <2> QED
    BY <2>2
<1>8. NoQuit(<<>>) /\ OneQuit(<<>>)
  BY DEF NoQuit, OneQuit
<1> QED
  BY <1>1, <1>3, <1>4, <1>5, <1>6, <1>7, <1>8

\* Types, and what the invariant says of a single engine.
LEMMA QuitTypes ==
    ASSUME QuitInv
    PROVE  /\ TypeInv /\ PipeInv /\ InputType /\ 0 \notin Engines /\ Engines \subseteq 0..MaxEngines
           /\ \A e \in Engines : toEngine[e] \in Seq(Lines) /\ stdin[e] \in Seq(Lines)
           /\ stdin[0] \in Seq(Lines)
           /\ \A i \in 1..Len(stdin[0]) : stdin[0][i].to \in Engines
           /\ writer # NoEngine => writer \in Engines
           /\ \A t \in Threads : /\ thread[t] \in ThreadStates
                                 /\ thread[t].w # NoEngine => thread[t].w \in Engines
           /\ Main \in Threads /\ thread \in [Threads -> ThreadStates]
<1>1. TypeInv /\ PipeInv /\ InputType /\ FieldsType /\ ThreadType
  BY DEF QuitInv, PipeInv, TypeInv
<1>2. 0 \notin Engines /\ Engines \subseteq 0..MaxEngines /\ 0 \in 0..MaxEngines
      /\ \A e \in 0..MaxEngines : e # NoEngine => e \in Engines
  BY GtpAssumption DEF Engines, NoEngine
<1>3. Main \in Threads
  BY DEF Threads
<1>4. stdin[0] \in Seq(Lines)
  BY <1>1, <1>2 DEF InputType
<1>5. \A i \in 1..Len(stdin[0]) : stdin[0][i] \in Lines
  BY <1>4
<1>6. \A i \in 1..Len(stdin[0]) : stdin[0][i].to \in Engines
  BY <1>5 DEF Lines
<1>7. \A t \in Threads : thread[t] \in ThreadStates /\ thread[t].w \in 0..MaxEngines
  BY <1>1 DEF ThreadType, ThreadStates
<1> QED
  BY <1>1, <1>2, <1>3, <1>4, <1>6, <1>7 DEF InputType, FieldsType, ThreadType

\* A step of a thread that captures no writer and puts none in place leaves to the
\* threads what they know.
LEMMA HoldersKept ==
    ASSUME QuitInv, writer' \in {writer, NoEngine}, UNCHANGED stoppedTwice,
           \A e \in Engines : state[e] # "none" => state'[e] # "none",
           \A t \in Threads :
               /\ thread'[t].w \in {thread[t].w, NoEngine}
               /\ thread'[t].pc = "quit" => thread[t].pc = "quit"
               /\ thread[t].pc \in Telling => \/ thread'[t].pc \in Telling /\ thread'[t].w = thread[t].w
                                              \/ writer' # thread[t].w \/ writer' = NoEngine
               /\ thread'[t].pc \in Placing => thread[t].pc \in Placing /\ thread'[t].p = thread[t].p
    PROVE  WriterKnown' /\ OneHolder' /\ \A e \in Engines : ToldBy(e) => ToldBy(e)'
<1>0. /\ WriterKnown /\ OneHolder /\ Main \in Threads
      /\ \A e \in Engines : e # NoEngine
  BY QuitTypes DEF QuitInv, QuitState, NoEngine
<1>1. WriterKnown'
  BY <1>0 DEF WriterKnown
<1>2. OneHolder'
  BY <1>0 DEF OneHolder
<1>3. ASSUME NEW e \in Engines, ToldBy(e) PROVE ToldBy(e)'
  <2>1. \A t \in Threads : ~(thread'[t].pc = "quit" /\ thread'[t].w = e)
    BY <1>0, <1>3 DEF ToldBy
  <2>2. ASSUME writer' = e PROVE \E t \in Threads : thread'[t].pc \in Telling /\ thread'[t].w = e
    <3>1. PICK t \in Threads : thread[t].pc \in Telling /\ thread[t].w = e
      BY <1>0, <1>3, <2>2 DEF ToldBy
    <3> QED
      BY <1>0, <2>2, <3>1
  <2>3. thread'[Main].pc \in Placing => thread'[Main].p # e
    BY <1>0, <1>3 DEF ToldBy
  <2> QED
    BY <2>1, <2>2, <2>3 DEF ToldBy
<1> QED
  BY <1>1, <1>2, <1>3

\* A step that writes no line: pipes may be emptied, engines may end.
LEMMA QuitKept ==
    ASSUME QuitInv, UNCHANGED <<kind, stdin>>, cinEof => cinEof', stoppedTwice \subseteq stoppedTwice',
           \A e \in Engines : toEngine'[e] = toEngine[e] \/ toEngine'[e] = <<>>,
           \A e \in Engines : \/ state'[e] = state[e] \/ state'[e] = "exited"
                              \/ state[e] = "loading" /\ state'[e] = "running",
           \A e \in Engines : kind[e] = "jni" /\ state[e] = "running" /\ state'[e] # "running" => cinEof',
           \A e \in Engines \ stoppedTwice' : QuitOf(e) /\ ToldBy(e) => ToldBy(e)',
           WriterKnown', OneHolder'
    PROVE  QuitState'
<1>0. /\ LinesTo /\ OneJni /\ Shared /\ ToldOnce
      /\ \A i \in 1..Len(stdin[0]) : stdin[0][i].to \in Engines
      /\ \A e \in Engines : toEngine[e] \in Seq(Lines)
      /\ NoQuit(<<>>) /\ OneQuit(<<>>) /\ Len(<<>>) = 0
  BY QuitTypes, QuitSequences DEF QuitInv, QuitState
<1>1. LinesTo'
  BY <1>0 DEF LinesTo
<1>2. OneJni'
  BY <1>0 DEF OneJni
<1>3. Shared'
  <2> SUFFICES ASSUME NEW i \in 1..Len(stdin[0]), stdin[0][i].what = "quit", ~cinEof',
                      stdin[0][i].to \notin stoppedTwice'
               PROVE  LET e == stdin[0][i].to IN
                        /\ OneQuit(stdin[0])
                        /\ kind[e] = "jni" /\ state'[e] = "running" /\ NoQuit(toEngine'[e])
    BY DEF Shared
  <2> DEFINE e == stdin[0][i].to
  <2>1. e \in Engines
    BY <1>0
  <2>2. OneQuit(stdin[0]) /\ kind[e] = "jni" /\ state[e] = "running" /\ NoQuit(toEngine[e])
    BY <1>0 DEF Shared
  <2> QED
    BY <1>0, <2>1, <2>2
<1>4. ToldOnce'
  <2> SUFFICES ASSUME NEW e \in Engines \ stoppedTwice'
               PROVE  OneQuit(toEngine'[e]) /\ (QuitOf(e)' => state'[e] # "none" /\ ToldBy(e)')
    BY DEF ToldOnce
  <2>1. OneQuit(toEngine'[e])
    BY <1>0 DEF ToldOnce
  <2>2. QuitOf(e)' => QuitOf(e)
    BY <1>0 DEF QuitOf
  <2>3. QuitOf(e) => state[e] # "none" /\ ToldBy(e)
    BY <1>0 DEF ToldOnce
  <2> QED
    BY <2>1, <2>2, <2>3
<1> QED
  BY <1>1, <1>2, <1>3, <1>4 DEF QuitState

\* Steps of coroutines and engines leave to the threads what they know.
LEMMA QuitThreads ==
    ASSUME QuitInv, UNCHANGED <<writer, thread, stoppedTwice>>,
           \A e \in Engines : state[e] # "none" => state'[e] # "none"
    PROVE  WriterKnown' /\ OneHolder' /\ \A e \in Engines : ToldBy(e) => ToldBy(e)'
BY HoldersKept

\* A line is written to an engine: to that of the writer, or a "quit" to that of the
\* writer a stop() has captured.
LEMMA QuitWritten ==
    ASSUME QuitInv, UNCHANGED <<kind, state, stdin, cinEof, stoppedTwice>>, NEW w \in Engines,
           NEW id \in 0..MaxId, NEW what \in {"command", "genmove", "analysis", "quit", "newline"},
           toEngine' = Written(w, what, id),
           what = "quit" => \E t \in Threads : thread[t].pc = "quit" /\ thread[t].w = w
                                               /\ thread'[t].pc \in Telling /\ thread'[t].w = w,
           WriterKnown', OneHolder', \A e \in Engines : ToldBy(e) => ToldBy(e)'
    PROVE  QuitState'
<1> DEFINE line == [what |-> what, id |-> id, to |-> w]
<1>0. /\ LinesTo /\ OneJni /\ Shared /\ ToldOnce
      /\ \A i \in 1..Len(stdin[0]) : stdin[0][i].to \in Engines
      /\ toEngine \in [Engines -> Seq(Lines)]
  BY QuitTypes DEF QuitInv, QuitState, InputType
<1>1. line \in Lines /\ line.what = what /\ line.to = w
  BY DEF Lines
<1>2. CASE toEngine' = toEngine
  BY <1>2, QuitKept
<1>3. CASE toEngine' = [toEngine EXCEPT ![w] = Append(@, line)]
  <2> HIDE DEF line
  <2> DEFINE s == toEngine[w]
  <2>1. /\ toEngine'[w] = Append(s, line) /\ \A e \in Engines \ {w} : toEngine'[e] = toEngine[e]
        /\ s \in Seq(Lines)
    BY <1>0, <1>3
  <2>2. /\ Len(Append(s, line)) = Len(s) + 1 /\ Append(s, line)[Len(s) + 1] = line
        /\ \A i \in 1..Len(s) : Append(s, line)[i] = s[i]
        /\ what # "quit" /\ NoQuit(s) => NoQuit(Append(s, line))
        /\ what # "quit" /\ OneQuit(s) => OneQuit(Append(s, line))
        /\ NoQuit(s) => OneQuit(Append(s, line))
    BY <1>1, <2>1, QuitSequences
  <2> HIDE DEF s
  <2>3. LinesTo'
    <3> SUFFICES ASSUME NEW e \in Engines PROVE \A i \in 1..Len(toEngine'[e]) : toEngine'[e][i].to = e
      BY <1>0 DEF LinesTo
    <3>2. CASE e # w
      BY <1>0, <2>1, <3>2 DEF LinesTo
    <3>3. CASE e = w
      <4>1. \A i \in 1..Len(s) : s[i].to = e
        BY <1>0, <3>3 DEF LinesTo, s
      <4>2. Len(s) \in Nat
        BY <2>1
      <4>3. \A i \in 1..Len(Append(s, line)) : i = Len(s) + 1 \/ i \in 1..Len(s)
        BY <2>2, <4>2
      <4>4. \A i \in 1..Len(Append(s, line)) : Append(s, line)[i].to = e
        BY <1>1, <2>2, <3>3, <4>1, <4>3
      <4>5. toEngine'[e] = Append(s, line)
        BY <2>1, <3>3
      <4> QED
        BY <4>4, <4>5
    <3> QED
      BY <3>2, <3>3
  \* Who is about to write a "quit" has written none before, nor has anyone else.
  <2>4. what = "quit" /\ w \notin stoppedTwice => ~QuitOf(w)
    BY <1>0 DEF ToldOnce, ToldBy
  <2>5. Shared'
    <3> SUFFICES ASSUME NEW i \in 1..Len(stdin[0]), stdin[0][i].what = "quit", ~cinEof,
                        stdin[0][i].to \notin stoppedTwice
                 PROVE  LET e == stdin[0][i].to IN
                          /\ OneQuit(stdin[0])
                          /\ kind[e] = "jni" /\ state[e] = "running" /\ NoQuit(toEngine'[e])
      BY DEF Shared
    <3> DEFINE e == stdin[0][i].to
    <3>1. OneQuit(stdin[0]) /\ kind[e] = "jni" /\ state[e] = "running" /\ NoQuit(toEngine[e]) /\ e \in Engines
      BY <1>0 DEF Shared
    <3>2. CASE e # w
      BY <2>1, <3>1, <3>2
    <3>3. CASE e = w
      <4>1. what # "quit"
        BY <2>4, <3>3 DEF QuitOf
      <4> QED
        BY <2>1, <2>2, <3>1, <3>3, <4>1 DEF s
    <3> QED
      BY <3>2, <3>3
  <2>6. ToldOnce'
    <3> SUFFICES ASSUME NEW e \in Engines \ stoppedTwice
                 PROVE  OneQuit(toEngine'[e]) /\ (QuitOf(e)' => state[e] # "none" /\ ToldBy(e)')
      BY DEF ToldOnce
    <3>1. OneQuit(toEngine[e]) /\ (QuitOf(e) => state[e] # "none" /\ ToldBy(e))
      BY <1>0 DEF ToldOnce
    <3>2. CASE e # w
      <4>1. QuitOf(e)' => QuitOf(e)
        BY <2>1, <3>2 DEF QuitOf
      <4> QED
        BY <2>1, <3>1, <3>2, <4>1
    <3>3. CASE e = w /\ what = "quit"
      <4>1. NoQuit(s)
        BY <2>4, <3>3 DEF QuitOf, s
      <4>2. PICK t \in Threads : thread[t].pc = "quit" /\ thread[t].w = e
                                 /\ thread'[t].pc \in Telling /\ thread'[t].w = e
        BY <3>3
      <4>3. state[e] # "none" /\ (thread'[Main].pc \in Placing => thread'[Main].p # e)
        BY <4>2 DEF WriterKnown
      <4>4. \A u \in Threads : ~(thread'[u].pc = "quit" /\ thread'[u].w = e)
        BY <4>2 DEF OneHolder, Telling
      <4> QED
        BY <2>1, <2>2, <3>3, <4>1, <4>2, <4>3, <4>4 DEF ToldBy
    <3>4. CASE e = w /\ what # "quit"
      <4>1. QuitOf(e)' => QuitOf(e)
        BY <2>1, <2>2, <3>4 DEF QuitOf, s
      <4>2. OneQuit(toEngine'[e])
        BY <2>1, <2>2, <3>1, <3>4 DEF s
      <4> QED
        BY <3>1, <3>4, <4>1, <4>2
    <3> QED
      BY <3>2, <3>3, <3>4
  <2> QED
    BY <1>0, <2>3, <2>5, <2>6 DEF OneJni, QuitState
<1> QED
  BY <1>2, <1>3 DEF Written

\* There is no engine to quit at first.
LEMMA QuitInit == Init => QuitInv
<1> SUFFICES ASSUME Init PROVE QuitInv
  OBVIOUS
<1>1. /\ writer = NoEngine /\ \A e \in Engines : state[e] = "none" /\ toEngine[e] = <<>>
      /\ \A t \in Threads : thread[t].w = NoEngine
      /\ \A e \in Engines : e # NoEngine
  BY GtpAssumption DEF Init, Idle, Engines, NoEngine
<1>2. stdin[0] = <<>> /\ \A e \in Engines : stdin[e] = <<>>
  BY DEF Init
<1>3. NoQuit(<<>>) /\ OneQuit(<<>>) /\ Len(<<>>) = 0
  BY DEF NoQuit, OneQuit
<1>4. LinesTo /\ OneJni
  BY <1>1, <1>2, <1>3 DEF LinesTo, OneJni
<1>5. Shared /\ ToldOnce
  BY <1>1, <1>2, <1>3 DEF Shared, ToldOnce, QuitOf
<1>6. WriterKnown /\ OneHolder
  BY <1>1 DEF WriterKnown, OneHolder
<1> QED
  BY <1>4, <1>5, <1>6, PipeInit DEF QuitInv, QuitState

\* Commands write lines, none of which is a "quit".
LEMMA QuitCallers ==
    ASSUME QuitInv, (\E c \in Callers : Sending(c)) \/ SendAsync \/ Interrupt
    PROVE  QuitState'
<1> USE DEF fields, native, pipes, control
<1>0. /\ FieldsType /\ CallerType /\ 0 \in 0..MaxId /\ \A i \in 0..MaxId : i < MaxId => i + 1 \in 0..MaxId
      /\ writer # NoEngine => writer \in Engines
  BY GtpAssumption, QuitTypes DEF TypeInv
<1>1. ASSUME UNCHANGED <<writer, thread, stoppedTwice, kind, state, stdin, cinEof, toEngine>>
      PROVE  QuitState'
  BY <1>1, QuitThreads, QuitKept
<1>2. ASSUME UNCHANGED <<writer, thread, stoppedTwice, kind, state, stdin, cinEof>>, CanWrite,
             NEW what \in {"command", "genmove", "analysis", "newline"}, NEW id \in 0..MaxId,
             toEngine' = Written(writer, what, id)
      PROVE  QuitState'
  <2>1. writer \in Engines /\ WriterKnown' /\ OneHolder' /\ \A e \in Engines : ToldBy(e) => ToldBy(e)'
    BY <1>0, <1>2, QuitThreads DEF CanWrite
  <2>2. what # "quit" /\ what \in {"command", "genmove", "analysis", "quit", "newline"}
    BY <1>2
  <2> QED
    BY <1>2, <2>1, <2>2, QuitWritten
<1>3. ASSUME NEW c \in Callers, Sending(c) PROVE QuitState'
  <2>1. ASSUME NEW what \in {"command", "genmove"}, Write(c, what) PROVE QuitState'
    <3>1. /\ UNCHANGED <<writer, thread, stoppedTwice, kind, state, stdin, cinEof>> /\ CanWrite
          /\ toEngine' = Written(writer, what, caller[c].id) /\ caller[c].id \in 0..MaxId
      BY <1>0, <2>1 DEF Write, CallerType
    <3>2. what \in {"command", "genmove", "analysis", "newline"}
      BY <2>1
    <3> QED
      BY <1>2, <3>1, <3>2
  <2>2. CASE ~(\E what \in {"command", "genmove"} : Write(c, what))
    <3>1. UNCHANGED <<writer, thread, stoppedTwice, kind, state, stdin, cinEof, toEngine>>
      BY <1>3, <2>2 DEF Sending, Poll, TakeId, NotRunning, TakeReply, EngineGone, TimedOut, GiveUp, Cancelled
    <3> QED
      BY <1>1, <3>1
  <2> QED
    BY <2>1, <2>2
<1>4. CASE SendAsync
  <2>1. /\ UNCHANGED <<writer, thread, stoppedTwice, kind, state, stdin, cinEof>> /\ CanWrite
        /\ toEngine' = Written(writer, "analysis", nextCmdId + 1) /\ nextCmdId < MaxId
    BY <1>4 DEF SendAsync
  <2>2. nextCmdId + 1 \in 0..MaxId
    BY <1>0, <2>1 DEF FieldsType
  <2>3. "analysis" \in {"command", "genmove", "analysis", "newline"}
    OBVIOUS
  <2> QED
    BY <1>2, <2>1, <2>2, <2>3
<1>5. CASE Interrupt
  <2>1. /\ UNCHANGED <<writer, thread, stoppedTwice, kind, state, stdin, cinEof>> /\ CanWrite
        /\ toEngine' = Written(writer, "newline", NoId) /\ NoId \in 0..MaxId
    BY <1>0, <1>5 DEF Interrupt, NoId
  <2>3. "newline" \in {"command", "genmove", "analysis", "newline"}
    OBVIOUS
  <2> QED
    BY <1>2, <2>1, <2>3
<1> QED
  BY <1>3, <1>4, <1>5

\* What a running engine reads: a "quit" in it is its own or for an engine that was
\* stopped twice, and `cin` holds one of the former at most.
LEMMA QuitInput ==
    ASSUME QuitInv, NEW e \in Engines, state[e] = "running", ~(kind[e] = "jni" /\ cinEof)
    PROVE  /\ Input(e) \in Seq(Lines)
           /\ \A i \in 1..Len(Input(e)) :
                Input(e)[i].what = "quit" => Input(e)[i].to = e \/ Input(e)[i].to \in stoppedTwice
           /\ kind[e] # "jni" => \A i \in 1..Len(Input(e)) : Input(e)[i].to = e
           /\ \A i, j \in 1..Len(Input(e)) : Input(e)[i].to = Input(e)[j].to
           /\ \A i \in 1..Len(Input(e)) :
                kind[e] = "jni" /\ Input(e)[i].what = "quit" /\ Input(e)[i].to \notin stoppedTwice
                    => OneQuit(Input(e)) /\ QuitOf(e)
<1>0. /\ LinesTo /\ OneJni /\ Shared /\ ToldOnce /\ Input(e) \in Seq(Lines)
      /\ \A i \in 1..Len(stdin[0]) : stdin[0][i].to \in Engines
  BY QuitTypes, InputLines DEF QuitInv, QuitState
<1>1. CASE kind[e] # "jni"
  BY <1>0, <1>1 DEF Input, Stdin, LinesTo
<1>2. CASE kind[e] = "jni" /\ stdin[0] = <<>>
  <2>1. Input(e) = toEngine[e]
    BY <1>2 DEF Input, Stdin
  <2>2. \A i \in 1..Len(toEngine[e]) : toEngine[e][i].to = e
    BY <1>0 DEF LinesTo
  <2>3. e \notin stoppedTwice => OneQuit(toEngine[e])
    BY <1>0 DEF ToldOnce
  <2>4. \A i \in 1..Len(toEngine[e]) : toEngine[e][i].what = "quit" => QuitOf(e)
    BY DEF QuitOf, NoQuit
  <2> QED
    BY <1>0, <1>2, <2>1, <2>2, <2>3, <2>4
<1>3. CASE kind[e] = "jni" /\ stdin[0] # <<>>
  <2>1. Input(e) = stdin[0]
    BY <1>3 DEF Input, Stdin
  <2>2. \A i \in 1..Len(stdin[0]) :
          stdin[0][i].what = "quit" /\ stdin[0][i].to \notin stoppedTwice
              => stdin[0][i].to = e /\ OneQuit(stdin[0])
    BY <1>0, <1>3 DEF Shared, OneJni
  <2>3. \A i, j \in 1..Len(stdin[0]) : stdin[0][i].to = stdin[0][j].to
    BY <1>0 DEF LinesTo
  <2>4. \A i \in 1..Len(stdin[0]) : stdin[0][i].what = "quit" /\ stdin[0][i].to = e => QuitOf(e)
    BY DEF QuitOf
  <2> QED
    BY <1>0, <1>3, <2>1, <2>2, <2>3, <2>4
<1> QED
  BY <1>1, <1>2, <1>3

\* One turn of the command loop: a line is read, the others of the pipe may be read ahead.
LEMMA QuitExecute ==
    ASSUME QuitInv, NEW e \in Engines, NEW what, NEW printed, NEW exits \in BOOLEAN,
           exits => what = "quit", Execute(e, what, printed, exits)
    PROVE  QuitState'
<1> DEFINE input == Input(e)
           b == Stdin(e)
<1>0. /\ LinesTo /\ OneJni /\ Shared /\ ToldOnce /\ NoQuit(<<>>) /\ OneQuit(<<>>) /\ Len(<<>>) = 0
      /\ 0 \notin Engines /\ \A i \in 1..Len(stdin[0]) : stdin[0][i].to \in Engines
      /\ \A f \in Engines : stdin[f] \in Seq(Lines)
      /\ stdin \in [0..MaxEngines -> Seq(Lines)] /\ toEngine \in [Engines -> Seq(Lines)]
      /\ state \in [Engines -> {"none", "loading", "running", "exited"}]
      /\ stdin[0] \in Seq(Lines) /\ b \in 0..MaxEngines /\ Engines \subseteq 0..MaxEngines /\ 0 \in 0..MaxEngines
  <2>1. LinesTo /\ OneJni /\ Shared /\ ToldOnce /\ TypeInv
    BY DEF QuitInv, QuitState, PipeInv
  <2>2. NoQuit(<<>>) /\ OneQuit(<<>>) /\ Len(<<>>) = 0
    BY DEF NoQuit, OneQuit
  <2>3. /\ InputType /\ 0 \notin Engines /\ Engines \subseteq 0..MaxEngines /\ stdin[0] \in Seq(Lines)
        /\ \A i \in 1..Len(stdin[0]) : stdin[0][i].to \in Engines
        /\ \A f \in Engines : stdin[f] \in Seq(Lines)
    BY QuitTypes
  <2>4. 0 \in 0..MaxEngines
    BY GtpAssumption
  <2>5. b \in 0..MaxEngines
    BY <2>3, <2>4 DEF Stdin
  <2>6. state \in [Engines -> {"none", "loading", "running", "exited"}]
    BY <2>1 DEF TypeInv, NativeType
  <2> HIDE DEF b
  <2> QED
    BY <2>1, <2>2, <2>3, <2>4, <2>5, <2>6 DEF InputType
<1>1. /\ state[e] = "running" /\ ~(kind[e] = "jni" /\ cinEof) /\ input # <<>> /\ Head(input).what = what
      /\ stdin' = [stdin EXCEPT ![b] = Tail(input)]
      /\ UNCHANGED <<kind, cinEof, writer, thread, stoppedTwice>>
  BY DEF Execute, fields, control
<1>2. /\ input \in Seq(Lines)
      /\ kind[e] # "jni" => \A i \in 1..Len(input) : input[i].to = e
      /\ \A i, j \in 1..Len(input) : input[i].to = input[j].to
      /\ \A i \in 1..Len(input) :
           input[i].what = "quit" /\ input[i].to \notin stoppedTwice
               => input[i].to = e /\ (kind[e] = "jni" => OneQuit(input) /\ QuitOf(e))
  BY <1>1, QuitInput
<1>3. /\ \A i \in 1..Len(Tail(input)) : i + 1 \in 1..Len(input) /\ Tail(input)[i] = input[i + 1]
      /\ OneQuit(input) => OneQuit(Tail(input))
      /\ OneQuit(input) /\ exits => NoQuit(Tail(input))
  BY <1>1, <1>2, QuitSequences
<1>4. /\ \A f \in Engines : toEngine'[f] = toEngine[f] \/ toEngine'[f] = <<>>
      /\ \A f \in Engines \ {e} : toEngine'[f] = toEngine[f] /\ state'[f] = state[f]
      /\ state'[e] = IF exits THEN "exited" ELSE state[e]
      /\ ~exits /\ stdin[b] = <<>> => toEngine'[e] = <<>>
  <2>1. /\ exits => /\ toEngine' = [toEngine EXCEPT ![e] = <<>>] /\ state' = [state EXCEPT ![e] = "exited"]
        /\ ~exits => /\ toEngine' = IF stdin[b] = <<>> THEN [toEngine EXCEPT ![e] = <<>>] ELSE toEngine
                     /\ state' = state
    BY DEF Execute, Exit
  <2> QED
    BY <1>0, <2>1
<1>5. /\ stdin'[b] = Tail(input) /\ \A f \in 0..MaxEngines : f # b => stdin'[f] = stdin[f]
      /\ b = IF kind[e] = "jni" THEN 0 ELSE e
      /\ input = IF stdin[b] = <<>> THEN toEngine[e] ELSE stdin[b]
  BY <1>0, <1>1 DEF Stdin, Input
<1> HIDE DEF input, b
<1>6. WriterKnown' /\ OneHolder' /\ \A f \in Engines : ToldBy(f) => ToldBy(f)'
  BY <1>1, <1>4, QuitThreads
<1>7. OneJni'
  BY <1>0, <1>1, <1>4 DEF OneJni
<1>8. LinesTo'
  <2>1. ASSUME NEW f \in Engines PROVE \A i \in 1..Len(toEngine'[f]) : toEngine'[f][i].to = f
    <3>1. CASE toEngine'[f] = <<>>
      BY <1>0, <3>1
    <3>2. CASE toEngine'[f] = toEngine[f]
      BY <1>0, <3>2 DEF LinesTo
    <3> QED
      BY <1>4, <3>1, <3>2
  <2>2. ASSUME NEW f \in Engines PROVE \A i \in 1..Len(stdin'[f]) : stdin'[f][i].to = f
    <3>1. CASE f = b
      <4>1. f = e /\ kind[e] # "jni" /\ stdin'[f] = Tail(input)
        BY <1>0, <1>5, <3>1
      <4> QED
        BY <1>2, <1>3, <4>1
    <3>2. CASE f # b
      <4>1. stdin'[f] = stdin[f]
        BY <1>0, <1>5, <3>2
      <4> QED
        BY <1>0, <4>1 DEF LinesTo
    <3> QED
      BY <3>1, <3>2
  <2>3. \A i, j \in 1..Len(stdin'[0]) : stdin'[0][i].to = stdin'[0][j].to
    <3>1. CASE b = 0
      <4>1. stdin'[0] = Tail(input)
        BY <1>5, <3>1
      <4> QED
        BY <1>2, <1>3, <4>1
    <3>2. CASE b # 0
      <4>1. stdin'[0] = stdin[0]
        BY <1>0, <1>5, <3>2
      <4> QED
        BY <1>0, <4>1 DEF LinesTo
    <3> QED
      BY <3>1, <3>2
  <2> QED
    BY <2>1, <2>2, <2>3 DEF LinesTo
\* An executable has a buffer of its own: nothing is read from `cin`.
<1>9. ASSUME kind[e] # "jni"
      PROVE  Shared' /\ \A f \in Engines \ stoppedTwice : QuitOf(f)' => QuitOf(f)
  <2>1. stdin'[0] = stdin[0]
    BY <1>0, <1>5, <1>9
  <2>2. Shared'
    <3> SUFFICES ASSUME NEW i \in 1..Len(stdin[0]), stdin[0][i].what = "quit", ~cinEof,
                        stdin[0][i].to \notin stoppedTwice
                 PROVE  LET f == stdin[0][i].to IN
                          /\ OneQuit(stdin[0])
                          /\ kind[f] = "jni" /\ state'[f] = "running" /\ NoQuit(toEngine'[f])
      <4>1. UNCHANGED <<kind, cinEof, stoppedTwice>>
        BY <1>1
      <4> QED
        BY <2>1, <4>1 DEF Shared
    <3> DEFINE f == stdin[0][i].to
    <3>1. OneQuit(stdin[0]) /\ kind[f] = "jni" /\ state[f] = "running" /\ NoQuit(toEngine[f]) /\ f \in Engines
      BY <1>0 DEF Shared
    <3>2. f # e
      BY <1>9, <3>1
    <3> QED
      BY <1>4, <3>1, <3>2
  <2>3. \A f \in Engines : QuitOf(f)' => QuitOf(f)
    BY <1>0, <1>4, <2>1 DEF QuitOf
  <2> QED
    BY <2>2, <2>3
\* An engine in the app reads `cin`: what is left in it was in it, or in its own pipe.
<1>10. ASSUME kind[e] = "jni"
       PROVE  Shared' /\ \A f \in Engines \ stoppedTwice : QuitOf(f)' => QuitOf(f)
  <2>1. stdin'[0] = Tail(input) /\ b = 0
    BY <1>5, <1>10
  <2>2. ASSUME NEW i \in 1..Len(stdin'[0]), stdin'[0][i].what = "quit", stdin'[0][i].to \notin stoppedTwice
        PROVE  /\ stdin'[0][i].to = e /\ OneQuit(stdin'[0]) /\ QuitOf(e)
               /\ state'[e] = "running" /\ NoQuit(toEngine'[e])
    <3>1. /\ i + 1 \in 1..Len(input) /\ input[i + 1] = stdin'[0][i]
          /\ input[i + 1].to = e /\ OneQuit(input) /\ QuitOf(e)
      BY <1>2, <1>3, <1>10, <2>1, <2>2
    <3>2. ~exits
      BY <1>3, <2>1, <2>2, <3>1 DEF NoQuit
    <3>3. state'[e] = "running"
      BY <1>1, <1>4, <3>2
    <3>4. CASE stdin[0] = <<>>
      BY <1>0, <1>3, <1>4, <2>1, <3>1, <3>2, <3>3, <3>4
    <3>5. CASE stdin[0] # <<>>
      <4>1. input = stdin[0]
        BY <1>5, <2>1, <3>5
      <4>2. NoQuit(toEngine[e])
        BY <1>0, <1>1, <1>10, <2>2, <3>1, <4>1 DEF Shared
      <4> QED
        BY <1>0, <1>3, <1>4, <2>1, <3>1, <3>3, <4>2
    <3> QED
      BY <3>4, <3>5
  <2>3. Shared'
    BY <1>1, <1>10, <2>2 DEF Shared
  <2>4. ASSUME NEW f \in Engines \ stoppedTwice, QuitOf(f)' PROVE QuitOf(f)
    <3>1. CASE ~NoQuit(toEngine'[f])
      BY <1>0, <1>4, <3>1 DEF QuitOf
    <3>2. CASE \E i \in 1..Len(stdin'[0]) : stdin'[0][i].what = "quit" /\ stdin'[0][i].to = f
      BY <2>2, <3>2
    <3> QED
      BY <2>4, <3>1, <3>2 DEF QuitOf
  <2> QED
    BY <2>3, <2>4
<1>11. ToldOnce'
  <2> SUFFICES ASSUME NEW f \in Engines \ stoppedTwice
               PROVE  OneQuit(toEngine'[f]) /\ (QuitOf(f)' => state'[f] # "none" /\ ToldBy(f)')
    BY <1>1 DEF ToldOnce
  <2>1. QuitOf(f)' => QuitOf(f)
    BY <1>9, <1>10
  <2>2. OneQuit(toEngine'[f])
    BY <1>0, <1>4 DEF ToldOnce
  <2>3. QuitOf(f) => state[f] # "none" /\ ToldBy(f)
    BY <1>0 DEF ToldOnce
  <2> QED
    BY <1>1, <1>4, <1>6, <2>1, <2>2, <2>3
<1> QED
  BY <1>6, <1>7, <1>8, <1>9, <1>10, <1>11 DEF QuitState

\* Every other step of an engine and of its read loop.
LEMMA QuitEngine ==
    ASSUME QuitInv, NEW e \in Engines, ReadLoop(e) \/ Engine(e)
    PROVE  QuitState'
<1> USE DEF fields, native, pipes, control
<1>0. /\ toEngine \in [Engines -> Seq(Lines)]
      /\ state \in [Engines -> {"none", "loading", "running", "exited"}]
  BY QuitTypes DEF InputType, TypeInv, NativeType
<1>1. ASSUME ReadLoop(e) \/ Moves(e) \/ AnalysisEnds(e) \/ Watch(e) PROVE QuitState'
  <2>1. UNCHANGED <<writer, thread, stoppedTwice, kind, state, stdin, cinEof, toEngine>>
    BY <1>1 DEF ReadLoop, ReadLine, Deliver, EndOfOutput, Moves, AnalysisEnds, Watch
  <2> QED
    BY <2>1, QuitThreads, QuitKept
<1>2. ASSUME Loaded(e) \/ LoadFails(e) \/ EndOfInput(e) PROVE QuitState'
  <2>1. /\ UNCHANGED <<writer, thread, stoppedTwice, kind, stdin>>
        /\ toEngine' = toEngine \/ toEngine' = [toEngine EXCEPT ![e] = <<>>]
        /\ \/ state[e] = "loading" /\ state' = [state EXCEPT ![e] = "running"]
           \/ state[e] = "loading" /\ state' = [state EXCEPT ![e] = "exited"]
           \/ state[e] = "running" /\ state' = [state EXCEPT ![e] = "exited"]
    BY <1>2 DEF Loaded, LoadFails, EndOfInput, Exit
  <2>4. cinEof => cinEof'
    BY <1>2, Zenon DEF Loaded, LoadFails, EndOfInput, Exit
  <2>5. state[e] = "loading" \/ (kind[e] = "jni" => cinEof')
    BY <1>2, Zenon DEF Loaded, LoadFails, EndOfInput, Exit
  <2>2. /\ \A f \in Engines : toEngine'[f] = toEngine[f] \/ toEngine'[f] = <<>>
        /\ \A f \in Engines : \/ state'[f] = state[f] \/ state'[f] = "exited"
                              \/ state[f] = "loading" /\ state'[f] = "running"
        /\ \A f \in Engines : kind[f] = "jni" /\ state[f] = "running" /\ state'[f] # "running" => cinEof'
    BY <1>0, <2>1, <2>5
  <2>6. \A f \in Engines : state[f] # "none" => state'[f] # "none"
    BY <2>2
  <2>7. UNCHANGED <<writer, thread, stoppedTwice>> /\ UNCHANGED <<kind, stdin>>
    BY <2>1
  <2>3. WriterKnown' /\ OneHolder' /\ \A f \in Engines : ToldBy(f) => ToldBy(f)'
    BY <2>6, <2>7, QuitThreads
  <2> QED
    BY <2>2, <2>3, <2>4, <2>7, QuitKept
<1>3. ASSUME Answers(e) \/ StartsMove(e) \/ Analyses(e) \/ Interrupted(e) PROVE QuitState'
  BY <1>3, QuitExecute DEF Answers, StartsMove, Analyses, Interrupted
<1>4. ASSUME Quits(e) PROVE QuitState'
  BY <1>4, QuitExecute DEF Quits
<1> QED
  BY <1>1, <1>2, <1>3, <1>4 DEF Engine, CommandLoop

\* A step of stop(), on any thread: it captures the writer, writes the "quit" and forgets
\* the writer.
LEMMA QuitStop ==
    ASSUME QuitInv, NEW t \in Threads, CallStop(t) \/ Stopping(t) \/ WaitTimesOut(t)
    PROVE  QuitState'
<1> USE DEF fields, native, pipes, At
<1>0. /\ thread \in [Threads -> ThreadStates] /\ thread[t] \in ThreadStates
      /\ thread[t].w # NoEngine => thread[t].w \in Engines
      /\ writer # NoEngine => writer \in Engines
      /\ toEngine \in [Engines -> Seq(Lines)] /\ ToldOnce /\ WriterKnown /\ OneHolder
      /\ state \in [Engines -> {"none", "loading", "running", "exited"}]
      /\ \A e \in Engines : e # NoEngine
  BY QuitTypes DEF QuitInv, QuitState, InputType, TypeInv, NativeType, NoEngine
<1>1. ASSUME NEW pc \in {"wait", "destroy", "null", "compare", "clear", "clearReplies"}, Goto(t, pc)
      PROVE  /\ thread'[t].pc = pc /\ thread'[t].p = thread[t].p /\ thread'[t].w = thread[t].w
             /\ \A u \in Threads \ {t} : thread'[u] = thread[u]
  BY <1>0, <1>1 DEF Goto, ThreadStates
\* Every step but the one that captures a writer.
<1>2. ASSUME UNCHANGED <<stoppedTwice>>, writer' \in {writer, NoEngine},
             \A u \in Threads \ {t} : thread'[u] = thread[u],
             thread'[t].w \in {thread[t].w, NoEngine}, thread'[t].pc \notin {"quit"} \cup Placing,
             \/ thread[t].pc \notin Telling
             \/ thread'[t].pc \in Telling /\ thread'[t].w = thread[t].w
             \/ writer' # thread[t].w \/ writer' = NoEngine,
             \A e \in Engines : state[e] # "none" => state'[e] # "none"
      PROVE  WriterKnown' /\ OneHolder' /\ \A e \in Engines : ToldBy(e) => ToldBy(e)'
  BY <1>2, HoldersKept
<1>3. ASSUME UNCHANGED <<kind, stdin, cinEof, state, toEngine>>, stoppedTwice \subseteq stoppedTwice',
             \A e \in Engines \ stoppedTwice' : QuitOf(e) /\ ToldBy(e) => ToldBy(e)',
             WriterKnown', OneHolder'
      PROVE  QuitState'
  BY <1>3, QuitKept
<1>4. CASE CallStop(t)
  <2>1. /\ UNCHANGED <<kind, stdin, cinEof, state, toEngine, writer, stoppedTwice>> /\ thread[t].pc = "idle"
        /\ thread'[t].pc = "capture" /\ thread'[t].w = NoEngine
        /\ \A u \in Threads \ {t} : thread'[u] = thread[u]
    BY <1>0, <1>4 DEF CallStop
  <2>2. WriterKnown' /\ OneHolder' /\ \A e \in Engines : ToldBy(e) => ToldBy(e)'
    BY <1>2, <2>1 DEF Telling, Placing
  <2> QED
    BY <1>3, <2>1, <2>2
\* If the writer has been told to quit, another stop() holds it still, and from now on
\* its engine counts as stopped twice.
<1>5. CASE CaptureWriter(t)
  <2>1. /\ UNCHANGED <<kind, stdin, cinEof, state, toEngine, writer>> /\ thread[t].pc = "capture"
        /\ thread'[t].pc = "quit" /\ thread'[t].w = writer /\ thread'[t].p = thread[t].p
        /\ \A u \in Threads \ {t} : thread'[u] = thread[u]
        /\ stoppedTwice' = IF writer = NoEngine \/ HeldBy(t) = {} THEN stoppedTwice
                           ELSE stoppedTwice \cup {writer}
    BY <1>0, <1>5 DEF CaptureWriter, ThreadStates
  <2>2. stoppedTwice \subseteq stoppedTwice'
    BY <2>1
  <2>3. WriterKnown'
    <3> SUFFICES ASSUME NEW e \in Engines, writer' = e \/ \E u \in Threads : thread'[u].w = e
                 PROVE  state'[e] # "none" /\ (thread'[Main].pc \in Placing => thread'[Main].p # e)
      BY DEF WriterKnown
    <3>1. writer = e \/ \E u \in Threads : thread[u].w = e
      BY <2>1
    <3>2. state[e] # "none" /\ (thread[Main].pc \in Placing => thread[Main].p # e)
      BY <1>0, <3>1 DEF WriterKnown
    <3>3. CASE t = Main
      BY <2>1, <3>2, <3>3 DEF Placing
    <3>4. CASE t # Main
      <4>1. thread'[Main] = thread[Main]
        BY <2>1, <3>4 DEF Threads
      <4> QED
        BY <2>1, <3>2, <4>1
    <3> QED
      BY <3>3, <3>4
  <2>4. \A u \in Threads \ {t} : thread[u].w = writer /\ writer # NoEngine => writer \in stoppedTwice'
    BY <2>1 DEF HeldBy
  <2>5. OneHolder'
    <3> SUFFICES ASSUME NEW e \in Engines \ stoppedTwice', NEW u \in Threads, NEW v \in Threads,
                        thread'[u].w = e, thread'[v].w = e
                 PROVE  u = v
      BY DEF OneHolder
    <3>1. CASE writer = e
      BY <1>0, <2>1, <2>4, <3>1
    <3>2. CASE writer # e
      BY <1>0, <2>1, <2>2, <3>2 DEF OneHolder
    <3> QED
      BY <3>1, <3>2
  <2>6. ASSUME NEW e \in Engines \ stoppedTwice', ToldBy(e) PROVE ToldBy(e)'
    <3>1. writer # e
      <4> SUFFICES ASSUME writer = e PROVE FALSE
        OBVIOUS
      <4>1. PICK u \in Threads : thread[u].pc \in Telling /\ thread[u].w = e
        BY <2>6 DEF ToldBy
      <4>2. u # t
        BY <2>1, <4>1 DEF Telling
      <4> QED
        BY <1>0, <2>4, <2>6, <4>1, <4>2
    <3>2. \A u \in Threads : ~(thread'[u].pc = "quit" /\ thread'[u].w = e)
      BY <2>1, <2>6, <3>1 DEF ToldBy
    <3>3. writer' # e
      BY <2>1, <3>1
    <3>4. thread'[Main].pc \in Placing => thread'[Main].p # e
      <4>1. CASE t = Main
        BY <2>1, <4>1 DEF Placing
      <4>2. CASE t # Main
        <5>1. thread'[Main] = thread[Main]
          BY <2>1, <4>2 DEF Threads
        <5> QED
          BY <2>6, <5>1 DEF ToldBy
      <4> QED
        BY <4>1, <4>2
    <3> QED
      BY <3>2, <3>3, <3>4 DEF ToldBy
  <2> QED
    BY <1>3, <2>1, <2>2, <2>3, <2>5, <2>6
<1>6. CASE WriteQuit(t)
  <2>1. /\ UNCHANGED <<kind, stdin, cinEof, state, writer, stoppedTwice>> /\ thread[t].pc = "quit"
        /\ thread'[t].pc \in {"null", "wait", "destroy"} /\ thread'[t].w = thread[t].w
        /\ \A u \in Threads \ {t} : thread'[u] = thread[u]
        /\ toEngine' = IF thread[t].w = NoEngine THEN toEngine ELSE Written(thread[t].w, "quit", NoId)
    BY <1>1, <1>6 DEF WriteQuit
  <2>2. WriterKnown' /\ OneHolder' /\ \A e \in Engines : ToldBy(e) => ToldBy(e)'
    BY <1>2, <2>1 DEF Telling, Placing
  <2>3. CASE thread[t].w = NoEngine
    BY <1>3, <2>1, <2>2, <2>3
  <2>4. CASE thread[t].w # NoEngine
    <3>1. /\ thread[t].w \in Engines /\ NoId \in 0..MaxId
          /\ toEngine' = Written(thread[t].w, "quit", NoId)
          /\ "quit" \in {"command", "genmove", "analysis", "quit", "newline"}
      BY <1>0, <2>1, <2>4, GtpAssumption DEF NoId
    <3>2. UNCHANGED <<kind, state, stdin, cinEof, stoppedTwice>>
      BY <2>1
    <3>3. \E u \in Threads : /\ thread[u].pc = "quit" /\ thread[u].w = thread[t].w
                             /\ thread'[u].pc \in Telling /\ thread'[u].w = thread[t].w
      BY <2>1 DEF Telling
    <3> QED
      BY <2>2, <3>1, <3>2, <3>3, QuitWritten
  <2> QED
    BY <2>3, <2>4
<1>7. CASE WaitForExit(t) \/ WaitTimesOut(t) \/ Destroy(t)
  <2>1. /\ UNCHANGED <<kind, stdin, cinEof, writer, stoppedTwice>> /\ thread[t].pc \in {"wait", "destroy"}
        /\ thread'[t].pc \in {"destroy", "null"} /\ thread'[t].w = thread[t].w
        /\ \A u \in Threads \ {t} : thread'[u] = thread[u]
    BY <1>1, <1>7 DEF WaitForExit, WaitTimesOut, Destroy
  <2>2. \E p \in {thread[t].p} :
           \/ state' = state /\ toEngine' = toEngine
           \/ /\ ~InProcess(p) /\ p # NoEngine
              /\ state' = [state EXCEPT ![p] = "exited"] /\ toEngine' = [toEngine EXCEPT ![p] = <<>>]
    <3>1. thread[t].p # NoEngine
      BY <1>0, <2>1, QuitTypes DEF TypeInv, ThreadType
    <3> QED
      BY <1>7, <3>1 DEF WaitForExit, WaitTimesOut, Destroy, Exit
  <2>3. /\ \A e \in Engines : toEngine'[e] = toEngine[e] \/ toEngine'[e] = <<>>
        /\ \A e \in Engines : state'[e] = state[e] \/ state'[e] = "exited"
        /\ \A e \in Engines : kind[e] = "jni" => state'[e] = state[e]
        /\ \A e \in Engines : state[e] # "none" => state'[e] # "none"
    BY <1>0, <2>2 DEF InProcess
  <2>4. WriterKnown' /\ OneHolder' /\ \A e \in Engines : ToldBy(e) => ToldBy(e)'
    BY <1>2, <2>1, <2>3 DEF Telling, Placing
  <2>5. UNCHANGED <<kind, stdin>> /\ (cinEof => cinEof') /\ stoppedTwice \subseteq stoppedTwice'
    BY <2>1
  <2> QED
    BY <2>3, <2>4, <2>5, QuitKept
<1>8. CASE Forget(t)
  <2>1. /\ UNCHANGED <<kind, stdin, cinEof, state, toEngine, stoppedTwice>> /\ thread[t].pc = "null"
        /\ writer' = (IF writer = thread[t].w THEN NoEngine ELSE writer)
        /\ thread'[t].pc = "compare" /\ thread'[t].w = thread[t].w
        /\ \A u \in Threads \ {t} : thread'[u] = thread[u]
    BY <1>1, <1>8 DEF Forget
  <2>2. WriterKnown' /\ OneHolder' /\ \A e \in Engines : ToldBy(e) => ToldBy(e)'
    BY <1>2, <2>1 DEF Telling, Placing
  <2> QED
    BY <1>3, <2>1, <2>2
<1>9. CASE Superseded(t) \/ Current(t) \/ ClearAwaiting(t) \/ ClearReplies(t)
  <2>1. /\ UNCHANGED <<kind, stdin, cinEof, state, toEngine, writer, stoppedTwice>>
        /\ thread[t].pc \in {"compare", "clear", "clearReplies"}
        /\ thread'[t].pc \in {"clear", "clearReplies", "launch", "idle"}
        /\ thread'[t].w \in {thread[t].w, NoEngine}
        /\ \A u \in Threads \ {t} : thread'[u] = thread[u]
    BY <1>0, <1>1, <1>9 DEF Superseded, Current, ClearAwaiting, ClearReplies, Leave, Idle
  <2>2. WriterKnown' /\ OneHolder' /\ \A e \in Engines : ToldBy(e) => ToldBy(e)'
    BY <1>2, <2>1 DEF Telling, Placing
  <2> QED
    BY <1>3, <2>1, <2>2
<1> QED
  BY <1>4, <1>5, <1>6, <1>7, <1>8, <1>9 DEF Stopping

\* A step of start(): the engine it puts in place is a new one, which nothing was
\* written to.
LEMMA QuitStart ==
    ASSUME QuitInv, CallStart \/ Starting
    PROVE  QuitState'
<1> USE DEF fields, native, pipes, At
<1>0. /\ thread \in [Threads -> ThreadStates] /\ thread[Main] \in ThreadStates /\ Main \in Threads
      /\ writer # NoEngine => writer \in Engines
      /\ LinesTo /\ OneJni /\ Shared /\ ToldOnce /\ WriterKnown /\ OneHolder
      /\ state \in [Engines -> {"none", "loading", "running", "exited"}]
      /\ kind \in [Engines -> {"jni", "exec"}]
      /\ \A e \in Engines : e # NoEngine
      /\ \A i \in 1..Len(stdin[0]) : stdin[0][i].to \in Engines
  BY QuitTypes DEF QuitInv, QuitState, TypeInv, NativeType, NoEngine
<1>2. ASSUME UNCHANGED <<kind, stdin, cinEof, state, toEngine, stoppedTwice>>, WriterKnown', OneHolder',
             \A e \in Engines : QuitOf(e) /\ ToldBy(e) => ToldBy(e)'
      PROVE  QuitState'
  BY <1>2, QuitKept
<1>3. CASE CallStart \/ LaunchFails \/ ExitedImmediately \/ StartReader
  <2>1. /\ UNCHANGED <<kind, stdin, cinEof, state, toEngine, writer, stoppedTwice>>
        /\ thread[Main].pc \in {"idle", "launch", "setProcess", "startReader"}
        /\ thread'[Main].pc \in {"capture", "idle"} /\ thread'[Main].w = NoEngine
        /\ \A u \in Threads \ {Main} : thread'[u] = thread[u]
    BY <1>0, <1>3 DEF CallStart, LaunchFails, ExitedImmediately, StartReader, Idle
  <2>2. WriterKnown' /\ OneHolder' /\ \A e \in Engines : ToldBy(e) => ToldBy(e)'
    BY <2>1, HoldersKept DEF Telling, Placing
  <2> QED
    BY <1>2, <2>1, <2>2
<1>4. CASE SetProcess
  <2>1. /\ UNCHANGED <<kind, stdin, cinEof, state, toEngine, writer, stoppedTwice>>
        /\ thread[Main].pc = "setProcess" /\ thread'[Main].pc = "setWriter"
        /\ thread'[Main].p = thread[Main].p /\ thread'[Main].w = thread[Main].w
        /\ \A u \in Threads \ {Main} : thread'[u] = thread[u]
    BY <1>0, <1>4 DEF SetProcess, Goto, ThreadStates
  <2>2. WriterKnown' /\ OneHolder' /\ \A e \in Engines : ToldBy(e) => ToldBy(e)'
    BY <2>1, HoldersKept DEF Telling, Placing
  <2> QED
    BY <1>2, <2>1, <2>2
<1>5. CASE SetWriter
  <2>1. /\ UNCHANGED <<kind, stdin, cinEof, state, toEngine, stoppedTwice>>
        /\ thread[Main].pc = "setWriter" /\ thread'[Main].pc = "startReader" /\ writer' = thread[Main].p
        /\ thread'[Main].w = thread[Main].w
        /\ \A u \in Threads \ {Main} : thread'[u] = thread[u]
    BY <1>0, <1>5 DEF SetWriter, Goto, ThreadStates
  <2>2. thread[Main].p # NoEngine => state[thread[Main].p] # "none"
    BY <1>0 DEF QuitInv, PipeInv, Launched
  <2>3. WriterKnown'
    BY <1>0, <2>1, <2>2 DEF WriterKnown, Placing
  <2>4. OneHolder'
    BY <1>0, <2>1 DEF OneHolder
  <2>5. ASSUME NEW e \in Engines, ToldBy(e) PROVE ToldBy(e)'
    <3>1. thread[Main].p # e
      BY <2>1, <2>5 DEF ToldBy, Placing
    <3> QED
      BY <1>0, <2>1, <2>5, <3>1 DEF ToldBy, Placing
  <2> QED
    BY <1>2, <2>1, <2>3, <2>4, <2>5
<1>6. ASSUME NEW p \in Engines, NEW k \in Kinds, Launch(p, k) PROVE QuitState'
  <2>1. /\ UNCHANGED <<stdin, cinEof, toEngine, writer, stoppedTwice>> /\ state[p] = "none"
        /\ thread[Main].pc = "launch" /\ thread'[Main].pc = "setProcess" /\ thread'[Main].p = p
        /\ thread'[Main].w = NoEngine /\ \A u \in Threads \ {Main} : thread'[u] = thread[u]
        /\ state'[p] = "loading" /\ \A e \in Engines \ {p} : state'[e] = state[e] /\ kind'[e] = kind[e]
        /\ kind'[p] = k
    BY <1>0, <1>6 DEF Launch
  <2>2. k = "jni" => ~EngineRunning
    BY <1>6 DEF Launch
  <2>3. LinesTo'
    BY <1>0, <2>1 DEF LinesTo
  <2>4. OneJni'
    BY <1>0, <2>1, <2>2 DEF OneJni, EngineRunning
  <2>5. Shared'
    <3> SUFFICES ASSUME NEW i \in 1..Len(stdin[0]), stdin[0][i].what = "quit", ~cinEof,
                        stdin[0][i].to \notin stoppedTwice
                 PROVE  LET e == stdin[0][i].to IN
                          /\ OneQuit(stdin[0])
                          /\ kind'[e] = "jni" /\ state'[e] = "running" /\ NoQuit(toEngine[e])
      BY <2>1 DEF Shared
    <3> DEFINE e == stdin[0][i].to
    <3>1. OneQuit(stdin[0]) /\ kind[e] = "jni" /\ state[e] = "running" /\ NoQuit(toEngine[e]) /\ e \in Engines
      BY <1>0 DEF Shared
    <3> QED
      BY <2>1, <3>1
  <2>6. ToldOnce'
    <3> SUFFICES ASSUME NEW e \in Engines \ stoppedTwice
                 PROVE  OneQuit(toEngine'[e]) /\ (QuitOf(e)' => state'[e] # "none" /\ ToldBy(e)')
      BY <2>1 DEF ToldOnce
    <3>1. OneQuit(toEngine[e]) /\ (QuitOf(e) => state[e] # "none" /\ ToldBy(e))
      BY <1>0 DEF ToldOnce
    <3>2. QuitOf(e)' => QuitOf(e)
      BY <2>1 DEF QuitOf
    <3>3. QuitOf(e) => e # p /\ state'[e] # "none"
      BY <2>1, <3>1
    <3>4. ToldBy(e) /\ e # p => ToldBy(e)'
      BY <1>0, <2>1 DEF ToldBy, Placing, Telling
    <3> QED
      BY <2>1, <3>1, <3>2, <3>3, <3>4
  <2>7. WriterKnown'
    BY <1>0, <2>1 DEF WriterKnown, Placing
  <2>8. OneHolder'
    BY <1>0, <2>1 DEF OneHolder
  <2> QED
    BY <2>3, <2>4, <2>5, <2>6, <2>7, <2>8 DEF QuitState
<1> QED
  BY <1>3, <1>4, <1>5, <1>6 DEF Starting

\* Every step.
LEMMA QuitNext == QuitInv /\ [Next]_vars => QuitInv'
<1> SUFFICES ASSUME QuitInv, [Next]_vars PROVE QuitInv'
  OBVIOUS
<1>0. PipeInv'
  BY PipeNext DEF QuitInv
<1>2. CASE UNCHANGED vars
  <2>1. UNCHANGED <<writer, thread, stoppedTwice>> /\ UNCHANGED <<kind, stdin>>
        /\ UNCHANGED <<state, toEngine, cinEof>>
    BY <1>2 DEF vars, fields, native, pipes, control
  <2>2. WriterKnown' /\ OneHolder' /\ \A e \in Engines : ToldBy(e) => ToldBy(e)'
    BY <2>1, QuitThreads
  <2> QED
    BY <1>0, <2>1, <2>2, QuitKept DEF QuitInv
<1>3. CASE (\E c \in Callers : Sending(c)) \/ SendAsync \/ Interrupt
  BY <1>0, <1>3, QuitCallers DEF QuitInv
<1>4. CASE \E e \in Engines : ReadLoop(e) \/ Engine(e)
  BY <1>0, <1>4, QuitEngine DEF QuitInv
<1>5. ASSUME NEW t \in Threads, CallStop(t) \/ Stopping(t) \/ WaitTimesOut(t)
      PROVE  QuitInv'
  BY <1>0, <1>5, QuitStop DEF QuitInv
<1>6. CASE CallStart \/ Starting
  BY <1>0, <1>6, QuitStart DEF QuitInv
<1> QED
  BY <1>2, <1>3, <1>4, <1>5, <1>6 DEF Next, Threads

\* An engine that quits was told so by a stop() that meant it, unless the "quit" is for an
\* engine two stop()s held at once: for any threads that stop engines, IO threads among
\* them (GtpEngine.stop, MainActivity.cancelEngineLoading and startEngineOnce).
THEOREM QuitsWhenTold == Spec => QuitsByItsOwnStop
<1>1. QuitInv /\ [Next]_vars =>
          [\A e \in Engines : Quits(e) =>
              LET told == Head(Input(e)).to IN told = e \/ told \in stoppedTwice]_vars
  <2> SUFFICES ASSUME QuitInv, NEW e \in Engines, Quits(e)
               PROVE  Head(Input(e)).to = e \/ Head(Input(e)).to \in stoppedTwice
    OBVIOUS
  <2>1. /\ state[e] = "running" /\ ~(kind[e] = "jni" /\ cinEof) /\ Input(e) # <<>>
        /\ Head(Input(e)).what = "quit"
    BY DEF Quits, Execute
  <2>2. /\ Input(e) \in Seq(Lines)
        /\ \A i \in 1..Len(Input(e)) :
             Input(e)[i].what = "quit" => Input(e)[i].to = e \/ Input(e)[i].to \in stoppedTwice
    BY <2>1, QuitInput
  <2>3. Head(Input(e)) = Input(e)[1] /\ 1 \in 1..Len(Input(e))
    BY <2>1, <2>2, QuitSequences
  <2> QED
    BY <2>1, <2>2, <2>3
<1> QED
  BY <1>1, QuitInit, QuitNext, PTL DEF Spec, QuitsByItsOwnStop

=============================================================================
