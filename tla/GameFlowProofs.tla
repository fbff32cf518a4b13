--------------------------- MODULE GameFlowProofs ---------------------------
(***************************************************************************)
(* Theorems about GameFlow, for any board, saves and numbers of games,      *)
(* coroutines, moves and failures: the boards agree whenever the player may  *)
(* move, the engine is asked in its turn only, and the coroutines carry out  *)
(* the game of Game.tla.                                                     *)
(***************************************************************************)
EXTENDS GameFlow, SequenceTheorems, TLAPS

\* TypeOK of GameFlow with its records named.
JobRec   == [pc : Sending \cup {"off", "io", "retry"}, cancelled : BOOLEAN,
             list : Seq(Moves), i : Nat, attempt : 0..2,
             reply : {"none", "ok", "resign", Pass} \cup Bad \cup Points]
CmdNames == {"setup", "play", "undo", "clear", "score", "genmove"}
Commands == [by : {NoJob} \cup Jobs, move : Moves, cmd : CmdNames]

JobType  == job \in [Jobs -> JobRec]
WireType == alive \in BOOLEAN /\ board \in Seq(Moves) /\ pipe \in Seq(Commands)

Types ==
    /\ JobType /\ WireType /\ moves \in Seq(Moves)
    /\ gameActive \in BOOLEAN /\ engineBusy \in BOOLEAN /\ replayingSave \in BOOLEAN
    /\ engineLoading \in BOOLEAN /\ engineColor \in Colors
    /\ loadingJob \in {NoJob} \cup Loads
    /\ showGameOverDialog \in BOOLEAN /\ showExitConfirm \in BOOLEAN
    /\ sound \in BOOLEAN /\ games \in 0..MaxGames /\ failures \in 0..MaxFailures

Playing == {"play", "pass", "score", "undo", "undo2", "genmove", "clear", "sync", "regenmove"}

\* What holds of the coroutines in any game: one that ended has left nothing
\* behind, every load but the last is cancelled, and a flag that locks the
\* board belongs to a coroutine that will release it.
Discipline ==
    /\ \A j \in Jobs : job[j].pc = "off" => job[j] = Off
    /\ \A j \in Jobs : job[j].pc \in {"io", "retry"} => job[j].reply = "none"
    /\ \A j \in Jobs : job[j].pc = "replay" => job[j].i \in 1..Len(job[j].list)
    /\ \A j \in Loads : j > games => job[j].pc = "off"
    /\ loadingJob <= games
    /\ \A j \in Loads : j # loadingJob /\ job[j].pc # "off" => job[j].cancelled
    /\ \A j \in Handlers : ~job[j].cancelled
    /\ engineBusy => \E j \in Jobs : job[j].pc \in Playing
    /\ replayingSave => \E j \in Jobs : job[j].pc = "replay"
    /\ ~alive => pipe = <<>>

----------------------------------------------------------------------------
(* The stages of a game that is sound *)

Alone(j) == \A k \in Jobs \ {j} : job[k].pc = "off"
NobodyOn == \A k \in Jobs : job[k].pc = "off"
HandlersOff == \A k \in Handlers : job[k].pc = "off"

\* Nobody waits for any command in the pipe.
Leftovers == \A k \in 1..Len(pipe) : pipe[k].by = NoJob

\* The command c is the last in the pipe.  Nobody waits for those before it, of
\* which the last empties the board; once they are gone the board is `before`.
Queued(c, before) ==
    /\ pipe # <<>> /\ pipe[Len(pipe)] = c
    /\ \A k \in 1..Len(pipe) - 1 : pipe[k].by = NoJob
    /\ IF Len(pipe) = 1 THEN board = before
       ELSE before = <<>> /\ pipe[Len(pipe) - 1].cmd = "clear"

\* All of the pipe is carried out, and the board is b.
Done(b) == pipe = <<>> /\ board = b

Cmd(j, cmd, move) == [by |-> j, cmd |-> cmd, move |-> move]

\* The last load has not finished setting up the engine.
Opening ==
    /\ ~gameActive /\ moves = <<>> /\ HandlersOff
    /\ job[loadingJob].pc \in {"io", "setup", "retry"} /\ job[loadingJob].list \in Saves
    /\ At(loadingJob, "setup") =>
         /\ Reply(loadingJob) \in {"none", "ok"} \cup Bad
         /\ Reply(loadingJob) = "none" => alive /\ pipe = <<Cmd(loadingJob, "setup", NoMove)>>
         /\ Reply(loadingJob) = "ok" => Alone(loadingJob) /\ (alive => Done(<<>>))

\* Its moves are put on both boards.
Replaying ==
    LET j == loadingJob   list == job[j].list   i == job[j].i IN
      /\ gameActive /\ ~engineBusy /\ replayingSave /\ Alone(j) /\ At(j, "replay")
      /\ list \in Saves /\ i \in 1..Len(list) /\ Len(moves) = i - 1
      /\ Reply(j) \in {"none", "ok"} \cup Bad
      /\ alive /\ Reply(j) = "none" => Queued(Cmd(j, "play", list[i]), moves)
      /\ alive /\ Reply(j) = "ok" => ~Occupied(moves, list[i].vertex) /\ Done(Append(moves, list[i]))
      /\ Reply(j) = "ok" => ~Occupied(moves, list[i].vertex)
      /\ alive /\ Reply(j) # "none" => pipe = <<>>

HumanTurn ==
    /\ gameActive /\ ~engineBusy /\ ~replayingSave /\ NobodyOn
    /\ currentPlayer # engineColor
    /\ alive => Done(moves)

\* What job j waits for, and the boards before and after it.
Moving(j) ==
    /\ job[j].pc \in {"play", "pass"}
    /\ currentPlayer = engineColor /\ moves # <<>>
    /\ At(j, "pass") => moves[Len(moves)].vertex = Pass
    /\ Reply(j) \in {"none", "ok", "error", "gone"} /\ (At(j, "pass") => Reply(j) # "error")
    /\ alive /\ Reply(j) = "none" => Queued(Cmd(j, "play", moves[Len(moves)]), Popped(moves, 1))
    /\ alive /\ Reply(j) = "ok" => Done(moves)
    /\ alive /\ Reply(j) = "error" => Done(Popped(moves, 1))
    /\ Reply(j) = "gone" => ~alive

Undoing(j) ==
    /\ job[j].pc \in {"undo", "undo2"} /\ currentPlayer # engineColor
    /\ Reply(j) \in {"none", "ok", "error", "gone"}
    /\ LET before == IF At(j, "undo") THEN moves ELSE Popped(moves, 1) IN
         /\ alive /\ Reply(j) = "none" => Queued(Cmd(j, "undo", NoMove), before)
         /\ alive /\ Reply(j) # "none" => Done(Popped(before, 1))

Asking(j) ==
    /\ job[j].pc \in {"genmove", "regenmove"} /\ currentPlayer = engineColor
    /\ LET c == Cmd(j, "genmove", [color |-> engineColor, vertex |-> Pass])
           m == [color |-> engineColor, vertex |-> Reply(j)] IN
         /\ alive /\ Reply(j) = "none" => Queued(c, moves)
         /\ alive /\ Reply(j) \in Points \cup {Pass} => Done(Append(moves, m))
    /\ alive /\ Reply(j) # "none" => Leftovers

Syncing(j) ==
    /\ currentPlayer = engineColor
    /\ \/ /\ At(j, "clear")
          /\ alive /\ Reply(j) = "none" =>
               /\ pipe # <<>> /\ pipe[Len(pipe)] = Cmd(j, "clear", NoMove)
               /\ \A k \in 1..Len(pipe) - 1 : pipe[k].by = NoJob
          /\ alive /\ Reply(j) # "none" =>
               /\ Leftovers
               /\ IF pipe = <<>> THEN board = <<>> ELSE pipe[Len(pipe)].cmd = "clear"
       \/ /\ At(j, "sync")
          /\ LET i == job[j].i IN
               /\ job[j].list = moves /\ i \in 1..Len(moves)
               /\ Reply(j) \in {"none", "ok", "error", "gone"}
               /\ alive /\ Reply(j) = "none" =>
                    Queued(Cmd(j, "play", moves[i]), SubSeq(moves, 1, i - 1))
               /\ alive /\ Reply(j) = "ok" => Done(SubSeq(moves, 1, i))
               /\ alive /\ Reply(j) # "none" => Leftovers

Scoring(j) ==
    /\ At(j, "score")
    /\ alive /\ Reply(j) = "none" =>
         /\ pipe # <<>> /\ pipe[Len(pipe)] = Cmd(j, "score", NoMove)
         /\ \A k \in 1..Len(pipe) - 1 : pipe[k].by = NoJob
    /\ alive /\ Reply(j) # "none" => Leftovers

TurnOf(j) == Moving(j) \/ Undoing(j) \/ Asking(j) \/ Syncing(j) \/ Scoring(j)

EngineTurn ==
    /\ gameActive /\ engineBusy /\ ~replayingSave
    /\ \E j \in Jobs : job[j].cancelled = FALSE /\ Alone(j) /\ TurnOf(j)

Over ==
    /\ ~gameActive /\ HandlersOff /\ job[loadingJob].pc = "off"
    /\ NobodyOn \/ moves = <<>>

Last == loadingJob \in Loads /\ job[loadingJob].cancelled = FALSE

Stage ==
    /\ Last
    /\ Opening \/ Replaying \/ HumanTurn \/ EngineTurn \/ Over

IInv == Types /\ Discipline /\ (sound => Stage)

----------------------------------------------------------------------------
(* Types, and what the operators of GameFlow do to the coroutines *)

\* The numbers of the coroutines.
LEMMA JobNumbers ==
    /\ Jobs \subseteq Nat /\ NoJob \notin Jobs /\ Loads \cap Handlers = {}
    /\ Loads \subseteq Jobs /\ Handlers \subseteq Jobs
    /\ \A n \in 0..MaxGames : n < MaxGames => n + 1 \in Loads
BY GameAssumption DEF Jobs, Loads, Handlers, NoJob

\* A job suspends in send(): nobody else is touched, and the command is last.
LEMMA Sends ==
    ASSUME JobType, WireType, NEW j \in Jobs, NEW pc \in Sending, NEW cmd \in CmdNames,
           NEW move \in Moves, NEW list \in Seq(Moves), NEW i \in Nat,
           SendOf(j, pc, cmd, move, list, i)
    PROVE  /\ JobType' /\ WireType'
           /\ alive' = alive /\ board' = board
           /\ job'[j].pc = pc /\ job'[j].cancelled = job[j].cancelled
           /\ job'[j].list = list /\ job'[j].i = i /\ job'[j].attempt = job[j].attempt
           /\ job'[j].reply = IF alive THEN "none" ELSE "gone"
           /\ \A k \in Jobs \ {j} : job'[k] = job[k]
           /\ pipe' = IF alive THEN Append(pipe, Cmd(j, cmd, move)) ELSE pipe
<1> DEFINE r == [job[j] EXCEPT !.pc = pc, !.list = list, !.i = i,
                               !.reply = IF alive THEN "none" ELSE "gone"]
<1>1. job[j] \in JobRec
    BY DEF JobType
<1>2. /\ r \in JobRec
      /\ r.pc = pc /\ r.cancelled = job[j].cancelled /\ r.list = list /\ r.i = i
      /\ r.attempt = job[j].attempt /\ r.reply = IF alive THEN "none" ELSE "gone"
    BY <1>1 DEF JobRec, Bad
<1>3. job' = [job EXCEPT ![j] = r]
    BY DEF SendOf
<1>4. /\ alive' = alive /\ board' = board
      /\ pipe' = IF alive THEN Append(pipe, Cmd(j, cmd, move)) ELSE pipe
    BY DEF SendOf, Cmd
<1>5. Cmd(j, cmd, move) \in Commands
    BY DEF Cmd, Commands
<1> HIDE DEF r
<1>6. JobType' /\ job'[j] = r /\ \A k \in Jobs \ {j} : job'[k] = job[k]
    BY <1>2, <1>3 DEF JobType
<1>7. WireType'
    BY <1>4, <1>5, AppendProperties DEF WireType
<1> QED
    BY <1>2, <1>4, <1>6, <1>7

\* The common case, a command that is none of a list.
LEMMA SendsOne ==
    ASSUME JobType, WireType, NEW j \in Jobs, NEW pc \in Sending, NEW cmd \in CmdNames,
           NEW move \in Moves, Send(j, pc, cmd, move)
    PROVE  /\ JobType' /\ WireType'
           /\ alive' = alive /\ board' = board
           /\ job'[j].pc = pc /\ job'[j].cancelled = job[j].cancelled
           /\ job'[j].attempt = job[j].attempt
           /\ job'[j].reply = IF alive THEN "none" ELSE "gone"
           /\ \A k \in Jobs \ {j} : job'[k] = job[k]
           /\ pipe' = IF alive THEN Append(pipe, Cmd(j, cmd, move)) ELSE pipe
<1>1. <<>> \in Seq(Moves) /\ 0 \in Nat
    OBVIOUS
<1>2. SendOf(j, pc, cmd, move, <<>>, 0)
    BY DEF Send
<1> HIDE DEF JobType, WireType
<1> QED
    BY <1>1, <1>2, Sends

\* A job ends.
LEMMA Ends ==
    ASSUME JobType, WireType, NEW j \in Jobs, End(j)
    PROVE  /\ JobType' /\ WireType' /\ UNCHANGED <<alive, board, pipe>>
           /\ job'[j] = Off /\ \A k \in Jobs \ {j} : job'[k] = job[k]
<1>1. Off \in JobRec
    BY DEF Off, JobRec
<1>2. job' = [job EXCEPT ![j] = Off] /\ UNCHANGED <<alive, board, pipe>>
    BY DEF End
<1>3. JobType' /\ job'[j] = Off /\ \A k \in Jobs \ {j} : job'[k] = job[k]
    BY <1>1, <1>2 DEF JobType
<1> QED
    BY <1>2, <1>3 DEF WireType

\* The waits that end because the engine is gone.
LEMMA Leaves ==
    ASSUME NEW f \in [Jobs -> JobRec]
    PROVE  /\ Gone(f) \in [Jobs -> JobRec]
           /\ \A k \in Jobs :
                /\ Gone(f)[k].pc = f[k].pc /\ Gone(f)[k].cancelled = f[k].cancelled
                /\ Gone(f)[k].list = f[k].list /\ Gone(f)[k].i = f[k].i
                /\ Gone(f)[k].attempt = f[k].attempt
                /\ Gone(f)[k].reply = IF f[k].pc \in Sending /\ f[k].reply = "none"
                                      THEN "gone" ELSE f[k].reply
                /\ f[k].pc \notin Sending => Gone(f)[k] = f[k]
<1>1. \A k \in Jobs : f[k] \in JobRec
    OBVIOUS
<1>2. \A k \in Jobs : Gone(f)[k] = IF f[k].pc \in Sending /\ f[k].reply = "none"
                                   THEN [f[k] EXCEPT !.reply = "gone"] ELSE f[k]
    BY DEF Gone
<1>3. \A k \in Jobs : [f[k] EXCEPT !.reply = "gone"] \in JobRec
    BY <1>1 DEF JobRec, Bad
<1>4. Gone(f) \in [Jobs -> JobRec]
    BY <1>1, <1>3 DEF Gone
<1> QED
    BY <1>1, <1>2, <1>4 DEF JobRec

\* The engine is stopped, with the coroutines then as in f.
LEMMA Stops ==
    ASSUME NEW f \in [Jobs -> JobRec], StopEngine(f)
    PROVE  /\ JobType' /\ WireType' /\ job' = Gone(f)
           /\ alive' = FALSE /\ pipe' = <<>> /\ board' = <<>>
<1>1. Gone(f) \in [Jobs -> JobRec]
    BY Leaves
<1>2. job' = Gone(f) /\ alive' = FALSE /\ pipe' = <<>> /\ board' = <<>>
    BY DEF StopEngine
<1> HIDE DEF Gone
<1>3. JobType'
    BY <1>1, <1>2 DEF JobType
<1>4. WireType'
  <2>1. <<>> \in Seq(Moves) /\ <<>> \in Seq(Commands)
    OBVIOUS
  <2> QED
    BY <1>2, <2>1, Zenon DEF WireType
<1> QED
    BY <1>2, <1>3, <1>4

\* Moves and boards.
LEMMA BoardTypes ==
    /\ \A p \in Seq(Moves) : ToMove(p) \in Colors
    /\ \A p \in Seq(Moves), n \in Nat : Popped(p, n) \in Seq(Moves)
    /\ \A p \in Seq(Moves), m \in Moves : Played(p, m) \in Seq(Moves) /\ Append(p, m) \in Seq(Moves)
    /\ \A c \in Colors, v \in Points \cup {Pass} : [color |-> c, vertex |-> v] \in Moves
    /\ NoMove \in Moves
<1>1. ASSUME NEW p \in Seq(Moves), NEW n \in Nat PROVE Popped(p, n) \in Seq(Moves)
  <2>1. \A k \in 1..(IF n < Len(p) THEN Len(p) - n ELSE 0) : p[k] \in Moves
    OBVIOUS
  <2> QED
    BY <2>1, SubSeqProperties DEF Popped
<1>2. \A p \in Seq(Moves), m \in Moves : Played(p, m) \in Seq(Moves) /\ Append(p, m) \in Seq(Moves)
    BY DEF Played
<1> QED
    BY <1>1, <1>2 DEF ToMove, Colors, Moves, NoMove

\* What a step of job j does to the flags and the moves.
LEMMA EngineMoveTypes ==
    ASSUME Types, NEW j \in Jobs, EngineMove(j)
    PROVE  Types'
<1>t. /\ JobType /\ WireType /\ moves \in Seq(Moves) /\ engineColor \in Colors
    BY DEF Types
<1>1. \A c \in Colors : [color |-> c, vertex |-> Pass] \in Moves
    BY BoardTypes
<1>2. ASSUME NEW pc \in Sending, NEW cmd \in CmdNames, NEW m \in Moves, Send(j, pc, cmd, m)
      PROVE  JobType' /\ WireType'
    BY <1>t, <1>2, SendsOne
<1>3. ASSUME End(j) PROVE JobType' /\ WireType'
    BY <1>t, <1>3, Ends
<1>4. ASSUME NEW pc \in Sending, AskEngine(j, pc)
      PROVE  JobType' /\ WireType' /\ engineBusy' \in BOOLEAN
    BY <1>t, <1>1, <1>2, <1>4 DEF AskEngine, CmdNames
<1>5. ASSUME Release(j) PROVE JobType' /\ WireType' /\ engineBusy' \in BOOLEAN
    BY <1>3, <1>5 DEF Release
<1>6. /\ {"genmove", "regenmove", "score", "clear", "sync"} \subseteq Sending
      /\ {"genmove", "play", "score", "clear"} \subseteq CmdNames /\ NoMove \in Moves
    BY BoardTypes DEF Sending, CmdNames
<1> USE DEF Types, flags, ui
<1> HIDE DEF Sending, CmdNames, Moves, JobType, WireType
<1>7. CASE EngineMoved(j)
  <2>1. moves' \in Seq(Moves)
    BY <1>7, BoardTypes DEF EngineMoved, Usable
  <2>2. JobType' /\ WireType' /\ engineBusy' \in BOOLEAN
    BY <1>2, <1>5, <1>6, <1>7 DEF EngineMoved
  <2> QED
    BY <1>7, <2>1, <2>2 DEF EngineMoved
<1>8. CASE EngineResigned(j)
    BY <1>5, <1>8 DEF EngineResigned
<1>9. CASE Resync(j)
    BY <1>2, <1>6, <1>9 DEF Resync
<1>10. CASE OutOfSync(j)
    BY <1>5, <1>10 DEF OutOfSync
<1>11. ASSUME NEW i \in Nat, i >= 1, SyncFrom(j, moves, i)
       PROVE  JobType' /\ WireType' /\ engineBusy' \in BOOLEAN
  <2>1. CASE i > Len(moves)
    BY <1>4, <1>6, <1>11, <2>1 DEF SyncFrom
  <2>2. CASE ~(i > Len(moves))
    <3>1. moves[i] \in Moves
      BY <1>11, <2>2
    <3> QED
      BY <1>6, <1>11, <2>2, <3>1, Sends DEF SyncFrom
  <2> QED
    BY <2>1, <2>2
<1>12. CASE Cleared(j)
    BY <1>11, <1>12 DEF Cleared
<1>13. CASE Synced(j)
  <2>1. job[j].i + 1 \in Nat /\ job[j].i + 1 >= 1
    BY DEF JobType, JobRec
  <2> QED
    BY <1>11, <1>13, <2>1 DEF Synced
<1>14. CASE SyncFailed(j)
    BY <1>5, <1>14 DEF SyncFailed, GiveUpGame
<1>15. CASE Scored(j)
    BY <1>5, <1>15 DEF Scored
<1> QED
    BY <1>7, <1>8, <1>9, <1>10, <1>12, <1>13, <1>14, <1>15 DEF EngineMove

\* The coroutines when one of them is resumed without a suspension of send().
LEMMA Resumed ==
    ASSUME JobType, NEW j \in Jobs
    PROVE  /\ [job EXCEPT ![j] = Off] \in [Jobs -> JobRec]
           /\ [job EXCEPT ![j].pc = "retry", ![j].reply = "none"] \in [Jobs -> JobRec]
           /\ [job EXCEPT ![j].pc = "io", ![j].attempt = 2] \in [Jobs -> JobRec]
           /\ \A r \in {"ok", "resign", Pass, "gone", "error", "timeout"} \cup Points :
                [job EXCEPT ![j].reply = r] \in [Jobs -> JobRec]
           /\ [Gone(job) EXCEPT ![j].pc = "setup"] \in [Jobs -> JobRec]
           /\ CancelJob(job) \in [Jobs -> JobRec]
<1>1. Off \in JobRec
    BY DEF Off, JobRec
<1>2. job \in [Jobs -> JobRec] /\ job[j] \in JobRec
    BY DEF JobType
<1>3. ASSUME NEW r \in {"ok", "resign", Pass, "gone", "error", "timeout"} \cup Points
      PROVE  [job[j] EXCEPT !.reply = r] \in JobRec
  <2>1. r \in {"none", "ok", "resign", Pass} \cup Bad \cup Points
    BY DEF Bad
  <2> QED
    BY <1>2, <2>1 DEF JobRec
<1>6. /\ [job[j] EXCEPT !.pc = "retry", !.reply = "none"] \in JobRec
      /\ [job[j] EXCEPT !.pc = "io", !.attempt = 2] \in JobRec
  <2>1. [job[j] EXCEPT !.pc = "retry", !.reply = "none"] \in JobRec
    BY <1>2 DEF JobRec
  <2>2. 2 \in 0..2 /\ "io" \in Sending \cup {"off", "io", "retry"}
    OBVIOUS
  <2>3. [job[j] EXCEPT !.pc = "io", !.attempt = 2] \in JobRec
    BY <1>2, <2>2 DEF JobRec
  <2> QED
    BY <2>1, <2>3
<1>4. [Gone(job) EXCEPT ![j].pc = "setup"] \in [Jobs -> JobRec]
  <2>1. Gone(job) \in [Jobs -> JobRec] /\ Gone(job)[j] \in JobRec
    BY <1>2, Leaves
  <2>2. [Gone(job)[j] EXCEPT !.pc = "setup"] \in JobRec
    BY <2>1 DEF JobRec, Sending
  <2> QED
    BY <2>1, <2>2
<1>5. CancelJob(job) \in [Jobs -> JobRec]
  <2>1. \A k \in Jobs : [job[k] EXCEPT !.cancelled = TRUE] \in JobRec
    BY <1>2 DEF JobRec
  <2> QED
    BY <1>2, <2>1 DEF CancelJob
<1> QED
    BY <1>1, <1>2, <1>3, <1>4, <1>5, <1>6

\* The steps of a load keep the types.
LEMMA LoadTypes ==
    ASSUME Types, Discipline, NEW j \in Jobs, Load(j)
    PROVE  Types'
<1>t. /\ JobType /\ WireType /\ moves \in Seq(Moves) /\ engineColor \in Colors
    BY DEF Types
<1>a. job \in [Jobs -> JobRec] /\ job[j] \in JobRec
    BY <1>t DEF JobType
<1>1. \A c \in Colors : [color |-> c, vertex |-> Pass] \in Moves
    BY BoardTypes
<1>2. ASSUME NEW f \in [Jobs -> JobRec], StopEngine(f)
      PROVE  JobType' /\ WireType'
    BY <1>2, Stops
<1>3. ASSUME End(j) PROVE JobType' /\ WireType'
    BY <1>t, <1>3, Ends
<1>4. ASSUME NEW pc \in Sending, AskEngine(j, pc)
      PROVE  JobType' /\ WireType' /\ engineBusy' \in BOOLEAN
    BY <1>t, <1>1, <1>4, SendsOne DEF AskEngine, CmdNames
<1>5. ASSUME Release(j) PROVE JobType' /\ WireType' /\ engineBusy' \in BOOLEAN
    BY <1>3, <1>5 DEF Release
<1>6. {"genmove", "replay"} \subseteq Sending /\ "play" \in CmdNames /\ NoMove \in Moves
    BY BoardTypes DEF Sending, CmdNames
<1>7. ASSUME Play(j), engineBusy \in BOOLEAN PROVE JobType' /\ WireType' /\ engineBusy' \in BOOLEAN
    BY <1>3, <1>4, <1>6, <1>7 DEF Play
<1>8. ASSUME NEW i \in 1..Len(job[j].list), SendOf(j, "replay", "play", job[j].list[i], job[j].list, i)
      PROVE  JobType' /\ WireType'
  <2>1. job[j].list \in Seq(Moves)
    BY <1>a DEF JobRec
  <2>2. job[j].list[i] \in Moves /\ i \in Nat
    BY <2>1
  <2> HIDE DEF Sending, CmdNames, Moves, JobType, WireType, SendOf
  <2> QED
    BY <1>t, <1>6, <1>8, <2>1, <2>2, Sends
<1>9. ASSUME AttemptFailed(j), gameActive \in BOOLEAN, engineLoading \in BOOLEAN
      PROVE  JobType' /\ WireType' /\ gameActive' \in BOOLEAN /\ engineLoading' \in BOOLEAN
    BY <1>t, <1>2, <1>9, Resumed DEF AttemptFailed
<1> USE DEF Types, flags, ui
<1> HIDE DEF Sending, CmdNames, Moves, JobType, WireType
<1>10. CASE EngineStarted(j)
  <2>1. JobType'
    BY <1>t, <1>10, Resumed DEF EngineStarted, JobType
  <2>2. [by |-> j, cmd |-> "setup", move |-> NoMove] \in Commands
    BY <1>6 DEF Commands, CmdNames
  <2>3. <<>> \in Seq(Moves) /\ <<[by |-> j, cmd |-> "setup", move |-> NoMove]>> \in Seq(Commands)
    BY <2>2
  <2>4. WireType'
    BY <1>10, <2>3, Zenon DEF EngineStarted, WireType
  <2> QED
    BY <1>10, <2>1, <2>4 DEF EngineStarted
<1>11. CASE SetupFailed(j)
    BY <1>9, <1>11 DEF SetupFailed
<1>12. CASE Retry(j)
  <2>1. JobType'
    BY <1>t, <1>12, Resumed DEF Retry, JobType
  <2> QED
    BY <1>12, <2>1 DEF Retry, WireType
<1>13. CASE SetUp(j)
  <2>1. moves' = moves /\ gameActive' \in BOOLEAN /\ engineLoading' \in BOOLEAN /\ showExitConfirm' \in BOOLEAN
    BY <1>13 DEF SetUp
  <2>2. CASE job[j].list = <<>>
    BY <1>7, <1>13, <2>1, <2>2 DEF SetUp
  <2>3. CASE job[j].list # <<>>
    <3>1. 1 \in 1..Len(job[j].list)
      BY <1>a, <2>3, EmptySeq DEF JobRec
    <3> QED
      BY <1>8, <1>13, <2>1, <2>3, <3>1 DEF SetUp
  <2> QED
    BY <2>2, <2>3
<1>14. CASE Replayed(j)
  <2>1. job[j].list \in Seq(Moves) /\ job[j].i \in Nat
    BY <1>a DEF JobRec
  <2>i. job[j].i >= 1 /\ job[j].i <= Len(job[j].list)
    BY <1>14, <2>1 DEF Discipline, Replayed, At
  <2>m. job[j].list[job[j].i] \in Moves
    BY <2>1, <2>i
  <2>2. moves' \in Seq(Moves)
    BY <1>14, <2>m, BoardTypes DEF Replayed
  <2>3. CASE job[j].i + 1 > Len(job[j].list)
    BY <1>7, <1>14, <2>2, <2>3 DEF Replayed
  <2>4. CASE ~(job[j].i + 1 > Len(job[j].list))
    <3>1. job[j].i + 1 \in 1..Len(job[j].list)
      BY <2>1, <2>4
    <3> QED
      BY <1>8, <1>14, <2>2, <2>4, <3>1 DEF Replayed
  <2> QED
    BY <2>3, <2>4
<1>15. CASE ReplayFailed(j)
    BY <1>9, <1>15 DEF ReplayFailed
<1>16. CASE LoadCancelled(j)
    BY <1>t, <1>2, <1>3, <1>16, Resumed DEF LoadCancelled
<1>17. CASE MoveCancelled(j)
    BY <1>5, <1>17 DEF MoveCancelled
<1> QED
    BY <1>10, <1>11, <1>12, <1>13, <1>14, <1>15, <1>16, <1>17 DEF Load

\* The steps of a handler keep the types.
LEMMA HandleTypes ==
    ASSUME Types, NEW j \in Jobs, Handle(j)
    PROVE  Types'
<1>t. /\ JobType /\ WireType /\ moves \in Seq(Moves) /\ engineColor \in Colors
    BY DEF Types
<1>1. \A c \in Colors : [color |-> c, vertex |-> Pass] \in Moves
    BY BoardTypes
<1>2. {"genmove", "score", "undo2"} \subseteq Sending /\ {"genmove", "score", "undo"} \subseteq CmdNames
      /\ NoMove \in Moves
    BY BoardTypes DEF Sending, CmdNames
<1>3. ASSUME NEW pc \in Sending, AskEngine(j, pc)
      PROVE  JobType' /\ WireType' /\ engineBusy' \in BOOLEAN
    BY <1>t, <1>1, <1>3, SendsOne DEF AskEngine, CmdNames
<1>4. ASSUME Release(j) PROVE JobType' /\ WireType' /\ engineBusy' \in BOOLEAN
    BY <1>t, <1>4, Ends DEF Release
<1>5. ASSUME NEW pc \in Sending, NEW cmd \in CmdNames, Send(j, pc, cmd, NoMove)
      PROVE  JobType' /\ WireType'
    BY <1>t, <1>2, <1>5, SendsOne
<1>6. ASSUME EngineReplies(j) PROVE JobType' /\ WireType' /\ engineBusy' \in BOOLEAN
    BY <1>2, <1>3, <1>4, <1>6 DEF EngineReplies
<1>7. Popped(moves, 1) \in Seq(Moves) /\ Popped(moves, 2) \in Seq(Moves)
    BY <1>t, BoardTypes
<1> USE DEF Types, flags, ui
<1> HIDE DEF Sending, CmdNames, Moves, JobType, WireType
<1>8. CASE MoveRefused(j)
    BY <1>4, <1>7, <1>8 DEF MoveRefused
<1>9. CASE MoveAccepted(j)
    BY <1>6, <1>9 DEF MoveAccepted
<1>10. CASE Passed(j)
    BY <1>2, <1>5, <1>6, <1>10 DEF Passed
<1>11. CASE UndoneOnce(j)
    BY <1>2, <1>5, <1>11 DEF UndoneOnce
<1>12. CASE Undone(j)
    BY <1>2, <1>3, <1>4, <1>7, <1>12 DEF Undone
<1> QED
    BY <1>8, <1>9, <1>10, <1>11, <1>12 DEF Handle

\* The pipe without the command at its head.
LEMMA Heads ==
    ASSUME WireType, pipe # <<>>
    PROVE  /\ Head(pipe) \in Commands /\ Head(pipe) = pipe[1] /\ Len(pipe) \in Nat \ {0}
           /\ Tail(pipe) \in Seq(Commands) /\ Len(Tail(pipe)) = Len(pipe) - 1
           /\ \A k \in 1..Len(pipe) - 1 : Tail(pipe)[k] = pipe[k + 1]
           /\ Len(pipe) = 1 => Tail(pipe) = <<>>
<1>1. pipe \in Seq(Commands)
    BY DEF WireType
<1>2. Tail(pipe) \in Seq(Commands) /\ Len(Tail(pipe)) = Len(pipe) - 1
      /\ \A k \in 1..Len(pipe) - 1 : Tail(pipe)[k] = pipe[k + 1]
    BY <1>1, HeadTailProperties
<1>3. Head(pipe) \in Commands /\ Head(pipe) = pipe[1] /\ Len(pipe) \in Nat \ {0}
    BY <1>1, HeadTailProperties, EmptySeq
<1> QED
    BY <1>2, <1>3, EmptySeq

\* The reply to the command at the head of the pipe is for the coroutine that
\* waits for it; nobody else notices.
LEMMA Answers ==
    ASSUME JobType, WireType, pipe # <<>>, NEW r \in {"ok", "resign", "error", Pass} \cup Points, Answer(r)
    PROVE  /\ JobType' /\ pipe' = Tail(pipe) /\ alive' = alive
           /\ UNCHANGED <<moves, flags, engineColor, loadingJob, ui, sound, games, failures>>
           /\ \A k \in Jobs :
                /\ job'[k].pc = job[k].pc /\ job'[k].cancelled = job[k].cancelled
                /\ job'[k].list = job[k].list /\ job'[k].i = job[k].i
                /\ job'[k].attempt = job[k].attempt
                /\ job'[k].reply = IF k = pipe[1].by /\ Waiting(k) THEN r ELSE job[k].reply
                /\ job[k].pc \notin Sending \/ k # pipe[1].by => job'[k] = job[k]
<1>1. pipe[1] = Head(pipe) /\ pipe[1].by \in {NoJob} \cup Jobs
    BY Heads DEF Commands
<1>2. \A k \in Jobs : job[k] \in JobRec
    BY DEF JobType
<1>3. CASE pipe[1].by = NoJob
    BY <1>1, <1>3, JobNumbers DEF Answer, JobType
<1>4. CASE pipe[1].by \in Jobs
  <2> DEFINE h == pipe[1].by
  <2>1. [job EXCEPT ![h].reply = r] \in [Jobs -> JobRec]
    BY <1>4, Resumed
  <2>2. job' = IF h # NoJob /\ Waiting(h) THEN [job EXCEPT ![h].reply = r] ELSE job
    BY <1>1 DEF Answer
  <2>3. JobType'
    BY <2>1, <2>2 DEF JobType
  <2>4. h # NoJob
    BY <1>4, JobNumbers
  <2> HIDE DEF h
  <2>5. \A k \in Jobs : job'[k] = IF k = h /\ Waiting(k) THEN [job[k] EXCEPT !.reply = r] ELSE job[k]
    BY <2>2, <2>4 DEF JobType
  <2>6. \A k \in Jobs :
            /\ job'[k].pc = job[k].pc /\ job'[k].cancelled = job[k].cancelled
            /\ job'[k].list = job[k].list /\ job'[k].i = job[k].i
            /\ job'[k].attempt = job[k].attempt
            /\ job'[k].reply = IF k = h /\ Waiting(k) THEN r ELSE job[k].reply
    BY <1>2, <2>5 DEF JobRec
  <2>7. \A k \in Jobs : job[k].pc \notin Sending \/ k # h => job'[k] = job[k]
    BY <2>5 DEF Waiting
  <2> QED
    BY <2>3, <2>6, <2>7 DEF Answer, h
<1> QED
    BY <1>1, <1>3, <1>4

\* A command of the engine keeps the types.
LEMMA EngineTypes ==
    ASSUME Types, Engine
    PROVE  Types'
<1>t. /\ JobType /\ WireType /\ pipe # <<>>
    BY DEF Types, Engine, ExecSetup, ExecPlay, ExecUndo, ExecClear, ExecScore, ExecGenmove, Next_
<1>1. pipe' = Tail(pipe) /\ alive' = alive /\ JobType'
      /\ UNCHANGED <<moves, flags, engineColor, loadingJob, ui, sound, games, failures>>
    BY <1>t, Answers DEF Engine, ExecSetup, ExecPlay, ExecUndo, ExecClear, ExecScore, ExecGenmove
<1>2. board' \in Seq(Moves)
  <2>1. board \in Seq(Moves) /\ Head(pipe) \in Commands /\ <<>> \in Seq(Moves)
    BY <1>t, Heads DEF WireType
  <2>2. Head(pipe).move \in Moves /\ Head(pipe).move.color \in Colors
    BY <2>1 DEF Commands, Moves
  <2>3. Append(board, Head(pipe).move) \in Seq(Moves) /\ Popped(board, 1) \in Seq(Moves)
        /\ \A v \in Points \cup {Pass} :
              Append(board, [color |-> Head(pipe).move.color, vertex |-> v]) \in Seq(Moves)
    BY <2>1, <2>2, BoardTypes
  <2> QED
    BY <2>1, <2>3 DEF Engine, ExecSetup, ExecPlay, ExecUndo, ExecClear, ExecScore, ExecGenmove
<1>3. WireType'
    BY <1>t, <1>1, <1>2, Heads DEF WireType
<1> QED
    BY <1>1, <1>3 DEF Types, flags, ui

\* A wait that times out: the command it sent is nobody's from now on.
LEMMA TimesOut ==
    ASSUME JobType, WireType, NEW j \in Jobs, TimeOut(j)
    PROVE  /\ JobType' /\ WireType' /\ UNCHANGED <<alive, board>>
           /\ job[j].pc \in Sending /\ job[j].reply = "none" /\ job'[j].reply = "timeout"
           /\ job'[j].pc = job[j].pc /\ job'[j].cancelled = job[j].cancelled
           /\ job'[j].list = job[j].list /\ job'[j].i = job[j].i /\ job'[j].attempt = job[j].attempt
           /\ \A k \in Jobs \ {j} : job'[k] = job[k]
           /\ Len(pipe') = Len(pipe)
           /\ \A k \in 1..Len(pipe) :
                /\ pipe'[k].cmd = pipe[k].cmd /\ pipe'[k].move = pipe[k].move
                /\ pipe'[k].by = IF pipe[k].by = j THEN NoJob ELSE pipe[k].by
<1>1. /\ job' = [job EXCEPT ![j].reply = "timeout"]
      /\ pipe' = [k \in DOMAIN pipe |-> IF pipe[k].by = j THEN [pipe[k] EXCEPT !.by = NoJob] ELSE pipe[k]]
      /\ UNCHANGED <<alive, board>> /\ job[j].pc \in Sending /\ job[j].reply = "none"
    BY DEF TimeOut, Waiting
<1>2. [job EXCEPT ![j].reply = "timeout"] \in [Jobs -> JobRec] /\ job[j] \in JobRec
    BY Resumed DEF JobType
<1>3. JobType' /\ \A k \in Jobs \ {j} : job'[k] = job[k]
    BY <1>1, <1>2 DEF JobType
<1>4. /\ job'[j].pc = job[j].pc /\ job'[j].cancelled = job[j].cancelled
      /\ job'[j].list = job[j].list /\ job'[j].i = job[j].i /\ job'[j].attempt = job[j].attempt
      /\ job'[j].reply = "timeout"
  <2>1. job'[j] = [job[j] EXCEPT !.reply = "timeout"]
    BY <1>1 DEF JobType
  <2> QED
    BY <1>2, <2>1 DEF JobRec
<1>5. pipe \in Seq(Commands) /\ DOMAIN pipe = 1..Len(pipe) /\ Len(pipe) \in Nat
    BY DEF WireType
<1>6. ASSUME NEW k \in 1..Len(pipe)
      PROVE  /\ pipe'[k] \in Commands /\ pipe'[k].cmd = pipe[k].cmd /\ pipe'[k].move = pipe[k].move
             /\ pipe'[k].by = IF pipe[k].by = j THEN NoJob ELSE pipe[k].by
  <2>1. pipe[k] \in Commands
    BY <1>5
  <2>2. pipe'[k] = IF pipe[k].by = j THEN [pipe[k] EXCEPT !.by = NoJob] ELSE pipe[k]
    BY <1>1, <1>5
  <2> QED
    BY <2>1, <2>2 DEF Commands
<1>7. pipe' \in Seq(Commands) /\ Len(pipe') = Len(pipe)
  <2>1. pipe' \in [1..Len(pipe) -> Commands]
    BY <1>1, <1>5, <1>6
  <2> QED
    BY <1>5, <2>1, IsASeq, LenProperties
<1>8. WireType'
    BY <1>1, <1>7 DEF WireType
<1> QED
    BY <1>1, <1>3, <1>4, <1>6, <1>7, <1>8

\* Only a job that is off is launched, for a command of the player.
LEMMA Launches ==
    ASSUME JobType, WireType, NEW cmd \in CmdNames, NEW pc \in Sending, NEW m \in Moves,
           Launch(cmd, pc, m)
    PROVE  \E j \in Handlers : job[j] = Off /\ engineBusy' = TRUE /\ Send(j, pc, cmd, m)
BY DEF Launch

\* The player's steps keep the types.
LEMMA TapTypes ==
    ASSUME Types, Tap
    PROVE  Types'
<1>t. /\ JobType /\ WireType /\ moves \in Seq(Moves) /\ engineColor \in Colors
    BY DEF Types
<1>a. job \in [Jobs -> JobRec]
    BY <1>t DEF JobType
<1>1. ASSUME NEW cmd \in CmdNames, NEW pc \in Sending, NEW m \in Moves, Launch(cmd, pc, m)
      PROVE  JobType' /\ WireType' /\ engineBusy' \in BOOLEAN
    BY <1>t, <1>1, Launches, JobNumbers, SendsOne
<1>2. ASSUME NEW f \in [Jobs -> JobRec], StopEngine(f) PROVE JobType' /\ WireType'
    BY <1>2, Stops
<1>3. {"play", "pass", "undo"} \subseteq Sending /\ {"play", "undo"} \subseteq CmdNames /\ NoMove \in Moves
    BY BoardTypes DEF Sending, CmdNames
<1>4. \A v \in Points \cup {Pass} : [color |-> currentPlayer, vertex |-> v] \in Moves
                                  /\ Append(moves, [color |-> currentPlayer, vertex |-> v]) \in Seq(Moves)
    BY <1>t, BoardTypes DEF currentPlayer
<1>5. ASSUME NEW save \in Saves, NEW color \in Colors, StartGame(save, color)
      PROVE  JobType' /\ games' \in 0..MaxGames /\ loadingJob' \in {NoJob} \cup Loads /\ moves' \in Seq(Moves)
  <2>1. games + 1 \in Loads /\ games + 1 \in 0..MaxGames
    BY <1>5, JobNumbers, GameAssumption DEF StartGame, Types
  <2>2. save \in Seq(Moves)
    BY GameAssumption
  <2>3. [Off EXCEPT !.pc = "io", !.list = save, !.attempt = 1] \in JobRec
    <3>1. /\ 1 \in 0..2 /\ 0 \in Nat /\ "io" \in Sending \cup {"off", "io", "retry"}
          /\ "none" \in {"none", "ok", "resign", Pass} \cup Bad \cup Points
      OBVIOUS
    <3>2. Off \in JobRec
      BY DEF Off, JobRec
    <3> HIDE DEF Sending, Bad, Off
    <3> QED
      BY <2>2, <3>1, <3>2 DEF JobRec
  <2>4. CancelJob(job) \in [Jobs -> JobRec]
    BY <1>t, <2>1, JobNumbers, Resumed
  <2>5. [CancelJob(job) EXCEPT ![games + 1] = [Off EXCEPT !.pc = "io", !.list = save, !.attempt = 1]]
            \in [Jobs -> JobRec]
    BY <2>3, <2>4
  <2> QED
    BY <1>5, <2>1, <2>5 DEF StartGame, JobType
<1>6. CancelJob(job) \in [Jobs -> JobRec]
  <2>1. CASE loadingJob \in Loads
    BY <1>t, <2>1, JobNumbers, Resumed
  <2>2. CASE loadingJob = NoJob
    BY <1>a, <2>2 DEF CancelJob
  <2> QED
    BY <2>1, <2>2 DEF Types
<1> USE DEF flags, ui
<1> HIDE DEF Sending, CmdNames, Moves, JobType, WireType
<1>7. ASSUME NEW save \in Saves, NEW color \in Colors, StartGame(save, color) PROVE Types'
  <2>1. WireType'
    BY <1>t, <1>7 DEF StartGame, WireType
  <2> QED
    BY <1>5, <1>7, <2>1 DEF StartGame, Types
<1>8. ASSUME NEW v \in Points, HumanPlay(v) PROVE Types'
    BY <1>1, <1>3, <1>4, <1>8 DEF HumanPlay, Types
<1>9. CASE HumanPass
    BY <1>1, <1>3, <1>4, <1>9 DEF HumanPass, Types
<1>10. CASE Undo
    BY <1>1, <1>3, <1>10 DEF Undo, Types
<1>11. CASE AskExit \/ Dismiss
    BY <1>11 DEF AskExit, Dismiss, Types, JobType, WireType
<1>12. CASE NewGame
  <2>1. <<>> \in Seq(Moves)
    OBVIOUS
  <2> QED
    BY <2>1, <1>a, <1>2, <1>12 DEF NewGame, Types
<1>13. CASE CancelLoading
    BY <1>2, <1>6, <1>13 DEF CancelLoading, Types
<1> QED
    BY <1>7, <1>8, <1>9, <1>10, <1>11, <1>12, <1>13 DEF Tap

\* The types, without which nothing else is well defined.
LEMMA TypesNext ==
    ASSUME Types, Discipline, [Next]_vars
    PROVE  Types'
<1>1. CASE Next
  <2>1. ASSUME NEW j \in Jobs, TimeOut(j) PROVE Types'
    <3>1. JobType' /\ WireType'
      BY <2>1, TimesOut DEF Types
    <3>2. failures' \in 0..MaxFailures /\ sound' \in BOOLEAN
      BY <2>1, GameAssumption DEF TimeOut, Types
    <3> QED
      BY <2>1, <3>1, <3>2 DEF TimeOut, Types, flags, ui
  <2>2. ASSUME EngineDies PROVE Types'
    <3>1. JobType' /\ WireType'
      BY <2>2, Stops DEF EngineDies, Types, JobType
    <3>2. failures' \in 0..MaxFailures
      BY <2>2, GameAssumption DEF EngineDies, Types
    <3> QED
      BY <2>2, <3>1, <3>2 DEF EngineDies, Types, flags, ui
  <2> QED
    BY <1>1, <2>1, <2>2, EngineMoveTypes, LoadTypes, HandleTypes, EngineTypes, TapTypes DEF Next, Resume
<1>2. CASE UNCHANGED vars
    BY <1>2 DEF vars, flags, ui, Types, JobType, WireType
<1> QED
    BY <1>1, <1>2

----------------------------------------------------------------------------
(* Discipline *)

\* Whatever happens to coroutine k's wait, k stays where it is.
Stays(k) ==
    /\ job'[k].pc = job[k].pc /\ job'[k].cancelled = job[k].cancelled
    /\ job'[k].list = job[k].list /\ job'[k].i = job[k].i
    /\ job[k].pc \notin Sending => job'[k] = job[k]

\* A step of nobody: the engine, a timeout, the end of the engine.
LEMMA NobodyDisciplined ==
    ASSUME Types, Types', Discipline, \A k \in Jobs : Stays(k),
           UNCHANGED <<loadingJob, games, engineBusy, replayingSave>>, ~alive' => pipe' = <<>>
    PROVE  Discipline'
<1> USE JobNumbers DEF Stays
<1>1. \A j \in Jobs : job[j] = Off => job'[j] = Off
    BY DEF Sending, Off
<1>2. /\ \A j \in Jobs : job'[j].pc = "off" => job'[j] = Off
      /\ \A j \in Jobs : job'[j].pc \in {"io", "retry"} => job'[j].reply = "none"
  <2>1. \A j \in Jobs : job'[j].pc \in {"io", "retry"} => job'[j] = job[j]
    BY DEF Sending
  <2> QED
    BY <1>1, <2>1 DEF Discipline
<1>3. /\ \A j \in Jobs : job'[j].pc = "replay" => job'[j].i \in 1..Len(job'[j].list)
      /\ \A j \in Loads : j > games' => job'[j].pc = "off"
      /\ loadingJob' <= games'
      /\ \A j \in Loads : j # loadingJob' /\ job'[j].pc # "off" => job'[j].cancelled
      /\ \A j \in Handlers : ~job'[j].cancelled
    BY DEF Discipline
<1>4. /\ engineBusy' => \E j \in Jobs : job'[j].pc \in Playing
      /\ replayingSave' => \E j \in Jobs : job'[j].pc = "replay"
    BY DEF Discipline
<1> QED
    BY <1>2, <1>3, <1>4 DEF Discipline

\* A step of coroutine j, or its launch.
LEMMA JobDisciplined ==
    ASSUME Types, Types', Discipline, NEW j \in Jobs, \A k \in Jobs \ {j} : Stays(k),
           UNCHANGED <<loadingJob, games>>, ~alive' => pipe' = <<>>,
           j \in Loads => job[j].pc # "off",
           job'[j] = Off \/ (job'[j].pc # "off" /\ job'[j].cancelled = job[j].cancelled),
           job'[j].pc \in {"io", "retry"} => job'[j].reply = "none",
           job'[j].pc = "replay" => job'[j].i \in 1..Len(job'[j].list),
           engineBusy' => job'[j].pc \in Playing \/ (engineBusy /\ job[j].pc \notin Playing),
           replayingSave' => job'[j].pc = "replay" \/ (replayingSave /\ job[j].pc # "replay")
    PROVE  Discipline'
<1> USE JobNumbers DEF Stays
<1>0. Off.pc = "off" /\ Off.cancelled = FALSE
    BY DEF Off
<1>1. \A k \in Jobs \ {j} : job[k] = Off => job'[k] = Off
    BY <1>0 DEF Sending
<1>2. /\ \A k \in Jobs : job'[k].pc = "off" => job'[k] = Off
      /\ \A k \in Jobs : job'[k].pc \in {"io", "retry"} => job'[k].reply = "none"
    BY <1>1 DEF Discipline, Sending
<1>3. /\ \A k \in Jobs : job'[k].pc = "replay" => job'[k].i \in 1..Len(job'[k].list)
      /\ loadingJob' <= games'
    BY DEF Discipline
<1>4. /\ \A k \in Loads : k > games' => job'[k].pc = "off"
      /\ \A k \in Loads : k # loadingJob' /\ job'[k].pc # "off" => job'[k].cancelled
    BY <1>0 DEF Discipline
<1>5. \A k \in Handlers : ~job'[k].cancelled
    BY <1>0 DEF Discipline
<1>6. engineBusy' => \E k \in Jobs : job'[k].pc \in Playing
    BY DEF Discipline
<1>7. replayingSave' => \E k \in Jobs : job'[k].pc = "replay"
    BY DEF Discipline
<1> QED
    BY <1>2, <1>3, <1>4, <1>5, <1>6, <1>7 DEF Discipline

\* The engine is stopped by coroutine j.
LEMMA Stopped ==
    ASSUME Types, NEW j \in Jobs, NEW f \in [Jobs -> JobRec],
           \A k \in Jobs \ {j} : f[k] = job[k], f[j].pc \notin Sending, StopEngine(f)
    PROVE  /\ job'[j] = f[j] /\ \A k \in Jobs \ {j} : Stays(k)
           /\ \A k \in Jobs \ {j} : job'[k].reply = IF job[k].pc \in Sending /\ job[k].reply = "none"
                                                 THEN "gone" ELSE job[k].reply
           /\ alive' = FALSE /\ pipe' = <<>> /\ board' = <<>>
<1>1. job' = Gone(f) /\ alive' = FALSE /\ pipe' = <<>> /\ board' = <<>>
    BY Stops
<1> HIDE DEF Sending, Gone
<1>2. \A k \in Jobs :
        /\ job'[k].pc = f[k].pc /\ job'[k].cancelled = f[k].cancelled
        /\ job'[k].list = f[k].list /\ job'[k].i = f[k].i
        /\ job'[k].reply = IF f[k].pc \in Sending /\ f[k].reply = "none" THEN "gone" ELSE f[k].reply
        /\ f[k].pc \notin Sending => job'[k] = f[k]
    BY <1>1, Leaves
<1> QED
    BY <1>1, <1>2 DEF Stays

\* The engine is stopped, or dies.
LEMMA StoppedForAll ==
    ASSUME Types, StopEngine(job)
    PROVE  /\ \A k \in Jobs : Stays(k)
           /\ \A k \in Jobs : job'[k].reply = IF job[k].pc \in Sending /\ job[k].reply = "none"
                                           THEN "gone" ELSE job[k].reply
           /\ alive' = FALSE /\ pipe' = <<>> /\ board' = <<>>
<1>1. job \in [Jobs -> JobRec]
    BY DEF Types, JobType
<1>2. job' = Gone(job) /\ alive' = FALSE /\ pipe' = <<>> /\ board' = <<>>
    BY <1>1, Stops
<1> HIDE DEF Sending, Gone
<1>3. \A k \in Jobs :
        /\ job'[k].pc = job[k].pc /\ job'[k].cancelled = job[k].cancelled
        /\ job'[k].list = job[k].list /\ job'[k].i = job[k].i
        /\ job'[k].reply = IF job[k].pc \in Sending /\ job[k].reply = "none" THEN "gone" ELSE job[k].reply
        /\ job[k].pc \notin Sending => job'[k] = job[k]
    BY <1>1, <1>2, Leaves
<1> QED
    BY <1>2, <1>3 DEF Stays

\* An attempt that failed is repeated, or was the second.
LEMMA Fails ==
    ASSUME Types, NEW j \in Jobs, AttemptFailed(j)
    PROVE  /\ \A k \in Jobs \ {j} : Stays(k)
           /\ \A k \in Jobs \ {j} : job'[k].reply = IF job[k].pc \in Sending /\ job[k].reply = "none"
                                                 THEN "gone" ELSE job[k].reply
           /\ alive' = FALSE /\ pipe' = <<>> /\ board' = <<>>
           /\ IF job[j].attempt = 1
              THEN /\ job'[j].pc = "retry" /\ job'[j].cancelled = job[j].cancelled
                   /\ job'[j].reply = "none" /\ job'[j].list = job[j].list
                   /\ gameActive' = gameActive
              ELSE job'[j] = Off /\ gameActive' = FALSE
<1>1. job \in [Jobs -> JobRec] /\ job[j] \in JobRec /\ JobType
    BY DEF Types, JobType
<1>2. CASE job[j].attempt = 1
  <2> DEFINE f == [job EXCEPT ![j].pc = "retry", ![j].reply = "none"]
  <2>1. f \in [Jobs -> JobRec]
    BY <1>1, Resumed
  <2>2. /\ f[j].pc = "retry" /\ f[j].cancelled = job[j].cancelled
        /\ f[j].reply = "none" /\ f[j].list = job[j].list
        /\ \A k \in Jobs \ {j} : f[k] = job[k]
    BY <1>1 DEF JobRec
  <2>3. StopEngine(f) /\ gameActive' = gameActive
    BY <1>2 DEF AttemptFailed
  <2> HIDE DEF f
  <2> QED
    BY <1>2, <2>1, <2>2, <2>3, Stopped DEF Sending
<1>3. CASE job[j].attempt # 1
  <2> DEFINE f == [job EXCEPT ![j] = Off]
  <2>1. f \in [Jobs -> JobRec]
    BY <1>1, Resumed
  <2>2. f[j] = Off /\ Off.pc = "off" /\ \A k \in Jobs \ {j} : f[k] = job[k]
    BY <1>1 DEF Off
  <2>3. StopEngine(f) /\ gameActive' = FALSE
    BY <1>3 DEF AttemptFailed
  <2> HIDE DEF f
  <2> QED
    BY <1>3, <2>1, <2>2, <2>3, Stopped DEF Sending
<1> QED
    BY <1>2, <1>3

\* One command is sent, or one coroutine ends.
LEMMA Alters ==
    ASSUME JobType, NEW j \in Jobs, \A k \in Jobs \ {j} : job'[k] = job[k]
    PROVE  \A k \in Jobs \ {j} : Stays(k)
BY DEF Stays

\* A coroutine that plays sends another command, or ends.
LEMMA PlayDisciplined ==
    ASSUME Types, Types', Discipline, NEW j \in Jobs, job[j].pc \in Playing,
           UNCHANGED <<loadingJob, games, replayingSave>>,
           \/ Release(j)
           \/ \E pc \in Playing, cmd \in CmdNames, m \in Moves, list \in Seq(Moves), i \in Nat :
                SendOf(j, pc, cmd, m, list, i)
    PROVE  Discipline'
<1>1. JobType /\ WireType /\ job[j].pc \notin {"off", "replay"} /\ Playing \subseteq Sending
    BY DEF Types, Playing, Sending
<1>2. CASE Release(j)
  <2>1. job'[j] = Off /\ Off.pc = "off" /\ engineBusy' = FALSE
        /\ UNCHANGED <<alive, board, pipe>> /\ \A k \in Jobs \ {j} : job'[k] = job[k]
    BY <1>1, <1>2, Ends DEF Release, Off
  <2>2. \A k \in Jobs \ {j} : Stays(k)
    BY <1>1, <2>1, Alters
  <2>3. ~alive' => pipe' = <<>>
    BY <2>1 DEF Discipline
  <2> HIDE DEF Discipline, Types
  <2> QED
    BY <1>1, <2>1, <2>2, <2>3, JobDisciplined
<1>3. ASSUME NEW pc \in Playing, NEW cmd \in CmdNames, NEW m \in Moves, NEW list \in Seq(Moves),
             NEW i \in Nat, SendOf(j, pc, cmd, m, list, i)
      PROVE  Discipline'
  <2>0. pc \in Sending
    BY <1>1
  <2>1. /\ job'[j].pc = pc /\ job'[j].cancelled = job[j].cancelled
        /\ alive' = alive /\ pipe' = (IF alive THEN Append(pipe, Cmd(j, cmd, m)) ELSE pipe)
        /\ \A k \in Jobs \ {j} : job'[k] = job[k]
    BY <1>1, <1>3, <2>0, Sends
  <2>2. \A k \in Jobs \ {j} : Stays(k)
    BY <1>1, <2>1, Alters
  <2>3. ~alive' => pipe' = <<>>
    BY <2>1 DEF Discipline
  <2>4. pc \notin {"off", "io", "retry", "replay"} /\ job'[j].pc \in Playing
    BY <2>1 DEF Playing
  <2> HIDE DEF Discipline, Types, Playing
  <2> QED
    BY <1>1, <2>1, <2>2, <2>3, <2>4, JobDisciplined
<1> QED
    BY <1>2, <1>3

\* The end of the player's turn.
LEMMA EngineMoveDisciplined ==
    ASSUME Types, Types', Discipline, NEW j \in Jobs, EngineMove(j)
    PROVE  Discipline'
<1>1. /\ job[j].pc \in Playing /\ UNCHANGED <<loadingJob, games, replayingSave>>
      /\ moves \in Seq(Moves)
    BY DEF EngineMove, EngineMoved, EngineResigned, Resync, OutOfSync, Cleared, Synced, SyncFailed,
           GiveUpGame, Scored, Playing, flags, At, Types
<1>2. ASSUME NEW pc \in Playing, NEW cmd \in CmdNames, NEW m \in Moves, NEW list \in Seq(Moves),
             NEW i \in Nat, SendOf(j, pc, cmd, m, list, i)
      PROVE  Discipline'
    BY <1>1, <1>2, PlayDisciplined
<1>3. ASSUME Release(j) PROVE Discipline'
    BY <1>1, <1>3, PlayDisciplined
<1>4. ASSUME NEW pc \in Playing, NEW cmd \in CmdNames, NEW m \in Moves, Send(j, pc, cmd, m)
      PROVE  Discipline'
  <2>1. <<>> \in Seq(Moves) /\ 0 \in Nat
    OBVIOUS
  <2> QED
    BY <1>2, <1>4, <2>1 DEF Send
<1>5. ASSUME NEW pc \in Playing, AskEngine(j, pc) PROVE Discipline'
  <2>1. [color |-> engineColor, vertex |-> Pass] \in Moves /\ "genmove" \in CmdNames
    BY BoardTypes DEF Types, CmdNames
  <2> QED
    BY <1>4, <1>5, <2>1 DEF AskEngine
<1>6. /\ {"regenmove", "score", "clear", "sync"} \subseteq Playing
      /\ {"play", "score", "clear"} \subseteq CmdNames /\ NoMove \in Moves
    BY BoardTypes DEF Playing, CmdNames
<1>7. ASSUME NEW i \in Nat, i >= 1, SyncFrom(j, moves, i) PROVE Discipline'
  <2>1. CASE i > Len(moves)
    BY <1>5, <1>6, <1>7, <2>1 DEF SyncFrom
  <2>2. CASE ~(i > Len(moves))
    <3>1. moves[i] \in Moves
      BY <1>1, <1>7, <2>2
    <3> QED
      BY <1>1, <1>2, <1>6, <1>7, <2>2, <3>1 DEF SyncFrom
  <2> QED
    BY <2>1, <2>2
<1>8. job[j].i + 1 \in Nat /\ job[j].i + 1 >= 1
    BY DEF Types, JobType, JobRec
<1> HIDE DEF Playing, CmdNames, Moves, Types, Discipline
<1>9. CASE EngineMoved(j) \/ Resync(j)
    BY <1>3, <1>4, <1>6, <1>9 DEF EngineMoved, Resync
<1>10. CASE EngineResigned(j) \/ OutOfSync(j) \/ SyncFailed(j) \/ Scored(j)
    BY <1>3, <1>10 DEF EngineResigned, OutOfSync, SyncFailed, GiveUpGame, Scored
<1>11. CASE Cleared(j)
    BY <1>7, <1>11 DEF Cleared
<1>12. CASE Synced(j)
    BY <1>7, <1>8, <1>12 DEF Synced
<1> QED
    BY <1>9, <1>10, <1>11, <1>12 DEF EngineMove

\* The handlers.
LEMMA HandleDisciplined ==
    ASSUME Types, Types', Discipline, NEW j \in Jobs, Handle(j)
    PROVE  Discipline'
<1>1. job[j].pc \in Playing /\ UNCHANGED <<loadingJob, games, replayingSave>>
    BY DEF Handle, MoveRefused, MoveAccepted, Passed, UndoneOnce, Undone, Playing, flags, At
<1>2. ASSUME Release(j) PROVE Discipline'
    BY <1>1, <1>2, PlayDisciplined
<1>3. ASSUME NEW pc \in Playing, NEW cmd \in CmdNames, NEW m \in Moves, Send(j, pc, cmd, m)
      PROVE  Discipline'
  <2>1. <<>> \in Seq(Moves) /\ 0 \in Nat
    OBVIOUS
  <2>2. SendOf(j, pc, cmd, m, <<>>, 0)
    BY <1>3 DEF Send
  <2> QED
    BY <1>1, <2>1, <2>2, PlayDisciplined
<1>4. ASSUME NEW pc \in Playing, AskEngine(j, pc) PROVE Discipline'
  <2>1. [color |-> engineColor, vertex |-> Pass] \in Moves /\ "genmove" \in CmdNames
    BY BoardTypes DEF Types, CmdNames
  <2> QED
    BY <1>3, <1>4, <2>1 DEF AskEngine
<1>5. /\ {"genmove", "score", "undo2"} \subseteq Playing
      /\ {"score", "undo"} \subseteq CmdNames /\ NoMove \in Moves
    BY BoardTypes DEF Playing, CmdNames
<1> HIDE DEF Playing, CmdNames, Moves, Types, Discipline
<1> QED
    BY <1>2, <1>3, <1>4, <1>5
       DEF Handle, MoveRefused, MoveAccepted, Passed, UndoneOnce, Undone, EngineReplies

\* A load's engine is started: the waits for the old one end.
LEMMA Starts ==
    ASSUME Types, NEW j \in Jobs, EngineStarted(j)
    PROVE  /\ \A k \in Jobs \ {j} : Stays(k)
           /\ \A k \in Jobs \ {j} : job'[k].reply = IF job[k].pc \in Sending /\ job[k].reply = "none"
                                                 THEN "gone" ELSE job[k].reply
           /\ job'[j].pc = "setup" /\ job'[j].cancelled = job[j].cancelled
           /\ job'[j].list = job[j].list /\ job'[j].reply = job[j].reply
<1>1. job \in [Jobs -> JobRec] /\ job[j].pc = "io"
    BY DEF Types, JobType, EngineStarted, At
<1>2. /\ Gone(job) \in [Jobs -> JobRec]
      /\ \A k \in Jobs :
           /\ Gone(job)[k].pc = job[k].pc /\ Gone(job)[k].cancelled = job[k].cancelled
           /\ Gone(job)[k].list = job[k].list /\ Gone(job)[k].i = job[k].i
           /\ Gone(job)[k].reply = IF job[k].pc \in Sending /\ job[k].reply = "none"
                                   THEN "gone" ELSE job[k].reply
           /\ job[k].pc \notin Sending => Gone(job)[k] = job[k]
    BY <1>1, Leaves
<1>3. "io" \notin Sending
    BY DEF Sending
<1>4. job' = [Gone(job) EXCEPT ![j].pc = "setup"]
    BY DEF EngineStarted
<1> HIDE DEF Sending, Gone
<1>5. \A k \in Jobs \ {j} : job'[k] = Gone(job)[k]
    BY <1>2, <1>4
<1>6. job'[j] = [job[j] EXCEPT !.pc = "setup"] /\ job[j] \in JobRec
    BY <1>1, <1>2, <1>3, <1>4
<1> QED
    BY <1>2, <1>5, <1>6 DEF Stays, JobRec

\* A load is resumed and plays its game, or ends: Play(j).
LEMMA Plays ==
    ASSUME Types, NEW j \in Jobs, Play(j)
    PROVE  /\ \A k \in Jobs \ {j} : job'[k] = job[k]
           /\ IF currentPlayer' = engineColor
              THEN /\ engineBusy' = TRUE /\ alive' = alive /\ board' = board
                   /\ job'[j].pc = "genmove" /\ job'[j].cancelled = job[j].cancelled
                   /\ job'[j].reply = IF alive THEN "none" ELSE "gone"
                   /\ pipe' = IF alive THEN Append(pipe, Cmd(j, "genmove", [color |-> engineColor, vertex |-> Pass]))
                              ELSE pipe
              ELSE job'[j] = Off /\ UNCHANGED <<engineBusy, alive, board, pipe>>
<1>1. JobType /\ WireType /\ [color |-> engineColor, vertex |-> Pass] \in Moves
      /\ "genmove" \in Sending /\ "genmove" \in CmdNames
    BY BoardTypes DEF Types, Sending, CmdNames
<1>2. CASE currentPlayer' = engineColor
  <2>1. engineBusy' = TRUE /\ Send(j, "genmove", "genmove", [color |-> engineColor, vertex |-> Pass])
    BY <1>2 DEF Play, AskEngine
  <2> HIDE DEF Sending, CmdNames, JobType, WireType, Moves, currentPlayer
  <2> QED
    BY <1>1, <1>2, <2>1, SendsOne
<1>3. CASE currentPlayer' # engineColor
  <2>1. End(j) /\ UNCHANGED engineBusy
    BY <1>3 DEF Play
  <2> HIDE DEF Sending, CmdNames, JobType, WireType, Moves, currentPlayer
  <2> QED
    BY <1>1, <1>3, <2>1, Ends
<1> QED
    BY <1>2, <1>3

\* The next move of the saved game is sent.
LEMMA Replays ==
    ASSUME Types, NEW j \in Jobs, NEW i \in 1..Len(job[j].list),
           SendOf(j, "replay", "play", job[j].list[i], job[j].list, i)
    PROVE  /\ \A k \in Jobs \ {j} : job'[k] = job[k]
           /\ alive' = alive /\ board' = board
           /\ job'[j].pc = "replay" /\ job'[j].cancelled = job[j].cancelled
           /\ job'[j].list = job[j].list /\ job'[j].i = i
           /\ job'[j].reply = IF alive THEN "none" ELSE "gone"
           /\ pipe' = IF alive THEN Append(pipe, Cmd(j, "play", job[j].list[i])) ELSE pipe
<1>1. JobType /\ WireType /\ "replay" \in Sending /\ "play" \in CmdNames
    BY DEF Types, Sending, CmdNames
<1>2. job[j].list \in Seq(Moves)
    BY DEF Types, JobType, JobRec
<1>3. job[j].list[i] \in Moves /\ i \in Nat
    BY <1>2
<1> HIDE DEF Sending, CmdNames, JobType, WireType, Moves, SendOf
<1> QED
    BY <1>1, <1>2, <1>3, Sends

\* The steps of a load.
LEMMA LoadDisciplined ==
    ASSUME Types, Types', Discipline, NEW j \in Jobs, Load(j)
    PROVE  Discipline'
<1>1. /\ UNCHANGED <<loadingJob, games>> /\ job[j].pc # "off" /\ job[j] \in JobRec /\ JobType /\ WireType
  <2>1. Off.cancelled = FALSE
    BY DEF Off
  <2> QED
    BY <2>1 DEF Load, EngineStarted, SetupFailed, Retry, SetUp, Replayed, ReplayFailed, LoadCancelled,
           MoveCancelled, Loading, At, Types, JobType, Discipline
<1>2. ~alive => pipe = <<>>
    BY DEF Discipline
<1>3. Off.pc = "off"
    BY DEF Off
<1>a. ASSUME \A k \in Jobs \ {j} : Stays(k), ~alive' => pipe' = <<>>,
             job'[j] = Off \/ (job'[j].pc # "off" /\ job'[j].cancelled = job[j].cancelled),
             job'[j].pc \in {"io", "retry"} => job'[j].reply = "none",
             job'[j].pc = "replay" => job'[j].i \in 1..Len(job'[j].list),
             engineBusy' => job'[j].pc \in Playing \/ (engineBusy /\ job[j].pc \notin Playing),
             replayingSave' => job'[j].pc = "replay" \/ (replayingSave /\ job[j].pc # "replay")
      PROVE  Discipline'
    BY <1>1, <1>a, JobDisciplined
<1> USE DEF At, flags
<1>4. CASE EngineStarted(j)
  <2>1. /\ \A k \in Jobs \ {j} : Stays(k)
        /\ job'[j].pc = "setup" /\ job'[j].cancelled = job[j].cancelled
    BY <1>4, Starts
  <2>2. alive' = TRUE /\ UNCHANGED <<engineBusy, replayingSave>> /\ job[j].pc = "io"
    BY <1>4 DEF EngineStarted
  <2> QED
    BY <1>a, <2>1, <2>2 DEF Playing
<1>5. CASE SetupFailed(j) \/ ReplayFailed(j)
  <2>1. AttemptFailed(j) /\ UNCHANGED engineBusy /\ job[j].pc \in {"setup", "replay"}
        /\ (replayingSave' => replayingSave /\ job[j].pc # "replay")
    BY <1>5 DEF SetupFailed, ReplayFailed
  <2>2. /\ \A k \in Jobs \ {j} : Stays(k)
        /\ alive' = FALSE /\ pipe' = <<>>
        /\ \/ job'[j].pc = "retry" /\ job'[j].cancelled = job[j].cancelled /\ job'[j].reply = "none"
           \/ job'[j] = Off
    BY <2>1, Fails
  <2> QED
    BY <1>a, <1>3, <2>1, <2>2 DEF Playing
<1>6. CASE Retry(j)
  <2>1. job'[j] = [job[j] EXCEPT !.pc = "io", !.attempt = 2] /\ \A k \in Jobs \ {j} : job'[k] = job[k]
    BY <1>1, <1>6 DEF Retry, JobType
  <2>2. job'[j].pc = "io" /\ job'[j].cancelled = job[j].cancelled /\ job'[j].reply = "none"
    <3>1. job[j].reply = "none"
      BY <1>6 DEF Retry, Discipline
    <3> QED
      BY <1>1, <2>1, <3>1 DEF JobRec
  <2>3. UNCHANGED <<engineBusy, replayingSave, alive, pipe>> /\ job[j].pc = "retry"
    BY <1>6 DEF Retry
  <2> QED
    BY <1>1, <1>2, <1>a, <2>1, <2>2, <2>3, Alters DEF Playing
<1>7. ASSUME Play(j), ~replayingSave' \/ (replayingSave /\ job[j].pc # "replay"),
             job[j].pc \in {"setup", "replay"}
      PROVE Discipline'
  <2>1. /\ \A k \in Jobs \ {j} : job'[k] = job[k]
        /\ \/ job'[j].pc = "genmove" /\ job'[j].cancelled = job[j].cancelled
           \/ job'[j] = Off /\ engineBusy' = engineBusy
        /\ ~alive' => pipe' = <<>>
    <3> HIDE DEF currentPlayer, Types
    <3>1. CASE currentPlayer' = engineColor
      <4>1. /\ \A k \in Jobs \ {j} : job'[k] = job[k]
            /\ job'[j].pc = "genmove" /\ job'[j].cancelled = job[j].cancelled
            /\ alive' = alive
            /\ ~alive => pipe' = pipe
        BY <1>7, <3>1, Plays
      <4> QED
        BY <1>2, <4>1
    <3>2. CASE currentPlayer' # engineColor
      BY <1>2, <1>7, <3>2, Plays
    <3> QED
      BY <3>1, <3>2
  <2> QED
    BY <1>1, <1>3, <1>7, <1>a, <2>1, Alters DEF Playing
<1>8. ASSUME NEW i \in 1..Len(job[j].list), SendOf(j, "replay", "play", job[j].list[i], job[j].list, i),
             UNCHANGED engineBusy, job[j].pc \in {"setup", "replay"}
      PROVE  Discipline'
  <2>1. /\ \A k \in Jobs \ {j} : job'[k] = job[k]
        /\ job'[j].pc = "replay" /\ job'[j].cancelled = job[j].cancelled
        /\ job'[j].list = job[j].list /\ job'[j].i = i
        /\ ~alive' => pipe' = <<>>
    BY <1>2, <1>8, Replays
  <2> QED
    BY <1>1, <1>8, <1>a, <2>1, Alters DEF Playing
<1>9. CASE SetUp(j)
  <2>1. CASE job[j].list = <<>>
    BY <1>7, <1>9, <2>1 DEF SetUp
  <2>2. CASE job[j].list # <<>>
    <3>1. 1 \in 1..Len(job[j].list)
      BY <1>1, <2>2, EmptySeq DEF JobRec
    <3> QED
      BY <1>8, <1>9, <2>2, <3>1 DEF SetUp
  <2> QED
    BY <2>1, <2>2
<1>10. CASE Replayed(j)
  <2>1. job[j].i + 1 > Len(job[j].list) \/ job[j].i + 1 \in 1..Len(job[j].list)
    BY <1>1 DEF JobRec
  <2>2. CASE job[j].i + 1 > Len(job[j].list)
    BY <1>7, <1>10, <2>2 DEF Replayed
  <2>3. CASE ~(job[j].i + 1 > Len(job[j].list))
    BY <1>8, <1>10, <2>1, <2>3 DEF Replayed
  <2> QED
    BY <2>2, <2>3
<1>11. CASE LoadCancelled(j)
  <2>1. UNCHANGED engineBusy /\ job[j].pc \notin Playing
        /\ (replayingSave' => replayingSave /\ job[j].pc # "replay")
    BY <1>11 DEF LoadCancelled, Loading, Playing
  <2>2. job'[j] = Off /\ (~alive' => pipe' = <<>>) /\ \A k \in Jobs \ {j} : Stays(k)
    <3>1. CASE End(j)
      BY <1>1, <1>2, <3>1, Ends, Alters
    <3>2. CASE StopEngine([job EXCEPT ![j] = Off])
      <4> DEFINE f == [job EXCEPT ![j] = Off]
      <4>1. f \in [Jobs -> JobRec] /\ f[j] = Off /\ \A k \in Jobs \ {j} : f[k] = job[k]
        BY <1>1, Resumed DEF JobType
      <4>2. StopEngine(f) /\ Off.pc \notin Sending
        BY <3>2 DEF Off, Sending
      <4> HIDE DEF f
      <4> QED
        BY <4>1, <4>2, Stopped
    <3> QED
      BY <1>11, <3>1, <3>2 DEF LoadCancelled
  <2> QED
    BY <1>3, <1>a, <2>1, <2>2
<1>12. CASE MoveCancelled(j)
  <2>1. job[j].pc \in Playing
    BY <1>1, <1>12 DEF MoveCancelled, Loading, Playing, Sending, JobRec
  <2> QED
    BY <1>1, <1>12, <2>1, PlayDisciplined DEF MoveCancelled
<1> QED
    BY <1>4, <1>5, <1>6, <1>9, <1>10, <1>11, <1>12 DEF Load

\* The engine carries out one command, and answers it.
LEMMA Executes ==
    ASSUME Types, Engine
    PROVE  /\ \A k \in Jobs : Stays(k)
           /\ \A k \in Jobs : k # pipe[1].by => job'[k] = job[k]
           /\ \A k \in Jobs : ~Waiting(k) => job'[k].reply = job[k].reply
           /\ UNCHANGED <<moves, flags, engineColor, loadingJob, ui, sound, games, failures>>
           /\ alive /\ alive' = alive /\ pipe # <<>> /\ pipe' = Tail(pipe)
<1>1. JobType /\ WireType
    BY DEF Types
<1>2. PICK r \in {"ok", "resign", "error", Pass} \cup Points : alive /\ pipe # <<>> /\ Answer(r)
    BY DEF Engine, ExecSetup, ExecPlay, ExecUndo, ExecClear, ExecScore, ExecGenmove, Next_
<1> HIDE DEF JobType, WireType
<1>3. /\ pipe' = Tail(pipe) /\ alive' = alive
      /\ UNCHANGED <<moves, flags, engineColor, loadingJob, ui, sound, games, failures>>
      /\ \A k \in Jobs :
           /\ job'[k].pc = job[k].pc /\ job'[k].cancelled = job[k].cancelled
           /\ job'[k].list = job[k].list /\ job'[k].i = job[k].i
           /\ job'[k].reply = IF k = pipe[1].by /\ Waiting(k) THEN r ELSE job[k].reply
           /\ job[k].pc \notin Sending \/ k # pipe[1].by => job'[k] = job[k]
    BY <1>1, <1>2, Answers
<1> HIDE DEF Sending, Waiting
<1> QED
    BY <1>2, <1>3 DEF Stays

\* The player launches a handler.
LEMMA LaunchDisciplined ==
    ASSUME Types, Types', Discipline, NEW cmd \in CmdNames, NEW pc \in Playing, NEW m \in Moves,
           Launch(cmd, pc, m), UNCHANGED <<loadingJob, games, replayingSave>>
    PROVE  Discipline'
<1>1. JobType /\ WireType /\ pc \in Sending
    BY DEF Types, Playing, Sending
<1>2. PICK j \in Handlers : job[j] = Off /\ engineBusy' = TRUE /\ Send(j, pc, cmd, m)
    BY <1>1, Launches
<1>3. j \in Jobs /\ j \notin Loads /\ Off.pc = "off"
    BY JobNumbers DEF Off
<1>4. /\ alive' = alive /\ job'[j].pc = pc /\ job'[j].cancelled = job[j].cancelled
      /\ \A k \in Jobs \ {j} : job'[k] = job[k]
      /\ ~alive => pipe' = pipe
    BY <1>1, <1>2, <1>3, SendsOne
<1>5. pc \notin {"off", "io", "retry", "replay"}
    BY DEF Playing
<1>6. \A k \in Jobs \ {j} : Stays(k)
    BY <1>1, <1>3, <1>4, Alters
<1>7. ~alive' => pipe' = <<>>
    BY <1>4 DEF Discipline
<1> HIDE DEF Types, Discipline, Playing
<1> QED
    BY <1>2, <1>3, <1>4, <1>5, <1>6, <1>7, JobDisciplined

\* loadingJob?.cancel(): only the last load is told.
LEMMA Cancels ==
    ASSUME Types
    PROVE  LET f == CancelJob(job) IN
             /\ f \in [Jobs -> JobRec]
             /\ \A k \in Jobs : f[k].pc = job[k].pc /\ f[k].reply = job[k].reply
             /\ \A k \in Jobs : f[k].list = job[k].list /\ f[k].i = job[k].i
             /\ \A k \in Jobs : k # loadingJob \/ job[k].pc = "off" => f[k] = job[k]
             /\ loadingJob \in Jobs /\ job[loadingJob].pc # "off" => f[loadingJob].cancelled = TRUE
<1>1. /\ job \in [Jobs -> JobRec] /\ loadingJob \in {NoJob} \cup Loads /\ NoJob \notin Jobs
      /\ \A k \in Loads : k \in Jobs
    BY JobNumbers DEF Types, JobType
<1>2. CancelJob(job) \in [Jobs -> JobRec]
  <2>1. CASE loadingJob \in Loads
    BY <1>1, <2>1, JobNumbers, Resumed DEF Types
  <2>2. CASE loadingJob = NoJob
    BY <1>1, <2>2 DEF CancelJob
  <2> QED
    BY <1>1, <2>1, <2>2
<1>3. CASE loadingJob # NoJob /\ job[loadingJob].pc # "off"
  <2>1. CancelJob(job) = [job EXCEPT ![loadingJob].cancelled = TRUE] /\ loadingJob \in Jobs
    BY <1>1, <1>3 DEF CancelJob
  <2>2. job[loadingJob] \in JobRec
    BY <1>1, <2>1
  <2>3. CancelJob(job)[loadingJob] = [job[loadingJob] EXCEPT !.cancelled = TRUE]
        /\ \A k \in Jobs : k # loadingJob => CancelJob(job)[k] = job[k]
    BY <1>1, <2>1
  <2> QED
    BY <1>2, <1>3, <2>1, <2>2, <2>3 DEF JobRec
<1>4. CASE ~(loadingJob # NoJob /\ job[loadingJob].pc # "off")
  <2>1. CancelJob(job) = job
    BY <1>4 DEF CancelJob
  <2> QED
    BY <1>1, <1>4, <2>1
<1> QED
    BY <1>3, <1>4

\* A game is asked for: its load is the last, those before it are cancelled.
LEMMA StartDisciplined ==
    ASSUME Types, Types', Discipline, NEW save \in Saves, NEW color \in Colors, StartGame(save, color)
    PROVE  /\ Discipline'
           /\ loadingJob' = games + 1 /\ games + 1 \in Loads /\ job[games + 1].pc = "off"
           /\ job'[games + 1].pc = "io" /\ ~job'[games + 1].cancelled
           /\ job'[games + 1].list = save /\ job'[games + 1].reply = "none"
           /\ \A k \in Jobs \ {games + 1} : job'[k].pc = job[k].pc
<1> DEFINE n == games + 1
<1>1. /\ n \in Loads /\ n \in Jobs /\ games \in Nat /\ job \in [Jobs -> JobRec]
      /\ \A k \in Loads : k \in Nat /\ k > 0 /\ k \in Jobs
      /\ loadingJob \in Nat /\ loadingJob <= games /\ loadingJob \in {NoJob} \cup Loads /\ NoJob = 0
    BY JobNumbers, GameAssumption DEF StartGame, Types, JobType, Discipline, NoJob, Loads
<1>2. job[n].pc = "off" /\ n # loadingJob
    BY <1>1 DEF Discipline
<1> DEFINE r == [Off EXCEPT !.pc = "io", !.list = save, !.attempt = 1]
<1>3. job' = [CancelJob(job) EXCEPT ![n] = r] /\ loadingJob' = n /\ games' = n
    BY DEF StartGame
<1>4. r.pc = "io" /\ r.cancelled = FALSE /\ r.list = save /\ r.reply = "none"
    BY DEF Off
<1> HIDE DEF n, r
<1> DEFINE f == CancelJob(job)
<1>6. /\ \A k \in Jobs : f[k].pc = job[k].pc /\ f[k].reply = job[k].reply
      /\ \A k \in Jobs : f[k].list = job[k].list /\ f[k].i = job[k].i
      /\ \A k \in Jobs : k # loadingJob \/ job[k].pc = "off" => f[k] = job[k]
      /\ loadingJob \in Jobs /\ job[loadingJob].pc # "off" => f[loadingJob].cancelled = TRUE
    BY Cancels
<1>5. f \in [Jobs -> JobRec]
    BY Cancels
<1> HIDE DEF f
<1>7. job'[n] = r /\ \A k \in Jobs \ {n} : job'[k] = f[k]
    BY <1>1, <1>3, <1>5 DEF f
<1>8. /\ \A k \in Jobs : job'[k].pc = "off" => job'[k] = Off
      /\ \A k \in Jobs : job'[k].pc \in {"io", "retry"} => job'[k].reply = "none"
      /\ \A k \in Jobs : job'[k].pc = "replay" => job'[k].i \in 1..Len(job'[k].list)
    BY <1>4, <1>6, <1>7 DEF Discipline
<1>9. /\ \A k \in Loads : k > games' => job'[k].pc = "off"
      /\ loadingJob' <= games'
    BY <1>1, <1>3, <1>6, <1>7 DEF n, Discipline
<1>10. \A k \in Loads : k # loadingJob' /\ job'[k].pc # "off" => job'[k].cancelled
  <2>1. ASSUME NEW k \in Loads, k # n, job'[k].pc # "off" PROVE job'[k].cancelled
    <3>1. k \in Jobs /\ job'[k] = f[k] /\ job[k].pc # "off"
      <4>1. k \in Jobs
        BY <1>1
      <4>2. job'[k] = f[k]
        BY <1>7, <2>1, <4>1
      <4>3. job[k].pc # "off"
        BY <1>6, <2>1, <4>1, <4>2
      <4> QED
        BY <4>1, <4>2, <4>3
    <3>2. CASE k = loadingJob
      BY <1>6, <3>1, <3>2
    <3>3. CASE k # loadingJob
      BY <1>6, <3>1, <3>3 DEF Discipline
    <3> QED
      BY <3>2, <3>3
  <2> QED
    BY <1>3, <2>1
<1>11. \A k \in Handlers : ~job'[k].cancelled
  <2>1. \A k \in Handlers : k \in Jobs /\ k # n /\ k # loadingJob
    BY <1>1, JobNumbers
  <2> QED
    BY <1>6, <1>7, <2>1 DEF Discipline
<1>12. /\ engineBusy' => \E k \in Jobs : job'[k].pc \in Playing
       /\ replayingSave' => \E k \in Jobs : job'[k].pc = "replay"
       /\ ~alive' => pipe' = <<>>
  <2>1. \A k \in Jobs : job[k].pc # "off" => k # n /\ job'[k].pc = job[k].pc
    BY <1>2, <1>6, <1>7
  <2>2. UNCHANGED <<engineBusy, replayingSave, alive, pipe>>
    BY DEF StartGame
  <2> QED
    BY <2>1, <2>2 DEF Discipline, Playing
<1> QED
    BY <1>1, <1>2, <1>3, <1>4, <1>6, <1>7, <1>8, <1>9, <1>10, <1>11, <1>12 DEF Discipline, n

\* The player does not wait for the load: it is cancelled, and no longer the last.
LEMMA CancelDisciplined ==
    ASSUME Types, Types', Discipline, CancelLoading
    PROVE  Discipline'
<1> DEFINE f == CancelJob(job)
<1>1. /\ job \in [Jobs -> JobRec] /\ loadingJob \in {NoJob} \cup Loads /\ NoJob = 0
      /\ \A k \in Loads : k \in Nat /\ k \in Jobs
      /\ UNCHANGED <<games, engineBusy, replayingSave>> /\ loadingJob' = 0 /\ games \in Nat
    BY JobNumbers DEF Types, JobType, CancelLoading, NoJob, Loads
<1>2. f \in [Jobs -> JobRec]
    BY Cancels
<1>3. /\ \A k \in Jobs : f[k].pc = job[k].pc /\ f[k].reply = job[k].reply
      /\ \A k \in Jobs : f[k].list = job[k].list /\ f[k].i = job[k].i
      /\ \A k \in Jobs : k # loadingJob \/ job[k].pc = "off" => f[k] = job[k]
      /\ loadingJob \in Jobs /\ job[loadingJob].pc # "off" => f[loadingJob].cancelled = TRUE
    BY Cancels
<1> HIDE DEF f
<1>4. /\ \A k \in Jobs : job'[k].pc = f[k].pc /\ job'[k].cancelled = f[k].cancelled
      /\ \A k \in Jobs : job'[k].list = f[k].list /\ job'[k].i = f[k].i
      /\ \A k \in Jobs : f[k].pc \notin Sending => job'[k] = f[k]
      /\ pipe' = <<>>
  <2>1. job' = Gone(f) /\ pipe' = <<>>
    BY DEF CancelLoading, StopEngine, f
  <2> QED
    BY <1>2, <2>1, Leaves
<1>5. {"off", "io", "retry"} \cap Sending = {}
    BY DEF Sending
<1> HIDE DEF Sending
<1>6. /\ \A k \in Jobs : job'[k].pc = "off" => job'[k] = Off
      /\ \A k \in Jobs : job'[k].pc \in {"io", "retry"} => job'[k].reply = "none"
      /\ \A k \in Jobs : job'[k].pc = "replay" => job'[k].i \in 1..Len(job'[k].list)
    BY <1>3, <1>4, <1>5 DEF Discipline
<1>7. /\ \A k \in Loads : k > games' => job'[k].pc = "off"
      /\ loadingJob' <= games'
    BY <1>1, <1>3, <1>4 DEF Discipline
<1>8. \A k \in Loads : k # loadingJob' /\ job'[k].pc # "off" => job'[k].cancelled
  <2>1. ASSUME NEW k \in Loads, job'[k].pc # "off" PROVE job'[k].cancelled = TRUE
    <3>1. k \in Jobs /\ job[k].pc # "off" /\ job'[k].cancelled = f[k].cancelled
      BY <1>1, <1>3, <1>4, <2>1
    <3>2. CASE k = loadingJob
      BY <1>3, <3>1, <3>2
    <3>3. CASE k # loadingJob
      <4>1. job[k].cancelled = TRUE
        BY <1>1, <3>1, <3>3 DEF Discipline, JobRec
      <4> QED
        BY <1>3, <3>1, <3>3, <4>1
    <3> QED
      BY <3>2, <3>3
  <2> QED
    BY <2>1
<1>9. \A k \in Handlers : ~job'[k].cancelled
  <2>1. \A k \in Handlers : k \in Jobs /\ k # loadingJob
    BY <1>1, JobNumbers
  <2> QED
    BY <1>3, <1>4, <2>1 DEF Discipline
<1>10. /\ engineBusy' => \E k \in Jobs : job'[k].pc \in Playing
       /\ replayingSave' => \E k \in Jobs : job'[k].pc = "replay"
    BY <1>1, <1>3, <1>4 DEF Discipline
<1> QED
    BY <1>4, <1>6, <1>7, <1>8, <1>9, <1>10 DEF Discipline

LEMMA DisciplineNext ==
    ASSUME Types, Types', Discipline, [Next]_vars
    PROVE  Discipline'
<1>1. ASSUME NEW j \in Jobs, TimeOut(j) PROVE Discipline'
  <2>1. \A k \in Jobs : Stays(k)
    BY <1>1, TimesOut DEF Types, Stays
  <2>2. UNCHANGED <<alive, loadingJob, games, engineBusy, replayingSave>>
    BY <1>1 DEF TimeOut, flags
  <2>3. ~alive' => pipe' = <<>>
    <3>1. ~alive => Len(pipe) = 0
      BY EmptySeq DEF Discipline
    <3>2. Len(pipe') = Len(pipe) /\ pipe' \in Seq(Commands)
      BY <1>1, TimesOut DEF Types, WireType
    <3> QED
      BY <2>2, <3>1, <3>2, EmptySeq
  <2> HIDE DEF Types, Discipline
  <2> QED
    BY <2>1, <2>2, <2>3, NobodyDisciplined
<1>2. CASE EngineDies
  <2>1. (\A k \in Jobs : Stays(k)) /\ pipe' = <<>>
    BY <1>2, StoppedForAll DEF EngineDies
  <2>2. UNCHANGED <<loadingJob, games, engineBusy, replayingSave>>
    BY <1>2 DEF EngineDies, flags
  <2> QED
    BY <2>1, <2>2, NobodyDisciplined
<1>3. CASE Engine
  <2>1. (\A k \in Jobs : Stays(k)) /\ alive' = TRUE
        /\ UNCHANGED <<loadingJob, games, engineBusy, replayingSave>>
    BY <1>3, Executes DEF flags, Types, WireType
  <2> QED
    BY <2>1, NobodyDisciplined
<1>4. CASE Tap
  <2>1. CASE HumanPass \/ Undo \/ \E v \in Points : HumanPlay(v)
    <3>1. PICK pc \in Playing, cmd \in CmdNames, m \in Moves : Launch(cmd, pc, m)
      <4>1. /\ {"play", "pass", "undo"} \subseteq Playing /\ {"play", "undo"} \subseteq CmdNames
            /\ NoMove \in Moves
            /\ \A v \in Points \cup {Pass} : [color |-> currentPlayer, vertex |-> v] \in Moves
        BY BoardTypes DEF Types, currentPlayer, Playing, CmdNames
      <4> HIDE DEF Playing, CmdNames, Moves
      <4>2. CASE Undo
        BY <4>1, <4>2 DEF Undo
      <4>3. CASE HumanPass
        BY <4>1, <4>3 DEF HumanPass
      <4>4. ASSUME NEW v \in Points, HumanPlay(v)
            PROVE  \E pc \in Playing, cmd \in CmdNames, m \in Moves : Launch(cmd, pc, m)
        BY <4>1, <4>4 DEF HumanPlay
      <4> QED
        BY <2>1, <4>2, <4>3, <4>4
    <3>2. UNCHANGED <<loadingJob, games, replayingSave>>
      BY <2>1 DEF HumanPass, Undo, HumanPlay
    <3> QED
      BY <3>1, <3>2, LaunchDisciplined
  <2>2. CASE AskExit \/ Dismiss
    <3>1. UNCHANGED <<job, alive, pipe, loadingJob, games, engineBusy, replayingSave>>
      BY <2>2 DEF AskExit, Dismiss, flags
    <3>2. (\A k \in Jobs : Stays(k)) /\ (~alive' => pipe' = <<>>)
      BY <3>1 DEF Stays, Discipline
    <3> QED
      BY <3>1, <3>2, NobodyDisciplined
  <2>3. CASE NewGame
    <3>1. (\A k \in Jobs : Stays(k)) /\ pipe' = <<>>
      BY <2>3, StoppedForAll DEF NewGame
    <3>2. UNCHANGED <<loadingJob, games, engineBusy, replayingSave>>
      BY <2>3 DEF NewGame
    <3> QED
      BY <3>1, <3>2, NobodyDisciplined
  <2> QED
    BY <1>4, <2>1, <2>2, <2>3, StartDisciplined, CancelDisciplined DEF Tap
<1>5. CASE UNCHANGED vars
    BY <1>5 DEF vars, flags, Discipline
<1> QED
    BY <1>1, <1>2, <1>3, <1>4, <1>5, EngineMoveDisciplined, LoadDisciplined, HandleDisciplined
       DEF Next, Resume

----------------------------------------------------------------------------
(* Boards and pipes *)

\* Moves that are put on a board and taken back again.
LEMMA MovesBack ==
    ASSUME NEW p \in Seq(Moves)
    PROVE  /\ \A m \in Moves : Popped(Append(p, m), 1) = p
           /\ p # <<>> => Append(Popped(p, 1), p[Len(p)]) = p
           /\ Popped(Popped(p, 1), 1) = Popped(p, 2)
           /\ SubSeq(p, 1, 0) = <<>> /\ SubSeq(p, 1, Len(p)) = p
           /\ \A i \in 1..Len(p) : Append(SubSeq(p, 1, i - 1), p[i]) = SubSeq(p, 1, i)
<1>1. \A n \in 0..Len(p) : /\ SubSeq(p, 1, n) \in Seq(Moves) /\ Len(SubSeq(p, 1, n)) = n
                          /\ \A k \in 1..n : SubSeq(p, 1, n)[k] = p[k]
  <2>1. ASSUME NEW n \in 0..Len(p)
        PROVE  /\ SubSeq(p, 1, n) \in Seq(Moves) /\ Len(SubSeq(p, 1, n)) = n
               /\ \A k \in 1..n : SubSeq(p, 1, n)[k] = p[k]
    <3>1. \A k \in 1..n : p[k] \in Moves
      OBVIOUS
    <3> QED
      BY <3>1, SubSeqProperties
  <2> QED
    BY <2>1
<1>2. SubSeq(p, 1, 0) = <<>>
    BY <1>1, EmptySeq
<1>3. SubSeq(p, 1, Len(p)) = p
    BY <1>1, SeqEqual
<1>4. ASSUME NEW i \in 1..Len(p) PROVE Append(SubSeq(p, 1, i - 1), p[i]) = SubSeq(p, 1, i)
  <2>1. i - 1 \in 0..Len(p) /\ i \in 0..Len(p) /\ p[i] \in Moves
    OBVIOUS
  <2> DEFINE a == Append(SubSeq(p, 1, i - 1), p[i])   b == SubSeq(p, 1, i)
  <2>2. a \in Seq(Moves) /\ Len(a) = i /\ \A k \in 1..i - 1 : a[k] = p[k]
    BY <1>1, <2>1, AppendProperties
  <2>3. a[i] = p[i]
    BY <1>1, <2>1, AppendProperties
  <2>4. b \in Seq(Moves) /\ Len(b) = i /\ \A k \in 1..i : b[k] = p[k]
    BY <1>1, <2>1
  <2> HIDE DEF a, b
  <2>5. \A k \in 1..i : a[k] = b[k]
    BY <2>2, <2>3, <2>4
  <2> QED
    BY <2>2, <2>4, <2>5, SeqEqual DEF a, b
<1>5. ASSUME NEW m \in Moves PROVE Popped(Append(p, m), 1) = p
  <2>1. Append(p, m) \in Seq(Moves) /\ Len(Append(p, m)) = Len(p) + 1
        /\ \A k \in 1..Len(p) : Append(p, m)[k] = p[k]
    BY AppendProperties
  <2>2. Popped(Append(p, m), 1) = SubSeq(Append(p, m), 1, Len(p))
    BY <2>1, <1>2, EmptySeq DEF Popped
  <2> DEFINE q == Append(p, m)
  <2> HIDE DEF q
  <2>3. SubSeq(q, 1, Len(p)) \in Seq(Moves) /\ Len(SubSeq(q, 1, Len(p))) = Len(p)
        /\ \A k \in 1..Len(p) : SubSeq(q, 1, Len(p))[k] = q[k]
    <3>1. \A k \in 1..Len(p) : q[k] \in Moves
      BY <2>1 DEF q
    <3> QED
      BY <2>1, <3>1, SubSeqProperties DEF q
  <2>4. \A k \in 1..Len(p) : SubSeq(q, 1, Len(p))[k] = p[k]
    BY <2>1, <2>3 DEF q
  <2>5. SubSeq(q, 1, Len(p)) = p
    BY <2>3, <2>4, SeqEqual
  <2> QED
    BY <2>2, <2>5 DEF q
<1>6. ASSUME p # <<>> PROVE Append(Popped(p, 1), p[Len(p)]) = p
  <2>1. Len(p) \in 1..Len(p)
    BY <1>6, EmptySeq
  <2>2. Popped(p, 1) = SubSeq(p, 1, Len(p) - 1)
    BY <2>1 DEF Popped
  <2> QED
    BY <1>3, <1>4, <2>1, <2>2
<1>7. Popped(Popped(p, 1), 1) = Popped(p, 2)
  <2>1. CASE Len(p) > 2
    <3>1. Popped(p, 1) = SubSeq(p, 1, Len(p) - 1) /\ Popped(p, 2) = SubSeq(p, 1, Len(p) - 2)
      BY <2>1 DEF Popped
    <3> DEFINE q == SubSeq(p, 1, Len(p) - 1)
    <3>2. q \in Seq(Moves) /\ Len(q) = Len(p) - 1 /\ \A k \in 1..Len(p) - 1 : q[k] = p[k]
      BY <1>1, <2>1
    <3> HIDE DEF q
    <3>3. Popped(q, 1) = SubSeq(q, 1, Len(p) - 2)
      BY <2>1, <3>2 DEF Popped
    <3>4. SubSeq(q, 1, Len(p) - 2) \in Seq(Moves) /\ Len(SubSeq(q, 1, Len(p) - 2)) = Len(p) - 2
          /\ \A k \in 1..Len(p) - 2 : SubSeq(q, 1, Len(p) - 2)[k] = q[k]
      <4>1. \A k \in 1..Len(p) - 2 : q[k] \in Moves
        BY <2>1, <3>2
      <4> QED
        BY <2>1, <3>2, <4>1, SubSeqProperties
    <3>5. SubSeq(p, 1, Len(p) - 2) \in Seq(Moves) /\ Len(SubSeq(p, 1, Len(p) - 2)) = Len(p) - 2
          /\ \A k \in 1..Len(p) - 2 : SubSeq(p, 1, Len(p) - 2)[k] = p[k]
      BY <1>1, <2>1
    <3>6. SubSeq(q, 1, Len(p) - 2) = SubSeq(p, 1, Len(p) - 2)
      BY <3>2, <3>4, <3>5, SeqEqual
    <3> QED
      BY <3>1, <3>3, <3>6 DEF q
  <2>2. CASE Len(p) <= 2
    <3>0. (IF 2 < Len(p) THEN Len(p) - 2 ELSE 0) = 0
      BY <2>2
    <3>1. Popped(p, 2) = <<>>
      BY <1>2, <3>0, Zenon DEF Popped
    <3>2. Popped(p, 1) \in Seq(Moves) /\ Len(Popped(p, 1)) <= 1
      BY <1>1, <2>2 DEF Popped
    <3>3. Popped(Popped(p, 1), 1) = SubSeq(Popped(p, 1), 1, 0)
      BY <3>2 DEF Popped
    <3>4. SubSeq(Popped(p, 1), 1, 0) \in Seq(Moves) /\ Len(SubSeq(Popped(p, 1), 1, 0)) = 0
      BY <3>2, SubSeqEmpty, EmptySeq
    <3> QED
      BY <3>1, <3>3, <3>4, EmptySeq
  <2>3. Len(p) \in Nat
    OBVIOUS
  <2> QED
    BY <2>1, <2>2, <2>3
<1> QED
    BY <1>2, <1>3, <1>4, <1>5, <1>6, <1>7

\* The colours take turns.
LEMMA TakeTurns ==
    ASSUME NEW p \in Seq(Moves)
    PROVE  /\ ToMove(p) \in Colors
           /\ \A m \in Moves : ToMove(Append(p, m)) # ToMove(p)
           /\ p # <<>> => ToMove(Popped(p, 1)) # ToMove(p)
<1>1. ToMove(p) \in Colors /\ \A m \in Moves : ToMove(Append(p, m)) # ToMove(p)
  <2>1. \A m \in Moves : Len(Append(p, m)) = Len(p) + 1
    BY AppendProperties
  <2> QED
    BY <2>1 DEF ToMove, Colors
<1>2. ASSUME p # <<>> PROVE ToMove(Popped(p, 1)) # ToMove(p)
  <2>1. Len(p) >= 1
    BY <1>2, EmptySeq
  <2>2. Len(Popped(p, 1)) = Len(p) - 1
    <3>1. \A k \in 1..Len(p) - 1 : p[k] \in Moves
      OBVIOUS
    <3>2. (IF 1 < Len(p) THEN Len(p) - 1 ELSE 0) = Len(p) - 1
      BY <2>1
    <3>3. Popped(p, 1) = SubSeq(p, 1, Len(p) - 1)
      BY <3>2, Zenon DEF Popped
    <3> QED
      BY <2>1, <3>1, <3>3, SubSeqProperties
  <2> QED
    BY <2>1, <2>2 DEF ToMove
<1> QED
    BY <1>1, <1>2

\* A command joins the pipe.
LEMMA Joins ==
    ASSUME NEW q \in Seq(Commands), NEW c \in Commands
    PROVE  /\ Append(q, c) \in Seq(Commands) /\ Append(q, c) # <<>>
           /\ Len(Append(q, c)) = Len(q) + 1 /\ Append(q, c)[Len(q) + 1] = c
           /\ \A k \in 1..Len(q) : Append(q, c)[k] = q[k]
           /\ q = <<>> => Len(q) = 0
BY AppendProperties, EmptySeq

----------------------------------------------------------------------------
(* The steps of a sound game *)

\* What a step does to the game, from stage to stage: the steps of Game.tla.
GoesOn ==
    /\ UNCHANGED <<moves, engineColor>>
    /\ \/ Opening /\ (Opening' \/ Replaying')
       \/ Replaying /\ Replaying'
       \/ HumanTurn /\ HumanTurn'
       \/ EngineTurn /\ EngineTurn'

Closes ==
    /\ UNCHANGED engineColor /\ Over'
    /\ Opening \/ ((EngineTurn \/ Over) /\ (replayingSave' => replayingSave))

Begins ==
    /\ UNCHANGED <<moves, engineColor>> /\ Opening
    /\ HumanTurn' \/ (EngineTurn' /\ currentPlayer' = engineColor)

PutsBack ==
    /\ UNCHANGED engineColor /\ Replaying
    /\ moves' = Append(moves, job[loadingJob].list[job[loadingJob].i])
    /\ Replaying' \/ HumanTurn' \/ (EngineTurn' /\ currentPlayer' = engineColor)

HumanActs ==
    /\ UNCHANGED engineColor /\ HumanTurn /\ EngineTurn'
    /\ \/ moves' = moves
       \/ \E v \in Points \cup {Pass} : moves' = Append(moves, [color |-> currentPlayer, vertex |-> v])

EngineActs ==
    /\ UNCHANGED engineColor /\ EngineTurn /\ currentPlayer = engineColor
    /\ \E v \in Points \cup {Pass} : moves' = Append(moves, [color |-> engineColor, vertex |-> v])
    /\ HumanTurn' \/ EngineTurn'

TakenBack ==
    /\ UNCHANGED engineColor /\ EngineTurn /\ currentPlayer = engineColor
    /\ moves # <<>> /\ moves' = Popped(moves, 1)
    /\ HumanTurn'

BothTakenBack ==
    /\ UNCHANGED engineColor /\ EngineTurn /\ currentPlayer # engineColor
    /\ moves' = Popped(moves, 2)
    /\ HumanTurn' \/ (EngineTurn' /\ currentPlayer' = engineColor)

GameStep ==
    GoesOn \/ Closes \/ Begins \/ PutsBack \/ HumanActs \/ EngineActs \/ TakenBack \/ BothTakenBack

\* Who may be resumed in a sound game.
LEMMA Actor ==
    ASSUME Types, Discipline, Stage, NEW j \in Jobs, job[j].pc # "off", job[j].cancelled = FALSE
    PROVE  /\ job[j].pc \in {"io", "setup", "retry"} => j = loadingJob /\ Opening
           /\ job[j].pc = "replay" => j = loadingJob /\ Replaying
           /\ job[j].pc \in Playing => EngineTurn /\ Alone(j) /\ TurnOf(j)
<1>1. /\ \A k \in Loads : k # loadingJob /\ job[k].pc # "off" => job[k].cancelled = TRUE
      /\ Jobs = Loads \cup Handlers /\ loadingJob \in Jobs
  <2>1. \A k \in Jobs : job[k].cancelled \in BOOLEAN
    BY DEF Types, JobType, JobRec
  <2> QED
    BY <2>1, JobNumbers DEF Discipline, Jobs, Stage, Last
<1>2. CASE Opening
  <2>1. j = loadingJob
    BY <1>1, <1>2 DEF Opening, HandlersOff
  <2> QED
    BY <1>2, <2>1 DEF Opening, Playing
<1>3. CASE Replaying
  <2>1. j = loadingJob /\ job[j].pc = "replay"
    BY <1>1, <1>3 DEF Replaying, Alone, At
  <2> QED
    BY <1>3, <2>1 DEF Playing
<1>4. CASE HumanTurn
    BY <1>4 DEF HumanTurn, NobodyOn
<1>5. CASE EngineTurn
  <2>1. Alone(j) /\ TurnOf(j)
    BY <1>5 DEF EngineTurn, Alone
  <2>2. job[j].pc \in Playing /\ job[j].pc \notin {"io", "setup", "retry", "replay"}
    BY <2>1 DEF TurnOf, Moving, Undoing, Asking, Syncing, Scoring, Playing, At
  <2> QED
    BY <1>5, <2>1, <2>2
<1>6. CASE Over
    BY <1>1, <1>6 DEF Over, HandlersOff
<1> QED
    BY <1>2, <1>3, <1>4, <1>5, <1>6 DEF Stage

\* A turn ends.
LEMMA TurnEnds ==
    ASSUME Types, Last, NEW j \in Jobs, Alone(j), Release(j), UNCHANGED loadingJob
    PROVE  /\ NobodyOn' /\ Last' /\ HandlersOff' /\ job'[loadingJob].pc = "off"
           /\ engineBusy' = FALSE /\ UNCHANGED <<alive, board, pipe>>
<1>1. /\ job'[j] = Off /\ Off.pc = "off" /\ Off.cancelled = FALSE
      /\ \A k \in Jobs \ {j} : job'[k] = job[k]
      /\ engineBusy' = FALSE /\ UNCHANGED <<alive, board, pipe>>
    BY Ends DEF Release, Types, Off
<1>2. NobodyOn'
    BY <1>1 DEF NobodyOn, Alone
<1>3. Last' /\ loadingJob \in Jobs
    BY <1>1, JobNumbers DEF Last
<1> QED
    BY <1>1, <1>2, <1>3, JobNumbers DEF NobodyOn, HandlersOff

\* A turn has written one command, of a list of moves that it goes through.
TurnJoined(j, pc, cmd, m, list, i) ==
    /\ Alone(j)' /\ Last' /\ job'[j].cancelled = FALSE
    /\ job'[j].pc = pc /\ job'[j].list = list /\ job'[j].i = i
    /\ job'[j].reply = IF alive THEN "none" ELSE "gone"
    /\ alive' = alive /\ board' = board
    /\ alive => pipe' = Append(pipe, Cmd(j, cmd, m))

\* A turn goes on: its coroutine sends a command.
LEMMA TurnSends ==
    ASSUME Types, Last, NEW j \in Jobs, Alone(j), job[j].cancelled = FALSE, UNCHANGED loadingJob,
           NEW pc \in Sending, NEW cmd \in CmdNames, NEW m \in Moves,
           NEW list \in Seq(Moves), NEW i \in Nat, SendOf(j, pc, cmd, m, list, i)
    PROVE  TurnJoined(j, pc, cmd, m, list, i)
<1>1. /\ alive' = alive /\ board' = board
      /\ job'[j].pc = pc /\ job'[j].cancelled = FALSE
      /\ job'[j].list = list /\ job'[j].i = i
      /\ job'[j].reply = IF alive THEN "none" ELSE "gone"
      /\ \A k \in Jobs \ {j} : job'[k] = job[k]
      /\ pipe' = IF alive THEN Append(pipe, Cmd(j, cmd, m)) ELSE pipe
    BY Sends DEF Types
<1>2. Alone(j)' /\ Last'
    BY <1>1, JobNumbers DEF Alone, Last
<1> QED
    BY <1>1, <1>2 DEF TurnJoined

\* The engine is asked for a move, on a board that will be the one on the screen.
LEMMA TurnAsks ==
    ASSUME Types, Last, NEW j \in Jobs, Alone(j), job[j].cancelled = FALSE, UNCHANGED <<loadingJob, engineColor>>,
           NEW pc \in {"genmove", "regenmove"}, AskEngine(j, pc),
           gameActive', ~replayingSave', currentPlayer' = engineColor,
           alive => /\ Leftovers
                    /\ IF pipe = <<>> THEN board = moves'
                       ELSE moves' = <<>> /\ pipe[Len(pipe)].cmd = "clear"
    PROVE  EngineTurn' /\ Last'
<1> DEFINE m == [color |-> engineColor, vertex |-> Pass]
<1>1. m \in Moves /\ <<>> \in Seq(Moves) /\ 0 \in Nat /\ pc \in Sending /\ "genmove" \in CmdNames
    BY BoardTypes DEF Types, Sending, CmdNames
<1>2. SendOf(j, pc, "genmove", m, <<>>, 0) /\ engineBusy' = TRUE
    BY DEF AskEngine, Send
<1> HIDE DEF m
<1>3. /\ Alone(j)' /\ Last' /\ job'[j].cancelled = FALSE /\ job'[j].pc = pc
      /\ job'[j].reply = IF alive THEN "none" ELSE "gone"
      /\ alive' = alive /\ board' = board
      /\ alive => pipe' = Append(pipe, Cmd(j, "genmove", m))
  <2> HIDE DEF Types, Last, Alone, Sending, CmdNames, Moves, SendOf
  <2> QED
    BY <1>1, <1>2, TurnSends DEF TurnJoined
<1>4. ASSUME alive PROVE Queued(Cmd(j, "genmove", [color |-> engineColor, vertex |-> Pass]), moves)'
  <2> DEFINE c == Cmd(j, "genmove", m)
  <2>1. pipe \in Seq(Commands) /\ c \in Commands
    BY <1>1 DEF Types, WireType, Cmd, Commands
  <2>2. /\ pipe' # <<>> /\ Len(pipe') = Len(pipe) + 1 /\ pipe'[Len(pipe) + 1] = c
        /\ \A k \in 1..Len(pipe) : pipe'[k] = pipe[k]
        /\ pipe = <<>> => Len(pipe) = 0
    BY <1>3, <1>4, <2>1, Joins
  <2>3. pipe # <<>> => Len(pipe) \in 1..Len(pipe)
    BY <2>1, EmptySeq
  <2>4. c = Cmd(j, "genmove", [color |-> engineColor', vertex |-> Pass])
    BY DEF m
  <2>6. Len(pipe) \in Nat
    BY <2>1
  <2> HIDE DEF c
  <2>5. \A k \in 1..Len(pipe) : pipe'[k].by = NoJob
    BY <1>4, <2>2 DEF Leftovers
  <2>7. CASE pipe = <<>>
    BY <1>3, <1>4, <2>2, <2>4, <2>5, <2>6, <2>7 DEF Queued
  <2>8. CASE pipe # <<>>
    BY <1>3, <1>4, <2>2, <2>3, <2>4, <2>5, <2>6, <2>8 DEF Queued
  <2> QED
    BY <2>7, <2>8
<1>5. Asking(j)'
  <2>1. "none" \notin Points \cup {Pass}
    BY GameAssumption DEF Pass
  <2>2. alive' => job'[j].reply = "none"
    BY <1>3
  <2> QED
    BY <1>3, <1>4, <2>1, <2>2 DEF Asking, At, Reply
<1> QED
    BY <1>2, <1>3, <1>5 DEF EngineTurn, TurnOf

\* A turn has written one command: it is the last on the wire, and what is before it is nobody's.
TurnSent(j, pc, cmd, m) ==
    /\ Alone(j)' /\ Last' /\ job'[j].cancelled = FALSE /\ job'[j].pc = pc
    /\ job'[j].reply = IF alive THEN "none" ELSE "gone"
    /\ alive' = alive /\ board' = board
    /\ alive => /\ pipe' # <<>> /\ pipe'[Len(pipe')] = Cmd(j, cmd, m)
                /\ \A k \in 1..Len(pipe') - 1 : pipe'[k].by = NoJob
                /\ pipe = <<>> => Len(pipe') = 1

\* A turn goes on with a command that is none of a list, behind commands nobody waits for.
LEMMA TurnSendsOne ==
    ASSUME Types, Last, NEW j \in Jobs, Alone(j), job[j].cancelled = FALSE, UNCHANGED loadingJob,
           NEW pc \in Sending, NEW cmd \in CmdNames, NEW m \in Moves, Send(j, pc, cmd, m),
           alive => Leftovers
    PROVE  TurnSent(j, pc, cmd, m)
<1>1. <<>> \in Seq(Moves) /\ 0 \in Nat /\ SendOf(j, pc, cmd, m, <<>>, 0)
    BY DEF Send
<1>2. /\ Alone(j)' /\ Last' /\ job'[j].cancelled = FALSE /\ job'[j].pc = pc
      /\ job'[j].reply = IF alive THEN "none" ELSE "gone"
      /\ alive' = alive /\ board' = board
      /\ alive => pipe' = Append(pipe, Cmd(j, cmd, m))
  <2> HIDE DEF Types, Last, Alone, Sending, CmdNames, Moves, SendOf
  <2> QED
    BY <1>1, TurnSends DEF TurnJoined
<1>3. ASSUME alive
      PROVE  /\ pipe' # <<>> /\ pipe'[Len(pipe')] = Cmd(j, cmd, m)
             /\ \A k \in 1..Len(pipe') - 1 : pipe'[k].by = NoJob
             /\ pipe = <<>> => Len(pipe') = 1
  <2> DEFINE c == Cmd(j, cmd, m)
  <2>1. pipe \in Seq(Commands) /\ c \in Commands /\ Len(pipe) \in Nat
    BY DEF Types, WireType, Cmd, Commands
  <2>2. /\ pipe' # <<>> /\ Len(pipe') = Len(pipe) + 1 /\ pipe'[Len(pipe) + 1] = c
        /\ \A k \in 1..Len(pipe) : pipe'[k] = pipe[k]
        /\ pipe = <<>> => Len(pipe) = 0
    BY <1>2, <1>3, <2>1, Joins
  <2> HIDE DEF c
  <2>3. \A k \in 1..Len(pipe) : pipe'[k].by = NoJob
    BY <1>3, <2>2 DEF Leftovers
  <2> QED
    BY <2>1, <2>2, <2>3 DEF c
<1> QED
    BY <1>2, <1>3 DEF TurnSent

\* The engine's move, its resignation, or two boards put right: asking and syncing.
LEMMA EngineMoveStage ==
    ASSUME Types, Types', Discipline, Stage, NEW j \in Jobs, EngineMove(j)
    PROVE  Stage' /\ GameStep
<1>0. /\ job[j].pc \in Playing /\ job[j].pc # "off" /\ job[j].reply # "none"
      /\ UNCHANGED <<loadingJob, engineColor, replayingSave>>
      /\ job[j].cancelled = FALSE
  <2>1. Off.pc = "off" /\ job[j].cancelled \in BOOLEAN
    BY DEF Off, Types, JobType, JobRec
  <2> QED
    BY <2>1 DEF EngineMove, EngineMoved, EngineResigned, Resync, OutOfSync, Cleared, Synced, SyncFailed,
           GiveUpGame, Scored, Playing, flags, At, Answered, Failed
<1>1. EngineTurn /\ Alone(j) /\ TurnOf(j) /\ Last
    BY <1>0, Actor DEF Stage
<1>2. gameActive /\ engineBusy /\ ~replayingSave
    BY <1>1 DEF EngineTurn
<1>3. moves \in Seq(Moves) /\ engineColor \in Colors /\ pipe \in Seq(Commands)
    BY DEF Types, WireType
\* Whatever ends the game ends the turn.
<1>4. ASSUME Release(j), gameActive' = FALSE PROVE Stage' /\ GameStep
  <2>1. NobodyOn' /\ Last' /\ HandlersOff' /\ job'[loadingJob].pc = "off"
    BY <1>0, <1>1, <1>4, TurnEnds
  <2>2. Over'
    BY <1>0, <1>4, <2>1 DEF Over
  <2> QED
    BY <1>0, <1>1, <2>1, <2>2 DEF Stage, GameStep, Closes
<1>5. CASE EngineResigned(j) \/ OutOfSync(j) \/ SyncFailed(j) \/ Scored(j)
    BY <1>4, <1>5 DEF EngineResigned, OutOfSync, SyncFailed, GiveUpGame, Scored
<1>6. CASE EngineMoved(j)
  <2> DEFINE answer == [color |-> engineColor, vertex |-> job[j].reply]
  <2>1. /\ job[j].pc \in {"genmove", "regenmove"} /\ job[j].reply \in Points \cup {Pass}
        /\ moves' = Append(moves, answer) /\ gameActive' = gameActive
    BY <1>6 DEF EngineMoved, Usable, Reply
  <2>2. Asking(j)
    BY <1>1, <2>1 DEF TurnOf, Moving, Undoing, Syncing, Scoring, At
  <2>3. answer \in Moves
    BY <1>3, <2>1, BoardTypes
  <2>4. currentPlayer = engineColor /\ (alive => pipe = <<>> /\ board = moves')
    BY <2>1, <2>2 DEF Asking, Done, Reply
  <2>5. currentPlayer' # engineColor
    BY <1>3, <2>1, <2>3, <2>4, TakeTurns DEF currentPlayer
  <2> HIDE DEF answer
  <2>6. CASE Release(j)
    <3>1. NobodyOn' /\ Last' /\ engineBusy' = FALSE /\ UNCHANGED <<alive, board, pipe>>
      BY <1>0, <1>1, <2>6, TurnEnds
    <3>2. HumanTurn'
      BY <1>0, <1>2, <2>1, <2>4, <2>5, <3>1 DEF HumanTurn, Done
    <3> QED
      BY <1>0, <1>1, <2>1, <2>4, <3>1, <3>2 DEF Stage, GameStep, EngineActs, answer
  <2>7. CASE Send(j, "score", "score", NoMove) /\ UNCHANGED engineBusy
    <3>1. alive => Leftovers
      BY <2>4, EmptySeq DEF Leftovers
    <3>2. "score" \in Sending /\ "score" \in CmdNames /\ NoMove \in Moves
      BY BoardTypes DEF Sending, CmdNames
    <3>3. /\ Alone(j)' /\ Last' /\ job'[j].cancelled = FALSE /\ job'[j].pc = "score"
          /\ job'[j].reply = IF alive THEN "none" ELSE "gone"
          /\ alive' = alive
          /\ alive => /\ pipe' # <<>> /\ pipe'[Len(pipe')] = Cmd(j, "score", NoMove)
                      /\ \A k \in 1..Len(pipe') - 1 : pipe'[k].by = NoJob
      <4>1. Send(j, "score", "score", NoMove) /\ UNCHANGED loadingJob /\ Alone(j) /\ Last
        BY <1>0, <1>1, <2>7
      <4>2. job[j].cancelled = FALSE
        BY <1>0
      <4>3. TurnSent(j, "score", "score", NoMove)
        BY <3>1, <3>2, <4>1, <4>2, TurnSendsOne
      <4> QED
        BY <4>3 DEF TurnSent
    <3>4. Scoring(j)'
      BY <3>3 DEF Scoring, At, Reply
    <3>5. EngineTurn'
      BY <1>0, <1>2, <2>1, <2>7, <3>3, <3>4 DEF EngineTurn, TurnOf
    <3> QED
      BY <1>0, <1>1, <2>1, <2>4, <3>3, <3>5 DEF Stage, GameStep, EngineActs, answer
  <2> QED
    BY <1>6, <2>6, <2>7 DEF EngineMoved
<1>7. CASE Resync(j)
  <2>1. /\ job[j].pc = "genmove" /\ Send(j, "clear", "clear", NoMove)
        /\ UNCHANGED <<moves, gameActive, engineBusy>>
    BY <1>7 DEF Resync, At, flags
  <2>2. Asking(j)
    BY <1>1, <2>1 DEF TurnOf, Moving, Undoing, Syncing, Scoring, At
  <2>3. "clear" \in Sending /\ "clear" \in CmdNames /\ NoMove \in Moves
    BY BoardTypes DEF Sending, CmdNames
  <2>4. alive => Leftovers
    BY <1>0, <2>2 DEF Asking, Reply
  <2>5. /\ Alone(j)' /\ Last' /\ job'[j].cancelled = FALSE /\ job'[j].pc = "clear"
        /\ job'[j].reply = IF alive THEN "none" ELSE "gone"
        /\ alive' = alive
        /\ alive => /\ pipe' # <<>> /\ pipe'[Len(pipe')] = Cmd(j, "clear", NoMove)
                    /\ \A k \in 1..Len(pipe') - 1 : pipe'[k].by = NoJob
    BY <1>0, <1>1, <2>1, <2>3, <2>4, TurnSendsOne DEF TurnSent
  <2>6. currentPlayer' = engineColor'
    BY <1>0, <2>1, <2>2 DEF Asking, currentPlayer
  <2>7. Syncing(j)'
    BY <2>5, <2>6 DEF Syncing, At, Reply
  <2>8. EngineTurn'
    BY <1>0, <1>2, <2>1, <2>5, <2>7 DEF EngineTurn, TurnOf
  <2> QED
    BY <1>0, <1>1, <2>1, <2>5, <2>8 DEF Stage, GameStep, GoesOn
\* The list that is sent to the engine, or the second request after it.
<1>8. ASSUME Syncing(j), NEW n \in 1..Len(moves) + 1, SyncFrom(j, moves, n),
             UNCHANGED <<moves, gameActive>>,
             alive => /\ Leftovers
                      /\ IF pipe = <<>> THEN board = SubSeq(moves, 1, n - 1)
                         ELSE n = 1 /\ pipe[Len(pipe)].cmd = "clear"
      PROVE  Stage' /\ GameStep
  <2>1. n \in Nat /\ Len(moves) \in Nat /\ currentPlayer' = engineColor
    BY <1>0, <1>3, <1>8 DEF Syncing, currentPlayer
  <2>2. CASE n > Len(moves)
    <3>1. n = Len(moves) + 1 /\ n - 1 = Len(moves) /\ SubSeq(moves, 1, n - 1) = moves
      BY <1>3, <2>1, <2>2, MovesBack
    <3>2. n = 1 => moves = <<>>
      BY <1>3, <3>1, EmptySeq
    <3>3. alive => /\ Leftovers
                   /\ IF pipe = <<>> THEN board = moves'
                      ELSE moves' = <<>> /\ pipe[Len(pipe)].cmd = "clear"
      BY <1>8, <3>1, <3>2
    <3>4. AskEngine(j, "regenmove")
      BY <1>8, <2>2 DEF SyncFrom
    <3>5. EngineTurn' /\ Last'
      BY <1>0, <1>1, <1>2, <1>8, <2>1, <3>3, <3>4, TurnAsks
    <3> QED
      BY <1>0, <1>1, <1>8, <3>5 DEF Stage, GameStep, GoesOn
  <2>3. CASE ~(n > Len(moves))
    <3>1. n \in 1..Len(moves) /\ moves[n] \in Moves /\ "sync" \in Sending /\ "play" \in CmdNames
      BY <1>3, <2>1, <2>3 DEF Sending, CmdNames
    <3>2. SendOf(j, "sync", "play", moves[n], moves, n) /\ UNCHANGED engineBusy
      BY <1>8, <2>3 DEF SyncFrom
    <3>3. /\ Alone(j)' /\ Last' /\ job'[j].cancelled = FALSE
          /\ job'[j].pc = "sync" /\ job'[j].list = moves /\ job'[j].i = n
          /\ job'[j].reply = IF alive THEN "none" ELSE "gone"
          /\ alive' = alive /\ board' = board
          /\ alive => pipe' = Append(pipe, Cmd(j, "play", moves[n]))
      <4>1. UNCHANGED loadingJob /\ Alone(j) /\ Last
        BY <1>0, <1>1
      <4>2. job[j].cancelled = FALSE /\ moves \in Seq(Moves) /\ n \in Nat
        BY <1>0, <1>3, <2>1
      <4>3. TurnJoined(j, "sync", "play", moves[n], moves, n)
        BY <3>1, <3>2, <4>1, <4>2, TurnSends
      <4> QED
        BY <4>3 DEF TurnJoined
    <3>4. ASSUME alive PROVE Queued(Cmd(j, "play", moves[n]), SubSeq(moves, 1, n - 1))'
      <4> DEFINE c == Cmd(j, "play", moves[n])
      <4>1. c \in Commands /\ Len(pipe) \in Nat
        BY <1>3, <3>1 DEF Cmd, Commands
      <4>2. /\ pipe' # <<>> /\ Len(pipe') = Len(pipe) + 1 /\ pipe'[Len(pipe) + 1] = c
            /\ \A k \in 1..Len(pipe) : pipe'[k] = pipe[k]
            /\ pipe = <<>> => Len(pipe) = 0
        <5>1. pipe \in Seq(Commands) /\ pipe' = Append(pipe, c)
          BY <1>3, <3>3, <3>4
        <5> HIDE DEF c
        <5> QED
          BY <4>1, <5>1, Joins
      <4>3. pipe # <<>> => Len(pipe) \in 1..Len(pipe)
        BY <1>3, EmptySeq
      <4>4. c = Cmd(j, "play", moves'[n])
        BY <1>8
      <4> HIDE DEF c
      <4>5. \A k \in 1..Len(pipe) : pipe'[k].by = NoJob
        BY <1>8, <3>4, <4>2 DEF Leftovers
      <4>6. CASE pipe = <<>>
        BY <1>8, <3>3, <3>4, <4>1, <4>2, <4>4, <4>5, <4>6 DEF Queued
      <4>7. CASE pipe # <<>>
        <5>1. SubSeq(moves', 1, n - 1) = <<>>
          BY <1>3, <1>8, <3>4, <4>7, MovesBack
        <5>2. Len(pipe') # 1 /\ Len(pipe') - 1 = Len(pipe) /\ pipe'[Len(pipe)].cmd = "clear"
          BY <1>8, <3>4, <4>1, <4>2, <4>3, <4>7
        <5> QED
          BY <4>1, <4>2, <4>4, <4>5, <5>1, <5>2 DEF Queued
      <4> QED
        BY <4>6, <4>7
    <3>5. Syncing(j)'
      <4>1. currentPlayer' = engineColor' /\ job'[j].list = moves' /\ n \in 1..Len(moves') /\ moves' = moves
        BY <1>0, <1>8, <2>1, <3>1, <3>3
      <4>2. alive' => job'[j].reply = "none" /\ Queued(Cmd(j, "play", moves[n]), SubSeq(moves, 1, n - 1))'
        BY <3>3, <3>4
      <4>3. job'[j].reply \in {"none", "gone"}
        BY <3>3
      <4> HIDE DEF Queued, currentPlayer
      <4> QED
        BY <3>3, <4>1, <4>2, <4>3 DEF Syncing, At, Reply
    <3>6. EngineTurn'
      BY <1>0, <1>2, <1>8, <3>2, <3>3, <3>5 DEF EngineTurn, TurnOf
    <3> QED
      BY <1>0, <1>1, <1>8, <3>3, <3>6 DEF Stage, GameStep, GoesOn
  <2> QED
    BY <2>2, <2>3
<1>9. CASE Cleared(j)
  <2>1. job[j].pc = "clear" /\ SyncFrom(j, moves, 1) /\ UNCHANGED <<moves, gameActive>>
    BY <1>9 DEF Cleared, At
  <2>2. Syncing(j)
    BY <1>1, <2>1 DEF TurnOf, Moving, Undoing, Asking, Scoring, At
  <2>3. SubSeq(moves, 1, 0) = <<>> /\ 1 \in 1..Len(moves) + 1
    BY <1>3, MovesBack
  <2>4. alive => /\ Leftovers
                 /\ IF pipe = <<>> THEN board = <<>> ELSE pipe[Len(pipe)].cmd = "clear"
    BY <1>0, <2>1, <2>2 DEF Syncing, At, Reply
  <2>5. SubSeq(moves, 1, 1 - 1) = <<>>
    BY <2>3
  <2> QED
    BY <1>8, <2>1, <2>2, <2>3, <2>4, <2>5
<1>10. CASE Synced(j)
  <2>1. job[j].pc = "sync" /\ SyncFrom(j, moves, job[j].i + 1) /\ UNCHANGED <<moves, gameActive>>
        /\ job[j].reply \notin {"error", "gone"}
    BY <1>10 DEF Synced, At, IsErrorReply, Reply
  <2>2. Syncing(j)
    BY <1>1, <2>1 DEF TurnOf, Moving, Undoing, Asking, Scoring, At
  <2>3. job[j].i \in 1..Len(moves) /\ (alive => Done(SubSeq(moves, 1, job[j].i)))
    BY <1>0, <2>1, <2>2 DEF Syncing, At, Reply
  <2>4. job[j].i + 1 \in 1..Len(moves) + 1 /\ job[j].i + 1 - 1 = job[j].i
    BY <1>3, <2>3
  <2> DEFINE i == job[j].i + 1
  <2>5. alive => /\ Leftovers
                 /\ IF pipe = <<>> THEN board = SubSeq(moves, 1, i - 1)
                    ELSE i = 1 /\ pipe[Len(pipe)].cmd = "clear"
    BY <2>3, <2>4, EmptySeq DEF Done, Leftovers
  <2>6. SyncFrom(j, moves, i) /\ i \in 1..Len(moves) + 1
    BY <2>1, <2>4
  <2> HIDE DEF i
  <2> QED
    BY <1>8, <2>1, <2>2, <2>5, <2>6
<1> QED
  BY <1>5, <1>6, <1>7, <1>9, <1>10 DEF EngineMove

\* The player's move or undo is answered.
LEMMA HandleStage ==
    ASSUME Types, Types', Discipline, Stage, NEW j \in Jobs, Handle(j)
    PROVE  Stage' /\ GameStep
<1>0. /\ job[j].pc \in Playing /\ job[j].pc # "off" /\ job[j].reply # "none"
      /\ UNCHANGED <<loadingJob, engineColor, replayingSave, gameActive>>
      /\ job[j].cancelled = FALSE
  <2>1. job[j].cancelled \in BOOLEAN
    BY DEF Types, JobType, JobRec
  <2> QED
    BY <2>1 DEF Handle, MoveRefused, MoveAccepted, Passed, UndoneOnce, Undone, Playing, flags, At, Answered
<1>1. EngineTurn /\ Alone(j) /\ TurnOf(j) /\ Last
    BY <1>0, Actor DEF Stage
<1>2. gameActive = TRUE /\ engineBusy = TRUE /\ replayingSave = FALSE
    BY <1>1 DEF EngineTurn, Types
<1>3. moves \in Seq(Moves) /\ engineColor \in Colors /\ pipe \in Seq(Commands)
    BY DEF Types, WireType
<1>4. job[j].cancelled = FALSE /\ UNCHANGED loadingJob /\ UNCHANGED engineColor
      /\ gameActive' /\ ~replayingSave'
    BY <1>0, <1>2
\* The engine is asked, on the board as it is now.
<1>5. ASSUME AskEngine(j, "genmove"), currentPlayer' = engineColor, alive => Done(moves')
      PROVE  EngineTurn' /\ Last'
  <2>1. alive => Leftovers /\ pipe = <<>> /\ board = moves'
    BY <1>5, EmptySeq DEF Done, Leftovers
  <2> QED
    BY <1>1, <1>4, <1>5, <2>1, TurnAsks
\* The player may move, on the board as it is now.
<1>6. ASSUME Release(j), currentPlayer' # engineColor, alive => Done(moves')
      PROVE  HumanTurn' /\ Last'
  <2>1. NobodyOn' /\ Last' /\ engineBusy' = FALSE /\ UNCHANGED <<alive, board, pipe>>
    BY <1>1, <1>4, <1>6, TurnEnds
  <2>2. alive' => Done(moves)'
    BY <1>6, <2>1 DEF Done
  <2> QED
    BY <1>4, <1>6, <2>1, <2>2 DEF HumanTurn
<1>7. CASE MoveRefused(j)
  <2>1. job[j].pc = "play" /\ job[j].reply \in {"error", "gone"} /\ moves' = Popped(moves, 1) /\ Release(j)
    BY <1>7 DEF MoveRefused, At, IsErrorReply, Reply
  <2>2. Moving(j)
    BY <1>1, <2>1 DEF TurnOf, Undoing, Asking, Syncing, Scoring, At
  <2>3. currentPlayer = engineColor /\ moves # <<>> /\ (alive => Done(moves'))
    BY <2>1, <2>2 DEF Moving, Done, Reply
  <2>4. currentPlayer' # engineColor
    BY <1>3, <2>1, <2>3, TakeTurns DEF currentPlayer
  <2>5. HumanTurn' /\ Last'
    BY <1>6, <2>1, <2>3, <2>4
  <2> QED
    BY <1>0, <1>1, <2>1, <2>3, <2>5 DEF Stage, GameStep, TakenBack
<1>8. CASE MoveAccepted(j) \/ Passed(j)
  <2>1. /\ job[j].pc \in {"play", "pass"} /\ moves' = moves
        /\ job[j].pc = "play" => job[j].reply \notin {"error", "gone"}
        /\ \/ EngineReplies(j)
           \/ Send(j, "score", "score", NoMove) /\ UNCHANGED engineBusy
    BY <1>8 DEF MoveAccepted, Passed, At, IsErrorReply, Reply
  <2>2. Moving(j)
    BY <1>1, <2>1 DEF TurnOf, Undoing, Asking, Syncing, Scoring, At
  <2>3. currentPlayer = engineColor /\ (alive => Done(moves))
    BY <1>0, <2>1, <2>2 DEF Moving, At, Reply
  <2>4. CASE EngineReplies(j)
    <3>1. AskEngine(j, "genmove")
      BY <1>2, <2>4 DEF EngineReplies
    <3>2. EngineTurn' /\ Last'
      BY <1>0, <1>5, <2>1, <2>3, <3>1 DEF currentPlayer
    <3> QED
      BY <1>0, <1>1, <2>1, <3>2 DEF Stage, GameStep, GoesOn
  <2>5. CASE Send(j, "score", "score", NoMove) /\ UNCHANGED engineBusy
    <3>0. /\ Types /\ Last /\ Alone(j) /\ job[j].cancelled = FALSE
          /\ UNCHANGED loadingJob /\ Send(j, "score", "score", NoMove)
      BY <1>1, <1>4, <2>5
    <3>1. alive => Leftovers
      BY <2>3, EmptySeq DEF Leftovers, Done
    <3>2. "score" \in Sending /\ "score" \in CmdNames /\ NoMove \in Moves
      BY BoardTypes DEF Sending, CmdNames
    <3>3. /\ Alone(j)' /\ Last' /\ job'[j].cancelled = FALSE /\ job'[j].pc = "score"
          /\ job'[j].reply = IF alive THEN "none" ELSE "gone"
          /\ alive' = alive
          /\ alive => /\ pipe' # <<>> /\ pipe'[Len(pipe')] = Cmd(j, "score", NoMove)
                      /\ \A k \in 1..Len(pipe') - 1 : pipe'[k].by = NoJob
      <4>1. TurnSent(j, "score", "score", NoMove)
        BY <3>0, <3>1, <3>2, TurnSendsOne
      <4> QED
        BY <4>1 DEF TurnSent
    <3>4. Scoring(j)'
      BY <3>3 DEF Scoring, At, Reply
    <3>5. EngineTurn'
      BY <1>2, <1>4, <2>5, <3>3, <3>4 DEF EngineTurn, TurnOf
    <3> QED
      BY <1>0, <1>1, <2>1, <3>3, <3>5 DEF Stage, GameStep, GoesOn
  <2> QED
    BY <2>1, <2>4, <2>5
<1>9. CASE UndoneOnce(j)
  <2>1. job[j].pc = "undo" /\ Send(j, "undo2", "undo", NoMove) /\ UNCHANGED <<moves, engineBusy>>
    BY <1>9 DEF UndoneOnce, At, flags
  <2>2. Undoing(j)
    BY <1>1, <2>1 DEF TurnOf, Moving, Asking, Syncing, Scoring, At
  <2>3. currentPlayer # engineColor /\ (alive => Done(Popped(moves, 1)))
    BY <1>0, <2>1, <2>2 DEF Undoing, At, Reply
  <2>4. alive => Leftovers /\ pipe = <<>> /\ board = Popped(moves, 1)
    BY <2>3, EmptySeq DEF Done, Leftovers
  <2>5. "undo2" \in Sending /\ "undo" \in CmdNames /\ NoMove \in Moves
    BY BoardTypes DEF Sending, CmdNames
  <2>6. /\ Alone(j)' /\ Last' /\ job'[j].cancelled = FALSE /\ job'[j].pc = "undo2"
        /\ job'[j].reply = IF alive THEN "none" ELSE "gone"
        /\ alive' = alive /\ board' = board
        /\ alive => /\ pipe' # <<>> /\ pipe'[Len(pipe')] = Cmd(j, "undo", NoMove)
                    /\ \A k \in 1..Len(pipe') - 1 : pipe'[k].by = NoJob
                    /\ pipe = <<>> => Len(pipe') = 1
    BY <1>1, <1>4, <2>1, <2>4, <2>5, TurnSendsOne DEF TurnSent
  <2>7. alive' => job'[j].reply = "none" /\ Queued(Cmd(j, "undo", NoMove), Popped(moves, 1))'
    BY <2>1, <2>4, <2>6 DEF Queued
  <2>8. currentPlayer' # engineColor'
    BY <1>4, <2>1, <2>3 DEF currentPlayer
  <2>9. Undoing(j)'
    BY <2>6, <2>7, <2>8 DEF Undoing, At, Reply
  <2>10. EngineTurn'
    BY <1>2, <1>4, <2>1, <2>6, <2>9 DEF EngineTurn, TurnOf
  <2> QED
    BY <1>0, <1>1, <2>1, <2>6, <2>10 DEF Stage, GameStep, GoesOn
<1>10. CASE Undone(j)
  <2>1. /\ job[j].pc = "undo2" /\ moves' = Popped(moves, 2)
        /\ IF currentPlayer' = engineColor THEN AskEngine(j, "genmove") ELSE Release(j)
    BY <1>2, <1>4, <1>10 DEF Undone, At
  <2>2. Undoing(j)
    BY <1>1, <2>1 DEF TurnOf, Moving, Asking, Syncing, Scoring, At
  <2>3. currentPlayer # engineColor /\ (alive => Done(Popped(Popped(moves, 1), 1)))
    BY <1>0, <2>1, <2>2 DEF Undoing, At, Reply
  <2>4. alive => Done(moves')
    BY <1>3, <2>1, <2>3, MovesBack DEF Done
  <2>5. CASE currentPlayer' = engineColor
    <3>1. EngineTurn' /\ Last'
      BY <1>5, <2>1, <2>4, <2>5
    <3> QED
      BY <1>0, <1>1, <2>1, <2>3, <2>5, <3>1 DEF Stage, GameStep, BothTakenBack
  <2>6. CASE currentPlayer' # engineColor
    <3>1. HumanTurn' /\ Last'
      BY <1>6, <2>1, <2>4, <2>6
    <3> QED
      BY <1>0, <1>1, <2>1, <2>3, <3>1 DEF Stage, GameStep, BothTakenBack
  <2> QED
    BY <2>5, <2>6
<1> QED
    BY <1>7, <1>8, <1>9, <1>10 DEF Handle

\* A load that was cancelled ends: the game that is opened, or over, does not notice.
LEMMA CancelledStage ==
    ASSUME Types, Types', Discipline, Stage, NEW j \in Jobs, LoadCancelled(j) \/ MoveCancelled(j)
    PROVE  Stage' /\ GameStep
<1>1. /\ job[j].cancelled = TRUE /\ job[j].pc # "off"
      /\ UNCHANGED <<moves, engineColor, loadingJob>> /\ (replayingSave' => replayingSave)
  <2>1. Off.cancelled = FALSE /\ job[j].cancelled \in BOOLEAN /\ replayingSave \in BOOLEAN
    BY DEF Off, Types, JobType, JobRec
  <2> QED
    BY <2>1 DEF LoadCancelled, MoveCancelled, Discipline
<1>2. j \notin Handlers /\ Last /\ j # loadingJob /\ loadingJob \in Jobs /\ Handlers \subseteq Jobs
    BY <1>1, JobNumbers DEF Discipline, Stage, Last
<1>3. job[j].pc # "off" /\ j # loadingJob
    BY <1>1, <1>2
<1>4. (Opening \/ Over) /\ moves = <<>> /\ ~gameActive
  <2>1. CASE Replaying
    BY <1>2, <1>3, <2>1 DEF Replaying, Alone
  <2>2. CASE HumanTurn
    BY <1>3, <2>2 DEF HumanTurn, NobodyOn
  <2>3. CASE EngineTurn
    BY <1>1, <2>3 DEF EngineTurn, Alone
  <2>4. CASE Opening \/ Over
    BY <1>3, <2>4 DEF Opening, Over, NobodyOn
  <2> QED
    BY <2>1, <2>2, <2>3, <2>4 DEF Stage
<1>5. ~gameActive' /\ moves' = <<>>
    BY <1>1, <1>4 DEF LoadCancelled, MoveCancelled
<1>6. /\ \A k \in Jobs \ {j} : job'[k].pc = job[k].pc
      /\ \A k \in Jobs \ {j} : job'[k].cancelled = job[k].cancelled
      /\ \A k \in Jobs \ {j} : job'[k].list = job[k].list
      /\ \/ /\ UNCHANGED <<alive, pipe, board>>
            /\ \A k \in Jobs \ {j} : job'[k].reply = job[k].reply
         \/ /\ alive' = FALSE
            /\ \A k \in Jobs \ {j} : job'[k].reply =
                  IF job[k].pc \in Sending /\ job[k].reply = "none" THEN "gone" ELSE job[k].reply
  <2>1. CASE End(j)
    BY <2>1, Ends DEF Types
  <2>2. CASE StopEngine([job EXCEPT ![j] = Off])
    <3> DEFINE f == [job EXCEPT ![j] = Off]
    <3>1. f \in [Jobs -> JobRec] /\ f[j] = Off /\ \A k \in Jobs \ {j} : f[k] = job[k]
      BY Resumed DEF Types, JobType
    <3>2. StopEngine(f) /\ f[j].pc \notin Sending
      BY <2>2, <3>1 DEF Off, Sending
    <3> HIDE DEF f
    <3>3. /\ \A k \in Jobs \ {j} : Stays(k)
          /\ \A k \in Jobs \ {j} : job'[k].reply = IF job[k].pc \in Sending /\ job[k].reply = "none"
                                                THEN "gone" ELSE job[k].reply
          /\ alive' = FALSE
      BY <3>1, <3>2, Stopped
    <3> QED
      BY <3>3 DEF Stays
  <2> QED
    BY <2>1, <2>2 DEF LoadCancelled, MoveCancelled, Release
<1>7. Last' /\ HandlersOff' /\ job'[loadingJob].pc = job[loadingJob].pc
  <2>1. HandlersOff
    BY <1>4 DEF Opening, Over
  <2> QED
    BY <1>1, <1>2, <1>6, <2>1 DEF Last, HandlersOff
<1>8. CASE Opening
  <2> DEFINE l == loadingJob
  <2>1. /\ job'[l].pc \in {"io", "setup", "retry"} /\ job'[l].list \in Saves
        /\ job[l].pc = "setup" => job[l].reply \in {"none"} \cup Bad
        /\ job[l].pc = "setup" /\ job[l].reply = "none" => alive /\ pipe = <<Cmd(l, "setup", NoMove)>>
    BY <1>2, <1>3, <1>6, <1>7, <1>8 DEF Opening, Alone, At, Reply
  <2>2. job'[l].reply = job[l].reply \/ job'[l].reply = "gone"
    BY <1>2, <1>6
  <2>3. job'[l].pc = "setup" =>
          /\ job'[l].reply \in {"none", "ok"} \cup Bad /\ job'[l].reply # "ok"
          /\ job'[l].reply = "none" => alive' /\ pipe' = <<Cmd(l, "setup", NoMove)>>
    <3>1. ASSUME job'[l].pc = "setup" PROVE job'[l].reply \in {"none"} \cup Bad
      BY <1>7, <2>1, <2>2, <3>1 DEF Bad
    <3>2. ASSUME job'[l].pc = "setup", job'[l].reply = "none" PROVE alive' /\ pipe' = <<Cmd(l, "setup", NoMove)>>
      <4>1. job[l].pc = "setup"
        BY <1>7, <3>2
      <4>2. job[l].pc \in Sending
        BY <4>1 DEF Sending
      <4>3. l \in Jobs \ {j}
        BY <1>2
      <4>4. UNCHANGED <<alive, pipe>> /\ job[l].reply = "none"
        BY <1>6, <3>2, <4>2, <4>3
      <4> QED
        BY <2>1, <4>1, <4>4
    <3> QED
      BY <3>1, <3>2 DEF At, Bad
  <2>4. Opening'
    <3>1. l' = l
      BY <1>1
    <3> HIDE DEF l
    <3> QED
      BY <1>5, <1>7, <2>1, <2>3, <3>1 DEF Opening, Reply, At, l
  <2> QED
    BY <1>1, <1>7, <1>8, <2>4 DEF Stage, GameStep, GoesOn
<1>9. CASE Over
  <2>1. Over'
    BY <1>1, <1>5, <1>7, <1>9 DEF Over
  <2> QED
    BY <1>1, <1>7, <1>9, <2>1 DEF Stage, GameStep, Closes
<1> QED
    BY <1>4, <1>8, <1>9

\* The game is on both boards, and play begins.
LEMMA PlayBegins ==
    ASSUME Types, Types', Discipline', Last, NEW j \in Jobs, Alone(j), job[j].cancelled = FALSE,
           UNCHANGED loadingJob, UNCHANGED engineColor, Play(j), gameActive', ~replayingSave',
           alive => Done(moves')
    PROVE  /\ HumanTurn' \/ (EngineTurn' /\ currentPlayer' = engineColor)
           /\ Last'
<1>1. CASE currentPlayer' = engineColor
  <2>1. AskEngine(j, "genmove")
    BY <1>1 DEF Play
  <2>2. alive => Leftovers /\ pipe = <<>> /\ board = moves'
    BY EmptySeq DEF Done, Leftovers
  <2>3. EngineTurn' /\ Last'
    BY <1>1, <2>1, <2>2, TurnAsks
  <2> QED
    BY <1>1, <2>3
<1>2. CASE currentPlayer' # engineColor
  <2>1. End(j)
    BY <1>2 DEF Play
  <2>2. /\ job'[j] = Off /\ Off.pc = "off" /\ Off.cancelled = FALSE
        /\ \A k \in Jobs \ {j} : job'[k] = job[k]
        /\ UNCHANGED <<alive, board, pipe>>
    BY <2>1, Ends DEF Types, Off
  <2>3. NobodyOn'
    BY <2>2 DEF NobodyOn, Alone
  <2>4. Last'
    BY <2>2, JobNumbers DEF Last
  <2>5. engineBusy' = FALSE
    BY <2>3 DEF Discipline, NobodyOn, Playing, Types
  <2>6. alive' => Done(moves)'
    BY <2>2 DEF Done
  <2>7. HumanTurn'
    BY <1>2, <2>3, <2>5, <2>6 DEF HumanTurn
  <2> QED
    BY <2>4, <2>7
<1> QED
    BY <1>1, <1>2

\* The next move of the saved game is on its way.
LEMMA ReplayGoesOn ==
    ASSUME Types, Types', Discipline', Last, NEW j \in Jobs, j = loadingJob, Alone(j),
           UNCHANGED loadingJob, NEW n \in 1..Len(job[j].list), job[j].list \in Saves,
           SendOf(j, "replay", "play", job[j].list[n], job[j].list, n),
           gameActive', replayingSave', Len(moves') = n - 1, alive => Done(moves')
    PROVE  Replaying' /\ Last'
<1>0. PICK list : list = job[j].list
    OBVIOUS
<1>1. /\ \A k \in Jobs \ {j} : job'[k] = job[k]
      /\ alive' = alive /\ board' = board
      /\ job'[j].pc = "replay" /\ job'[j].cancelled = job[j].cancelled
      /\ job'[j].list = list /\ job'[j].i = n
      /\ job'[j].reply = IF alive THEN "none" ELSE "gone"
      /\ pipe' = IF alive THEN Append(pipe, Cmd(j, "play", list[n])) ELSE pipe
    BY <1>0, Replays
<1>2. Alone(j)' /\ Last'
    BY <1>1, JobNumbers DEF Alone, Last
<1>3. engineBusy' = FALSE
  <2>1. engineBusy' \in BOOLEAN /\ \A k \in Jobs : job'[k].pc \notin Playing
    BY <1>1, <1>2 DEF Alone, Playing, Types
  <2> QED
    BY <2>1 DEF Discipline
<1>4. ASSUME alive PROVE Queued(Cmd(j, "play", list[n]), moves)'
  <2> DEFINE c == Cmd(j, "play", list[n])
  <2>1. c \in Commands /\ pipe \in Seq(Commands) /\ pipe = <<>> /\ board = moves'
    <3>1. list \in Seq(Moves) /\ n \in 1..Len(list)
      BY <1>0 DEF Types, JobType, JobRec
    <3>2. list[n] \in Moves
      BY <3>1
    <3> QED
      BY <1>4, <3>2 DEF Cmd, Commands, CmdNames, Done, Types, WireType
  <2>2. pipe' = Append(pipe, c)
    BY <1>1, <1>4
  <2> HIDE DEF c
  <2>3. pipe' # <<>> /\ Len(pipe') = 1 /\ pipe'[1] = c
    BY <2>1, <2>2, Joins
  <2>5. pipe'[Len(pipe')] = c /\ \A k \in 1..Len(pipe') - 1 : pipe'[k].by = NoJob
    BY <2>3
  <2> QED
    BY <1>1, <2>1, <2>3, <2>5 DEF Queued, c
<1>5. /\ job'[j].list \in Saves /\ job'[j].i \in 1..Len(job'[j].list) /\ Len(moves') = job'[j].i - 1
      /\ job'[j].reply \in {"none", "gone"} /\ (alive' => job'[j].reply = "none")
    BY <1>0, <1>1
<1>6. alive' => Queued(Cmd(j, "play", list[n]), moves)'
    BY <1>1, <1>4
<1>7. loadingJob' = j /\ list[n] = job'[j].list[job'[j].i]
    BY <1>1
<1>8. alive' /\ job'[j].reply = "none" => Queued(Cmd(loadingJob, "play", job[loadingJob].list[job[loadingJob].i]), moves)'
    BY <1>6, <1>7 DEF Queued
<1> HIDE DEF Queued
<1> QED
    BY <1>1, <1>2, <1>3, <1>5, <1>7, <1>8 DEF Replaying, At, Reply, Bad

\* The load of the game that is asked for.
LEMMA LoadStage ==
    ASSUME Types, Types', Discipline, Discipline', Stage, sound', NEW j \in Jobs, Load(j)
    PROVE  Stage' /\ GameStep
<1>1. CASE LoadCancelled(j) \/ MoveCancelled(j)
    BY <1>1, CancelledStage
<1>2. UNCHANGED loadingJob /\ UNCHANGED engineColor
    BY DEF Load, EngineStarted, SetupFailed, Retry, SetUp, Replayed, ReplayFailed, LoadCancelled, MoveCancelled
<1>3. Last /\ loadingJob \in Jobs /\ job[j] \in JobRec /\ moves \in Seq(Moves)
    BY JobNumbers DEF Stage, Last, Types, JobType
<1>4. CASE EngineStarted(j) \/ SetupFailed(j) \/ Retry(j) \/ SetUp(j)
  <2>1. job[j].cancelled = FALSE /\ job[j].pc \in {"io", "setup", "retry"}
    BY <1>3, <1>4 DEF EngineStarted, SetupFailed, Retry, SetUp, At, Answered, JobRec
  <2>2. j = loadingJob /\ Opening
    BY <2>1, Actor
  <2>3. ~gameActive /\ moves = <<>> /\ HandlersOff /\ job[j].list \in Saves
    BY <2>2 DEF Opening
  <2>4. \A k \in Handlers : k \in Jobs \ {j}
    BY <2>2, JobNumbers DEF Last, Stage
\* A step that leaves the load where it was, or ends it.
  <2>5. ASSUME \A k \in Jobs \ {j} : Stays(k), job'[j].cancelled = FALSE, moves' = moves, gameActive' = FALSE,
               job'[j].pc \in {"io", "setup", "retry"}, job'[j].list = job[j].list,
               job'[j].pc = "setup" => /\ job'[j].reply = "none"
                                       /\ alive' /\ pipe' = <<Cmd(j, "setup", NoMove)>>
        PROVE  Stage' /\ GameStep
    <3>1. HandlersOff'
      BY <2>3, <2>4, <2>5 DEF HandlersOff, Stays
    <3>2. Last'
      BY <1>2, <1>3, <2>2, <2>5 DEF Last
    <3>3. loadingJob' = j
      BY <1>2, <2>2
    <3>4. Opening'
      BY <2>3, <2>5, <3>1, <3>3 DEF Opening, At, Reply
    <3> QED
      BY <1>2, <2>2, <2>5, <3>2, <3>4 DEF Stage, GameStep, GoesOn
  <2>6. CASE EngineStarted(j)
    <3>1. /\ \A k \in Jobs \ {j} : Stays(k)
          /\ job'[j].pc = "setup" /\ job'[j].cancelled = job[j].cancelled
          /\ job'[j].list = job[j].list /\ job'[j].reply = job[j].reply
      BY <2>6, Starts
    <3>2. job[j].reply = "none"
      BY <2>6 DEF EngineStarted, At, Discipline
    <3>3. /\ alive' /\ pipe' = <<Cmd(j, "setup", NoMove)>> /\ moves' = moves /\ gameActive' = FALSE
      BY <2>3, <2>6 DEF EngineStarted, Cmd, flags, Types
    <3> QED
      BY <2>1, <2>5, <3>1, <3>2, <3>3
  <2>7. CASE SetupFailed(j)
    <3>1. AttemptFailed(j) /\ moves' = moves
      BY <2>7 DEF SetupFailed
    <3>2. /\ \A k \in Jobs \ {j} : Stays(k)
          /\ IF job[j].attempt = 1
             THEN /\ job'[j].pc = "retry" /\ job'[j].cancelled = job[j].cancelled
                  /\ job'[j].list = job[j].list /\ gameActive' = gameActive
             ELSE job'[j] = Off /\ gameActive' = FALSE
      BY <3>1, Fails
    <3>3. CASE job[j].attempt = 1
      <4>1. gameActive' = FALSE
        BY <2>3, <3>2, <3>3 DEF Types
      <4> QED
        BY <2>1, <2>5, <3>1, <3>2, <3>3, <4>1
    <3>4. CASE job[j].attempt # 1
      <4>1. job'[j].pc = "off" /\ job'[j].cancelled = FALSE
        BY <3>2, <3>4 DEF Off
      <4>2. HandlersOff'
        BY <2>3, <2>4, <3>2 DEF HandlersOff, Stays
      <4>3. Last' /\ Over'
        BY <1>2, <1>3, <2>2, <2>3, <3>1, <3>2, <3>4, <4>1, <4>2 DEF Last, Over
      <4> QED
        BY <1>2, <2>2, <4>3 DEF Stage, GameStep, Closes
    <3> QED
      BY <3>3, <3>4
  <2>8. CASE Retry(j)
    <3>1. job'[j] = [job[j] EXCEPT !.pc = "io", !.attempt = 2] /\ \A k \in Jobs \ {j} : job'[k] = job[k]
      BY <2>8 DEF Retry, Types, JobType
    <3>2. job'[j].pc = "io" /\ job'[j].cancelled = job[j].cancelled /\ job'[j].list = job[j].list
      BY <1>3, <3>1 DEF JobRec
    <3>3. gameActive' = FALSE /\ moves' = moves
      BY <2>3, <2>8 DEF Retry, flags, Types
    <3>4. \A k \in Jobs \ {j} : Stays(k)
      BY <3>1, Alters DEF Types
    <3> QED
      BY <2>1, <2>5, <3>2, <3>3, <3>4
  <2>9. CASE SetUp(j)
    <3>1. job[j].pc = "setup" /\ job[j].reply = "ok" /\ moves' = moves /\ gameActive'
      BY <2>9 DEF SetUp, At, Reply
    <3>2. Alone(j) /\ (alive => Done(moves'))
      BY <2>2, <2>3, <3>1 DEF Opening, At, Reply
    <3>3. CASE job[j].list = <<>>
      <4>1. Play(j) /\ UNCHANGED replayingSave
        BY <2>9, <3>3 DEF SetUp
      <4>2. ~replayingSave
        BY <3>1, <3>2 DEF Discipline, Alone
      <4>3. /\ HumanTurn' \/ (EngineTurn' /\ currentPlayer' = engineColor)
            /\ Last'
        <5>1. ~replayingSave'
          BY <4>1, <4>2
        <5> QED
          BY <1>2, <1>3, <2>1, <3>1, <3>2, <4>1, <5>1, PlayBegins
      <4> QED
        BY <1>2, <2>2, <3>1, <4>3 DEF Stage, GameStep, Begins
    <3>4. CASE job[j].list # <<>>
      <4>1. SendOf(j, "replay", "play", job[j].list[1], job[j].list, 1) /\ replayingSave'
        BY <2>9, <3>4 DEF SetUp
      <4>2. 1 \in 1..Len(job[j].list) /\ Len(moves') = 1 - 1
        BY <1>3, <2>3, <3>1, <3>4, EmptySeq DEF JobRec
      <4>3. Replaying' /\ Last'
        BY <1>2, <1>3, <2>2, <2>3, <3>1, <3>2, <4>1, <4>2, ReplayGoesOn
      <4> QED
        BY <1>2, <2>2, <3>1, <4>3 DEF Stage, GameStep, GoesOn
    <3> QED
      BY <3>3, <3>4
  <2> QED
    BY <1>4, <2>6, <2>7, <2>8, <2>9
<1>5. CASE Replayed(j)
  <2> DEFINE list == job[j].list   n == job[j].i
  <2>1. /\ job[j].cancelled = FALSE /\ job[j].pc = "replay"
        /\ job[j].reply \notin Bad /\ job[j].reply # "none"
        /\ moves' = Played(moves, list[n]) /\ UNCHANGED gameActive
    BY <1>3, <1>5 DEF Replayed, At, Answered, Reply, JobRec
  <2>2. j = loadingJob /\ Replaying
    BY <2>1, Actor
  <2>3. /\ gameActive /\ Alone(j) /\ list \in Saves /\ n \in 1..Len(list) /\ Len(moves) = n - 1
        /\ job[j].reply = "ok" /\ ~Occupied(moves, list[n].vertex)
        /\ alive => Done(Append(moves, list[n]))
    BY <2>1, <2>2 DEF Replaying, Reply
  <2>4. list \in Seq(Moves) /\ Len(list) \in Nat
    BY <1>3 DEF JobRec
  <2>5. list[n] \in Moves
    BY <2>3, <2>4
  <2>6. /\ moves' = Append(moves, list[n]) /\ Len(moves') = n
        /\ alive => Done(moves')
    BY <1>3, <2>1, <2>3, <2>5, AppendProperties DEF Played, Done
  <2>7. CASE n + 1 > Len(list)
    <3>1. Play(j) /\ ~replayingSave'
      BY <1>5, <2>7 DEF Replayed
    <3>2. gameActive'
      BY <2>1, <2>3
    <3>3. /\ HumanTurn' \/ (EngineTurn' /\ currentPlayer' = engineColor)
          /\ Last'
      BY <1>2, <1>3, <2>1, <2>3, <2>6, <3>1, <3>2, PlayBegins
    <3> QED
      BY <1>2, <2>2, <2>6, <3>3 DEF Stage, GameStep, PutsBack
  <2>8. CASE ~(n + 1 > Len(list))
    <3>1. n + 1 \in 1..Len(list) /\ n + 1 - 1 = n
      BY <2>3, <2>4, <2>8
    <3>2. SendOf(j, "replay", "play", list[n + 1], list, n + 1) /\ UNCHANGED replayingSave
      BY <1>5, <2>8 DEF Replayed
    <3>3. gameActive' /\ replayingSave' /\ Len(moves') = n + 1 - 1
      BY <2>1, <2>2, <2>3, <2>6, <3>1, <3>2 DEF Replaying
    <3>4. Replaying' /\ Last'
      BY <1>2, <1>3, <2>2, <2>3, <2>6, <3>1, <3>2, <3>3, ReplayGoesOn
    <3> QED
      BY <1>2, <2>2, <2>6, <3>4 DEF Stage, GameStep, PutsBack
  <2> QED
    BY <2>7, <2>8
<1>6. ~ReplayFailed(j)
    BY DEF ReplayFailed
<1> QED
    BY <1>1, <1>4, <1>5, <1>6 DEF Load

----------------------------------------------------------------------------
(* The engine in a sound game *)

\* The command at the head of the pipe is carried out for the coroutine that waits for it.
LEMMA Runs ==
    ASSUME Types, Engine, NEW j \in Jobs, pipe[1].by = j, Waiting(j)
    PROVE  /\ pipe[1].cmd = "setup" => job'[j].reply = "ok" /\ board' = <<>> /\ OthersResumed
           /\ pipe[1].cmd = "play" =>
                IF Occupied(board, pipe[1].move.vertex) \/ pipe[1].move.vertex \in Forbidden
                THEN job'[j].reply = "error" /\ board' = board
                ELSE job'[j].reply = "ok" /\ board' = Append(board, pipe[1].move)
           /\ pipe[1].cmd = "undo" => job'[j].reply \in {"ok", "error"} /\ board' = Popped(board, 1)
           /\ pipe[1].cmd = "clear" => job'[j].reply = "ok" /\ board' = <<>>
           /\ pipe[1].cmd = "score" => job'[j].reply = "ok"
           /\ pipe[1].cmd = "genmove" =>
                \/ /\ job'[j].reply \in Points \cup {Pass}
                   /\ board' = Append(board, [color |-> pipe[1].move.color, vertex |-> job'[j].reply])
                \/ job'[j].reply = "resign"
<1>1. /\ JobType /\ WireType /\ pipe # <<>>
    BY DEF Types, Engine, ExecSetup, ExecPlay, ExecUndo, ExecClear, ExecScore, ExecGenmove, Next_
<1>2. Head(pipe) = pipe[1]
    BY <1>1, Heads
<1>3. ASSUME NEW r \in {"ok", "resign", "error", Pass} \cup Points, Answer(r) PROVE job'[j].reply = r
    BY <1>1, <1>3, Answers
<1>4. CASE ExecSetup
    BY <1>2, <1>3, <1>4 DEF ExecSetup, Next_
<1>5. CASE ExecPlay
    BY <1>2, <1>3, <1>5 DEF ExecPlay, Next_
<1>6. CASE ExecUndo
    BY <1>2, <1>3, <1>6 DEF ExecUndo, Next_
<1>7. CASE ExecClear \/ ExecScore
    BY <1>2, <1>3, <1>7 DEF ExecClear, ExecScore, Next_
<1>8. CASE ExecGenmove
    BY <1>2, <1>3, <1>8 DEF ExecGenmove, Next_
<1> QED
    BY <1>4, <1>5, <1>6, <1>7, <1>8 DEF Engine

\* A command nobody waits for is carried out: no coroutine notices.
LEMMA RunsForNobody ==
    ASSUME Types, Engine, pipe[1].by = NoJob
    PROVE  /\ \A k \in Jobs : job'[k] = job[k]
           /\ pipe[1].cmd = "clear" => board' = <<>>
<1>1. \A k \in Jobs : job'[k] = job[k]
    BY Executes, JobNumbers
<1>2. pipe # <<>> /\ WireType
    BY Executes DEF Types
<1>3. Head(pipe) = pipe[1]
    BY <1>2, Heads
<1>4. pipe[1].cmd = "clear" => board' = <<>>
    BY <1>3 DEF Engine, ExecSetup, ExecPlay, ExecUndo, ExecClear, ExecScore, ExecGenmove, Next_
<1> QED
    BY <1>1, <1>4

\* The last command of the pipe waits for those before it.
LEMMA LastRuns ==
    ASSUME Types, Engine, NEW c, pipe[Len(pipe)] = c, \A k \in 1..Len(pipe) - 1 : pipe[k].by = NoJob
    PROVE  \/ /\ Len(pipe) > 1 /\ \A k \in Jobs : job'[k] = job[k]
              /\ pipe' # <<>> /\ Len(pipe') = Len(pipe) - 1 /\ pipe'[Len(pipe')] = c
              /\ \A k \in 1..Len(pipe') - 1 : pipe'[k].by = NoJob
              /\ \A k \in 1..Len(pipe') : pipe'[k] = pipe[k + 1]
           \/ Len(pipe) = 1 /\ pipe[1] = c /\ pipe' = <<>>
<1>1. pipe # <<>> /\ WireType /\ pipe' = Tail(pipe)
    BY Executes DEF Types
<1>2. /\ Len(pipe) \in Nat \ {0} /\ pipe' \in Seq(Commands) /\ Len(pipe') = Len(pipe) - 1
      /\ \A k \in 1..Len(pipe) - 1 : pipe'[k] = pipe[k + 1]
      /\ Len(pipe) = 1 => pipe' = <<>>
    BY <1>1, Heads
<1>3. CASE Len(pipe) = 1
    BY <1>2, <1>3
<1>4. CASE Len(pipe) > 1
  <2>1. pipe[1].by = NoJob
    BY <1>2, <1>4
  <2>2. \A k \in Jobs : job'[k] = job[k]
    BY <2>1, RunsForNobody
  <2>3. pipe' # <<>>
    BY <1>2, <1>4, EmptySeq
  <2>4. pipe'[Len(pipe')] = c
    BY <1>2, <1>4
  <2>5. \A k \in 1..Len(pipe') - 1 : pipe'[k].by = NoJob
    BY <1>2, <1>4
  <2> QED
    BY <1>2, <1>4, <2>2, <2>3, <2>4, <2>5
<1> QED
    BY <1>2, <1>3, <1>4

\* The same, when the board is known by then.
LEMMA QueuedRuns ==
    ASSUME Types, Engine, NEW c, NEW b, Queued(c, b)
    PROVE  \/ /\ \A k \in Jobs : job'[k] = job[k]
              /\ Queued(c, b)'
           \/ Len(pipe) = 1 /\ pipe[1] = c /\ board = b /\ pipe' = <<>>
<1>1. pipe[Len(pipe)] = c /\ \A k \in 1..Len(pipe) - 1 : pipe[k].by = NoJob
    BY DEF Queued
<1>2. CASE Len(pipe) = 1 /\ pipe[1] = c /\ pipe' = <<>>
    BY <1>2 DEF Queued
<1>3. CASE /\ Len(pipe) > 1 /\ \A k \in Jobs : job'[k] = job[k]
           /\ pipe' # <<>> /\ Len(pipe') = Len(pipe) - 1 /\ pipe'[Len(pipe')] = c
           /\ \A k \in 1..Len(pipe') - 1 : pipe'[k].by = NoJob
           /\ \A k \in 1..Len(pipe') : pipe'[k] = pipe[k + 1]
  <2>1. Len(pipe) \in Nat
    BY DEF Types, WireType
  <2>2. b = <<>> /\ pipe[Len(pipe) - 1].cmd = "clear"
    BY <1>3 DEF Queued
  <2>3. CASE Len(pipe) = 2
    <3>1. pipe[1].by = NoJob /\ pipe[1].cmd = "clear"
      BY <1>1, <2>1, <2>2, <2>3
    <3>2. board' = <<>>
      BY <3>1, RunsForNobody
    <3> QED
      BY <1>3, <2>2, <2>3, <3>2 DEF Queued
  <2>4. CASE Len(pipe) # 2
    <3>1. Len(pipe') # 1 /\ Len(pipe') - 1 \in 1..Len(pipe')
      BY <1>3, <2>1, <2>4
    <3>2. pipe'[Len(pipe') - 1].cmd = "clear"
      BY <1>3, <2>1, <2>2, <3>1
    <3> QED
      BY <1>3, <2>2, <3>1, <3>2 DEF Queued
  <2> QED
    BY <2>3, <2>4
<1> QED
    BY <1>1, <1>2, <1>3, LastRuns

\* Commands nobody waits for, of which the last may empty the board.
LEMMA LeftoversRun ==
    ASSUME Types, Engine, Leftovers
    PROVE  /\ \A k \in Jobs : job'[k] = job[k]
           /\ Leftovers'
           /\ pipe[Len(pipe)].cmd = "clear" =>
                IF pipe' = <<>> THEN board' = <<>> ELSE pipe'[Len(pipe')].cmd = "clear"
<1>1. pipe # <<>> /\ WireType /\ pipe' = Tail(pipe)
    BY Executes DEF Types
<1>2. /\ Len(pipe) \in Nat \ {0} /\ pipe' \in Seq(Commands) /\ Len(pipe') = Len(pipe) - 1
      /\ \A k \in 1..Len(pipe) - 1 : pipe'[k] = pipe[k + 1]
    BY <1>1, Heads
<1>3. pipe[1].by = NoJob
    BY <1>2 DEF Leftovers
<1>4. Leftovers'
    BY <1>2 DEF Leftovers
<1>5. ASSUME pipe[Len(pipe)].cmd = "clear"
      PROVE  IF pipe' = <<>> THEN board' = <<>> ELSE pipe'[Len(pipe')].cmd = "clear"
  <2>1. CASE pipe' = <<>>
    <3>1. Len(pipe) = 1
      BY <1>2, <2>1, EmptySeq
    <3> QED
      BY <1>3, <1>5, <2>1, <3>1, RunsForNobody
  <2>2. CASE pipe' # <<>>
    <3>1. Len(pipe') \in 1..Len(pipe) - 1
      BY <1>2, <2>2, EmptySeq
    <3> QED
      BY <1>2, <1>5, <2>2, <3>1
  <2> QED
    BY <2>1, <2>2
<1> QED
    BY <1>3, <1>4, <1>5, RunsForNobody

\* A job that waits for the last command of the pipe, on a known board.
LEMMA WaitsFor ==
    ASSUME Types, Engine, NEW j \in Jobs, job[j].pc \in Sending, job[j].reply = "none",
           NEW cmd, NEW m, NEW b, Queued(Cmd(j, cmd, m), b)
    PROVE  \/ (\A k \in Jobs : job'[k] = job[k]) /\ Queued(Cmd(j, cmd, m), b)'
           \/ /\ pipe' = <<>> /\ pipe[1].by = j /\ Waiting(j) /\ board = b
              /\ pipe[1].cmd = cmd /\ pipe[1].move = m
<1>1. PICK c : c = Cmd(j, cmd, m)
    OBVIOUS
<1>2. \/ (\A k \in Jobs : job'[k] = job[k]) /\ Queued(c, b)'
      \/ pipe[1] = c /\ board = b /\ pipe' = <<>>
    BY <1>1, QueuedRuns
<1>3. c.by = j /\ c.cmd = cmd /\ c.move = m
    BY <1>1 DEF Cmd
<1> QED
    BY <1>1, <1>2, <1>3 DEF Waiting

\* A move of the player on its way.
LEMMA MovingRuns ==
    ASSUME Types, Engine, NEW j \in Jobs, Moving(j)
    PROVE  Moving(j)'
<1>1. /\ alive /\ alive' = alive /\ pipe # <<>> /\ UNCHANGED <<moves, engineColor>>
      /\ job'[j].pc = job[j].pc
    BY Executes DEF Stays
<1>2. job[j].reply = "none"
    BY <1>1 DEF Moving, Reply, Done
<1>3. PICK m : m = moves[Len(moves)]
    OBVIOUS
<1>4. PICK b : b = Popped(moves, 1)
    OBVIOUS
<1>5. /\ job[j].pc \in {"play", "pass"} /\ moves # <<>> /\ currentPlayer = engineColor
      /\ job[j].pc = "pass" => m.vertex = Pass
      /\ Queued(Cmd(j, "play", m), b)
    BY <1>1, <1>2, <1>3, <1>4 DEF Moving, Reply, At
<1>6. Append(b, m) = moves
    BY <1>3, <1>4, <1>5, MovesBack DEF Types
<1>7. CASE (\A k \in Jobs : job'[k] = job[k]) /\ Queued(Cmd(j, "play", m), b)'
  <2>1. job'[j].reply = "none"
    BY <1>2, <1>7
  <2>2. m = moves'[Len(moves')] /\ b = Popped(moves', 1) /\ currentPlayer' = engineColor'
    BY <1>1, <1>3, <1>4, <1>5 DEF currentPlayer
  <2> QED
    BY <1>1, <1>5, <1>7, <2>1, <2>2 DEF Moving, Reply, At
<1>8. CASE /\ pipe' = <<>> /\ pipe[1].by = j /\ Waiting(j) /\ board = b
           /\ pipe[1].cmd = "play" /\ pipe[1].move = m
  <2>1. IF Occupied(b, m.vertex) \/ m.vertex \in Forbidden
        THEN job'[j].reply = "error" /\ board' = b
        ELSE job'[j].reply = "ok" /\ board' = moves
    BY <1>6, <1>8, Runs
  <2>2. job[j].pc = "pass" => ~(Occupied(b, m.vertex) \/ m.vertex \in Forbidden)
    BY <1>5, GameAssumption DEF Occupied, Pass
  <2>3. m = moves'[Len(moves')] /\ b = Popped(moves', 1) /\ currentPlayer' = engineColor'
    BY <1>1, <1>3, <1>4, <1>5 DEF currentPlayer
  <2> QED
    BY <1>1, <1>5, <1>8, <2>1, <2>2, <2>3 DEF Moving, Reply, At, Done
<1> QED
    BY <1>2, <1>5, <1>7, <1>8, WaitsFor DEF Sending

\* An undo on its way.
LEMMA UndoingRuns ==
    ASSUME Types, Engine, NEW j \in Jobs, Undoing(j)
    PROVE  Undoing(j)'
<1>1. /\ alive /\ alive' = alive /\ pipe # <<>> /\ UNCHANGED <<moves, engineColor>>
      /\ job'[j].pc = job[j].pc
    BY Executes DEF Stays
<1>2. PICK b : b = IF job[j].pc = "undo" THEN moves ELSE Popped(moves, 1)
    OBVIOUS
<1>3. job[j].reply = "none"
    BY <1>1 DEF Undoing, Reply, Done
<1>4. /\ job[j].pc \in {"undo", "undo2"} /\ currentPlayer # engineColor
      /\ Queued(Cmd(j, "undo", NoMove), b)
    BY <1>1, <1>2, <1>3 DEF Undoing, Reply, At
<1>5. /\ b = IF job'[j].pc = "undo" THEN moves' ELSE Popped(moves', 1)
      /\ currentPlayer' # engineColor'
    BY <1>1, <1>2, <1>4 DEF currentPlayer
<1>6. CASE (\A k \in Jobs : job'[k] = job[k]) /\ Queued(Cmd(j, "undo", NoMove), b)'
  <2>1. job'[j].reply = "none"
    BY <1>3, <1>6
  <2> QED
    BY <1>1, <1>4, <1>5, <1>6, <2>1 DEF Undoing, Reply, At
<1>7. CASE /\ pipe' = <<>> /\ pipe[1].by = j /\ Waiting(j) /\ board = b
           /\ pipe[1].cmd = "undo" /\ pipe[1].move = NoMove
  <2>1. job'[j].reply \in {"ok", "error"} /\ board' = Popped(b, 1)
    BY <1>7, Runs
  <2> QED
    BY <1>1, <1>4, <1>5, <1>7, <2>1 DEF Undoing, Reply, At, Done
<1> QED
    BY <1>3, <1>4, <1>6, <1>7, WaitsFor DEF Sending

\* The engine thinks about its move.
LEMMA AskingRuns ==
    ASSUME Types, Engine, NEW j \in Jobs, Asking(j)
    PROVE  Asking(j)'
<1>1. /\ alive /\ alive' = alive /\ pipe # <<>> /\ UNCHANGED <<moves, engineColor>>
      /\ job'[j].pc = job[j].pc
    BY Executes DEF Stays
<1>2. job[j].pc \in {"genmove", "regenmove"} /\ currentPlayer = engineColor
    BY DEF Asking
<1>3. PICK p : p = moves
    OBVIOUS
<1>4. PICK m : m = [color |-> engineColor, vertex |-> Pass]
    OBVIOUS
<1>5. p = moves' /\ m = [color |-> engineColor', vertex |-> Pass] /\ currentPlayer' = engineColor'
    BY <1>1, <1>2, <1>3, <1>4 DEF currentPlayer
<1>6. CASE job[j].reply # "none"
  <2>1. Leftovers /\ ~(job[j].reply \in Points \cup {Pass})
    BY <1>1, <1>6 DEF Asking, Reply, Done
  <2>2. Leftovers' /\ job'[j] = job[j]
    BY <2>1, LeftoversRun
  <2>3. job'[j].reply # "none" /\ ~(job'[j].reply \in Points \cup {Pass})
    BY <1>6, <2>1, <2>2
  <2> QED
    BY <1>1, <1>2, <1>5, <2>2, <2>3 DEF Asking, Reply
<1>7. CASE job[j].reply = "none"
  <2>1. Queued(Cmd(j, "genmove", m), p)
    BY <1>1, <1>3, <1>4, <1>7 DEF Asking, Reply
  <2>2. CASE (\A k \in Jobs : job'[k] = job[k]) /\ Queued(Cmd(j, "genmove", m), p)'
    <3>1. job'[j].reply = "none" /\ "none" \notin Points \cup {Pass}
      BY <1>7, <2>2, GameAssumption DEF Pass
    <3> QED
      BY <1>1, <1>2, <1>5, <2>2, <3>1 DEF Asking, Reply
  <2>3. CASE /\ pipe' = <<>> /\ pipe[1].by = j /\ Waiting(j) /\ board = p
             /\ pipe[1].cmd = "genmove" /\ pipe[1].move = m
    <3>1. \/ /\ job'[j].reply \in Points \cup {Pass}
             /\ board' = Append(p, [color |-> m.color, vertex |-> job'[j].reply])
          \/ job'[j].reply = "resign"
      BY <2>3, Runs
    <3>2. "none" \notin Points \cup {Pass} /\ "resign" \notin Points \cup {Pass}
      BY GameAssumption DEF Pass
    <3>3. m.color = engineColor'
      BY <1>5
    <3>4. Leftovers'
      BY <2>3, EmptySeq DEF Leftovers
    <3> QED
      BY <1>1, <1>2, <1>5, <2>3, <3>1, <3>2, <3>3, <3>4 DEF Asking, Reply, Done
  <2> QED
    BY <1>2, <1>7, <2>1, <2>2, <2>3, WaitsFor DEF Sending
<1> QED
    BY <1>6, <1>7

\* The engine's board is cleared, and gets the moves of the local one again.
LEMMA SyncingRuns ==
    ASSUME Types, Engine, NEW j \in Jobs, Syncing(j)
    PROVE  Syncing(j)'
<1>1. /\ alive /\ alive' = alive /\ pipe # <<>> /\ UNCHANGED <<moves, engineColor>>
      /\ job'[j].pc = job[j].pc /\ job'[j].list = job[j].list /\ job'[j].i = job[j].i
    BY Executes DEF Stays
<1>2. currentPlayer' = engineColor'
    BY <1>1 DEF Syncing, currentPlayer
<1>3. CASE job[j].pc = "clear"
  <2>1. CASE job[j].reply = "none"
    <3>1. PICK c : c = Cmd(j, "clear", NoMove)
      OBVIOUS
    <3>2. pipe[Len(pipe)] = c /\ \A k \in 1..Len(pipe) - 1 : pipe[k].by = NoJob
      BY <1>1, <1>3, <2>1, <3>1 DEF Syncing, At, Reply
    <3>3. CASE /\ \A k \in Jobs : job'[k] = job[k]
               /\ pipe' # <<>> /\ pipe'[Len(pipe')] = c
               /\ \A k \in 1..Len(pipe') - 1 : pipe'[k].by = NoJob
      <4>1. job'[j].reply = "none"
        BY <2>1, <3>3
      <4> QED
        BY <1>1, <1>2, <1>3, <3>1, <3>3, <4>1 DEF Syncing, At, Reply
    <3>4. CASE pipe[1] = c /\ pipe' = <<>>
      <4>1. pipe[1].by = j /\ pipe[1].cmd = "clear" /\ Waiting(j)
        BY <1>3, <2>1, <3>1, <3>4 DEF Cmd, Waiting, Sending
      <4>2. job'[j].reply = "ok" /\ board' = <<>>
        BY <4>1, Runs
      <4>3. Leftovers'
        BY <3>4, EmptySeq DEF Leftovers
      <4> QED
        BY <1>1, <1>2, <1>3, <3>4, <4>2, <4>3 DEF Syncing, At, Reply
    <3> QED
      BY <3>2, <3>3, <3>4, LastRuns
  <2>2. CASE job[j].reply # "none"
    <3>1. Leftovers /\ pipe[Len(pipe)].cmd = "clear"
      BY <1>1, <1>3, <2>2 DEF Syncing, At, Reply
    <3>2. /\ job'[j] = job[j] /\ Leftovers'
          /\ IF pipe' = <<>> THEN board' = <<>> ELSE pipe'[Len(pipe')].cmd = "clear"
      BY <3>1, LeftoversRun
    <3> QED
      BY <1>1, <1>2, <1>3, <2>2, <3>2 DEF Syncing, At, Reply
  <2> QED
    BY <2>1, <2>2
<1>4. CASE job[j].pc = "sync"
  <2>1. PICK i : i = job[j].i
    OBVIOUS
  <2>2. PICK m : m = moves[i]
    OBVIOUS
  <2>3. PICK b : b = SubSeq(moves, 1, i - 1)
    OBVIOUS
  <2>4. /\ job[j].list = moves /\ i \in 1..Len(moves)
        /\ job[j].reply \in {"none", "ok", "error", "gone"}
        /\ job[j].reply = "none" => Queued(Cmd(j, "play", m), b)
        /\ job[j].reply = "ok" => Done(SubSeq(moves, 1, i))
        /\ job[j].reply # "none" => Leftovers
    BY <1>1, <1>4, <2>1, <2>2, <2>3 DEF Syncing, At, Reply
  <2>5. /\ job'[j].list = moves' /\ i \in 1..Len(moves') /\ i = job'[j].i
        /\ m = moves'[i] /\ b = SubSeq(moves', 1, i - 1)
    BY <1>1, <2>1, <2>2, <2>3, <2>4
  <2>6. CASE job[j].reply # "none"
    <3>1. job[j].reply # "ok" /\ Leftovers
      BY <1>1, <2>4, <2>6 DEF Done
    <3>2. job'[j] = job[j] /\ Leftovers'
      BY <3>1, LeftoversRun
    <3> QED
      BY <1>1, <1>2, <1>4, <2>4, <2>5, <2>6, <3>1, <3>2 DEF Syncing, At, Reply
  <2>7. CASE job[j].reply = "none"
    <3>1. CASE (\A k \in Jobs : job'[k] = job[k]) /\ Queued(Cmd(j, "play", m), b)'
      <4>1. job'[j].reply = "none"
        BY <2>7, <3>1
      <4> QED
        BY <1>1, <1>2, <1>4, <2>5, <3>1, <4>1 DEF Syncing, At, Reply
    <3>2. CASE /\ pipe' = <<>> /\ pipe[1].by = j /\ Waiting(j) /\ board = b
               /\ pipe[1].cmd = "play" /\ pipe[1].move = m
      <4>1. IF Occupied(b, m.vertex) \/ m.vertex \in Forbidden
            THEN job'[j].reply = "error" /\ board' = b
            ELSE job'[j].reply = "ok" /\ board' = Append(b, m)
        BY <3>2, Runs
      <4>2. Append(b, m) = SubSeq(moves', 1, i)
        BY <1>1, <2>2, <2>3, <2>4, MovesBack DEF Types
      <4>3. Leftovers'
        BY <3>2, EmptySeq DEF Leftovers
      <4> QED
        BY <1>1, <1>2, <1>4, <2>5, <3>2, <4>1, <4>2, <4>3 DEF Syncing, At, Reply, Done
    <3> QED
      BY <1>4, <2>4, <2>7, <3>1, <3>2, WaitsFor DEF Sending
  <2> QED
    BY <2>6, <2>7
<1> QED
    BY <1>3, <1>4 DEF Syncing, At

\* The game is scored.
LEMMA ScoringRuns ==
    ASSUME Types, Engine, NEW j \in Jobs, Scoring(j)
    PROVE  Scoring(j)'
<1>1. alive /\ alive' = alive /\ pipe # <<>> /\ job'[j].pc = "score" /\ job[j].pc = "score"
    BY Executes DEF Stays, Scoring, At
<1>2. CASE job[j].reply = "none"
  <2>1. PICK c : c = Cmd(j, "score", NoMove)
    OBVIOUS
  <2>2. pipe[Len(pipe)] = c /\ \A k \in 1..Len(pipe) - 1 : pipe[k].by = NoJob
    BY <1>1, <1>2, <2>1 DEF Scoring, Reply
  <2>3. CASE /\ \A k \in Jobs : job'[k] = job[k]
             /\ pipe' # <<>> /\ pipe'[Len(pipe')] = c
             /\ \A k \in 1..Len(pipe') - 1 : pipe'[k].by = NoJob
    <3>1. job'[j].reply = "none"
      BY <1>2, <2>3
    <3> QED
      BY <1>1, <2>1, <2>3, <3>1 DEF Scoring, At, Reply
  <2>4. CASE pipe[1] = c /\ pipe' = <<>>
    <3>1. pipe[1].by = j /\ pipe[1].cmd = "score" /\ Waiting(j)
      BY <1>1, <1>2, <2>1, <2>4 DEF Cmd, Waiting, Sending
    <3>2. job'[j].reply = "ok"
      BY <3>1, Runs
    <3>3. Leftovers'
      BY <2>4, EmptySeq DEF Leftovers
    <3> QED
      BY <1>1, <3>2, <3>3 DEF Scoring, At, Reply
  <2> QED
    BY <2>2, <2>3, <2>4, LastRuns
<1>3. CASE job[j].reply # "none"
  <2>1. Leftovers
    BY <1>1, <1>3 DEF Scoring, Reply
  <2>2. job'[j] = job[j] /\ Leftovers'
    BY <2>1, LeftoversRun
  <2> QED
    BY <1>1, <1>3, <2>2 DEF Scoring, At, Reply
<1> QED
    BY <1>2, <1>3

\* The engine carries out a command of the load that replays a save.
LEMMA ReplayingRuns ==
    ASSUME Types, Engine, Last, Replaying
    PROVE  Replaying'
<1>1. PICK j : j = loadingJob
    OBVIOUS
<1>2. j \in Jobs /\ loadingJob' = j
    BY <1>1, JobNumbers, Executes DEF Last
<1>3. PICK list : list = job[j].list
    OBVIOUS
<1>4. PICK i : i = job[j].i
    OBVIOUS
<1>5. /\ alive /\ alive' = alive /\ pipe # <<>> /\ moves' = moves
      /\ gameActive' = gameActive /\ engineBusy' = engineBusy /\ replayingSave' = replayingSave
      /\ job'[j].pc = job[j].pc /\ job'[j].list = list /\ job'[j].i = i
    BY <1>2, <1>3, <1>4, Executes DEF Stays, flags
<1>6. /\ gameActive /\ ~engineBusy /\ replayingSave /\ Alone(j) /\ job[j].pc = "replay"
      /\ list \in Saves /\ i \in 1..Len(list) /\ Len(moves) = i - 1
      /\ job[j].reply = "none" /\ Queued(Cmd(j, "play", list[i]), moves)
    BY <1>1, <1>3, <1>4, <1>5 DEF Replaying, At, Reply
<1>7. Alone(j)'
    BY <1>2, <1>6, Executes DEF Alone, Stays
<1>8. PICK b : b = moves
    OBVIOUS
<1>10. CASE job[j].reply = "none"
  <2>1. Queued(Cmd(j, "play", list[i]), b)
    BY <1>6, <1>8, <1>10
  <2>2. CASE (\A k \in Jobs : job'[k] = job[k]) /\ Queued(Cmd(j, "play", list[i]), b)'
    <3>1. job'[j].reply = "none"
      BY <1>2, <1>10, <2>2
    <3> QED
      BY <1>2, <1>5, <1>6, <1>7, <1>8, <2>2, <3>1 DEF Replaying, At, Reply
  <2>3. CASE /\ pipe' = <<>> /\ pipe[1].by = j /\ Waiting(j) /\ board = b
             /\ pipe[1].cmd = "play" /\ pipe[1].move = list[i]
    <3>1. IF Occupied(b, list[i].vertex) \/ list[i].vertex \in Forbidden
          THEN job'[j].reply = "error" /\ board' = b
          ELSE job'[j].reply = "ok" /\ board' = Append(b, list[i])
      BY <1>2, <2>3, Runs
    <3>2. CASE job'[j].reply = "error"
      <4>1. job'[j].reply \in Bad /\ job'[j].reply \notin {"none", "ok"}
        BY <3>2 DEF Bad
      <4> QED
        BY <1>2, <1>5, <1>6, <1>7, <2>3, <4>1 DEF Replaying, At, Reply
    <3>3. CASE job'[j].reply = "ok" /\ board' = Append(b, list[i]) /\ ~Occupied(b, list[i].vertex)
      BY <1>2, <1>5, <1>6, <1>7, <1>8, <2>3, <3>3 DEF Replaying, At, Reply, Done
    <3> QED
      BY <3>1, <3>2, <3>3
  <2> QED
    BY <1>2, <1>6, <1>10, <2>1, <2>2, <2>3, WaitsFor DEF Sending
<1> QED
    BY <1>6, <1>10

\* The engine carries out a command of the load that sets it up.
LEMMA OpeningRuns ==
    ASSUME Types, Discipline, Engine, Last, Opening
    PROVE  Opening'
<1>1. PICK j : j = loadingJob
    OBVIOUS
<1>2. /\ j \in Jobs /\ j \in Loads /\ loadingJob' = j /\ job[j].cancelled = FALSE
    BY <1>1, JobNumbers, Executes DEF Last
<1>3. /\ alive /\ alive' = alive /\ pipe # <<>> /\ moves' = <<>> /\ gameActive' = FALSE
      /\ \A k \in Jobs : Stays(k)
    BY Executes DEF Opening, flags, Types
<1>4. /\ HandlersOff /\ job[j].pc \in {"io", "setup", "retry"} /\ job[j].list \in Saves
      /\ job[j].pc = "setup" =>
           /\ job[j].reply \in {"none", "ok"} \cup Bad
           /\ job[j].reply = "none" => pipe = <<Cmd(j, "setup", NoMove)>>
           /\ job[j].reply # "ok"
    BY <1>1, <1>3 DEF Opening, At, Reply, Done
<1>5. HandlersOff'
    BY <1>3, <1>4, JobNumbers DEF HandlersOff, Stays
<1>6. job'[j].pc = job[j].pc /\ job'[j].list = job[j].list
    BY <1>2, <1>3 DEF Stays
<1>7. CASE job[j].pc # "setup"
    BY <1>2, <1>3, <1>4, <1>5, <1>6, <1>7 DEF Opening, At, Reply
<1>8. CASE job[j].pc = "setup" /\ job[j].reply \in Bad
  <2>1. ~Waiting(j) /\ job[j].reply \notin {"none", "ok"}
    BY <1>8 DEF Waiting, Bad
  <2>2. job'[j].reply = job[j].reply
    BY <1>2, <2>1, Executes
  <2> QED
    BY <1>2, <1>3, <1>4, <1>5, <1>6, <1>8, <2>1, <2>2 DEF Opening, At, Reply
<1>9. CASE job[j].pc = "setup" /\ job[j].reply = "none"
  <2>1. pipe = <<Cmd(j, "setup", NoMove)>>
    BY <1>4, <1>9
  <2>2. /\ pipe[1].by = j /\ pipe[1].cmd = "setup" /\ Waiting(j) /\ pipe' = <<>>
    <3>1. pipe[1] = Cmd(j, "setup", NoMove) /\ Len(pipe) = 1
      BY <2>1
    <3>2. pipe' = <<>>
      BY <2>1, Executes
    <3> QED
      BY <1>9, <3>1, <3>2 DEF Cmd, Waiting, Sending
  <2>3. job'[j].reply = "ok" /\ board' = <<>> /\ OthersResumed
    BY <1>2, <2>2, Runs
  <2>4. \A k \in Jobs : job[k].cancelled = FALSE
    BY <2>3 DEF OthersResumed, Types, JobType, JobRec
  <2>5. \A k \in Loads : k # j => job[k].pc = "off"
    BY <1>1, <2>4, JobNumbers DEF Discipline
  <2>6. Alone(j)'
    BY <1>2, <1>3, <1>4, <2>5 DEF Alone, Stays, HandlersOff, Jobs
  <2> QED
    BY <1>2, <1>3, <1>4, <1>5, <1>6, <1>9, <2>2, <2>3, <2>6 DEF Opening, At, Reply, Done
<1> QED
    BY <1>4, <1>7, <1>8, <1>9

\* What the engine does is no step of the game: the stage stays.
LEMMA EngineStage ==
    ASSUME Types, Discipline, Stage, Engine
    PROVE  Stage' /\ GameStep
<1>1. /\ \A k \in Jobs : Stays(k)
      /\ alive /\ pipe # <<>>
      /\ UNCHANGED <<moves, engineColor, loadingJob>>
      /\ gameActive' = gameActive /\ engineBusy' = engineBusy /\ replayingSave' = replayingSave
    BY Executes DEF flags
<1>2. Last'
    BY <1>1, JobNumbers DEF Stage, Last, Stays
<1>3. CASE Opening
    BY <1>1, <1>2, <1>3, OpeningRuns DEF Stage, GameStep, GoesOn
<1>4. CASE Replaying
    BY <1>1, <1>2, <1>4, ReplayingRuns DEF Stage, GameStep, GoesOn
<1>5. CASE HumanTurn
    BY <1>1, <1>5 DEF HumanTurn, Done
<1>6. CASE EngineTurn
  <2>1. PICK j \in Jobs : job[j].cancelled = FALSE /\ Alone(j) /\ TurnOf(j)
    BY <1>6 DEF EngineTurn
  <2>2. job'[j].cancelled = FALSE /\ Alone(j)'
    BY <1>1, <2>1 DEF Stays, Alone
  <2>3. TurnOf(j)'
    BY <2>1, MovingRuns, UndoingRuns, AskingRuns, SyncingRuns, ScoringRuns DEF TurnOf
  <2>4. EngineTurn'
    BY <1>1, <1>6, <2>2, <2>3 DEF EngineTurn
  <2> QED
    BY <1>1, <1>2, <1>6, <2>4 DEF Stage, GameStep, GoesOn
<1>7. CASE Over
  <2>1. HandlersOff' /\ job'[loadingJob'].pc = "off"
    BY <1>1, <1>7, JobNumbers DEF Over, HandlersOff, Stays, Stage, Last
  <2>2. NobodyOn' \/ moves' = <<>>
    BY <1>1, <1>7 DEF Over, NobodyOn, Stays
  <2>3. Over'
    BY <1>1, <1>7, <2>1, <2>2 DEF Over
  <2> QED
    BY <1>1, <1>2, <1>7, <2>3 DEF Stage, GameStep, Closes
<1> QED
    BY <1>3, <1>4, <1>5, <1>6, <1>7 DEF Stage

\* The engine dies: whoever waits is told so, and the stage stays.
LEMMA DiesStage ==
    ASSUME Types, Discipline, Stage, EngineDies
    PROVE  Stage' /\ GameStep
<1>1. /\ \A k \in Jobs : Stays(k)
      /\ \A k \in Jobs : job'[k].reply = IF job[k].pc \in Sending /\ job[k].reply = "none"
                                      THEN "gone" ELSE job[k].reply
      /\ alive' = FALSE
    BY StoppedForAll DEF EngineDies
<1>2. /\ UNCHANGED <<moves, engineColor, loadingJob>>
      /\ gameActive' = gameActive /\ engineBusy' = engineBusy /\ replayingSave' = replayingSave
    BY DEF EngineDies, flags
<1>3. Last' /\ loadingJob \in Jobs
    BY <1>1, <1>2, JobNumbers DEF Stage, Last, Stays
<1>4. currentPlayer' = currentPlayer
    BY <1>2 DEF currentPlayer
<1>5. \A k \in Jobs : job'[k].pc = job[k].pc
    BY <1>1 DEF Stays
<1>6. CASE Opening
  <2>1. PICK l : l = loadingJob
    OBVIOUS
  <2>2. /\ ~gameActive' /\ moves' = <<>> /\ HandlersOff'
        /\ job'[l].pc \in {"io", "setup", "retry"} /\ job'[l].list \in Saves
    BY <1>1, <1>2, <1>3, <1>6, <2>1, JobNumbers DEF Opening, HandlersOff, Stays
  <2>3. job'[l].pc = "setup" => job'[l].reply \in {"ok"} \cup Bad /\ (job'[l].reply = "ok" => Alone(l))
    BY <1>1, <1>3, <1>5, <1>6, <2>1 DEF Opening, At, Reply, Bad, Sending
  <2>4. Alone(l) => Alone(l)'
    BY <1>5 DEF Alone
  <2>5. \A r \in {"ok"} \cup Bad : r # "none"
    BY DEF Bad
  <2>6. Opening'
    BY <1>1, <1>2, <2>1, <2>2, <2>3, <2>4, <2>5 DEF Opening, At, Reply
  <2> QED
    BY <1>2, <1>3, <1>6, <2>6 DEF Stage, GameStep, GoesOn
<1>7. CASE Replaying
  <2>1. PICK l : l = loadingJob
    OBVIOUS
  <2>2. Alone(l)'
    BY <1>5, <1>7, <2>1 DEF Replaying, Alone
  <2>3. job'[l].reply \in {"ok"} \cup Bad /\ (job'[l].reply = "ok" => job[l].reply = "ok")
    BY <1>1, <1>3, <1>7, <2>1 DEF Replaying, At, Reply, Bad, Sending
  <2>4. job'[l].pc = "replay" /\ job'[l].list = job[l].list /\ job'[l].i = job[l].i
    BY <1>1, <1>3, <1>7, <2>1 DEF Replaying, At, Stays
  <2>5. Replaying'
    BY <1>1, <1>2, <1>7, <2>1, <2>2, <2>3, <2>4 DEF Replaying, At, Reply
  <2> QED
    BY <1>2, <1>3, <1>7, <2>5 DEF Stage, GameStep, GoesOn
<1>8. CASE HumanTurn
  <2>1. HumanTurn'
    BY <1>1, <1>2, <1>4, <1>5, <1>8 DEF HumanTurn, NobodyOn
  <2> QED
    BY <1>2, <1>3, <1>8, <2>1 DEF Stage, GameStep, GoesOn
<1>9. CASE EngineTurn
  <2>1. PICK j \in Jobs : job[j].cancelled = FALSE /\ Alone(j) /\ TurnOf(j)
    BY <1>9 DEF EngineTurn
  <2>2. job'[j].cancelled = FALSE /\ Alone(j)'
    BY <1>1, <1>5, <2>1 DEF Stays, Alone
  <2>3. /\ job'[j].pc = job[j].pc /\ job'[j].list = job[j].list /\ job'[j].i = job[j].i
        /\ job'[j].reply = job[j].reply \/ (job[j].reply = "none" /\ job'[j].reply = "gone")
    BY <1>1, <1>5 DEF Stays
  <2>4. TurnOf(j)'
    <3>1. CASE Moving(j)
      <4>1. job'[j].reply \in {"none", "ok", "error", "gone"} /\ (job'[j].pc = "pass" => job'[j].reply # "error")
        BY <2>3, <3>1 DEF Moving, At, Reply
      <4> QED
        BY <1>1, <1>2, <1>4, <2>3, <3>1, <4>1 DEF Moving, TurnOf, At, Reply
    <3>2. CASE Undoing(j)
      BY <1>1, <1>2, <1>4, <2>3, <3>2 DEF Undoing, TurnOf, At, Reply
    <3>3. CASE Asking(j)
      BY <1>1, <1>2, <1>4, <2>3, <3>3 DEF Asking, TurnOf, At, Reply
    <3>4. CASE Syncing(j)
      BY <1>1, <1>2, <1>4, <2>3, <3>4 DEF Syncing, TurnOf, At, Reply
    <3>5. CASE Scoring(j)
      BY <1>1, <2>3, <3>5 DEF Scoring, TurnOf, At, Reply
    <3> QED
      BY <2>1, <3>1, <3>2, <3>3, <3>4, <3>5 DEF TurnOf
  <2>5. EngineTurn'
    BY <1>2, <1>9, <2>2, <2>4 DEF EngineTurn
  <2> QED
    BY <1>2, <1>3, <1>9, <2>5 DEF Stage, GameStep, GoesOn
<1>10. CASE Over
  <2>1. Over'
    BY <1>2, <1>3, <1>5, <1>10, JobNumbers DEF Over, HandlersOff, NobodyOn
  <2> QED
    BY <1>2, <1>3, <1>10, <2>1 DEF Stage, GameStep, Closes
<1> QED
    BY <1>6, <1>7, <1>8, <1>9, <1>10 DEF Stage

\* A wait times out, and the game is still sound: the command is left over.
LEMMA TimeOutStage ==
    ASSUME Types, Types', Discipline, Stage, sound', NEW j \in Jobs, TimeOut(j)
    PROVE  Stage' /\ GameStep
<1>1. /\ UNCHANGED <<moves, engineColor, loadingJob, alive, board>>
      /\ gameActive' = gameActive /\ engineBusy' = engineBusy /\ replayingSave' = replayingSave
      /\ job[j].pc \in {"setup", "genmove", "regenmove", "clear", "score"}
    BY DEF TimeOut, flags
<1>2. /\ job[j].pc \in Sending /\ job[j].reply = "none" /\ job'[j].reply = "timeout"
      /\ job'[j].pc = job[j].pc /\ job'[j].cancelled = job[j].cancelled
      /\ job'[j].list = job[j].list /\ job'[j].i = job[j].i
      /\ \A k \in Jobs \ {j} : job'[k] = job[k]
      /\ Len(pipe') = Len(pipe)
      /\ \A k \in 1..Len(pipe) :
           /\ pipe'[k].cmd = pipe[k].cmd /\ pipe'[k].move = pipe[k].move
           /\ pipe'[k].by = IF pipe[k].by = j THEN NoJob ELSE pipe[k].by
    BY TimesOut DEF Types
<1>3. Last' /\ loadingJob \in Jobs
    BY <1>1, <1>2, JobNumbers DEF Stage, Last
<1>4. currentPlayer' = currentPlayer
    BY <1>1 DEF currentPlayer
<1>5. \A k \in Jobs : job'[k].pc = job[k].pc
    BY <1>2
<1>6. pipe \in Seq(Commands) /\ pipe' \in Seq(Commands) /\ Len(pipe) \in Nat
    BY DEF Types, WireType
<1>7. CASE Opening
  <2>1. PICK l : l = loadingJob
    OBVIOUS
  <2>2. /\ ~gameActive' /\ moves' = <<>> /\ HandlersOff'
        /\ job'[l].pc \in {"io", "setup", "retry"} /\ job'[l].list \in Saves
    BY <1>1, <1>2, <1>3, <1>5, <1>7, <2>1, JobNumbers DEF Opening, HandlersOff
  <2>3. CASE j = l
    <3>1. "timeout" \in Bad
      BY DEF Bad
    <3> QED
      BY <1>1, <1>2, <1>3, <1>7, <2>1, <2>2, <2>3, <3>1 DEF Opening, At, Reply, Stage, GameStep, GoesOn
  <2>4. CASE j # l
    <3>1. job'[l] = job[l] /\ ~Alone(l)
      BY <1>1, <1>2, <1>3, <2>1, <2>4 DEF Alone
    <3>2. /\ job[l].pc = "setup" => job[l].reply \in {"none", "ok"} \cup Bad
          /\ job[l].pc = "setup" /\ job[l].reply = "none" => alive /\ pipe = <<Cmd(l, "setup", NoMove)>>
          /\ job[l].pc = "setup" => job[l].reply # "ok"
      BY <1>7, <2>1, <3>1 DEF Opening, At, Reply
    <3>3. pipe = <<Cmd(l, "setup", NoMove)>> => pipe' = <<Cmd(l, "setup", NoMove)>>
      <4>1. SUFFICES ASSUME pipe = <<Cmd(l, "setup", NoMove)>> PROVE pipe' = <<Cmd(l, "setup", NoMove)>>
        OBVIOUS
      <4>2. Len(pipe') = 1 /\ pipe[1] = Cmd(l, "setup", NoMove) /\ 1 \in 1..Len(pipe)
        BY <1>2, <4>1
      <4>3. pipe'[1] \in Commands
        BY <1>6, <4>2
      <4>4. pipe'[1].by = l /\ pipe'[1].cmd = "setup" /\ pipe'[1].move = NoMove
        BY <1>2, <2>4, <4>2 DEF Cmd
      <4>5. pipe'[1] = Cmd(l, "setup", NoMove)
        BY <4>3, <4>4 DEF Cmd, Commands
      <4> QED
        BY <1>6, <4>2, <4>5
    <3>4. Opening'
      BY <1>1, <2>1, <2>2, <3>1, <3>2, <3>3 DEF Opening, At, Reply
    <3> QED
      BY <1>1, <1>3, <1>7, <3>4 DEF Stage, GameStep, GoesOn
  <2> QED
    BY <2>3, <2>4
<1>8. ~Replaying
    BY <1>1 DEF Replaying, Alone, At
<1>9. ~HumanTurn
    BY <1>1 DEF HumanTurn, NobodyOn
<1>10. CASE EngineTurn
  <2>1. Alone(j) /\ TurnOf(j) /\ job[j].cancelled = FALSE
    BY <1>1, <1>10 DEF EngineTurn, Alone
  <2>2. job'[j].cancelled = FALSE /\ Alone(j)'
    BY <1>2, <1>5, <2>1 DEF Alone
  <2>3. ASSUME NEW cmd, NEW m, pipe # <<>>, pipe[Len(pipe)] = Cmd(j, cmd, m),
               \A k \in 1..Len(pipe) - 1 : pipe[k].by = NoJob
        PROVE  Leftovers' /\ pipe' # <<>> /\ pipe'[Len(pipe')].cmd = cmd
    <3>1. Len(pipe) \in 1..Len(pipe) /\ pipe[Len(pipe)].by = j /\ pipe[Len(pipe)].cmd = cmd
      BY <1>6, <2>3, EmptySeq DEF Cmd
    <3>2. \A k \in 1..Len(pipe) : pipe[k].by \in {NoJob, j}
      BY <1>6, <2>3, <3>1
    <3>3. Leftovers'
      BY <1>2, <3>2 DEF Leftovers
    <3> QED
      BY <1>2, <1>6, <3>1, <3>3, EmptySeq
  <2>4. TurnOf(j)'
    <3>1. CASE Moving(j) \/ Undoing(j)
      BY <1>1, <3>1 DEF Moving, Undoing
    <3>2. CASE Asking(j)
      <4>1. alive => Leftovers'
        BY <1>2, <2>3, <3>2 DEF Asking, Queued, Reply
      <4>2. "timeout" \notin Points \cup {Pass}
        BY GameAssumption DEF Pass
      <4> QED
        BY <1>1, <1>2, <1>4, <3>2, <4>1, <4>2 DEF Asking, TurnOf, At, Reply
    <3>3. CASE Syncing(j)
      <4>1. job[j].pc = "clear"
        BY <1>1, <3>3 DEF Syncing, At
      <4>2. alive => Leftovers' /\ pipe' # <<>> /\ pipe'[Len(pipe')].cmd = "clear"
        BY <1>2, <2>3, <3>3, <4>1 DEF Syncing, At, Reply
      <4> QED
        BY <1>1, <1>2, <1>4, <3>3, <4>1, <4>2 DEF Syncing, TurnOf, At, Reply
    <3>4. CASE Scoring(j)
      <4>1. alive => Leftovers'
        BY <1>2, <2>3, <3>4 DEF Scoring, Reply
      <4> QED
        BY <1>1, <1>2, <3>4, <4>1 DEF Scoring, TurnOf, At, Reply
    <3> QED
      BY <2>1, <3>1, <3>2, <3>3, <3>4 DEF TurnOf
  <2>5. EngineTurn'
    BY <1>1, <1>10, <2>2, <2>4 DEF EngineTurn
  <2> QED
    BY <1>1, <1>3, <1>10, <2>5 DEF Stage, GameStep, GoesOn
<1>11. CASE Over
  <2>1. Over'
    BY <1>1, <1>3, <1>5, <1>11, JobNumbers DEF Over, HandlersOff, NobodyOn
  <2> QED
    BY <1>1, <1>3, <1>11, <2>1 DEF Stage, GameStep, Closes
<1> QED
    BY <1>7, <1>8, <1>9, <1>10, <1>11 DEF Stage

----------------------------------------------------------------------------
(* The player in a sound game *)

\* A step that touches neither the boards nor the coroutines.
LEMMA IdleStage ==
    ASSUME Types, Stage,
           UNCHANGED <<moves, flags, engineColor, loadingJob, job, alive, board, pipe>>
    PROVE  Stage' /\ GameStep
<1>1. /\ UNCHANGED <<moves, engineColor, loadingJob, job, alive, board, pipe>>
      /\ gameActive' = gameActive /\ engineBusy' = engineBusy /\ replayingSave' = replayingSave
    BY DEF flags
<1> HIDE DEF flags
<1>2. Last'
    BY <1>1 DEF Last, Stage
<1>3. CASE Opening
  <2>1. Opening'
    BY <1>1, <1>3 DEF Opening, HandlersOff, At, Reply, Alone, Done
  <2> QED
    BY <1>1, <1>2, <1>3, <2>1 DEF Stage, GameStep, GoesOn
<1>4. CASE Replaying
  <2>1. Replaying'
    BY <1>1, <1>4 DEF Replaying, At, Reply, Alone, Done, Queued
  <2> QED
    BY <1>1, <1>2, <1>4, <2>1 DEF Stage, GameStep, GoesOn
<1>5. CASE HumanTurn
  <2>1. HumanTurn'
    BY <1>1, <1>5 DEF HumanTurn, NobodyOn, Done, currentPlayer
  <2> QED
    BY <1>1, <1>2, <1>5, <2>1 DEF Stage, GameStep, GoesOn
<1>6. CASE EngineTurn
  <2>1. PICK j \in Jobs : job[j].cancelled = FALSE /\ Alone(j) /\ TurnOf(j)
    BY <1>6 DEF EngineTurn
  <2>2. job'[j].cancelled = FALSE /\ Alone(j)'
    BY <1>1, <2>1 DEF Alone
  <2>3. TurnOf(j)'
    BY <1>1, <2>1 DEF TurnOf, Moving, Undoing, Asking, Syncing, Scoring, At, Reply, Done, Queued,
                      Leftovers, currentPlayer
  <2>4. EngineTurn'
    BY <1>1, <1>6, <2>2, <2>3 DEF EngineTurn
  <2> QED
    BY <1>1, <1>2, <1>6, <2>4 DEF Stage, GameStep, GoesOn
<1>7. CASE Over
  <2>1. Over'
    BY <1>1, <1>7 DEF Over, HandlersOff, NobodyOn
  <2> QED
    BY <1>1, <1>2, <1>7, <2>1 DEF Stage, GameStep, Closes
<1> QED
    BY <1>3, <1>4, <1>5, <1>6, <1>7 DEF Stage

\* Job j has sent the player's action, made on the board p, and waits.
TurnLaunched(j, cmd, pc, m, p) ==
    /\ job'[j].cancelled = FALSE /\ Alone(j)' /\ job'[j].pc = pc
    /\ job'[j].reply = IF alive THEN "none" ELSE "gone"
    /\ alive => Queued(Cmd(j, cmd, m), p)'

\* The player's action is sent to an engine whose board is the one on the screen.
LEMMA LaunchTurn ==
    ASSUME Types, Last, HumanTurn, UNCHANGED loadingJob, NEW cmd \in CmdNames, NEW pc \in Sending,
           NEW m \in Moves, NEW p, p = moves, Launch(cmd, pc, m)
    PROVE  /\ engineBusy' = TRUE /\ Last' /\ alive' = alive
           /\ \E j \in Jobs : TurnLaunched(j, cmd, pc, m, p)
<1>1. PICK j \in Handlers : job[j] = Off /\ engineBusy' = TRUE /\ Send(j, pc, cmd, m)
    BY Launches DEF Types
<1>2. j \in Jobs /\ job[j].cancelled = FALSE /\ Alone(j)
    BY <1>1, JobNumbers DEF HumanTurn, NobodyOn, Alone, Off
<1>3. alive => pipe = <<>> /\ board = p /\ Leftovers
    BY EmptySeq DEF HumanTurn, Done, Leftovers
<1>4. /\ Alone(j)' /\ Last' /\ job'[j].cancelled = FALSE /\ job'[j].pc = pc
      /\ job'[j].reply = IF alive THEN "none" ELSE "gone"
      /\ alive' = alive /\ board' = board
      /\ alive => /\ pipe' # <<>> /\ pipe'[Len(pipe')] = Cmd(j, cmd, m)
                  /\ \A k \in 1..Len(pipe') - 1 : pipe'[k].by = NoJob
                  /\ pipe = <<>> => Len(pipe') = 1
    BY <1>1, <1>2, <1>3, TurnSendsOne DEF TurnSent
<1>5. alive => Queued(Cmd(j, cmd, m), p)'
    BY <1>3, <1>4 DEF Queued
<1>6. TurnLaunched(j, cmd, pc, m, p)
    BY <1>4, <1>5 DEF TurnLaunched
<1> QED
    BY <1>1, <1>2, <1>4, <1>6

\* The player passes or plays.
LEMMA HumanMoves ==
    ASSUME Types, Types', Stage, HumanTurn, UNCHANGED <<engineColor, loadingJob, gameActive, replayingSave>>,
           NEW v \in Points \cup {Pass}, NEW pc \in {"play", "pass"}, pc = "pass" => v = Pass,
           moves' = Append(moves, [color |-> currentPlayer, vertex |-> v]),
           Launch("play", pc, [color |-> currentPlayer, vertex |-> v])
    PROVE  Stage' /\ GameStep
<1>1. PICK m : m = [color |-> currentPlayer, vertex |-> v]
    OBVIOUS
<1>2. PICK p : p = moves
    OBVIOUS
<1>3. /\ m \in Moves /\ m.vertex = v /\ p \in Seq(Moves) /\ moves' = Append(p, m) /\ engineColor \in Colors
      /\ ToMove(p) # engineColor /\ gameActive /\ ~replayingSave /\ Last
    BY <1>1, <1>2, BoardTypes DEF Types, currentPlayer, HumanTurn, Stage
<1>4. "play" \in CmdNames /\ pc \in Sending
    BY DEF CmdNames, Sending
<1>5. PICK j \in Jobs :
        /\ job'[j].cancelled = FALSE /\ Alone(j)' /\ job'[j].pc = pc
        /\ job'[j].reply = IF alive THEN "none" ELSE "gone"
        /\ alive => Queued(Cmd(j, "play", m), p)'
  <2>1. PICK j \in Jobs : TurnLaunched(j, "play", pc, m, p)
    BY <1>1, <1>2, <1>3, <1>4, LaunchTurn
  <2> QED
    BY <2>1 DEF TurnLaunched
<1>6. engineBusy' = TRUE /\ Last' /\ alive' = alive
    BY <1>1, <1>2, <1>3, <1>4, LaunchTurn
<1>7. currentPlayer' = engineColor'
  <2>1. ToMove(moves') # ToMove(p) /\ ToMove(moves') \in Colors /\ ToMove(p) \in Colors
    BY <1>3, TakeTurns DEF Types
  <2> QED
    BY <1>3, <2>1 DEF currentPlayer, Colors
<1>8. /\ moves' # <<>> /\ moves'[Len(moves')] = m /\ Popped(moves', 1) = p
  <2>1. Popped(Append(p, m), 1) = p
    BY <1>3, MovesBack
  <2>2. Append(p, m) # <<>> /\ Append(p, m)[Len(Append(p, m))] = m
    BY <1>3, AppendProperties, EmptySeq
  <2> QED
    BY <1>3, <2>1, <2>2
<1>9. Moving(j)'
    BY <1>3, <1>5, <1>6, <1>7, <1>8 DEF Moving, At, Reply
<1>10. EngineTurn'
    BY <1>3, <1>5, <1>6, <1>9 DEF EngineTurn, TurnOf
<1> QED
    BY <1>6, <1>10 DEF Stage, GameStep, HumanActs

\* The taps that leave a game sound, other than the start of one.
LEMMA TapStage ==
    ASSUME Types, Types', Stage, sound', Tap,
           ~ \E save \in Saves, color \in Colors : StartGame(save, color)
    PROVE  Stage' /\ GameStep
<1>1. Tappable /\ ~replayingSave => HumanTurn
    BY DEF Stage, Tappable, Opening, Replaying, EngineTurn, Over
<1>2. ASSUME NEW v \in Points, HumanPlay(v) PROVE Stage' /\ GameStep
    BY <1>1, <1>2, HumanMoves DEF HumanPlay
<1>3. CASE HumanPass
    BY <1>1, <1>3, HumanMoves DEF HumanPass, Pass
<1>4. CASE Undo
  <2>1. HumanTurn /\ UNCHANGED <<moves, engineColor, loadingJob, gameActive, replayingSave>>
    BY <1>1, <1>4 DEF Undo
  <2>2. PICK p : p = moves
    OBVIOUS
  <2>3. "undo" \in CmdNames /\ "undo" \in Sending /\ NoMove \in Moves /\ Last
    BY BoardTypes DEF CmdNames, Sending, Stage
  <2>4. Launch("undo", "undo", NoMove)
    BY <1>4 DEF Undo
  <2>5. PICK j \in Jobs :
          /\ job'[j].cancelled = FALSE /\ Alone(j)' /\ job'[j].pc = "undo"
          /\ job'[j].reply = IF alive THEN "none" ELSE "gone"
          /\ alive => Queued(Cmd(j, "undo", NoMove), p)'
    <3>1. PICK j \in Jobs : TurnLaunched(j, "undo", "undo", NoMove, p)
      BY <2>1, <2>2, <2>3, <2>4, LaunchTurn
    <3> QED
      BY <3>1 DEF TurnLaunched
  <2>6. engineBusy' = TRUE /\ Last' /\ alive' = alive
    BY <2>1, <2>2, <2>3, <2>4, LaunchTurn
  <2>7. Undoing(j)'
    BY <2>1, <2>2, <2>5, <2>6 DEF Undoing, HumanTurn, At, Reply, currentPlayer
  <2>8. EngineTurn'
    BY <2>1, <2>5, <2>6, <2>7 DEF EngineTurn, TurnOf, HumanTurn
  <2> QED
    BY <2>1, <2>6, <2>8 DEF Stage, GameStep, HumanActs
<1>5. CASE AskExit \/ Dismiss
    BY <1>5, IdleStage DEF AskExit, Dismiss
<1>6. ~NewGame /\ ~CancelLoading
    BY DEF NewGame, CancelLoading
<1> QED
    BY <1>2, <1>3, <1>4, <1>5, <1>6 DEF Tap

\* A new game, from the home screen or over a load that does not end.
LEMMA StartStage ==
    ASSUME Types, Types', Discipline, sound => Stage, sound',
           NEW save \in Saves, NEW color \in Colors, StartGame(save, color)
    PROVE  /\ Opening' /\ Last' /\ moves' = <<>>
           /\ sound => Opening \/ Over
<1>1. /\ loadingJob' = games + 1 /\ games + 1 \in Loads /\ job[games + 1].pc = "off"
      /\ job'[games + 1].pc = "io" /\ ~job'[games + 1].cancelled
      /\ job'[games + 1].list = save /\ job'[games + 1].reply = "none"
      /\ \A k \in Jobs \ {games + 1} : job'[k].pc = job[k].pc
    BY StartDisciplined
<1>2. /\ \A k \in Handlers : job[k].pc = "off"
      /\ ~gameActive /\ ~gameActive' /\ moves' = <<>>
    BY DEF StartGame, At
<1>3. HandlersOff'
    BY <1>1, <1>2, JobNumbers DEF HandlersOff
<1>4. Opening'
    BY <1>1, <1>2, <1>3 DEF Opening, At
<1>5. Last'
  <2>1. job'[games + 1].cancelled \in BOOLEAN
    BY <1>1, JobNumbers DEF Types, JobType, JobRec
  <2> QED
    BY <1>1, <2>1 DEF Last
<1>6. sound => Opening \/ Over
    BY <1>2 DEF Stage, Replaying, HumanTurn, EngineTurn
<1> QED
    BY <1>2, <1>4, <1>5, <1>6

\* The stage of a sound game from step to step: the game goes on, or another
\* one is opened.
LEMMA StageNext ==
    ASSUME Types, Types', Discipline, Discipline', sound => Stage, sound', [Next]_vars
    PROVE  /\ Stage'
           /\ \/ sound /\ Stage /\ GameStep
              \/ Opening' /\ moves' = <<>> /\ (sound => Opening \/ Over)
<1>1. ASSUME NEW save \in Saves, NEW color \in Colors, StartGame(save, color)
      PROVE  Stage' /\ Opening' /\ moves' = <<>> /\ (sound => Opening \/ Over)
    BY <1>1, StartStage DEF Stage
<1>2. CASE [Next]_vars /\ ~ \E save \in Saves, color \in Colors : StartGame(save, color)
  <2>1. sound
    <3>1. ASSUME NEW j \in Jobs, Resume(j) PROVE sound
      BY <3>1 DEF Resume, EngineMove, EngineMoved, EngineResigned, Resync, OutOfSync, Cleared, Synced,
                  SyncFailed, GiveUpGame, Scored, Load, EngineStarted, SetupFailed, Retry, SetUp,
                  Replayed, ReplayFailed, LoadCancelled, MoveCancelled, Handle, MoveRefused,
                  MoveAccepted, Passed, UndoneOnce, Undone
    <3>2. ASSUME NEW j \in Jobs, TimeOut(j) PROVE sound
      BY <3>2 DEF TimeOut
    <3>3. CASE Engine
      BY <3>3, Executes
    <3>4. CASE EngineDies
      BY <3>4 DEF EngineDies
    <3>5. CASE Tap
      BY <1>2, <3>5 DEF Tap, HumanPlay, HumanPass, Undo, AskExit, Dismiss, NewGame, CancelLoading
    <3>6. CASE UNCHANGED vars
      BY <3>6 DEF vars
    <3> QED
      BY <1>2, <3>1, <3>2, <3>3, <3>4, <3>5, <3>6 DEF Next
  <2>2. Stage
    BY <2>1
  <2>3. ASSUME NEW j \in Jobs, Resume(j) \/ TimeOut(j) PROVE Stage' /\ GameStep
    BY <2>2, <2>3, EngineMoveStage, LoadStage, HandleStage, TimeOutStage DEF Resume
  <2>4. ASSUME Engine PROVE Stage' /\ GameStep
    BY <2>2, <2>4, EngineStage
  <2>5. ASSUME EngineDies PROVE Stage' /\ GameStep
    BY <2>2, <2>5, DiesStage
  <2>6. ASSUME Tap PROVE Stage' /\ GameStep
    BY <1>2, <2>2, <2>6, TapStage
  <2>7. ASSUME UNCHANGED vars PROVE Stage' /\ GameStep
    BY <2>2, <2>7, IdleStage DEF vars
  <2> QED
    BY <1>2, <2>1, <2>2, <2>3, <2>4, <2>5, <2>6, <2>7 DEF Next
<1> QED
    BY <1>1, <1>2

----------------------------------------------------------------------------
(* The theorems *)

\* Init of GameFlow.
LEMMA InitIInv == Init => IInv
<1> SUFFICES ASSUME Init PROVE IInv
    OBVIOUS
<1>1. Off \in JobRec /\ Off.pc = "off" /\ Off.cancelled = FALSE
    BY DEF Off, JobRec
<1>2. job \in [Jobs -> JobRec] /\ \A j \in Jobs : job[j] = Off
    BY <1>1 DEF Init
<1>3. WireType
  <2>1. <<>> \in Seq(Moves) /\ <<>> \in Seq(Commands)
    OBVIOUS
  <2> QED
    BY <2>1, Zenon DEF Init, WireType
<1>4. /\ moves \in Seq(Moves) /\ 0 \in 0..MaxGames /\ 0 \in 0..MaxFailures
    BY GameAssumption DEF Init
<1>5. Types
    BY <1>2, <1>3, <1>4 DEF Init, Types, JobType
<1>6. Discipline
  <2>1. Loads \subseteq Nat /\ NoJob = 0
    BY JobNumbers DEF Loads, NoJob
  <2> QED
    BY <1>1, <1>2, <2>1, JobNumbers DEF Init, Discipline
<1> QED
    BY <1>5, <1>6 DEF Init, IInv

LEMMA IInvNext == IInv /\ [Next]_vars => IInv'
<1> SUFFICES ASSUME Types, Discipline, sound => Stage, [Next]_vars PROVE IInv'
    BY DEF IInv
<1>1. Types'
    BY TypesNext
<1>2. Discipline'
    BY <1>1, DisciplineNext
<1>3. sound' => Stage'
    BY <1>1, <1>2, StageNext
<1> QED
    BY <1>1, <1>2, <1>3 DEF IInv

\* The invariant of the coroutines of MainActivity.kt that run a game: which of
\* them may be on, what each waits for, and how far the engine's board is.
THEOREM Invariance == Spec => []IInv
BY InitIInv, IInvNext, PTL DEF Spec

\* The state of MainActivity.kt that the game is made of has its types.
THEOREM TypeCorrectness == Spec => []TypeOK
<1>1. IInv => TypeOK
    BY DEF IInv, Types, JobType, WireType, JobRec, Commands, CmdNames, TypeOK
<1> QED
    BY <1>1, Invariance, PTL

\* When the player may move it is the player's turn, and the board of the
\* engine is the one on the screen: no end of humanPlay(), humanPass(), undo(),
\* engineMove() or startGame() leaves the two apart.
THEOREM BoardsInSync == Spec => []InSync
<1>1. IInv => InSync
    BY DEF IInv, Stage, Opening, Replaying, HumanTurn, EngineTurn, Over, InSync, Done
<1> QED
    BY <1>1, Invariance, PTL

\* A command at the head of the pipe, for somebody, is the one its stage waits for.
LEMMA HeadOf ==
    ASSUME Types, NEW c, pipe # <<>>, pipe[Len(pipe)] = c,
           \A k \in 1..Len(pipe) - 1 : pipe[k].by = NoJob, Head(pipe).by # NoJob
    PROVE  Len(pipe) = 1 /\ Head(pipe) = c
<1>1. Len(pipe) \in Nat \ {0} /\ Head(pipe) = pipe[1]
    BY Heads DEF Types, WireType
<1>2. 1 \notin 1..Len(pipe) - 1
    BY <1>1
<1>3. Len(pipe) = 1
  <2>1. \A n \in Nat \ {0} : 1 \notin 1..n - 1 => n = 1
    OBVIOUS
  <2> QED
    BY <1>1, <1>2, <2>1
<1> QED
    BY <1>1, <1>3

\* genmove reaches the engine on the board of the player and in the engine's
\* turn: engineMove() asks nobody else's question, in whatever order the
\* coroutines, the refused moves and the resynchronisation came before.
THEOREM EngineAskedInItsTurn == Spec => []AskedInItsTurn
<1>1. IInv => AskedInItsTurn
  <2> SUFFICES ASSUME Types, Discipline, Stage, gameActive, pipe # <<>>,
                      Head(pipe).cmd = "genmove", Head(pipe).by # NoJob
               PROVE  board = moves /\ currentPlayer = engineColor
    BY DEF IInv, AskedInItsTurn
  <2>1. alive
    BY DEF Discipline
  <2>2. ~Leftovers
    <3>1. Len(pipe) \in Nat \ {0} /\ Head(pipe) = pipe[1]
      BY Heads DEF Types, WireType
    <3> QED
      BY <3>1 DEF Leftovers
  <2>3. ASSUME NEW j, NEW cmd, NEW m, NEW b, Queued(Cmd(j, cmd, m), b)
        PROVE  cmd = "genmove" /\ board = b
    <3>1. Len(pipe) = 1 /\ Head(pipe) = Cmd(j, cmd, m)
      BY <2>3, HeadOf DEF Queued
    <3> QED
      BY <2>3, <3>1 DEF Queued, Cmd
  <2>4. ~Opening /\ ~Over
    BY DEF Opening, Over
  <2>5. ~Replaying
    BY <2>1, <2>3 DEF Replaying
  <2>6. ~HumanTurn
    BY <2>1 DEF HumanTurn, Done
  <2>7. PICK j \in Jobs : TurnOf(j)
    BY <2>4, <2>5, <2>6 DEF Stage, EngineTurn
  <2>8. ~Moving(j)
    BY <2>1, <2>3 DEF Moving, Done
  <2>9. ~Undoing(j)
    BY <2>1, <2>3 DEF Undoing, Done
  <2>10. ASSUME NEW cmd, NEW m, pipe[Len(pipe)] = Cmd(j, cmd, m), \A k \in 1..Len(pipe) - 1 : pipe[k].by = NoJob
         PROVE  cmd = "genmove"
    BY <2>10, HeadOf DEF Cmd
  <2>11. ~Syncing(j)
    <3>1. CASE At(j, "clear")
      BY <2>1, <2>2, <2>10, <3>1 DEF Syncing, At
    <3>2. CASE At(j, "sync")
      BY <2>1, <2>2, <2>3, <3>2 DEF Syncing, At
    <3> QED
      BY <3>1, <3>2 DEF Syncing
  <2>12. ~Scoring(j)
    BY <2>1, <2>2, <2>10 DEF Scoring
  <2>13. Asking(j)
    BY <2>7, <2>8, <2>9, <2>11, <2>12 DEF TurnOf
  <2> QED
    BY <2>1, <2>2, <2>3, <2>13 DEF Asking
<1> QED
    BY <1>1, Invariance, PTL

----------------------------------------------------------------------------
(* The coroutines carry out the game of Game.tla *)

\* In a saved game black and white take turns.  GameSaveStore writes board.moves:
\* it is so of every save but those of a game in which the player passed during
\* a replay.
SavesAlternate ==
    \A save \in Saves : \A k \in 1..Len(save) :
        save[k].color = IF (k - 1) % 2 = 0 THEN "B" ELSE "W"

\* The phase of Game.tla that each stage is.
PhaseOfStages ==
    /\ ~sound => phase = "home"
    /\ sound => Stage
    /\ sound /\ (Opening \/ Replaying) => phase = "opening"
    /\ sound /\ HumanTurn => phase = "human"
    /\ sound /\ EngineTurn => phase = "engine"
    /\ sound /\ Over => phase = IF replayingSave THEN "opening" ELSE "home"
    /\ (Over /\ replayingSave) \/ Opening => moves = <<>>

LEMMA Phases == IInv => PhaseOfStages
<1> SUFFICES ASSUME IInv PROVE PhaseOfStages
    OBVIOUS
<1>1. /\ Types /\ Discipline /\ (sound => Stage)
      /\ sound \in BOOLEAN /\ gameActive \in BOOLEAN /\ replayingSave \in BOOLEAN
    BY DEF IInv, Types
<1>2. sound => loadingJob \in Loads /\ loadingJob # NoJob
    BY <1>1, JobNumbers DEF Stage, Last
<1>3. ~sound => phase = "home"
    BY <1>1 DEF phase
<1>4. ASSUME sound, Opening PROVE phase = "opening"
  <2>1. Loading(loadingJob)
    BY <1>4 DEF Opening, Loading
  <2>2. ~gameActive
    BY <1>4 DEF Opening
  <2> QED
    BY <1>1, <1>2, <1>4, <2>1, <2>2 DEF phase
<1>5. ASSUME sound, Replaying PROVE phase = "opening"
  <2>1. replayingSave
    BY <1>5 DEF Replaying
  <2> QED
    BY <1>1, <1>5, <2>1 DEF phase
<1>6. ASSUME sound, HumanTurn PROVE phase = "human"
  <2>1. gameActive /\ ~engineBusy /\ ~replayingSave
    BY <1>6 DEF HumanTurn
  <2> QED
    BY <1>1, <1>6, <2>1 DEF phase
<1>7. ASSUME sound, EngineTurn PROVE phase = "engine"
  <2>1. gameActive /\ engineBusy /\ ~replayingSave
    BY <1>7 DEF EngineTurn
  <2> QED
    BY <1>1, <1>7, <2>1 DEF phase
<1>8. ASSUME sound, Over PROVE phase = IF replayingSave THEN "opening" ELSE "home"
  <2>1. ~gameActive /\ ~Loading(loadingJob)
    BY <1>8 DEF Over, Loading
  <2>2. CASE replayingSave
    BY <1>1, <1>8, <2>2 DEF phase
  <2>3. CASE ~replayingSave
    BY <1>1, <1>8, <2>1, <2>3 DEF phase
  <2> QED
    BY <1>1, <2>2, <2>3
<1>9. Over /\ replayingSave => moves = <<>>
    BY <1>1 DEF Over, NobodyOn, Discipline
<1>10. Opening => moves = <<>>
    BY DEF Opening
<1> QED
    BY <1>1, <1>3, <1>4, <1>5, <1>6, <1>7, <1>8, <1>9, <1>10 DEF PhaseOfStages

LEMMA PhasesNext == IInv' => PhaseOfStages'
BY Phases, PTL

\* The moves that Game.tla adds and takes back.
LEMMA Positions ==
    ASSUME NEW p \in Seq(Moves)
    PROVE  /\ \A m \in Moves : m.color = ToMove(p) => Abstract!Extends(p, Append(p, m))
           /\ Abstract!Shortens(p, Popped(p, 1), 1) /\ Abstract!Shortens(p, Popped(p, 2), 2)
           /\ Abstract!ToMove(p) = ToMove(p)
<1>1. ASSUME NEW m \in Moves, m.color = ToMove(p) PROVE Abstract!Extends(p, Append(p, m))
  <2>1. /\ Len(Append(p, m)) = Len(p) + 1 /\ Append(p, m)[Len(p) + 1] = m
        /\ Append(p, m) \in Seq(Moves) /\ Len(p) \in Nat
    BY AppendProperties
  <2>2. SubSeq(Append(p, m), 1, Len(p)) = p
    <3>1. Popped(Append(p, m), 1) = p
      BY MovesBack
    <3>2. CASE p = <<>>
      BY <2>1, <3>2, SubSeqProperties, EmptySeq
    <3>3. CASE p # <<>>
      <4>1. 1 < Len(Append(p, m)) /\ Len(Append(p, m)) - 1 = Len(p)
        BY <2>1, <3>3, EmptySeq
      <4> QED
        BY <3>1, <4>1 DEF Popped
    <3> QED
      BY <3>2, <3>3
  <2> QED
    BY <1>1, <2>1, <2>2 DEF Abstract!Extends, Abstract!ToMove, ToMove
<1>2. Abstract!Shortens(p, Popped(p, 1), 1) /\ Abstract!Shortens(p, Popped(p, 2), 2)
    BY DEF Abstract!Shortens, Popped
<1> QED
    BY <1>1, <1>2 DEF Abstract!ToMove, ToMove

\* A sound game that goes on takes a step of Game.tla, or none.
LEMMA StepImplements ==
    ASSUME SavesAlternate, Types, Types', PhaseOfStages, PhaseOfStages', sound, sound', GameStep
    PROVE  [Abstract!GameNext]_(Abstract!gameVars)
<1> DEFINE position == IF phase = "home" THEN <<>> ELSE moves
           engine   == IF phase = "home" THEN "none" ELSE engineColor
           q        == IF phase' = "home" THEN <<>> ELSE moves'
           e        == IF phase' = "home" THEN "none" ELSE engineColor'
<1>1. /\ moves \in Seq(Moves) /\ moves' \in Seq(Moves) /\ engineColor \in Colors
      /\ ToMove(moves) \in Colors /\ Abstract!ToMove(moves) = ToMove(moves)
      /\ ToMove(moves') \in Colors /\ Abstract!ToMove(moves') = ToMove(moves')
    BY TakeTurns, Positions DEF Types
<1>2. /\ Opening \/ Replaying => phase = "opening"
      /\ HumanTurn => phase = "human"
      /\ EngineTurn => phase = "engine"
      /\ Over => phase = IF replayingSave THEN "opening" ELSE "home"
      /\ (Over /\ replayingSave) \/ Opening => moves = <<>>
    BY DEF PhaseOfStages
<1>3. /\ Opening' \/ Replaying' => phase' = "opening"
      /\ HumanTurn' => phase' = "human"
      /\ EngineTurn' => phase' = "engine"
      /\ Over' => phase' = IF replayingSave' THEN "opening" ELSE "home"
      /\ (Over' /\ replayingSave') \/ Opening' => moves' = <<>>
    BY DEF PhaseOfStages
<1>4. HumanTurn' => currentPlayer' # engineColor'
    BY DEF HumanTurn
<1>5. currentPlayer = ToMove(moves) /\ currentPlayer' = ToMove(moves')
    BY DEF currentPlayer
<1>6. ASSUME phase # "home", phase' # "home", engineColor' = engineColor
      PROVE  position = moves /\ q = moves' /\ engine = engineColor /\ e = engineColor
    BY <1>6
<1>7. ASSUME engineColor' = engineColor, HumanTurn' \/ (EngineTurn' /\ currentPlayer' = engineColor)
      PROVE  phase' = Abstract!Owner(moves', engineColor)
    BY <1>1, <1>3, <1>4, <1>5, <1>7 DEF Abstract!Owner
<1>8. CASE GoesOn
    BY <1>2, <1>3, <1>8 DEF GoesOn, Abstract!gameVars
<1>9. CASE Closes
  <2>1. UNCHANGED engineColor /\ Over'
    BY <1>9 DEF Closes
  <2>2. CASE phase' = "home" /\ phase # "home"
    BY <2>2 DEF Abstract!GameNext, Abstract!Leave
  <2>3. CASE phase' = "home" /\ phase = "home"
    BY <2>3 DEF Abstract!gameVars
  <2>4. CASE phase' # "home"
    <3>1. replayingSave' /\ phase' = "opening" /\ moves' = <<>>
      BY <1>3, <2>1, <2>4
    <3>2. ~EngineTurn \/ ~replayingSave
      BY DEF EngineTurn
    <3>3. phase = "opening" /\ moves = <<>>
      BY <1>2, <1>9, <3>1, <3>2 DEF Closes
    <3> QED
      BY <2>1, <3>1, <3>3 DEF Abstract!gameVars
  <2> QED
    BY <2>2, <2>3, <2>4
<1>10. CASE Begins
  <2>1. phase = "opening" /\ moves' = moves /\ engineColor' = engineColor
    BY <1>2, <1>10 DEF Begins
  <2>2. phase' = Abstract!Owner(moves, engineColor) /\ phase' # "home"
    BY <1>3, <1>7, <1>10, <2>1 DEF Begins
  <2> QED
    BY <2>1, <2>2 DEF Abstract!GameNext, Abstract!Begin
<1>11. CASE PutsBack
  <2> DEFINE s == job[loadingJob].list   i == job[loadingJob].i
  <2>1. /\ phase = "opening" /\ engineColor' = engineColor
        /\ moves' = Append(moves, s[i])
        /\ s \in Saves /\ i \in 1..Len(s) /\ Len(moves) = i - 1
    BY <1>2, <1>11 DEF PutsBack, Replaying
  <2>2. s \in Seq(Moves)
    BY <2>1, GameAssumption
  <2>3. s[i] \in Moves /\ s[i].color = ToMove(moves)
    <3>1. s[i].color = IF (i - 1) % 2 = 0 THEN "B" ELSE "W"
      BY <2>1 DEF SavesAlternate
    <3>2. ToMove(moves) = IF (i - 1) % 2 = 0 THEN "B" ELSE "W"
      BY <2>1 DEF ToMove
    <3>3. s[i] \in Moves
      BY <2>1, <2>2
    <3> QED
      BY <3>1, <3>2, <3>3
  <2>4. Abstract!Extends(moves, moves')
    BY <1>1, <2>1, <2>3, Positions
  <2>5. phase' \in {"opening", Abstract!Owner(moves', engineColor)} /\ phase' # "home"
    BY <1>3, <1>7, <1>11, <2>1 DEF PutsBack
  <2> HIDE DEF s, i
  <2> QED
    BY <2>1, <2>4, <2>5 DEF Abstract!GameNext, Abstract!Replay
<1>12. CASE HumanActs
  <2>1. phase = "human" /\ phase' = "engine" /\ engineColor' = engineColor
    BY <1>2, <1>3, <1>12 DEF HumanActs
  <2>2. CASE moves' = moves
    BY <2>1, <2>2 DEF Abstract!GameNext, Abstract!AskUndo
  <2>3. CASE \E v \in Points \cup {Pass} : moves' = Append(moves, [color |-> currentPlayer, vertex |-> v])
    <3>1. PICK v \in Points \cup {Pass} : moves' = Append(moves, [color |-> currentPlayer, vertex |-> v])
      BY <2>3
    <3>2. PICK m : m = [color |-> currentPlayer, vertex |-> v]
      OBVIOUS
    <3>3. m \in Moves /\ m.color = ToMove(moves) /\ moves' = Append(moves, m)
      BY <1>1, <1>5, <3>1, <3>2, BoardTypes
    <3>4. Abstract!Extends(moves, moves')
      BY <1>1, <3>3, Positions
    <3> QED
      BY <2>1, <3>4 DEF Abstract!GameNext, Abstract!HumanMove
  <2> QED
    BY <1>12, <2>2, <2>3 DEF HumanActs
<1>13. CASE EngineActs
  <2>1. /\ phase = "engine" /\ phase' \in {"human", "engine"} /\ engineColor' = engineColor
        /\ ToMove(moves) = engineColor
    BY <1>2, <1>3, <1>5, <1>13 DEF EngineActs
  <2>2. PICK v \in Points \cup {Pass} : moves' = Append(moves, [color |-> engineColor, vertex |-> v])
    BY <1>13 DEF EngineActs
  <2>3. PICK m : m = [color |-> engineColor, vertex |-> v]
    OBVIOUS
  <2>4. m \in Moves /\ m.color = ToMove(moves) /\ moves' = Append(moves, m)
    BY <1>1, <2>1, <2>2, <2>3, BoardTypes
  <2>5. Abstract!Extends(moves, moves')
    BY <1>1, <2>4, Positions
  <2>6. Abstract!Owner(moves, engineColor) = "engine"
    BY <1>1, <2>1 DEF Abstract!Owner
  <2> QED
    BY <2>1, <2>5, <2>6 DEF Abstract!GameNext, Abstract!EngineMove
<1>14. CASE TakenBack
  <2>1. /\ phase = "engine" /\ phase' = "human" /\ engineColor' = engineColor
        /\ ToMove(moves) = engineColor /\ moves # <<>>
    BY <1>2, <1>3, <1>5, <1>14 DEF TakenBack
  <2>2. Abstract!Shortens(moves, moves', 1)
    BY <1>1, <1>14, Positions DEF TakenBack
  <2>3. Abstract!Owner(moves, engineColor) = "engine"
    BY <1>1, <2>1 DEF Abstract!Owner
  <2> QED
    BY <2>1, <2>2, <2>3 DEF Abstract!GameNext, Abstract!Refuse
<1>15. CASE BothTakenBack
  <2>1. /\ phase = "engine" /\ phase' # "home" /\ engineColor' = engineColor
        /\ ToMove(moves) # engineColor
    BY <1>2, <1>3, <1>5, <1>15 DEF BothTakenBack
  <2>2. Abstract!Shortens(moves, moves', 2)
    BY <1>1, <1>15, Positions DEF BothTakenBack
  <2>3. Abstract!Owner(moves, engineColor) = "human"
    BY <1>1, <2>1 DEF Abstract!Owner
  <2>4. phase' = Abstract!Owner(moves', engineColor)
    BY <1>7, <1>15, <2>1 DEF BothTakenBack
  <2> QED
    BY <2>1, <2>2, <2>3, <2>4 DEF Abstract!GameNext, Abstract!Undo
<1> QED
    BY <1>8, <1>9, <1>10, <1>11, <1>12, <1>13, <1>14, <1>15 DEF GameStep

\* Every step of the coroutines, the engine and the player.
LEMMA NextImplements ==
    SavesAlternate /\ IInv /\ IInv' /\ PhaseOfStages /\ PhaseOfStages' /\ [Next]_vars
        => [Abstract!GameNext]_(Abstract!gameVars)
<1> SUFFICES ASSUME SavesAlternate, IInv, IInv', PhaseOfStages, PhaseOfStages', [Next]_vars
             PROVE  [Abstract!GameNext]_(Abstract!gameVars)
    OBVIOUS
<1>1. /\ Types /\ Types' /\ Discipline /\ Discipline' /\ (sound => Stage)
      /\ ~sound => phase = "home"
      /\ ~sound' => phase' = "home"
    BY DEF IInv, PhaseOfStages
<1>2. CASE ~sound'
  <2>1. phase' = "home"
    BY <1>1, <1>2
  <2>2. CASE phase = "home"
    BY <2>1, <2>2 DEF Abstract!gameVars
  <2>3. CASE phase # "home"
    BY <2>1, <2>3 DEF Abstract!GameNext, Abstract!Leave
  <2> QED
    BY <2>2, <2>3
<1>3. CASE sound' /\ sound /\ GameStep
    BY <1>1, <1>3, StepImplements
<1>4. CASE sound' /\ Opening' /\ moves' = <<>> /\ (sound => Opening \/ Over)
  <2>1. phase' = "opening"
    BY <1>4 DEF PhaseOfStages
  <2>2. phase = "home" \/ (phase = "opening" /\ moves = <<>>)
    BY <1>4 DEF PhaseOfStages
  <2> QED
    BY <1>4, <2>1, <2>2 DEF Abstract!GameNext, Abstract!Open
<1> QED
    BY <1>1, <1>2, <1>3, <1>4, StageNext

\* The coroutines of MainActivity.kt carry out the game that Game.tla promises:
\* colours alternate, a game opens only when asked for, the engine answers each
\* turn with one move, and only a refused move and an undo take moves back.
THEOREM GameImplemented == ASSUME SavesAlternate PROVE Spec => GameSpec
<1>1. Init => Abstract!GameInit
  <2>1. Init => PhaseOfStages /\ ~sound
    BY InitIInv, Phases DEF Init
  <2> QED
    BY <2>1 DEF PhaseOfStages, Abstract!GameInit
<1>2. SavesAlternate
    OBVIOUS
<1>3. IInv /\ IInv' /\ PhaseOfStages /\ PhaseOfStages' /\ [Next]_vars
        => [Abstract!GameNext]_(Abstract!gameVars)
    BY <1>2, NextImplements
<1> QED
    BY <1>1, <1>3, Phases, Invariance, PTL DEF Spec, GameSpec, Abstract!GameSpec
=============================================================================
