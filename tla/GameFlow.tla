------------------------------ MODULE GameFlow ------------------------------
(***************************************************************************)
(* The game in MainActivity.kt: coroutines of the main thread that start a   *)
(* game, replay a save, carry the player's move to the engine, ask it for    *)
(* one, take moves back, and put the engine's board right when it has        *)
(* drifted from the local one.  All of them run on the main thread and are   *)
(* suspended only in engine.send(), in withContext(IO) and in delay(): a     *)
(* step is what one of them does between two suspensions, or what the engine *)
(* does with one command, or a tap.                                          *)
(*                                                                           *)
(* A point once played stays occupied: captures are the business of          *)
(* BoardState.tla.  The engine builds that may be tried one after the other  *)
(* in an attempt are one here (AutotuneApp.tla); boardsize, komi and         *)
(* clear_board of the handshake are the one command "setup".  send() is what *)
(* GtpEngine.tla says of it: commands reach the engine in order, and a wait  *)
(* ends with the reply, with "= ERR engine not running" or with "= timeout". *)
(* The explanation of the player's mistakes is not part of this module.      *)
(***************************************************************************)
EXTENDS Integers, Sequences, FiniteSets

CONSTANTS
    Points,       \* vertices of the board
    Forbidden,    \* vertices only the local rules allow
    Saves,        \* games that can be loaded; the empty one is a new game
    MaxGames,     \* bound: games started
    MaxHandlers,  \* bound: player's actions waiting for the engine at once
    MaxMoves,     \* bound: moves on a board
    MaxFailures   \* bound: deaths of the engine and timeouts

Pass     == "pass"
Colors   == {"B", "W"}
Moves    == [color : Colors, vertex : Points \cup {Pass}]
Loads    == 1..MaxGames
Handlers == MaxGames + 1..MaxGames + MaxHandlers
Jobs     == Loads \cup Handlers
NoJob    == 0

ASSUME GameAssumption ==
    /\ Points \cap {Pass, "none", "ok", "resign", "error", "timeout", "gone"} = {}
    /\ Forbidden \subseteq Points
    /\ Saves \subseteq Seq(Moves)
    /\ MaxGames \in Nat /\ MaxHandlers \in Nat /\ MaxMoves \in Nat /\ MaxFailures \in Nat

VARIABLES
    moves,          \* board.moves
    gameActive, engineBusy, replayingSave, engineLoading, engineColor,
    loadingJob,
    showGameOverDialog, showExitConfirm,
    job,            \* each coroutine: [pc, cancelled, list, i, attempt, reply]
    alive, board,   \* the engine: is it running, the moves on its board
    pipe,           \* commands written and not yet carried out
    sound,          \* history: the game asked for, loaded without disturbance and not left
    games, failures \* bounded counters

ui    == <<showGameOverDialog, showExitConfirm>>
flags == <<gameActive, engineBusy, replayingSave, engineLoading>>
vars  == <<moves, flags, engineColor, loadingJob, ui, job, alive, board, pipe, sound, games, failures>>

Off == [pc |-> "off", cancelled |-> FALSE, list |-> <<>>, i |-> 0, attempt |-> 0, reply |-> "none"]

\* Suspended in engine.send().
Sending  == {"setup", "replay", "play", "pass", "score", "undo", "undo2",
             "genmove", "clear", "sync", "regenmove"}

Init ==
    /\ moves = <<>> /\ engineColor \in Colors
    /\ gameActive = FALSE /\ engineBusy = FALSE /\ replayingSave = FALSE /\ engineLoading = FALSE
    /\ loadingJob = NoJob
    /\ showGameOverDialog = FALSE /\ showExitConfirm = FALSE
    /\ job = [j \in Jobs |-> Off]
    /\ alive = FALSE /\ board = <<>> /\ pipe = <<>>
    /\ sound = FALSE /\ games = 0 /\ failures = 0

----------------------------------------------------------------------------
(* BoardState, as far as the flow of the game looks at it *)

ToMove(p) == IF Len(p) % 2 = 0 THEN "B" ELSE "W"

currentPlayer == ToMove(moves)

Occupied(p, v) == v # Pass /\ \E k \in 1..Len(p) : p[k].vertex = v

\* forcePlay(): nothing happens on an occupied vertex.
Played(p, m) == IF Occupied(p, m.vertex) THEN p ELSE Append(p, m)

\* popLast() n times.
Popped(p, n) == SubSeq(p, 1, IF n < Len(p) THEN Len(p) - n ELSE 0)

TwoPasses(p) ==
    Len(p) >= 2 /\ p[Len(p)].vertex = Pass /\ p[Len(p) - 1].vertex = Pass

----------------------------------------------------------------------------
(* Sending and waiting *)

At(j, pc) == job[j].pc = pc
Waiting(j) == job[j].pc \in Sending /\ job[j].reply = "none"

\* send() has returned to job j.
Answered(j) == job[j].reply # "none" /\ ~job[j].cancelled
Reply(j)    == job[j].reply

\* checkReply() throws on all of these; isErrorReply() lets a timeout pass.
Bad           == {"error", "timeout", "gone"}
IsErrorReply(r) == r \in {"error", "gone"}

\* Every wait ends when the engine is gone.
Gone(f) ==
    [j \in Jobs |-> IF f[j].pc \in Sending /\ f[j].reply = "none"
                    THEN [f[j] EXCEPT !.reply = "gone"] ELSE f[j]]

\* engine.stop(), with the coroutines then as in f.
StopEngine(f) ==
    /\ alive' = FALSE /\ pipe' = <<>> /\ board' = <<>>
    /\ job' = Gone(f)

NoMove == [color |-> "B", vertex |-> Pass]

\* Job j suspends in send() at `pc`, going through `list`, now at its i-th move.
SendOf(j, pc, cmd, move, list, i) ==
    /\ job' = [job EXCEPT ![j] = [@ EXCEPT !.pc = pc, !.list = list, !.i = i,
                                          !.reply = IF alive THEN "none" ELSE "gone"]]
    /\ pipe' = IF alive THEN Append(pipe, [by |-> j, cmd |-> cmd, move |-> move]) ELSE pipe
    /\ UNCHANGED <<alive, board>>

Send(j, pc, cmd, move) == SendOf(j, pc, cmd, move, <<>>, 0)

End(j) ==
    /\ job' = [job EXCEPT ![j] = Off]
    /\ UNCHANGED <<alive, board, pipe>>

----------------------------------------------------------------------------
(* engineMove(), the end of every turn of the player *)

\* It asks for a move ...
AskEngine(j, pc) ==
    /\ engineBusy' = TRUE
    /\ Send(j, pc, "genmove", [color |-> engineColor, vertex |-> Pass])

\* ... and in the end lets the player act again.
Release(j) == engineBusy' = FALSE /\ End(j)

\* Its exception handler.
GiveUpGame(j) ==
    /\ gameActive' = FALSE /\ engineLoading' = FALSE
    /\ Release(j)
    /\ UNCHANGED <<moves, replayingSave, engineColor, loadingJob, ui, sound, games, failures>>

\* applyAiMove() with an answer that can be put on the local board.
Usable(r) == r \in Points \cup {Pass} /\ ~Occupied(moves, r)

EngineMoved(j) ==
    /\ job[j].pc \in {"genmove", "regenmove"} /\ Answered(j)
    /\ Usable(Reply(j))
    /\ moves' = Append(moves, [color |-> engineColor, vertex |-> Reply(j)])
    /\ IF TwoPasses(moves')
       THEN Send(j, "score", "score", NoMove) /\ UNCHANGED engineBusy
       ELSE Release(j)
    /\ UNCHANGED <<gameActive, replayingSave, engineLoading, engineColor, loadingJob, ui, sound,
                   games, failures>>

\* finishAsWin().
EngineResigned(j) ==
    /\ job[j].pc \in {"genmove", "regenmove"} /\ Answered(j)
    /\ Reply(j) = "resign"
    /\ gameActive' = FALSE /\ showGameOverDialog' = TRUE
    /\ Release(j)
    /\ UNCHANGED <<moves, replayingSave, engineLoading, engineColor, loadingJob, showExitConfirm,
                   sound, games, failures>>

\* FAILED: an error, or a point that is taken locally.
Failed(j) == Answered(j) /\ Reply(j) # "resign" /\ ~Usable(Reply(j))

\* Mutant of Resync: the engine is asked again as it is.
ResyncSkipped(j) ==
    /\ At(j, "genmove") /\ Failed(j) /\ gameActive
    /\ AskEngine(j, "regenmove")
    /\ UNCHANGED <<moves, gameActive, replayingSave, engineLoading, engineColor, loadingJob, ui, sound,
                   games, failures>>

\* syncEngineToLocal() begins ...
Resync(j) ==
    /\ At(j, "genmove") /\ Failed(j) /\ gameActive
    /\ Send(j, "clear", "clear", NoMove)
    /\ UNCHANGED <<moves, flags, engineColor, loadingJob, ui, sound, games, failures>>

\* ... or the game ends: out of sync twice, or already left.
OutOfSync(j) ==
    /\ \/ At(j, "regenmove") /\ Failed(j)
       \/ At(j, "genmove") /\ Failed(j) /\ ~gameActive
    /\ gameActive' = FALSE
    /\ Release(j)
    /\ UNCHANGED <<moves, replayingSave, engineLoading, engineColor, loadingJob, ui, sound,
                   games, failures>>

\* The move of board.moves that is sent next, or the second request.
SyncFrom(j, list, i) ==
    IF i > Len(list) THEN AskEngine(j, "regenmove")
    ELSE SendOf(j, "sync", "play", list[i], list, i) /\ UNCHANGED engineBusy

Cleared(j) ==
    /\ At(j, "clear") /\ Answered(j)
    /\ SyncFrom(j, moves, 1)
    /\ UNCHANGED <<moves, gameActive, replayingSave, engineLoading, engineColor, loadingJob, ui, sound,
                   games, failures>>

\* Whoever changes board.moves while it is iterated makes the iterator throw.
Modified(j) == moves # job[j].list /\ job[j].i # Len(moves)

Synced(j) ==
    /\ At(j, "sync") /\ Answered(j)
    /\ ~IsErrorReply(Reply(j)) /\ ~Modified(j)
    /\ SyncFrom(j, moves, job[j].i + 1)
    /\ UNCHANGED <<moves, gameActive, replayingSave, engineLoading, engineColor, loadingJob, ui, sound,
                   games, failures>>

SyncFailed(j) ==
    /\ At(j, "sync") /\ Answered(j)
    /\ IsErrorReply(Reply(j)) \/ Modified(j)
    /\ GiveUpGame(j)

\* maybeFinishAfterMove() and presentFinalResult(), after two passes.
Scored(j) ==
    /\ At(j, "score") /\ Answered(j)
    /\ gameActive' = FALSE /\ showGameOverDialog' = TRUE
    /\ Release(j)
    /\ UNCHANGED <<moves, replayingSave, engineLoading, engineColor, loadingJob, showExitConfirm,
                   sound, games, failures>>

----------------------------------------------------------------------------
(* Starting a game *)

Loading(j) == job[j].pc \in {"io", "setup", "replay", "retry"}

\* loadingJob?.cancel(), if that coroutine still runs.
CancelJob(f) ==
    IF loadingJob # NoJob /\ f[loadingJob].pc # "off"
    THEN [f EXCEPT ![loadingJob].cancelled = TRUE] ELSE f

\* The home screen is there while no game is active; the loading screen covers it.
StartGame(save, color) ==
    /\ ~gameActive /\ ~engineLoading /\ games < MaxGames
    /\ \A j \in Jobs : Reply(j) = "none"   \* see OthersResumed
    /\ showGameOverDialog => save = <<>> /\ color = engineColor   \* rematch()
    /\ games' = games + 1 /\ loadingJob' = games + 1
    /\ job' = [CancelJob(job) EXCEPT ![games + 1] =
                   [Off EXCEPT !.pc = "io", !.list = save, !.attempt = 1]]
    /\ moves' = <<>> /\ engineColor' = color
    /\ engineLoading' = TRUE /\ showGameOverDialog' = FALSE
    /\ sound' = \A j \in Handlers : At(j, "off")   \* one is left only by a disturbed game
    /\ UNCHANGED <<gameActive, engineBusy, replayingSave, showExitConfirm, alive, board, pipe, failures>>

\* startEngineOnce(): the old engine is stopped on an IO thread, the new one
\* started on the main thread.
EngineStarted(j) ==
    /\ At(j, "io") /\ ~job[j].cancelled
    /\ alive' = TRUE /\ board' = <<>>
    /\ pipe' = <<[by |-> j, cmd |-> "setup", move |-> NoMove]>>
    /\ job' = [Gone(job) EXCEPT ![j].pc = "setup"]
    /\ UNCHANGED <<moves, flags, engineColor, loadingJob, ui, sound, games, failures>>

\* Mutant of AttemptFailed: an error in the second attempt leaves the loading screen up.
AttemptFailedSilently(j) ==
    IF job[j].attempt = 1
    THEN /\ StopEngine([job EXCEPT ![j].pc = "retry", ![j].reply = "none"])
         /\ UNCHANGED <<gameActive, engineLoading>>
    ELSE /\ StopEngine([job EXCEPT ![j] = Off])
         /\ gameActive' = FALSE /\ UNCHANGED engineLoading

\* One attempt has failed; the second starts 600 ms later, with the board as it is.
AttemptFailed(j) ==
    IF job[j].attempt = 1
    THEN /\ StopEngine([job EXCEPT ![j].pc = "retry", ![j].reply = "none"])
         /\ UNCHANGED <<gameActive, engineLoading>>
    ELSE /\ StopEngine([job EXCEPT ![j] = Off])
         /\ gameActive' = FALSE /\ engineLoading' = FALSE

SetupFailed(j) ==
    /\ At(j, "setup") /\ Answered(j) /\ Reply(j) \in Bad
    /\ AttemptFailed(j)
    /\ UNCHANGED <<moves, engineBusy, replayingSave, engineColor, loadingJob, ui, sound, games, failures>>

Retry(j) ==
    /\ At(j, "retry") /\ ~job[j].cancelled
    /\ job' = [job EXCEPT ![j].pc = "io", ![j].attempt = 2]
    /\ UNCHANGED <<moves, flags, engineColor, loadingJob, ui, alive, board, pipe, sound, games, failures>>

\* The game is set up: the engine's turn, or the coroutine is done.
Play(j) ==
    IF currentPlayer' = engineColor THEN AskEngine(j, "genmove")
    ELSE End(j) /\ UNCHANGED engineBusy

\* The engine is ready: the game is active before its moves are on the board.
SetUp(j) ==
    /\ At(j, "setup") /\ Answered(j) /\ Reply(j) = "ok"
    /\ UNCHANGED moves
    /\ gameActive' = TRUE /\ engineLoading' = FALSE
    /\ showExitConfirm' = (gameActive /\ showExitConfirm)
    /\ IF job[j].list = <<>>
       THEN Play(j) /\ UNCHANGED replayingSave
       ELSE /\ replayingSave' = TRUE
            /\ SendOf(j, "replay", "play", job[j].list[1], job[j].list, 1)
            /\ UNCHANGED engineBusy
    /\ UNCHANGED <<engineColor, loadingJob, showGameOverDialog, sound, games, failures>>

Replayed(j) ==
    /\ At(j, "replay") /\ Answered(j) /\ Reply(j) \notin Bad
    /\ moves' = Played(moves, job[j].list[job[j].i])
    /\ LET list == job[j].list   next == job[j].i + 1 IN
         IF next > Len(list)
         THEN replayingSave' = FALSE /\ Play(j)
         ELSE /\ SendOf(j, "replay", "play", list[next], list, next)
              /\ UNCHANGED <<engineBusy, replayingSave>>
    /\ UNCHANGED <<gameActive, engineLoading, engineColor, loadingJob, ui, sound, games, failures>>

ReplayFailed(j) ==
    /\ At(j, "replay") /\ Answered(j) /\ Reply(j) \in Bad
    /\ replayingSave' = FALSE
    /\ AttemptFailed(j)
    /\ sound' = FALSE
    /\ UNCHANGED <<moves, engineBusy, engineColor, loadingJob, ui, games, failures>>

\* The CancellationException ends the attempt like any other; the delay before
\* the second attempt throws it again, after the second nothing is in its way.
LoadCancelled(j) ==
    /\ Loading(j) /\ job[j].cancelled
    /\ replayingSave' = (replayingSave /\ ~At(j, "replay"))
    /\ IF At(j, "retry") THEN End(j) ELSE StopEngine([job EXCEPT ![j] = Off])
    /\ IF ~At(j, "retry") /\ job[j].attempt = 2
       THEN gameActive' = FALSE /\ engineLoading' = FALSE
       ELSE UNCHANGED <<gameActive, engineLoading>>
    /\ UNCHANGED <<moves, engineBusy, engineColor, loadingJob, ui, sound, games, failures>>

\* A cancelled load that is in engineMove(): applyAiMove() turns the exception
\* into FAILED, everything else lets it reach the handler.
MoveCancelled(j) ==
    /\ job[j].cancelled /\ ~Loading(j)
    /\ gameActive' = FALSE
    /\ engineLoading' = (engineLoading /\ (At(j, "regenmove") \/ (At(j, "genmove") /\ ~gameActive)))
    /\ Release(j)
    /\ UNCHANGED <<moves, replayingSave, engineColor, loadingJob, ui, sound, games, failures>>

CancelLoading ==
    /\ engineLoading
    /\ engineLoading' = FALSE /\ loadingJob' = NoJob /\ sound' = FALSE
    /\ StopEngine(CancelJob(job))
    /\ UNCHANGED <<moves, gameActive, engineBusy, replayingSave, engineColor, ui, games, failures>>

----------------------------------------------------------------------------
(* The player *)

\* The game screen takes taps: no dialog is over it, no handler sets engineBusy.
Tappable == gameActive /\ ~engineBusy /\ ~engineLoading /\ ~showExitConfirm /\ ~showGameOverDialog

\* lifecycleScope.launch runs the handler up to its first send() at once.
Launch(cmd, pc, m) ==
    \E j \in Handlers :
        /\ job[j] = Off /\ \A k \in Handlers : job[k] = Off => j <= k
        /\ engineBusy' = TRUE
        /\ Send(j, pc, cmd, m)

\* onBoardTap() and humanPlay(): the local board is first to accept the move.
HumanPlay(v) ==
    /\ Tappable /\ ~replayingSave /\ currentPlayer # engineColor
    /\ Len(moves) < MaxMoves /\ ~Occupied(moves, v)
    /\ LET m == [color |-> currentPlayer, vertex |-> v] IN
         moves' = Append(moves, m) /\ Launch("play", "play", m)
    /\ UNCHANGED <<gameActive, replayingSave, engineLoading, engineColor, loadingJob, ui, sound,
                   games, failures>>

\* Mutant of MoveRefused: the local board keeps the move.
MoveRefusedKept(j) ==
    /\ At(j, "play") /\ Answered(j) /\ IsErrorReply(Reply(j))
    /\ Release(j)
    /\ UNCHANGED <<moves, gameActive, replayingSave, engineLoading, engineColor, loadingJob, ui, sound,
                   games, failures>>

\* The engine has the last word on a move.
MoveRefused(j) ==
    /\ At(j, "play") /\ Answered(j) /\ IsErrorReply(Reply(j))
    /\ moves' = Popped(moves, 1)
    /\ Release(j)
    /\ UNCHANGED <<gameActive, replayingSave, engineLoading, engineColor, loadingJob, ui, sound,
                   games, failures>>

\* Mutant of EngineReplies: a game left in the meantime is left busy.
EngineRepliesOrNot(j) ==
    IF gameActive THEN AskEngine(j, "genmove") ELSE End(j) /\ UNCHANGED engineBusy

\* `if (gameActive) engineMove()`.
EngineReplies(j) == IF gameActive THEN AskEngine(j, "genmove") ELSE Release(j)

MoveAccepted(j) ==
    /\ At(j, "play") /\ Answered(j) /\ ~IsErrorReply(Reply(j))
    /\ EngineReplies(j)
    /\ UNCHANGED <<moves, gameActive, replayingSave, engineLoading, engineColor, loadingJob, ui, sound,
                   games, failures>>

HumanPass ==
    /\ Tappable /\ currentPlayer # engineColor /\ Len(moves) < MaxMoves
    /\ LET m == [color |-> currentPlayer, vertex |-> Pass] IN
         moves' = Append(moves, m) /\ Launch("play", "pass", m)
    /\ sound' = (sound /\ ~replayingSave)
    /\ UNCHANGED <<gameActive, replayingSave, engineLoading, engineColor, loadingJob, ui, games, failures>>

\* Whatever the engine answered.
Passed(j) ==
    /\ At(j, "pass") /\ Answered(j)
    /\ IF TwoPasses(moves) THEN Send(j, "score", "score", NoMove) /\ UNCHANGED engineBusy
       ELSE EngineReplies(j)
    /\ UNCHANGED <<moves, gameActive, replayingSave, engineLoading, engineColor, loadingJob, ui, sound,
                   games, failures>>

Undo ==
    /\ Tappable
    /\ Launch("undo", "undo", NoMove)
    /\ sound' = (sound /\ ~replayingSave)
    /\ UNCHANGED <<moves, gameActive, replayingSave, engineLoading, engineColor, loadingJob, ui,
                   games, failures>>

UndoneOnce(j) ==
    /\ At(j, "undo") /\ Answered(j)
    /\ Send(j, "undo2", "undo", NoMove)
    /\ UNCHANGED <<moves, flags, engineColor, loadingJob, ui, sound, games, failures>>

\* Mutant of Undone: the engine takes back two moves, the local board one.
UndonePly(j) ==
    /\ At(j, "undo2") /\ Answered(j)
    /\ moves' = Popped(moves, 1)
    /\ IF gameActive /\ currentPlayer' = engineColor THEN AskEngine(j, "genmove") ELSE Release(j)
    /\ UNCHANGED <<gameActive, replayingSave, engineLoading, engineColor, loadingJob, ui, sound,
                   games, failures>>

\* Both answers are ignored: on a board with one move the engine refuses the second.
Undone(j) ==
    /\ At(j, "undo2") /\ Answered(j)
    /\ moves' = Popped(moves, 2)
    /\ IF gameActive /\ currentPlayer' = engineColor THEN AskEngine(j, "genmove") ELSE Release(j)
    /\ UNCHANGED <<gameActive, replayingSave, engineLoading, engineColor, loadingJob, ui, sound,
                   games, failures>>

AskExit ==
    /\ Tappable /\ showExitConfirm' = TRUE
    /\ UNCHANGED <<moves, flags, engineColor, loadingJob, showGameOverDialog, job, alive, board, pipe,
                   sound, games, failures>>

\* "Stay" in the exit dialog, or a tap beside the other one.
Dismiss ==
    /\ showExitConfirm \/ showGameOverDialog
    /\ showExitConfirm' = FALSE /\ showGameOverDialog' = FALSE
    /\ UNCHANGED <<moves, flags, engineColor, loadingJob, job, alive, board, pipe, sound, games, failures>>

\* newGame(): the button, "Leave" in the exit dialog, "Home" after a game.  A
\* load that still runs is not cancelled.
NewGame ==
    /\ Tappable \/ (gameActive /\ showExitConfirm) \/ showGameOverDialog
    /\ gameActive' = FALSE /\ moves' = <<>>
    /\ showExitConfirm' = FALSE /\ showGameOverDialog' = FALSE /\ sound' = FALSE
    /\ StopEngine(job)
    /\ UNCHANGED <<engineBusy, replayingSave, engineLoading, engineColor, loadingJob, games, failures>>

----------------------------------------------------------------------------
(* The engine and its pipe *)

\* The reply to the command at the head, if its coroutine still waits.
Answer(r) ==
    LET j == Head(pipe).by IN
      /\ pipe' = Tail(pipe)
      /\ job' = IF j # NoJob /\ Waiting(j) THEN [job EXCEPT ![j].reply = r] ELSE job
      /\ UNCHANGED <<moves, flags, engineColor, loadingJob, ui, alive, sound, games, failures>>

Next_(cmd) == alive /\ pipe # <<>> /\ Head(pipe).cmd = cmd

\* An engine takes seconds to load; a coroutine that was cancelled or whose wait
\* has ended is resumed within milliseconds, so it is before.  In the same way
\* such a coroutine is ahead of a player who has to leave one game for another.
OthersResumed == \A j \in Jobs : ~job[j].cancelled /\ Reply(j) = "none"

ExecSetup == Next_("setup") /\ OthersResumed /\ board' = <<>> /\ Answer("ok")

ExecPlay ==
    /\ Next_("play")
    /\ LET m == Head(pipe).move IN
         IF Occupied(board, m.vertex) \/ m.vertex \in Forbidden
         THEN Answer("error") /\ UNCHANGED board
         ELSE Answer("ok") /\ board' = Append(board, m)

ExecUndo ==
    /\ Next_("undo")
    /\ IF board = <<>> THEN Answer("error") ELSE Answer("ok")
    /\ board' = Popped(board, 1)

ExecClear == Next_("clear") /\ board' = <<>> /\ Answer("ok")
ExecScore == Next_("score") /\ UNCHANGED board /\ Answer("ok")

ExecGenmove ==
    /\ Next_("genmove")
    /\ \/ \E v \in Points \cup {Pass} :
            /\ ~Occupied(board, v) /\ v \notin Forbidden /\ Len(board) < MaxMoves
            /\ board' = Append(board, [color |-> Head(pipe).move.color, vertex |-> v])
            /\ Answer(v)
       \/ UNCHANGED board /\ Answer("resign")

EngineDies ==
    /\ alive /\ failures < MaxFailures
    /\ StopEngine(job) /\ failures' = failures + 1
    /\ UNCHANGED <<moves, flags, engineColor, loadingJob, ui, sound, games>>

\* send() returns "= timeout"; the command stays in the pipe.  A move or an undo
\* whose answer nobody has seen may have been refused.
TimeOut(j) ==
    /\ Waiting(j) /\ failures < MaxFailures
    /\ failures' = failures + 1
    /\ job' = [job EXCEPT ![j].reply = "timeout"]
    /\ pipe' = [k \in DOMAIN pipe |-> IF pipe[k].by = j THEN [pipe[k] EXCEPT !.by = NoJob] ELSE pipe[k]]
    /\ sound' = (sound /\ job[j].pc \in {"setup", "genmove", "regenmove", "clear", "score"})
    /\ UNCHANGED <<moves, flags, engineColor, loadingJob, ui, alive, board, games>>

----------------------------------------------------------------------------

EngineMove(j) ==
    \/ EngineMoved(j) \/ EngineResigned(j) \/ Resync(j) \/ OutOfSync(j) \/ Cleared(j)
    \/ Synced(j) \/ SyncFailed(j) \/ Scored(j)

Load(j) ==
    \/ EngineStarted(j) \/ SetupFailed(j) \/ Retry(j) \/ SetUp(j) \/ Replayed(j)
    \/ ReplayFailed(j) \/ LoadCancelled(j) \/ MoveCancelled(j)

Handle(j) ==
    \/ MoveRefused(j) \/ MoveAccepted(j) \/ Passed(j) \/ UndoneOnce(j) \/ Undone(j)

Resume(j) == EngineMove(j) \/ Load(j) \/ Handle(j)

Engine == ExecSetup \/ ExecPlay \/ ExecUndo \/ ExecClear \/ ExecScore \/ ExecGenmove

Tap ==
    \/ \E save \in Saves, color \in Colors : StartGame(save, color)
    \/ \E v \in Points : HumanPlay(v)
    \/ HumanPass \/ Undo \/ AskExit \/ Dismiss \/ NewGame \/ CancelLoading

Next ==
    \/ \E j \in Jobs : Resume(j) \/ TimeOut(j)
    \/ Engine \/ EngineDies \/ Tap

Spec == Init /\ [][Next]_vars

\* The engine carries out what it is sent, and the main thread resumes every
\* coroutine that can go on.
FairSpec == Spec /\ WF_vars(Engine) /\ \A j \in Jobs : WF_vars(Resume(j))

----------------------------------------------------------------------------

TypeOK ==
    /\ moves \in Seq(Moves) /\ board \in Seq(Moves)
    /\ gameActive \in BOOLEAN /\ engineBusy \in BOOLEAN /\ replayingSave \in BOOLEAN
    /\ engineLoading \in BOOLEAN /\ engineColor \in Colors
    /\ loadingJob \in {NoJob} \cup Loads
    /\ showGameOverDialog \in BOOLEAN /\ showExitConfirm \in BOOLEAN
    /\ job \in [Jobs -> [pc : Sending \cup {"off", "io", "retry"}, cancelled : BOOLEAN,
                         list : Seq(Moves), i : Nat, attempt : 0..2,
                         reply : {"none", "ok", "resign", Pass} \cup Bad \cup Points]]
    /\ alive \in BOOLEAN /\ sound \in BOOLEAN
    /\ pipe \in Seq([by : {NoJob} \cup Jobs, move : Moves,
                      cmd : {"setup", "play", "undo", "clear", "score", "genmove"}])
    /\ games \in 0..MaxGames /\ failures \in 0..MaxFailures

\* When the player may move, it is the player's turn and the engine's board is
\* the one on the screen: no handler leaves the two apart, and none leaves the
\* game waiting for an engine nobody has asked.
InSync ==
    sound /\ gameActive /\ ~engineBusy /\ ~replayingSave =>
        /\ currentPlayer # engineColor
        /\ alive /\ pipe = <<>> => board = moves

\* The engine is asked for a move only on the player's board and in its turn.
AskedInItsTurn ==
    sound /\ gameActive /\ pipe # <<>> /\ Head(pipe).cmd = "genmove" /\ Head(pipe).by # NoJob =>
        board = moves /\ currentPlayer = engineColor

\* The board accepts no input while a saved game is replayed: only the replay
\* puts moves on it.
ClosedWhileReplaying ==
    [][replayingSave /\ moves' # moves =>
           \E j \in Loads : At(j, "replay") /\ moves' = Played(moves, job[j].list[job[j].i])]_vars

\* Whoever waits for the engine gets the turn back, or the game ends.
TurnComesBack ==
    (gameActive /\ engineBusy) ~>
        (~gameActive \/ (~engineBusy /\ (sound => currentPlayer # engineColor)))

\* Loading ends: with a game, an error, or the player's patience.
LoadingEnds == engineLoading ~> ~engineLoading

phase ==
    CASE ~sound -> "home"
      [] sound /\ replayingSave -> "opening"
      [] sound /\ ~replayingSave /\ gameActive -> IF engineBusy THEN "engine" ELSE "human"
      [] sound /\ ~replayingSave /\ ~gameActive ->
            IF loadingJob # NoJob /\ Loading(loadingJob) THEN "opening" ELSE "home"

Abstract == INSTANCE Game WITH
    phase    <- phase,
    position <- IF phase = "home" THEN <<>> ELSE moves,
    engine   <- IF phase = "home" THEN "none" ELSE engineColor

\* The coroutines carry out the game that Game.tla promises.
GameSpec == Abstract!GameSpec
=============================================================================
