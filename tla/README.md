# KataGO_Android in TLA+

A specification of the parts of KataGO_Android that are easy to get wrong and
hard to test: what happens to the OpenCL autotuner, its files and the app
around it when the process dies at the wrong moment; how the app's threads
talk to an engine that is stopped, replaced or interrupted under them; the game
that the app's coroutines carry out over that connection; the two boards, the
app's and the engine's; the threads around a search, in the bot and in the
analysis engine; and the AI commentary's queue, router and provider health. The
modules are checked with TLC on small instances, and the main properties are
proved with TLAPS for every value of the constants.

The repository holds an Android app (Kotlin, about 12,000 lines), and a vendored
copy of the KataGo engine (C++) extended for it: a JNI entry
(`KataGo/cpp/android_jni.cpp`) and a stability layer for OpenCL tuning
(`opencltuner.cpp`, `opencltuning_recovery.cpp`). Paths below are relative to
`src/`; Kotlin paths to
`KataGO_Android/app/src/main/kotlin/com/chuishui/katago/`, native ones to
`KataGo/cpp/`.

## Inventory

| Component | State | Operations | Talks to | Hard part | Correct when |
|---|---|---|---|---|---|
| OpenCL tuner (`neuralnet/opencltuner.cpp`) | current configuration, position in the loops, tune files | `loadOrAutoTune`, `tune`, `testAllConfigs`, `save`, `load` | recovery State, OpenCL driver | the driver may kill the process in any benchmark; in-place writes | only measured configurations are ever used; finished work is not lost |
| Tuning recovery (`neuralnet/opencltuning_recovery.cpp`) | checkpoint per model, blacklist, two request markers | `beginTuning`, `recordCase*`, `saveIncrementalConfig`, `finishTuning`, `restoreLastSuccessfulTuneFile` | tuner, watchdog (files) | ordering of writes, stale fingerprints, failed writes | what is restored belongs to this device and was measured |
| Autotune watchdog (`engine/AutotuneWatchdog.kt`) | recovery counter, pending flag, disabled flags | `prepareForGpuStart`, `handleAutotuneCrash`, `onGpuStartSucceeded` | preferences, markers | `apply()` against `commit()`, who clears the pending flag | no death goes unnoticed, no crash loop, no GPU lost without a crash |
| Launch and engine start (`MainActivity.kt`, `engine/KataNative.kt`, `android_jni.cpp`) | activity, `gpuDisabled`, native log, engine thread | `onCreate`, `startGame`, `startEngineOnce`, `cancelEngineLoading`, `onDestroy`, `startEngineInFd` | watchdog, GTP client, native thread | engine in the app's own process; cancel, timeout and restart while tuning | one engine thread at a time; honest loading screen |
| GTP client (`engine/GtpEngine.kt`) | `process`, `awaiting`, `replies` | `start`, `stop`, `send`, `sendAsync`, `interrupt`, read loop | engine pipes, game flow | three threads, timeouts, restart during a wait | each reply reaches the command it answers, nothing leaks |
| Game flow (`MainActivity.kt`) | local board, `engineBusy`, `gameActive`, `replayingSave`, `loadingJob` | `startGame`, `startEngineOnce`, `humanPlay`, `humanPass`, `undo`, `engineMove`, `syncEngineToLocal`, `newGame`, `cancelEngineLoading` | GTP client, board | suspended handlers interleave with new games | the engine's position is the local one whenever the human may move; the turn comes back |
| App's board (`go/BoardState.kt`) | grid, moves, captures, ko point | `isLegal`, `play`, `forcePlay`, `popLast`, `popTwo`, `clear` | game flow, saves | capture before suicide, simple ko, undo from what a move has recorded | agrees with the rules of Go |
| Engine's board (`game/board.cpp`) | stones, chains as circular lists with sizes and liberties, ko, hash, prisoners | `isLegal`, `playMove`, `playMoveRecorded`, `undo`, `setStone`, look-ahead, `calculateArea` | search | every count is kept by increments | it is the board the rules give, whatever was played and undone |
| Search bot (`search/asyncbot.cpp`) | flags under `controlMutex`, stop flag, queued job | `genMoveAsync`, `ponder`, `stopAndWait`, `stopWithoutWait`, `waitForSearchToEnd`, `setKilled`, destructor | GTP server, analysis engine | three threads, three conditions | one search at a time; a wait ends with the move |
| Analysis engine (`command/analysis.cpp`, `core/threadsafequeue.h`) | requests with an atomic status, two queues, open requests | query, `terminate`, `terminate_all`, end of input | bots | who answers, who stops whom, who frees | one final answer each; everything ends |
| AI queue (`ai/queue/AiRequestQueue.kt`) | pending entries, signal channel | `enqueue`, `drain`, `clear` | coach, router | priorities, stale entries | the spinner ends |
| AI router and health (`ai/router/AiRouter.kt`, `ai/provider/ProviderHealth.kt`, `ai/AiContainer.kt`) | health per provider | `chat`, `resolveCandidates`, `order`, `onFailure`, `refreshProviders` | providers, usage | settings saved while calls are in flight | a provider is left out only for its own failures |
| Go coach (`goai/`) | latest move number | event detection, `enqueueExplain`, prompts | queue, game flow | stale positions | comments belong to the move they name |
| Saved games (`save/GameSaveStore.kt`) | up to 20 files | `save`, `list`, `delete`, trim, migration | game flow | in-place write, names by millisecond | the newest games survive |
| Usage, configuration, keys (`ai/usage`, `ai/config`, `ai/security`, `config/`) | preferences | read, write, export | router, settings | budget per day | the budget holds |
| Networks and drivers (`engine/NetworkStore.kt`, `engine/ModelStore.kt`, `OpenClDownloadWorker.kt`) | downloaded files | download, resume, install | settings | broken downloads | only complete files are used |
| Screens, AI provider protocols | layout, wire formats | | | none | not modelled |
| KataGo search, evaluation, history, training | | GTP | | numerical | not modelled |

How they meet: the app's main thread (game flow) writes commands through the GTP
client to the engine, which runs in the app's process or in a child; the engine
tunes its OpenCL kernels before it answers the first command, and the watchdog in
`onCreate` decides from what the last process left behind whether it may. A move is
first played on the app's board, then by the engine on its own. The commentary runs
beside the game and reads its move number. The specifications meet in the same
places: `AutotuneApp` implements the environment of `OpenClTuner`; `GameFlow` uses
the client as `GtpEngine` describes it; `BoardState` and `KataBoard` implement the
same `GoGame`; `AnalysisEngine` uses the `SearchBot` that `AsyncBot` implements.

## Modules

| Module | Models | Extends |
|---|---|---|
| `OpenClTuner` | `loadOrAutoTune`, `tune`, `testAllConfigs` and the State of the recovery layer | |
| `AutotuneApp` | `onCreate`'s decision, `AutotuneWatchdog`, engine start and stop, preferences, native log | `OpenClTuner` |
| `GtpEngine` | `send`, `sendAsync`, `interrupt`, `readLoop`, `start`, `stop`, and as their peer the command loop of `command/gtp.cpp` | |
| `Game` | what a game promises its player: phases, turns, the record of moves | |
| `GameFlow` | the coroutines of `MainActivity.kt` and the engine's side of them; implements `Game` | |
| `GoRules`, `GoGame` | the rules as a referee states them; the game played by them | |
| `KataBoard` | `game/board.cpp`; implements `GoGame` | `GoRules` |
| `BoardState` | `BoardState.kt`; implements `GoGame` | `GoRules` |
| `SearchBot` | what a bot promises: one job at a time, each answered, a stop that holds | |
| `AsyncBot` | `search/asyncbot.cpp`; implements `SearchBot` | |
| `AnalysisEngine` | `command/analysis.cpp` with its queues; uses one `SearchBot` per thread | |
| `AiCoach` | commentary requests, `AiRequestQueue`, `GoAiCoachImpl`, `AiRouter`, `ProviderHealth`, `AiContainer` | |
| `MCOpenClTuner`, `MCAutotuneApp`, `MCGameFlow`, `MCAnalysisEngine`, `MCAiCoach` | constants for TLC | the module they name |
| `OpenClTunerProofs` | of the tuner: types, measured configurations, tune file, blacklist, markers, checkpoint; of the app around it: types, it implements the tuner's specification, pending flag, deaths noticed | `AutotuneApp` |
| `GtpEngineProofs` | types, replies, pipes, quits | `GtpEngine` |
| `GameFlowProofs` | types, boards in sync, engine asked in its turn, the coroutines implement `Game` | `GameFlow` |
| `BoardProofs` | the lemmas about the rules, lists and regions that both boards need; of the app's board, types, legality and that it implements `GoGame`; of the engine's board, the lists while a stone is played | `BoardState`, `KataBoard` |
| `KataBoardProofs` | setting, taking back; types and all of `KataBoard`'s properties: consistent chains, legality, look-ahead, pass-alive stones, the engine's board implements `GoGame` | `BoardProofs` |
| `AsyncBotProofs` | types, one owner, moves there, the bot implements `SearchBot` | `AsyncBot` |
| `AnalysisEngineProofs` | no freed request, stops, bots kept, one final reply | `AnalysisEngine` |
| `AiCoachProofs` | blame of providers | `AiCoach` |

In a module, an operator commented "Mutant of ..." is the named operator with a plausible
bug; nothing uses it unless it is put in place of the original to see that a property notices.

### OpenClTuner

One engine thread, its program counter `pc` named after the stage of
`loadOrAutoTune`; a step is a stretch of code between two file operations or two
points where the process may die.

- `device`, `outcome`: the GPU and KataGo version an engine start sees, and what
  each benchmark may do (`ok`, `fail`, `crash`). They belong to the environment;
  `ChangeDevice` swaps drivers or updates the app between two runs.
- Files: `tuneFile` per GPU and model (absent, torn, or usable with a
  configuration), `checkpoint` per model, `legacy` (the single checkpoint older
  versions wrote), `blacklist`, the request markers `recoveryMarker` and
  `safeMarker`, and the loading screen's `copyMarker` and `activeMarker`.
  `recoveryWriteFileAtomic` either replaces a file or leaves it; tune files are
  written in place by the copy loop and by `save`, so opening and writing are
  two steps (`CopyOpen`/`CopyWrite`, `SaveOpen`/`SaveClose`) with a torn file
  between them. With `WritesMayFail` each of these writes may also fail,
  those of the two loading-screen markers too, whose result the code ignores (`Announced`); deleting a
  file does not fail.
- Memory: `mem` and `memBlack` are the State's `checkpoint_` and `blacklist_`,
  `cur` is `currentConfig` or the parameters loaded, `kernel`, `case` and `pick`
  the position and the best case in `testAllConfigs`.
- A configuration is, per kernel family, the chosen case tagged with the GPU it
  was measured on, or nothing for the default. The tag is not in the code's
  text; it is what "bound to hardware" is about.
- Actions follow the code: `Start`, `LookupHit`/`LookupMiss`, the copy loop, the
  three restore blocks (safe defaults, recovery, unmarked) as one parameterised
  set of actions over `RestorePhases`, `Prepare`, `BeginTuning`, the case loop
  (`SkipCase`, `AttemptCase`, `BenchOk`, `BenchFail`, `BenchCrash`),
  `AdoptFamily`/`DropFamily`, `FinishTuning`, `SaveOpen`, `SaveClose`,
  `TuneDone`, and then `Quit`, `Kill`, `ClearCache`. Scores are abstracted: a
  successful case may or may not be the best so far. FP16 families may be
  dropped; `xGemmDirect`, the first, may not.

### AutotuneApp

Adds the process and the activity (`app`, `alive`), both preference files in
memory and on disk (`commit` writes through, `apply` is flushed by
`FlushWatchdog`/`FlushKatago` or lost in `Die`), the native log and its archived
predecessor, and the history variable `lastExit`. Each outcome of `onCreate` is
an action (`LaunchClean`, `LaunchRetry`, `LaunchSafeDefaults`, `LaunchGiveUp`,
`LaunchDisable`, `LaunchDisabled`). `StartGame`, `EngineStarts`, `EngineRefused`,
`Handshake` and `HandshakeFails` are the stages of `startEngineOnce`; the engine
thread takes the steps of `OpenClTuner` (`Tuner`). The engine preference is
"auto" and "force GPU" is off, the defaults.

### GtpEngine

A step ends where another thread can run: a `synchronized` block is one step,
two assignments outside of one are two.

- The client: `process` and `writer` name an engine or none (`NoEngine`);
  `nextCmdId`, `awaiting`; `replies` is the set of the map's entries, an entry the id
  it is stored under and the command whose text it is (`of`). A coroutine in `send` has a
  `caller` record (took an id, waits; `target` is the process it wrote to, a history
  field that no guard reads), a thread in `stop` or `start` a `thread` record with the process
  and writer it captured. `stoppedTwice` (history) has the engines whose writer one `stop` captured
  while another still held it. `stop` is nine actions from `CallStop` to
  `ClearReplies`; `start` calls `stop` and goes on at `launch`.
- The engines, numbered in the order of their start: `kind` ("exec", a child
  process, or "jni", the library in the app's own process), `state`, the pipes
  `toEngine` and `fromEngine`, `open` for the app's ends of them, and `genmove` and
  `analysis` for the command the engine still owes a text. `stdin` holds the lines
  `getline` has taken from the pipe: an executable has its own, all jni engines
  share the app's `cin` (index 0), and `cinEof` once set stays set. `watched` is
  `KataProcess.exited`.
- The read loop of an engine: at `read` with the id it collects a text for, at
  `deliver` between the test of `awaiting` and the write to `replies`.
- Each line that `gtp.cpp` reads first ends a running analysis, which prints its text,
  then answers: a reply of one line, or a header whose text follows later.

Abstractions: a line is its kind and id, together with the blank line after it;
`info` lines and stderr are left out; the reply and the process are looked at in
one step of the polling loop, except that a reply delivered while `send` gives up may stay
(`GiveUp`); `interrupt` is modelled while an analysis runs, any other empty line
is skipped by the engine; fields that are not `@Volatile` are read as if they
were. A crash of an in-process engine is the death of the app, which is
`AutotuneApp`'s subject; here an engine may fail to load, quit, meet the end of its input
or be killed.

### Game and GameFlow

Every coroutine of the game runs on the main thread, so a step is what one of them
does between two suspensions (in `send`, in `withContext(IO)`, in `delay`), what the
engine does with one command, or a tap.

- `moves` is `board.moves`; `gameActive`, `engineBusy`, `replayingSave`,
  `engineLoading`, `engineColor`, `loadingJob` and the two dialogs are the activity's
  fields. `job` has a record per coroutine: `pc` names where it is suspended, `list`
  and `i` the moves it is sending, `attempt` the first or second try of `startGame`,
  `reply` what `send` came back with, `cancelled` whether its job was cancelled.
- The engine is `alive`, `board` and `pipe`, the commands written and not carried out;
  the `Exec` actions are its commands. A wait can end with "= timeout" (`TimeOut`) or,
  when the engine is gone, with its error; the number of both is bounded. `Forbidden`
  vertices stand for moves only the engine refuses.
- `Load` is `startGame` with `startEngineOnce` (two attempts, setup, replay of the
  saved moves, fallback, cancellation), `EngineMove` is `engineMove` with `applyAiMove`,
  `syncEngineToLocal` and the score after two passes, `Handle` the player's handlers
  after their `send`, `Tap` what a finger can do. What a tap can reach follows the screens: a
  dialog covers the board, the loading screen covers everything.
- `sound` is history: the game was asked for and loaded without disturbance and has not
  been left. A game is disturbed by a cancelled load, a failed replay (the second attempt replays onto a
  board that has a part of the moves already), a tap accepted during the replay, and a
  play or undo that timed out (the engine may still refuse it). `newGame()` during a
  replay does not cancel the load: its second attempt sets up a game nobody asked for
  600 ms later. The safety properties are about sound games, the liveness properties
  about all.
- `OthersResumed` is an assumption about time: loading an engine takes seconds, so a
  coroutine that was cancelled or whose wait has ended runs before a fresh engine has answered the setup.

`Game` has three variables: the phase, the position, the engine's colour. Nothing but a
move of its owner, a refusal, an undo or leaving changes the position.

### GoRules, GoGame, KataBoard, BoardState

`GoRules` states groups and liberties as sets, capture, suicide, the simple ko and
prisoners; `GoGame` is a game by them, with moves taken back and points set (`SetTo`: what is there is taken
off and the new stone played if it can be, out of turn). Both boards are
shown to implement it, so they cannot disagree on what a move does, on whether it is
allowed or on what undo restores: the app's optimistic move is refused by the engine only
where the engine has rules of its own.

`KataBoard` keeps what `board.cpp` keeps: `colors`, `chain_head`, `next_in_chain`, `libs` and
`locs` per head, `ko_loc`, prisoners, and the hash as the set of Zobrist keys in it. Each C++
function that changes the board is an operator from board to board, in the order of its
statements (`MergeChains` swaps the smaller chain, splices the lists and counts new
liberties; `Undone` puts captured stones back and rebuilds a chain that is cut). A loop over the
neighbours or over a list is `InTurn`, a recursion of the code that floods a region is `Flooded`, with the
points it has yet to look at as its stack. What the code counts stone by stone while nothing else of the
board changes is counted at once (`NewLibertiesOf`, `ChangeSurroundingLiberties`). `Forget`
resets what stale memory of removed stones would hold, which no code reads. `Vital`, `Heads`,
`AliveHeads`, `PassAlive` and `Territory` are the Benson part of `calculateArea`. The history
variables are `earlier`, the positions before the recorded moves, and `safe`, the stones each
side had alive when it last moved.

`BoardState` floods a group when it needs it and keeps per move what `popLast` needs to
rebuild the board. `neighbors` is the sequence the code builds from row and column, `liberties`
counts an empty point once for every stone beside it, as the code does, `captureOn` is the loop of
`isLegal` over its copy of the board, and `Unwound` takes moves back one after the other.

### SearchBot, AsyncBot, AnalysisEngine

In `AsyncBot` a critical section of `controlMutex` is one action. `uPc`, `sPc` and `cbPc` are
the caller, the search thread and the callback thread; `asleep` has the threads in a wait,
which ends with a notification or for no reason (`SpuriousWakeup`). `Launch` stores the job and
resets the stop flag, `Notify` comes after the unlock. Another thread may call
`stopWithoutWait` or `setKilled` at any time. A stop before a launch is reset by it, as in the
code. `SearchBot` is what is left of this for a user: job, stop, killed, answered.

`AnalysisEngine` has the main thread (`mPc`, and `mTodo`, the requests its step has left), the
analysis threads (`tPc`, `tRequest`), their bots, the writer and the two
queues. `status` is the atomic of each request: in queue, popped, terminated or the thread that
searches it. `Claim` is the compare-and-exchange of the thread that popped the request,
`TerminateRequest` the exchange of a terminate action and `StopItsBot` the stop that follows
it. A push wakes the sleepers only if the queue was empty, as `forcePush` does.

### AiCoach

`DetectHumanMistake` queues an explanation; the worker receives a signal, drains the queue
by priority and age, drops stale entries, and explains the others through the router
(`Route`, then one `Call` after the other over `Attempts`). The user's questions go to the router
directly, at the same time. `health` is the `ProviderHealth` of the providers registered
now, `generation` counts how often they were replaced. A call keeps the provider object it
began with, so its late answer reaches only that generation. A test does not: `testing` is
the provider's name and the generation of the settings tested, `Unsaved` for the form of the settings
dialog, and `TestEnds` gives the outcome to whichever provider is registered under the name by then.
Two history variables keep the two apart: `blame` names the providers with a failure of their
present settings, in a call or a test, `mistested` those charged with a failed test of other settings.
One test runs at a time.

## Runs

| Run | Instance | Shows |
|---|---|---|
| `OpenClTuner_recovery` | 1 model, 1 GPU, 2 versions, 2 families (second FP16), flaky cases, writes succeed | `MeasuredConfigs`, `RunsWhatIsStored`, `PartialResultDurable`, `LoadingScreenTruthful`, `RestoreBeforeTuning`; `StartSettles` under fairness |
| `OpenClTuner_files` | 2 models, 1 GPU, auto copy on or off, writes may fail | `MeasuredConfigs`, `UsableFileKept`, `FailedNeverRetried` |
| `AutotuneApp_launch` | 1 model, 2 cases, kills, cancels | `PendingCoversGame`, `DeathNoticed`, `TunerSpec` (the app implements the tuner's specification); `CrashLoopEnds` under fairness |
| `GtpEngine_restart` | 2 engines in turn, of either build, the main thread and an IO thread stop them; no commands | `PipesKept`, `QuitsByItsOwnStop` |
| `GtpEngine_cancel` | 1 coroutine, 1 engine of either build, 2 ids, stops by the main thread | `RepliesMatch`; `Served` under fairness |
| `GameFlow_play` | 2 points, one of them refused by the engine, 2 games, one of them saved, 1 handler at a time, 2 moves, 1 failure | `InSync`, `AskedInItsTurn`, `GameSpec` (implements `Game`); `TurnComesBack`, `LoadingEnds` under fairness |
| `GameFlow_replay` | as above | `ClosedWhileReplaying` is violated (see Findings) |
| `KataBoard_play` | 3x2, any stones to begin with, suicide or not, 2 moves to take back | `ChainsConsistent`, `KataLegalByTheRules`, `LookaheadExact`, `PassAliveStays`, `KataGameSpec` (implements `GoGame`) |
| `BoardState_play` | 3x3, 5 vertices, 7 moves | `LegalByTheRules`, `GameSpec` (implements `GoGame`) |
| `AsyncBot_play` | 4 calls, 2 visits, a second thread that stops or kills | `OneOwner`, `MoveIsThere`, `BotSpec` (implements `SearchBot`); `StopReturns` under fairness |
| `AnalysisEngine_requests` | 2 threads, 2 requests (the second more urgent and reporting), 1 terminate action, both ways of quitting | `OneFinalReply`, `StopHitsItsOwn`, `LiveRequests`, `BotsKept` (uses `SearchBot`); `Concludes` under fairness |
| `AiCoach_calls` | 2 providers, 2 failures to be left out, 3 requests, 1 HTTP error, 6 moves | `BlameIsEarned`; `SpinnerEnds` under fairness |

Bounds. Two families are enough for "some families done, some not", for the
order of FP16 and FP32 families and for the loop's end; one or two cases for the
reference case, a better case and a blacklisted case; two versions (or GPUs) for a
foreign fingerprint; two models for the copy loop. Further values repeat these
situations. In `GtpEngine`, two ids are a command and an analysis, or a
cancelled command and the next one, on one stream; two engines are the one that
is stopped and the one that is started; `MaxEngines` and `MaxId` bound only
guards that take a new engine or id. Commands say nothing of pipes and quits, and replies
that cross a restart (two engines, commands and an IO thread together) are covered by the theorems
`RepliesReachTheirCommand`, `PipesAreKept` and `QuitsWhenTold`, which have no bound. `MaxCount` saturates the recovery counter at the limit it is compared
with.

In `GameFlow`, two games are the one left and the one whose coroutines must not meet it;
the saved game has two moves, so that a tap can fall between them; two moves on a board
reach "the engine refused my move", two passes, and an undo with one and with two moves; the one failure is
placed at every point by the exploration. In `KataBoard`, 3x2 has
kos, snapbacks, chains that merge from three sides and are cut by an undo, and pass-alive
groups with two eyes; the run begins from every placement without dead stones, so two moves
follow every position, and further ones repeat it. 3x3 in
`BoardState` has a centre with four neighbours; the five vertices let a corner capture, a
ko and a suicide happen. In `AsyncBot`, four calls are a launch, one that stops it, a
relaunch and a destruction. In `AnalysisEngine`, two threads and two requests let a stop
for one request meet the other, and a terminate meet each stage of either; the theorems
cover any numbers. In `AiCoach`, the limit of five failures is two.

No state constraint is used: every run explores the whole reachable graph within the bounds named
in the guards. Deadlock is checked except in `GameFlow`, `AsyncBot`, `AnalysisEngine` and
`AiCoach`: there the system may stop for good, when the bot is destroyed, the engine has ended its
threads, or the bounded number of games, calls or requests is used up and nobody waits
for anything; that nobody waits is what their liveness properties say.

Fairness. `FairSpec`: the engine thread is a running thread, so it takes its next
step or dies in a benchmark (`WF(ThreadStep \/ BenchCrash)`); nothing else is
fair, in particular no one has to kill or quit anything. `FairAppSpec` adds that
the user opens the app and starts games again and again, which is what makes a
crash loop, and that a preference write which is possible again and again
reaches the disk (strong fairness on the flushes). Without the last assumption
a crash in every run before the write lets the counter stay at zero.
`FairSpec` of `GtpEngine`: threads are scheduled, coroutines are resumed, and an
engine that was given a command works on it; nothing has to call `send`, `start` or
`stop`, and no time limit has to expire, so `Served` says that the waits end without the
300 s of `send` and the 40 s of `stop`. It is stated for behaviours in which
only the main thread stops engines; known disagreement 5 is why.
`CrashLoopEnds` leaves out a user who keeps closing the app in an orderly way
(which resets the counter, `onDestroy`) or keeps restoring the defaults.

`FairSpec` of `GameFlow`: the engine carries out what it is sent, and the main thread resumes
every coroutine that can go on, each for itself because the dispatcher is a queue. No tap has to
come and no time limit has to expire. `FairSpec` of `AsyncBot`: the threads are scheduled and a
search for a move makes visits, of which it has a limit; pondering need not end by itself, and no
further call has to come. `Spec` of `AnalysisEngine`: the threads are scheduled and searches
reach their limits; no input has to come, not even its end. `Spec` of `AiCoach`: the
coroutines run, and a call to a provider ends, by the timeout of the HTTP client at the latest.

## Proofs

`OpenClTunerProofs`. `TypeInv` strengthens `TypeOK` with two facts about phases
(a benchmark has a case to run; a restored file is usable). `MeasuredInv` is
`MeasuredConfigs` plus the same fact for what the thread holds in memory and for
the legacy checkpoint: without them a configuration could enter a file from an
unmeasured source. `Types`, `OnlyMeasuredConfigs`. `FileInv`: from a failed lookup until the file is written
the thread's own tune file is not usable, hence every write hits a file with nothing to lose
(`UsableFilesKept`). `BlacklistInv`: the file is within the list in memory, so
rewriting the whole file loses nothing, even after a failed write
(`FailuresRemembered`). `MarkerInv` says per phase which marker is there: a marker
outside its phases never is, whether writes fail or not, and inside them it is if they do not
(`LoadingScreenIsTruthful`). Assuming that writes do not fail: `StoredInv`,
`RestoreInv` and `PartialInv` tie memory to the files (`RunningIsStored`,
`TunesOnlyFromNothing`, `PartialResultsAreDurable`). The assumption is needed: a
checkpoint that could not be written is not there to be restored, and a tune file that could
not be written differs from what runs.

The app, in the second half of `OpenClTunerProofs`. Every step of the app is a step of the tuner's environment or
leaves it alone (`AppImplementsTuner`), so every theorem about `Spec` holds in the
app. `RecordInv` relates the pending flag in memory and on disk to the stage of
the activity and to how the last session ended; it gives `PendingFlagCoversGame`
and `DeathsAreNoticed`.

`GtpEngineProofs`. `RepliesMatch` is not inductive: what is still in the pipe
matters. `StreamInv` says of every engine that a text right after a header is the
header's, that the first text is for what the read loop collects, and that a text the
engine still owes will not land behind another command's header; with it
`RepliesReachTheirCommand` holds for any number of coroutines, engines and ids, and
without any assumption on `awaiting`, timeouts or stops. `PipesAreKept` rests on
`NewEngineIsPrivate`: between its launch and its assignment to `process` no other thread
can have captured an engine, so no overlapping `stop` can destroy it unseen. `QuitsWhenTold` makes
no assumption on who calls `stop()`. `QuitInv` follows a
`quit` from the `stop` that writes it to the engine that reads it: a line stays in the pipe of the engine it was
written to until that engine reads it (`LinesTo`), and one jni engine at most is on its thread (`OneJni`). The rest speaks of the
engines outside `stoppedTwice`: one `stop` at most holds such an engine (`OneHolder`), who has written its `quit` still holds it while
it is in place (`ToldBy`, `WriterKnown`), so it is told once (`ToldOnce`), and a `quit` for it that was
read ahead into the shared `cin` is the only one there and meant for the engine that reads `cin` (`Shared`).

`GameFlowProofs`. `IInv` has three parts: `Types`, `Discipline` (what holds of the coroutines in any game: an
ended one has left nothing behind, every load but the last is cancelled, and a flag that locks the board belongs to
a coroutine that will release it) and, for a game that is sound, `Stage`. A stage says what is on its way between the app and
the engine: `Opening`, `Replaying`, `HumanTurn` (nothing that changes the engine's board, so `InSync`), `EngineTurn` (which of the steps of
the answer is under way: the human's move, an undo, the genmove, the resynchronisation, its second
genmove) or `Over`. The pipe and the suspended coroutines have to be in it because `InSync` says nothing of the moments
in between, from which it must hold again. `BoardsInSync` and `EngineAskedInItsTurn` follow, for any
board, saves, numbers of games, handlers, moves and failures. `GameImplemented` assumes `SavesAlternate`, that
the colours of a save alternate from black: a move of `Game` is made by its owner, and `startEngineOnce` replays whatever the
file holds. The app writes such saves, except for the pass of the finding below: it is put into the middle of
the moves that are replayed, and the save made of them does not alternate.

`BoardProofs`. First the rules: `BesideIsAdj`, the four cases of `neighbors()` are the points at
distance one, without a wrap at the edges; `GroupIsClosure` and `FloodedGroup`, the flood of the rules and that of the
app both end at the least set that contains the stone and is closed under neighbours of its colour, so they are
equal; `LibertyCount`, counting a liberty twice changes neither "none" nor, for a single stone, "one", which is all
the code asks. `CapturesInTurn` shows that taking groups off a copy one after the other, with the liberties
counted anew each time, takes off what the rules take at once: `Removal`, a group that still has liberties keeps
exactly them when others of its colour disappear. `LegalEverywhere` and the step of `BoardImplemented` for a move follow. For undo, `History` is the
inductive part: every recorded move, taken back from the position after it, gives the position before it
(`MoveRestored`), so `popLast` n times is the position n moves ago (`UnwoundIsPast`). The recursive functions
over sets and numbers are not evaluated by induction theorems with an operator parameter; the lemmas take a least counterexample,
which the library's `WFMin` gives for finite sets and for natural numbers. The sections after the legal moves are
about positions and lists alone and are there for the engine's board: the invariant of a loop (`Loops`), lists that are
walked in a circle, spliced and cut, counting, how a stone changes the groups around it, and Benson's argument below. The
last sections are the contracts of the functions of `board.cpp` that play a stone, up to `PlayImplements`.

`KataBoardProofs`. `KataInv` is inductive: `Solid` says that every head has a circular list through exactly its group,
with its size and liberties, that every stone has a head, that the hash is that of the stones and that no group is without
liberties; `Remembers` adds that every record tells how the position it belongs to became the next. While a move is
played none of this holds, so each function has its own contract.
`MeetNone`, `MeetOwn` and `MeetOther` follow a new stone past its neighbours: chains met so far are one list or are off the board,
and the liberty it took is still owed by those it has not met (`Counted` with the chains that owe). `PlayImplements` concludes that playing is the
referee's move. For undo, a captured group is flooded back (`Flooded` ends at the group, as a recursion
does), and the stone of the move is taken off a chain that stays whole (`Unlink`) or falls apart (`Rebuild`): `UndoRestores`. `Regenerated`
is the same for stones set on an empty board, and `StoneSet` for `setStone`: `removeSingleStone` takes the whole chain off and plays
its other stones again one by one, which must capture nothing, give no prisoner and leave every stone but one
(`SingleRemoved`: the stones played so far are always a part of a position without dead groups, `PartTaken`, and such a move takes nothing,
`QuietMove`). `KataInvariance`, `ChainsAlwaysConsistent`, `KataLegalEverywhere` and
`KataBoardImplemented` follow. For `LookaheadAlwaysExact`, `Foreseen` says what a stone will have around it from what is there before, and
`Tally` bounds what the loop over the neighbours has added up. `PassAliveForGood` proves Benson's theorem for the code's rounds:
`AliveSecure`, the heads left when a round takes none away are `Secure`, that is, each of their chains has two regions
that it touches everywhere (where suicide is not allowed, at every empty point), with no chain around them but secure ones; `SecureStays`, a legal move of the other
side keeps that, because filling the last empty point of one of two such regions would capture nothing and be suicide. `KataSafe`
is the strengthening of `PassAliveStays`: what was found alive is still secure, not only still there. That no point is the territory of both sides
(`TerritoriesApart`) holds in every position: `board.cpp` relies on it when it marks territory ("These should be mutually exclusive").
`KataTypeCorrectness` adds to `KataInv` that counters of points that are no heads are zero (what `Forget` does), that the prisoners of
every position that may return are natural numbers, and the bound on the records.
`KataBoardProofs` extends `BoardProofs` for its lemmas; nothing it states speaks of the app's board or its bounds.

`AsyncBotProofs`. `Phases` says where the three threads can be together (a thread in a search
means `isRunning`; a caller who owns the search has seen it false), `Jobs` what becomes of the
launches (the last one is answered once it is over, unless the bot was killed, and the next has a
fresh id). They give `OneOwnerHolds`, `MoveIsThereHolds` and, step by step, `BotImplements`: every
action is a launch, a stop, a kill, an end or a stutter of `SearchBot`.

`AnalysisEngineProofs`. `Places` says where each request is (to be queued, queued, with exactly one
thread, or freed), `Work` what the main thread still has to do with which requests under which
lock, `Statuses` what the atomic says about the thread that serves the request, `Stops` the
strengthened `StopHitsItsOwn`, which also speaks of launched searches, and `Answers` that a
bot has answered nothing its thread still has to launch. `LiveRequestsHold`, `StopsHitTheirOwn`
and `BotsAreKept` follow, for any number of threads, requests, actions and priorities. The list the main
thread walks through is a set here, and the walk takes its least element, which exists by
well-founded induction on the numbers of requests. For the replies, a request is `Pending` while it is queued or a thread is at work on it; `Replied`
says that it has a final reply exactly when it is not (unless the engine quits without waiting), and that
nothing about it follows. It is inductive with `Claimed` (a request that left the queue by a
terminate or by a thread is not found "in queue" by the other), `Searched` (a search that is over has a result unless
it was stopped for its request), and `ClosedLast` (the writer's queue is closed when no thread can push to it). `OneReplyEach` follows.

`AiCoachProofs`. A provider's health is either that of a fresh one or rests on a failure that is recorded, of its present settings
(`blame`) or of a test of others (`mistested`); saving the settings replaces all of it. `BlameIsAlwaysEarned`, for any providers,
preferences and failure limit, leaves no other way: a call begun before a save is held against nobody.

Assumptions on the constants: there is at least one model, GPU and version, `NK`
and `NC` are positive, the first family is not FP16, outcomes are nonempty sets
of results, `MaxCount` is at least the limit of 3; in `GtpEngine`, the kinds are
"jni" and "exec" and the two bounds are natural numbers; in `GameFlow`, no point is named like a pass or an answer of
the engine, the refused points are points, saves are sequences of moves and the bounds are natural numbers; in
`GoRules`, the board has a height and a width of at least one; in `BoardState`, the vertices that are tried are points and the bound is a natural number; in `KataBoard` the bounds are natural numbers; in `AsyncBot` and `AnalysisEngine` the bounds
are natural numbers, a search has at least one visit, and threads are not named like a status;
in `AiCoach` those of its `CoachAssumption`.

Type correctness is proved for `OpenClTuner`, `AutotuneApp`, `GtpEngine`, `GameFlow`, `BoardState`, `KataBoard` and `AsyncBot`,
and as part of the invariant for what the proofs of `AnalysisEngine` and `AiCoach` need.

`LoadingScreenTruthful` is checked with writes that succeed and proved for failing ones too.

Model-checked only: `StartSettles`, `CrashLoopEnds`, `Served`, `TurnComesBack`, `LoadingEnds`,
`StopReturns`, `Concludes` and `SpinnerEnds`: liveness under fairness is out of the prover's reach. Every safety invariant,
action property and refinement that a passing run checks has a theorem; `ClosedWhileReplaying` does not hold.

## Findings

`ClosedWhileReplaying` (run `GameFlow_replay`): `humanPass()` and `undo()` do not look at
`replayingSave`, and `gameActive` is true while the moves of a saved game are replayed one by one. A tap on
Pass between two of them puts a pass in the middle of the saved game, on the board and in the
engine. `MainActivity.kt:466-468` says that the board must not accept any human input during this time.

## Known disagreements

Five statements of the repository that the models contradict. Each is a definition of its module that
does not hold; a run of the named configuration with the definition as its only property shows the behaviour.

1. `CompletedHoldsTuned` (`OpenClTuner`; `OpenClTuner_recovery.cfg`). `tune()` finishes the checkpoint with the
   text of a variable that is assigned five lines later: a completed checkpoint holds the default
   configuration. `opencltuner.cpp:5086` says "finalize with the tuned config text".
2. `BoundToHardware` (`OpenClTuner`; the same with `Gpus = {g1, g2}`). `beginTuning()` stamps a new
   fingerprint on a checkpoint that keeps another device's configuration; a crash then restores it into the wrong
   tune file. `opencltuning_recovery.h:28` says "every record is bound to a hardware/profile fingerprint".
3. `DisabledOnlyAfterDeath` (`AutotuneApp`; `AutotuneApp_launch.cfg`, as a PROPERTY). The CRASH line of a recovered
   crash is still in the log at later launches; the GPU is disabled for good after an orderly session.
   `MainActivity.kt:493` takes the line as the death of the previous run.
4. `TuningCrashRecognised` (the same). A cancelled or timed-out start clears the pending flag while the engine
   thread tunes on; its crash is taken for a crash in play. `AutotuneWatchdog.kt:15-16` says that
   `hadCrashDuringAutotuning()` returns true after a crash in tuning.
5. `WaitingIsAwaited` (`GtpEngine`; `GtpEngine_cancel.cfg` with `Stoppers = {io}` and `MaxId = 1`). `stop()` clears `process` before it compares it with
   what it captured, so `awaiting` and `replies` are cleared only by a `stop()` that found no engine, and that one
   tests and clears in two steps: on an IO thread it can wipe the ids awaited from an engine started in
   between, whose reply is then dropped. `GtpEngine.kt:122-123` says "never destroy or clear the *new* process's
   pipes/state".

Observations without a line to set against them, or about wording:

- When an IO thread stops engines (`MainActivity.kt:876-880`, `964-965`), two stops can both write `quit` to one
  jni engine; the second stays in the shared `cin` and ends the next engine. `QuitsByItsOwnStop` names this as its only exception;
  without `told \in stoppedTwice` it is violated in `GtpEngine_restart.cfg`. A coroutine whose engine was replaced between two polls sees a live process and waits out its 300 s
  (`Served` is stated for the engine in place).
- With a preferred provider and no fallback, `Attempts` is the first candidate: when the preferred one is left out, that is
  another provider. `AiRoutePolicy.kt` says of MANUAL "Follow the user's explicit provider choice."
- A rate limit, a used-up quota or too many failures never expire: the provider is no candidate, so the success that would
  clear them cannot come; saving the settings or a test does.
- `testAiDraft` charges the outcome of a test to the provider registered under the name, though it tested the form of the dialog, or
  settings that were saved anew in the meantime: a mistyped key in the form leaves out a working provider, and a good key in it
  readmits one whose saved key is refused. `BlameIsEarned` names this as its only exception; without `p \in mistested` it is violated
  in `AiCoach_calls.cfg`.
- `newGame()` does not clear the commentary queue: an explanation of the old game can land in the next one's chat.
- A `stopWithoutWait` that arrives before the launch it was meant for is reset by it; an exception in a search ends the
  search thread with `isRunning` true. The callers in this repository do not run into either.

- `setStone()` on an empty point plays a stone that takes its own group's last liberty, and the group comes off; where it
  replaces a stone it refuses any such move, and the point stays empty (`SetTo` states both). `board.h:221-222` speaks of
  "any captures and/or suicides [...], including deletions of the stone itself" for both.

## Not modelled

The kernels, their timing and the error tolerance of a benchmark; the text
formats of tune file, checkpoint and blacklist (a file is the record it
carries; a checkpoint that does not parse cannot arise from atomic writes);
tuning per board size and the `-config` override of the tune file (not used by the
app); the engine preferences other than "auto".

Of `board.cpp`, the ladder search, the independent-life part of the area, and parsing; of `BoardState.kt`,
`score()` and the GTP text, which nothing calls. Of the analysis engine, the parsing of queries and their error
replies, and `query_version` and its like. Of the commentary, prompts, the judgement of moves and the usage counters.

KataGo's search, evaluation, game history and numerics, its training, match and book programs, its
CUDA, TensorRT and Eigen backends, and the vendored OpenCL layers and headers are by far the larger part of the
lines in the repository. They are numerical or out of use in the app; the map covers little of them, and widening
it would mean modelling code that has no states for TLC to explore.

## Plan

Done: the tuner and the app around it, the GTP client, the game flow, both boards, the bot, the
analysis engine and the commentary. Next:

1. `GameSaveStore`: in-place write, trimming to the newest games, names by millisecond, migration of the old file.
2. `OpenClDownloadWorker` and `NetworkStore`: resume after a kill, install of complete files only.
3. The search tree's virtual losses and the evaluation queue of `nneval.cpp` as a component of its own.
