---------------------------- MODULE AutotuneApp ----------------------------
(***************************************************************************)
(* The Android app around the OpenCL tuner: MainActivity.onCreate (what to  *)
(* do about the previous run), AutotuneWatchdog (recovery counter, markers),*)
(* startEngineOnce (GPU engine first, CPU fallback), onDestroy, and the     *)
(* native log that records a fatal signal.  The GPU engine runs in the app's*)
(* own process, so its crash kills the app.                                 *)
(*                                                                          *)
(* The engine preference is "auto" and "force GPU" is off (the defaults).   *)
(* A SharedPreferences file is a value in memory and one on disk: commit()  *)
(* writes through, apply() reaches the disk later, or never when the        *)
(* process dies first.                                                      *)
(***************************************************************************)
EXTENDS OpenClTuner

CONSTANTS
    MaxCount,    \* where the recovery counter saturates, for model checking
    OsKills,     \* whether Android may kill the process
    UserCancels  \* whether the user cancels loading or it times out

MAX_AUTOTUNE_RECOVERY == 3

\* The counter is only compared with the limit.
ASSUME MaxCountAssumption == MaxCount \in Nat /\ MaxCount >= MAX_AUTOTUNE_RECOVERY

VARIABLES
    app,            \* the activity: "closed", "home", "starting", "loading", "gpu", "cpu"
    alive,          \* the app's process exists
    gpuDisabled,    \* MainActivity.gpuDisabled
    katago,         \* preferences "katago" in memory: [pending, disabled]
    katagoDisk,
    watchdog,       \* preferences "autotune_watchdog" in memory: [count, disabled]
    watchdogDisk,
    engineLog,      \* engine_native.log: "none", "clean" or "crash"
    prevLog,        \* engine_native.prev.log
    wanted,         \* model of the game being started
    lastExit        \* history: how the last session ended

prefs   == <<katago, katagoDisk, watchdog, watchdogDisk>>
logs    == <<engineLog, prevLog>>
appVars == <<app, alive, gpuDisabled, prefs, logs, wanted, lastExit>>
allVars == <<vars, appVars>>

KatagoPrefs   == [pending : BOOLEAN, disabled : BOOLEAN]
WatchdogPrefs == [count : 0..MaxCount, disabled : BOOLEAN]

AppInit ==
    /\ Init
    /\ app = "closed" /\ alive = FALSE /\ gpuDisabled = FALSE
    /\ katago = [pending |-> FALSE, disabled |-> FALSE] /\ katagoDisk = katago
    /\ watchdog = [count |-> 0, disabled |-> FALSE] /\ watchdogDisk = watchdog
    /\ engineLog = "none" /\ prevLog = "none"
    /\ wanted \in Models
    /\ lastExit = "clean"

Commit(p) == katago' = p /\ katagoDisk' = p
Apply(p)  == katago' = p /\ UNCHANGED katagoDisk

----------------------------------------------------------------------------
(* onCreate *)

\* AutotuneWatchdog.hadCrashDuringAutotuning: nothing writes gpu_crashed.marker,
\* so the pending flag alone decides, whatever the checkpoint says.
HadCrashDuringAutotuning == katago.pending

\* A "CRASH signal=" line in the log of the last GPU start or of the one before.
HadNativeGpuCrash ==
    engineLog = "crash" \/ prevLog = "crash" \/ HadCrashDuringAutotuning

PermanentlyDisabled == katago.disabled \/ watchdog.disabled

\* The watchdog looks for it in tuning_checkpoint.json.
HasSuccessfulCheckpoint == \E c \in legacy : c.last # {}

Created(disabled) ==
    /\ app = "closed" /\ app' = "home"
    /\ alive' = TRUE
    /\ gpuDisabled' = disabled
    /\ lastExit' = "running"
    /\ UNCHANGED <<env, uiFlags, store, tuneFile, tuning, copying, pc, profile, cur, logs, wanted>>

Recoverable == ~PermanentlyDisabled /\ HadNativeGpuCrash /\ HadCrashDuringAutotuning
Counted     == [watchdog EXCEPT !.count = IF @ < MaxCount THEN @ + 1 ELSE @]
Exhausted   == Counted.count >= MAX_AUTOTUNE_RECOVERY

\* Nothing recorded about the previous run.
LaunchClean ==
    /\ ~PermanentlyDisabled /\ ~HadNativeGpuCrash
    /\ Created(FALSE)
    /\ UNCHANGED <<markers, prefs>>

\* Mutant of LaunchRetry: the attempt is not counted.
LaunchRetryUncounted ==
    /\ Recoverable /\ ~Exhausted
    /\ Created(FALSE)
    /\ Commit([katago EXCEPT !.pending = FALSE])
    /\ recoveryMarker' = TRUE
    /\ UNCHANGED <<safeMarker, watchdog, watchdogDisk>>

\* handleAutotuneCrash: RETRY_WITH_RECOVERY
LaunchRetry ==
    /\ Recoverable /\ ~Exhausted
    /\ Created(FALSE)
    /\ watchdog' = Counted
    /\ Commit([katago EXCEPT !.pending = FALSE])
    /\ recoveryMarker' = TRUE
    /\ UNCHANGED <<safeMarker, watchdogDisk>>

\* handleAutotuneCrash: USE_SAFE_DEFAULTS
LaunchSafeDefaults ==
    /\ Recoverable /\ Exhausted
    /\ HasSuccessfulCheckpoint
    /\ Created(FALSE)
    /\ watchdog' = Counted
    /\ Commit([katago EXCEPT !.pending = FALSE])
    /\ safeMarker' = TRUE
    /\ UNCHANGED <<recoveryMarker, watchdogDisk>>

\* handleAutotuneCrash: DISABLE_GPU.  Only "pending" is committed.
LaunchGiveUp ==
    /\ Recoverable /\ Exhausted
    /\ ~HasSuccessfulCheckpoint
    /\ Created(TRUE)
    /\ watchdog' = [Counted EXCEPT !.disabled = TRUE]
    /\ katagoDisk' = [katago EXCEPT !.pending = FALSE]
    /\ katago' = [pending |-> FALSE, disabled |-> TRUE]
    /\ UNCHANGED <<markers, watchdogDisk>>

\* A native crash record, but no attempt pending: "crash during normal play".
LaunchDisable ==
    /\ ~PermanentlyDisabled /\ HadNativeGpuCrash /\ ~HadCrashDuringAutotuning
    /\ Created(TRUE)
    /\ Apply([pending |-> FALSE, disabled |-> TRUE])
    /\ UNCHANGED <<markers, watchdog, watchdogDisk>>

LaunchDisabled ==
    /\ PermanentlyDisabled
    /\ Created(TRUE)
    /\ Apply([pending |-> FALSE, disabled |-> TRUE])
    /\ UNCHANGED <<markers, watchdog, watchdogDisk>>

Launch == \/ LaunchClean \/ LaunchRetry \/ LaunchSafeDefaults
          \/ LaunchGiveUp \/ LaunchDisable \/ LaunchDisabled

----------------------------------------------------------------------------
(* startGame / startEngineOnce *)

\* Mutant of StartGame: the flag is written with apply().
StartGameAsync(m) ==
    /\ app \in {"home", "gpu", "cpu"} /\ ~gpuDisabled
    /\ Apply([katago EXCEPT !.pending = TRUE])
    /\ prevLog' = IF engineLog = "none" THEN prevLog ELSE engineLog
    /\ engineLog' = "clean"
    /\ wanted' = m
    /\ app' = "starting"
    /\ UNCHANGED <<vars, alive, gpuDisabled, watchdog, watchdogDisk, lastExit>>

\* The GPU engine is a candidate: prepareForGpuStart, then engine.start, which
\* archives the native log before it asks for the engine thread.
StartGame(m) ==
    /\ app \in {"home", "gpu", "cpu"} /\ ~gpuDisabled
    /\ Commit([katago EXCEPT !.pending = TRUE])
    /\ prevLog' = IF engineLog = "none" THEN prevLog ELSE engineLog
    /\ engineLog' = "clean"
    /\ wanted' = m
    /\ app' = "starting"
    /\ UNCHANGED <<vars, alive, gpuDisabled, watchdog, watchdogDisk, lastExit>>

\* No GPU candidate: the CPU engine is a child process.
StartCpuGame ==
    /\ app \in {"home", "cpu"} /\ gpuDisabled
    /\ app' = "cpu"
    /\ UNCHANGED <<vars, alive, gpuDisabled, prefs, logs, wanted, lastExit>>

\* Mutant of EngineStarts: a second engine thread beside the first one.
EngineStartsAnyway ==
    /\ app = "starting"
    /\ profile' = [model |-> wanted, gpu |-> device.gpu, version |-> device.version]
    /\ copyMarker' = FALSE /\ activeMarker' = FALSE
    /\ pc' = "lookup"
    /\ app' = "loading"
    /\ UNCHANGED <<env, markers, store, tuneFile, tuning, copying, cur,
                   alive, gpuDisabled, prefs, logs, wanted, lastExit>>

\* startEngineInFd, once the previous engine thread is gone.
EngineStarts ==
    /\ app = "starting"
    /\ Start(wanted)
    /\ app' = "loading"
    /\ UNCHANGED <<alive, gpuDisabled, prefs, logs, wanted, lastExit>>

\* The previous engine thread does not exit within 30s: the start fails, the
\* pending flag is cleared and the CPU engine takes over.
EngineRefused ==
    /\ app = "starting" /\ Running
    /\ Commit([katago EXCEPT !.pending = FALSE])
    /\ app' = "cpu"
    /\ UNCHANGED <<vars, alive, gpuDisabled, watchdog, watchdogDisk, logs, wanted, lastExit>>

\* boardsize, komi and clear_board are answered.  The flag stays set.
Handshake ==
    /\ app = "loading" /\ pc = "ready"
    /\ app' = "gpu"
    /\ UNCHANGED <<vars, alive, gpuDisabled, prefs, logs, wanted, lastExit>>

\* A reply is an error, or does not come: the engine thread ended, tuning takes
\* longer than the 300s of send(), or the user cancels.  engine.stop() cannot
\* end a thread that is tuning; the flag is cleared all the same.
HandshakeFails ==
    /\ app = "loading" /\ (~Running \/ UserCancels)
    /\ Commit([katago EXCEPT !.pending = FALSE])
    /\ app' \in IF UserCancels THEN {"cpu", "home"} ELSE {"cpu"}
    /\ UNCHANGED <<vars, alive, gpuDisabled, watchdog, watchdogDisk, logs, wanted, lastExit>>

\* newGame(): engine.stop(); the pending flag is left alone.
EndGame ==
    /\ app \in {"gpu", "cpu"}
    /\ app' = "home"
    /\ UNCHANGED <<vars, alive, gpuDisabled, prefs, logs, wanted, lastExit>>

\* A stopped engine thread that reaches its GTP loop reads quit or end of file.
EngineQuits ==
    /\ app \notin {"loading", "gpu"}
    /\ Quit
    /\ UNCHANGED appVars

----------------------------------------------------------------------------
(* End of a session *)

\* Mutant of CloseApp: the flag is cleared with apply().
CloseAppAsync ==
    /\ app # "closed" /\ app' = "closed"
    /\ Apply([katago EXCEPT !.pending = FALSE])
    /\ watchdog' = [watchdog EXCEPT !.count = 0]
    /\ recoveryMarker' = FALSE /\ safeMarker' = FALSE
    /\ lastExit' = "clean"
    /\ UNCHANGED <<env, uiFlags, store, tuneFile, tuning, copying, pc, profile, cur,
                   alive, gpuDisabled, watchdogDisk, logs, wanted>>

\* onDestroy: onGpuStartSucceeded() and engine.stop().  The process may live on.
CloseApp ==
    /\ app # "closed" /\ app' = "closed"
    /\ Commit([katago EXCEPT !.pending = FALSE])
    /\ watchdog' = [watchdog EXCEPT !.count = 0]
    /\ recoveryMarker' = FALSE /\ safeMarker' = FALSE
    /\ lastExit' = "clean"
    /\ UNCHANGED <<env, uiFlags, store, tuneFile, tuning, copying, pc, profile, cur,
                   alive, gpuDisabled, watchdogDisk, logs, wanted>>

\* The process is gone: what apply() had not written yet is lost.
Die ==
    /\ alive /\ alive' = FALSE
    /\ app' = "closed" /\ gpuDisabled' = FALSE
    /\ katago' = katagoDisk /\ watchdog' = watchdogDisk
    /\ UNCHANGED <<katagoDisk, watchdogDisk, wanted>>

\* The signal handler appends a line to the native log before the process dies.
TuningCrash ==
    /\ BenchCrash /\ Die
    /\ engineLog' = "crash" /\ lastExit' = "tuningCrash"
    /\ UNCHANGED prevLog

PlayCrash ==
    /\ pc = "ready" /\ app = "gpu" /\ Kill /\ Die
    /\ engineLog' = "crash" /\ lastExit' = "playCrash"
    /\ UNCHANGED prevLog

GpuInUse == {"starting", "loading", "gpu"}

\* SIGKILL: no handler runs.
OsKill ==
    /\ OsKills
    /\ Kill \/ (~Running /\ UNCHANGED vars)
    /\ Die
    /\ lastExit' = IF app \in GpuInUse THEN "killed" ELSE lastExit
    /\ UNCHANGED logs

\* An asynchronous apply() reaches the disk.
FlushWatchdog ==
    /\ alive /\ watchdogDisk # watchdog
    /\ watchdogDisk' = watchdog
    /\ UNCHANGED <<vars, app, alive, gpuDisabled, katago, katagoDisk, watchdog, logs, wanted, lastExit>>

FlushKatago ==
    /\ alive /\ katagoDisk # katago
    /\ katagoDisk' = katago
    /\ UNCHANGED <<vars, app, alive, gpuDisabled, katago, watchdog, watchdogDisk, logs, wanted, lastExit>>

\* "Restore defaults" in the settings.
RestoreDefaultConfig ==
    /\ app = "home"
    /\ gpuDisabled' = FALSE
    /\ Apply([pending |-> FALSE, disabled |-> FALSE])
    /\ UNCHANGED <<vars, app, alive, watchdog, watchdogDisk, logs, wanted, lastExit>>

Tuner == ThreadStep /\ UNCHANGED appVars

AppNext ==
    \/ Launch
    \/ \E m \in Models : StartGame(m)
    \/ StartCpuGame \/ EngineStarts \/ EngineRefused \/ Handshake \/ HandshakeFails
    \/ EndGame \/ EngineQuits \/ CloseApp
    \/ Tuner \/ TuningCrash \/ PlayCrash \/ OsKill
    \/ FlushWatchdog \/ FlushKatago
    \/ RestoreDefaultConfig

AppSpec == AppInit /\ [][AppNext]_allVars

\* The engine thread runs, the user opens the app and starts games, and a write
\* queued by apply() that is given the chance again and again gets through.
\* Nobody has to close the app, cancel, or kill anything.
FairAppSpec ==
    /\ AppSpec
    /\ WF_allVars(Tuner \/ TuningCrash) /\ WF_allVars(EngineQuits)
    /\ WF_allVars(Launch) /\ WF_allVars(\E m \in Models : StartGame(m))
    /\ WF_allVars(EngineStarts) /\ WF_allVars(Handshake)
    /\ SF_allVars(FlushWatchdog) /\ SF_allVars(FlushKatago)

----------------------------------------------------------------------------
(* Properties *)

AppTypeOK ==
    /\ TypeOK
    /\ app \in {"closed", "home", "starting", "loading", "gpu", "cpu"}
    /\ alive \in BOOLEAN /\ gpuDisabled \in BOOLEAN
    /\ katago \in KatagoPrefs /\ katagoDisk \in KatagoPrefs
    /\ watchdog \in WatchdogPrefs /\ watchdogDisk \in WatchdogPrefs
    /\ engineLog \in {"none", "clean", "crash"} /\ prevLog \in {"none", "clean", "crash"}
    /\ wanted \in Models
    /\ lastExit \in {"clean", "running", "tuningCrash", "playCrash", "killed"}

\* The app is one environment of the native tuner: it drives it only by starting
\* and stopping engines, and touches only the markers.
TunerSpec == Spec

\* A process that dies with the GPU engine in use, or by a fatal signal in an
\* engine thread the app had already given up, does not go unnoticed: the next
\* launch counts a recovery attempt or leaves the GPU disabled.
DeathNoticed ==
    [][Launch /\ lastExit \in {"tuningCrash", "playCrash", "killed"}
          => watchdog' = Counted \/ gpuDisabled']_allVars

\* A pending attempt on disk is only ever left by a session that reached for the
\* GPU and did not end in onDestroy; while the engine serves a game it is set.
PendingCoversGame ==
    /\ app \in GpuInUse => katagoDisk.pending
    /\ katagoDisk.pending /\ app = "closed" => lastExit # "clean"

\* The crash loop ends: whatever the device does, the process does not die in
\* tuning forever, unless the user keeps leaving the app in between (which resets
\* the counter) or keeps restoring the defaults.
CrashLoopEnds == \/ []<><<CloseApp>>_allVars
                 \/ []<><<RestoreDefaultConfig>>_allVars
                 \/ ~[]<><<TuningCrash>>_allVars

\* The two properties below are promised by comments and do not hold; README.md,
\* "Known disagreements", says why.

\* "If the previous run left a native crash record" (MainActivity.kt:493): a launch
\* takes the GPU out of use only when the session before it died.
DisabledOnlyAfterDeath ==
    [][Launch /\ gpuDisabled' /\ ~PermanentlyDisabled
          => lastExit \in {"tuningCrash", "playCrash", "killed"}]_allVars

\* "If process crashes during autotuning: Next launch: hadCrashDuringAutotuning()
\* returns true" (AutotuneWatchdog.kt:15-16).
TuningCrashRecognised ==
    [][Launch /\ lastExit = "tuningCrash" /\ ~PermanentlyDisabled
          => HadCrashDuringAutotuning]_allVars

=============================================================================
