---------------------------- MODULE OpenClTuner ----------------------------
(***************************************************************************)
(* The native side of OpenCL autotuning: OpenCLTuner::loadOrAutoTune and    *)
(* OpenCLTuner::tune together with the Android stability layer              *)
(* OpenCLTuningRecovery::State (checkpoint, blacklist, recovery markers).   *)
(* One engine thread runs at a time; the process may die between any two    *)
(* steps, the files stay.                                                   *)
(*                                                                          *)
(* A tune file text is abstracted to the case chosen per kernel family,     *)
(* tagged with the GPU it was measured on.  Board size is the full 19x19    *)
(* (openclReTunePerBoardSize is off in the app), so a tune file is named by *)
(* GPU and model.  An optional value is a set of at most one element.       *)
(***************************************************************************)
EXTENDS Integers

CONSTANTS
    Models,         \* network files: one checkpoint file per model hash
    Gpus,           \* OpenCL device names
    Versions,       \* KataGo versions (the app may be updated)
    NK,             \* number of kernel families tuned, in order 1..NK
    NC,             \* candidate configurations per family; case 1 is the reference
    FamilyName,     \* s_recoveryKernelName of each family
    Fp16Families,   \* families whose result is discarded when they fail
    Outcomes,       \* what benchmarking one case may do: subsets of BenchResults
    AutoCopy,       \* values openclAutoCopyTuneFile may take
    WritesMayFail   \* whether a file write may fail (disk full)

BenchResults == {"ok", "fail", "crash"}

ASSUME ModelsAssumption   == Models # {} /\ Gpus # {} /\ Versions # {}
ASSUME BoundsAssumption   == NK \in Nat \ {0} /\ NC \in Nat \ {0}
\* xGemmDirect, the first family, is not an FP16 one.
ASSUME FamilyAssumption   == /\ Fp16Families \subseteq 2..NK
                             /\ FamilyName \in [1..NK -> 1..NK]
ASSUME OutcomesAssumption == Outcomes \subseteq (SUBSET BenchResults) \ {{}}
ASSUME FlagsAssumption    == AutoCopy \subseteq BOOLEAN /\ WritesMayFail \in BOOLEAN

Families == 1..NK
Cases    == 1..NC
Profiles == [model : Models, gpu : Gpus, version : Versions]

\* OpenCLTuneParams: per family, the measured choice, or none (the default).
Picks         == Gpus \X Cases
Configs       == [Families -> SUBSET Picks]
DefaultConfig == [k \in Families |-> {}]

\* A tune file: missing, cut short by a crash, or loadable.
Absent    == [kind |-> "absent"]
Torn      == [kind |-> "torn"]
Usable(c) == [kind |-> "usable", config |-> c]
TuneFiles == {Absent, Torn} \cup [kind : {"usable"}, config : Configs]

\* tuning_checkpoint_<hash>.json; "last" is lastSuccessfulConfig.
Checkpoints == [profile : SUBSET Profiles, status : {"", "in_progress", "completed"},
                last : SUBSET Configs, attempted : SUBSET (Families \X Cases)]
FreshCheckpoint == [profile |-> {}, status |-> "", last |-> {}, attempted |-> {}]
Entries == [profile : Profiles, kernel : Families, case : Cases]

VARIABLES
    \* the device
    device,         \* [gpu, version] the engine sees when it starts
    outcome,        \* outcome[g][k][c]: what benchmarking case c can do
    \* files
    checkpoint,     \* per-model checkpoint file, {} when missing
    legacy,         \* tuning_checkpoint.json left by an older version
    blacklist,      \* tuning_blacklist.json
    tuneFile,       \* tuneFile[g][m]
    recoveryMarker, safeMarker,
    copyMarker, activeMarker,
    \* the engine thread
    pc,
    profile,        \* fingerprint of this run
    mem,            \* State::checkpoint_
    memBlack,       \* State::blacklist_
    cur,            \* currentConfig, or the parameters loaded
    kernel, case,   \* position in the tuning loops
    pick,           \* best case of this family so far
    tried,          \* tune files the copy loop has visited
    source          \* content the copy loop has read

env     == <<device, outcome>>
markers == <<recoveryMarker, safeMarker>>
uiFlags == <<copyMarker, activeMarker>>
store   == <<checkpoint, legacy, blacklist>>
tuning  == <<mem, memBlack, kernel, case, pick>>
copying == <<tried, source>>
vars    == <<env, markers, uiFlags, store, tuneFile, tuning, copying, pc, profile, cur>>

----------------------------------------------------------------------------
Running == pc # "off"
Own     == tuneFile[profile.gpu][profile.model]

SetOwn(f) == tuneFile' = [tuneFile EXCEPT ![profile.gpu][profile.model] = f]

\* recoveryWriteFileAtomic: the new content, or the old file when it fails.
WriteResults == IF WritesMayFail THEN BOOLEAN ELSE {TRUE}

\* What a marker is after it was written: nobody looks at the result.
Announced(marker) == {ok \/ marker : ok \in WriteResults}

SaveCheckpoint(c) ==
    \E ok \in WriteResults :
        checkpoint' = IF ok THEN [checkpoint EXCEPT ![profile.model] = {c}] ELSE checkpoint

\* The checkpoint a State constructed for this profile starts from.
OwnCheckpoint == checkpoint[profile.model]
FromLegacy    == OwnCheckpoint = {} /\ legacy # {}
Loaded        == IF OwnCheckpoint # {} THEN CHOOSE c \in OwnCheckpoint : TRUE
                 ELSE IF legacy # {} THEN CHOOSE c \in legacy : TRUE
                 ELSE FreshCheckpoint

\* State::loadFromDisk: a legacy checkpoint of this profile is migrated.
Migrate == IF FromLegacy /\ profile \in Loaded.profile
           THEN SaveCheckpoint(Loaded)
           ELSE UNCHANGED checkpoint

\* isCheckpointForThisProfile() && hasLastSuccessful()
Restorable == profile \in Loaded.profile /\ Loaded.last # {}

Blacklisted(entries, k, c) ==
    \E e \in entries : e.profile = profile /\ e.kernel = FamilyName[k] /\ e.case = c

----------------------------------------------------------------------------
Init ==
    /\ device \in [gpu : Gpus, version : Versions]
    /\ outcome \in [Gpus -> [Families -> [Cases -> Outcomes]]]
    /\ checkpoint = [m \in Models |-> {}]
    \* written by a version that kept one checkpoint for every model
    /\ legacy \in {{}} \cup { {[profile |-> {p}, status |-> "in_progress",
                                last |-> {DefaultConfig}, attempted |-> {}]} : p \in Profiles }
    /\ blacklist = {}
    /\ tuneFile = [g \in Gpus |-> [m \in Models |-> Absent]]
    /\ recoveryMarker = FALSE /\ safeMarker = FALSE
    /\ copyMarker = FALSE /\ activeMarker = FALSE
    /\ pc = "off"
    /\ profile = CHOOSE p \in Profiles : TRUE
    /\ mem = FreshCheckpoint /\ memBlack = {} /\ cur = DefaultConfig
    /\ kernel = 1 /\ case = 1 /\ pick = {}
    /\ tried = {} /\ source = Absent

\* The engine thread ends (GTP quit, an exception caught by the JNI entry, or
\* the death of the process): its memory is gone.
Halt ==
    /\ pc' = "off"
    /\ mem' = FreshCheckpoint /\ memBlack' = {} /\ cur' = DefaultConfig
    /\ kernel' = 1 /\ case' = 1 /\ pick' = {}
    /\ tried' = {} /\ source' = Absent

----------------------------------------------------------------------------
(* loadOrAutoTune: tune files *)

\* A GPU engine start for model m reaches loadOrAutoTune.
Start(m) ==
    /\ pc = "off"
    /\ profile' = [model |-> m, gpu |-> device.gpu, version |-> device.version]
    /\ copyMarker' = FALSE /\ activeMarker' = FALSE
    /\ pc' = "lookup"
    /\ UNCHANGED <<env, markers, store, tuneFile, tuning, copying, cur>>

LookupHit ==
    /\ pc = "lookup" /\ Own.kind = "usable"
    /\ cur' = Own.config
    /\ pc' = "ready"
    /\ UNCHANGED <<env, markers, uiFlags, store, tuneFile, tuning, copying, profile>>

\* Mutant of LookupMiss: the tune file of this model is not looked at first.
LookupSkipped(autoCopy) ==
    /\ pc = "lookup"
    /\ copyMarker' \in Announced(copyMarker)
    /\ pc' = IF autoCopy THEN "copy" ELSE "safe"
    /\ UNCHANGED <<env, markers, activeMarker, store, tuneFile, tuning, copying, profile, cur>>

LookupMiss(autoCopy) ==
    /\ pc = "lookup" /\ Own.kind # "usable"
    /\ copyMarker' \in Announced(copyMarker)
    /\ pc' = IF autoCopy THEN "copy" ELSE "safe"
    /\ UNCHANGED <<env, markers, activeMarker, store, tuneFile, tuning, copying, profile, cur>>

\* Copy the tune file of another model on the same GPU: read it, then write the
\* own file in place (not atomically).  Opening truncates.
CopyOpen(m) ==
    /\ pc = "copy"
    /\ m \notin tried \cup {profile.model} /\ tuneFile[profile.gpu][m] # Absent
    /\ tried' = tried \cup {m}
    /\ \E ok \in WriteResults :
          IF ok
          THEN /\ source' = tuneFile[profile.gpu][m]
               /\ SetOwn(Torn)
               /\ pc' = "copyWrite"
          ELSE UNCHANGED <<source, tuneFile, pc>>
    /\ UNCHANGED <<env, markers, uiFlags, store, tuning, profile, cur>>

\* The copy is loaded when it is complete; otherwise the next file is tried.
CopyWrite ==
    /\ pc = "copyWrite"
    /\ \E ok \in WriteResults :
          IF ok /\ source.kind = "usable"
          THEN /\ SetOwn(source)
               /\ cur' = source.config
               /\ copyMarker' = FALSE
               /\ pc' = "ready"
          ELSE /\ pc' = "copy"
               /\ UNCHANGED <<tuneFile, cur, copyMarker>>
    /\ source' = Absent
    /\ UNCHANGED <<env, markers, activeMarker, store, tuning, tried, profile>>

CopyExhausted ==
    /\ pc = "copy"
    /\ \A m \in Models \ {profile.model} : m \in tried \/ tuneFile[profile.gpu][m] = Absent
    /\ copyMarker' \in Announced(copyMarker)
    /\ pc' = "safe"
    /\ UNCHANGED <<env, markers, activeMarker, store, tuneFile, tuning, copying, profile, cur>>

----------------------------------------------------------------------------
(* loadOrAutoTune: restoring from the checkpoint.  Three blocks in a row: the   *)
(* safe-defaults marker, the recovery marker, and a last one without a marker. *)

RestorePhases == {"safe", "recovery", "unmarked"}
NextPhase == [p \in RestorePhases |-> CASE p = "safe"     -> "recovery"
                                       [] p = "recovery" -> "unmarked"
                                       [] p = "unmarked" -> "tune"]
\* Mutant of Requested: no third block, a checkpoint is restored only on demand.
RequestedOnlyByMarker == \/ pc = "safe" /\ safeMarker
                         \/ pc = "recovery" /\ recoveryMarker
Requested == \/ pc = "safe" /\ safeMarker
             \/ pc = "recovery" /\ recoveryMarker
             \/ pc = "unmarked"

NotRequested ==
    /\ pc \in RestorePhases /\ ~Requested
    /\ pc' = NextPhase[pc]
    /\ UNCHANGED <<env, markers, uiFlags, store, tuneFile, tuning, copying, profile, cur>>

\* restoreLastSuccessfulTuneFile()
Restore ==
    /\ pc \in RestorePhases /\ Requested /\ Restorable
    /\ Migrate
    /\ \E c \in Loaded.last : SetOwn(Usable(c))
    /\ pc' = "restored"
    /\ UNCHANGED <<env, markers, uiFlags, legacy, blacklist, tuning, copying, profile, cur>>

\* Nothing to restore, or the tune file could not be written: the markers go
\* and the next block is tried.
RestoreFails ==
    /\ pc \in RestorePhases /\ Requested
    /\ ~Restorable \/ WritesMayFail
    /\ Migrate
    /\ IF pc = "unmarked" THEN UNCHANGED markers
                          ELSE recoveryMarker' = FALSE /\ safeMarker' = FALSE
    /\ pc' = NextPhase[pc]
    /\ UNCHANGED <<env, uiFlags, legacy, blacklist, tuneFile, tuning, copying, profile, cur>>

\* Mutant of RestoreDone: the restored file is not loaded.
RestoreDoneUnloaded ==
    /\ pc = "restored"
    /\ recoveryMarker' = FALSE /\ safeMarker' = FALSE
    /\ copyMarker' = FALSE
    /\ pc' = "ready"
    /\ UNCHANGED <<env, activeMarker, store, tuneFile, tuning, copying, profile, cur>>

RestoreDone ==
    /\ pc = "restored"
    /\ recoveryMarker' = FALSE /\ safeMarker' = FALSE
    /\ copyMarker' = FALSE
    /\ cur' = Own.config
    /\ pc' = "ready"
    /\ UNCHANGED <<env, activeMarker, store, tuneFile, tuning, copying, profile>>

----------------------------------------------------------------------------
(* tune(): every State call persists before the next step *)

\* Mutants of Prepare: the copy marker stays; the blacklist file is not read.
PrepareKeepsCopyMarker ==
    /\ pc = "tune"
    /\ activeMarker' \in Announced(activeMarker)
    /\ mem' = Loaded /\ memBlack' = blacklist
    /\ Migrate
    /\ pc' = "begin"
    /\ UNCHANGED <<env, markers, copyMarker, legacy, blacklist, tuneFile, kernel, case, pick,
                   copying, profile, cur>>

PrepareForgetsBlacklist ==
    /\ pc = "tune"
    /\ copyMarker' = FALSE /\ activeMarker' \in Announced(activeMarker)
    /\ mem' = Loaded /\ memBlack' = {}
    /\ Migrate
    /\ pc' = "begin"
    /\ UNCHANGED <<env, markers, legacy, blacklist, tuneFile, kernel, case, pick, copying, profile, cur>>

\* Announce tuning to the loading screen, open the device, construct the State.
Prepare ==
    /\ pc = "tune"
    /\ copyMarker' = FALSE /\ activeMarker' \in Announced(activeMarker)
    /\ mem' = Loaded /\ memBlack' = blacklist
    /\ Migrate
    /\ pc' = "begin"
    /\ UNCHANGED <<env, markers, legacy, blacklist, tuneFile, kernel, case, pick, copying, profile, cur>>

\* The device cannot be opened: an exception ends the engine thread.
PrepareFails ==
    /\ pc = "tune"
    /\ copyMarker' = FALSE /\ activeMarker' \in Announced(activeMarker)
    /\ Halt
    /\ UNCHANGED <<env, markers, store, tuneFile, profile>>

\* State::beginTuning.  lastSuccessfulConfig is kept, whoever wrote it.
BeginTuning ==
    /\ pc = "begin"
    /\ LET c == [mem EXCEPT !.profile = {profile}, !.status = "in_progress"]
       IN  mem' = c /\ SaveCheckpoint(c)
    /\ cur' = DefaultConfig
    /\ kernel' = 1 /\ case' = 1 /\ pick' = {}
    /\ pc' = "case"
    /\ UNCHANGED <<env, markers, uiFlags, legacy, blacklist, tuneFile, memBlack, copying, profile>>

----------------------------------------------------------------------------
(* testAllConfigs: the cases of one kernel family *)

\* Mutant of SkipCase: a "continue" that does not advance the loop.
SkipCaseStuck ==
    /\ pc = "case" /\ case \in Cases /\ Blacklisted(memBlack, kernel, case)
    /\ UNCHANGED vars

SkipCase ==
    /\ pc = "case" /\ case \in Cases /\ Blacklisted(memBlack, kernel, case)
    /\ case' = case + 1
    /\ UNCHANGED <<env, markers, uiFlags, store, tuneFile, mem, memBlack, kernel, pick,
                   copying, pc, profile, cur>>

\* State::recordCaseAttempt, right before the benchmark.
AttemptCase ==
    /\ pc = "case" /\ case \in Cases /\ ~Blacklisted(memBlack, kernel, case)
    /\ LET c == [mem EXCEPT !.attempted = {<<FamilyName[kernel], case>>},
                            !.status = "in_progress"]
       IN  mem' = c /\ SaveCheckpoint(c)
    /\ pc' = "bench"
    /\ UNCHANGED <<env, markers, uiFlags, legacy, blacklist, tuneFile, memBlack, kernel,
                   case, pick, copying, profile, cur>>

May(result) == result \in outcome[profile.gpu][kernel][case]

\* State::recordCaseSuccess; the case is kept when its score is the best so far.
BenchOk ==
    /\ pc = "bench" /\ May("ok")
    /\ LET c == [mem EXCEPT !.attempted = {}, !.status = "in_progress"]
       IN  mem' = c /\ SaveCheckpoint(c)
    /\ pick' \in {pick, {<<profile.gpu, case>>}}
    /\ case' = case + 1
    /\ pc' = "case"
    /\ UNCHANGED <<env, markers, uiFlags, legacy, blacklist, tuneFile, memBlack, kernel,
                   copying, profile, cur>>

\* Mutant of BenchFail: the score of a failed benchmark may still be the best.
BenchFailScored ==
    /\ pc = "bench" /\ May("fail")
    /\ LET b == memBlack \cup {[profile |-> profile, kernel |-> FamilyName[kernel], case |-> case]}
       IN  memBlack' = b /\ blacklist' = b
    /\ pick' \in {pick, {<<profile.gpu, case>>}}
    /\ case' = case + 1
    /\ pc' = "case"
    /\ UNCHANGED <<env, markers, uiFlags, checkpoint, legacy, tuneFile, mem, kernel,
                   copying, profile, cur>>

\* State::recordCaseFailure.  An FP16 family gives up when its reference fails.
BenchFail ==
    /\ pc = "bench" /\ May("fail")
    /\ LET b == memBlack \cup {[profile |-> profile, kernel |-> FamilyName[kernel], case |-> case]}
       IN  /\ memBlack' = b
           /\ \E ok \in WriteResults : blacklist' = IF ok THEN b ELSE blacklist
    /\ case' = IF case = 1 /\ kernel \in Fp16Families THEN NC + 1 ELSE case + 1
    /\ pc' = "case"
    /\ UNCHANGED <<env, markers, uiFlags, checkpoint, legacy, tuneFile, mem, kernel, pick,
                   copying, profile, cur>>

\* The driver takes the whole process down.
BenchCrash ==
    /\ pc = "bench" /\ May("crash")
    /\ Halt
    /\ UNCHANGED <<env, markers, uiFlags, store, tuneFile, profile>>

NextFamily ==
    /\ kernel' = IF kernel = NK THEN kernel ELSE kernel + 1
    /\ case' = 1 /\ pick' = {}
    /\ pc' = IF kernel = NK THEN "finish" ELSE "case"

\* Mutant of AdoptFamily: the text is saved before the result is taken over.
AdoptFamilySavedEarly ==
    /\ pc = "case" /\ case = NC + 1
    /\ pick # {} \/ kernel \notin Fp16Families
    /\ LET c == [mem EXCEPT !.last = {cur}]
       IN  mem' = c /\ SaveCheckpoint(c)
    /\ cur' = IF pick = {} THEN cur ELSE [cur EXCEPT ![kernel] = pick]
    /\ NextFamily
    /\ UNCHANGED <<env, markers, uiFlags, legacy, blacklist, tuneFile, memBlack, copying, profile>>

\* The family's result becomes currentConfig and is saved incrementally.
AdoptFamily ==
    /\ pc = "case" /\ case = NC + 1
    /\ pick # {} \/ kernel \notin Fp16Families
    /\ LET new == IF pick = {} THEN cur ELSE [cur EXCEPT ![kernel] = pick]
           c   == [mem EXCEPT !.last = {new}]
       IN  cur' = new /\ mem' = c /\ SaveCheckpoint(c)
    /\ NextFamily
    /\ UNCHANGED <<env, markers, uiFlags, legacy, blacklist, tuneFile, memBlack, copying, profile>>

\* An FP16 family is not wanted on this device, failed, or is not faster.
DropFamily ==
    /\ pc = "case" /\ kernel \in Fp16Families /\ case \in {1, NC + 1}
    /\ NextFamily
    /\ UNCHANGED <<env, markers, uiFlags, store, tuneFile, mem, memBlack, copying, profile, cur>>

\* State::finishTuning(saveToString(tunedConfig)): the out-parameter tunedConfig
\* is assigned only after this call, so the text is that of a default config.
FinishedConfig == DefaultConfig

FinishTuning ==
    /\ pc = "finish"
    /\ LET c == [mem EXCEPT !.status = "completed", !.last = {FinishedConfig}]
       IN  mem' = c /\ SaveCheckpoint(c)
    /\ recoveryMarker' = FALSE /\ safeMarker' = FALSE
    /\ pc' = "saveOpen"
    /\ UNCHANGED <<env, uiFlags, legacy, blacklist, tuneFile, memBlack, kernel, case, pick,
                   copying, profile, cur>>

\* OpenCLTuneParams::save writes the tune file in place.
SaveOpen ==
    /\ pc = "saveOpen"
    /\ SetOwn(Torn)
    /\ pc' = "saveClose"
    /\ UNCHANGED <<env, markers, uiFlags, store, tuning, copying, profile, cur>>

\* The file cannot be opened: an IOError ends the engine thread.
SaveFails ==
    /\ pc = "saveOpen" /\ WritesMayFail
    /\ Halt
    /\ UNCHANGED <<env, markers, uiFlags, store, tuneFile, profile>>

SaveClose ==
    /\ pc = "saveClose"
    /\ \E ok \in WriteResults : IF ok THEN SetOwn(Usable(cur)) ELSE UNCHANGED tuneFile
    /\ pc' = "saved"
    /\ UNCHANGED <<env, markers, uiFlags, store, tuning, copying, profile, cur>>

\* The results are returned whether or not the file holds them.
TuneDone ==
    /\ pc = "saved"
    /\ activeMarker' = FALSE
    /\ mem' = FreshCheckpoint /\ memBlack' = {}
    /\ kernel' = 1 /\ case' = 1 /\ pick' = {}
    /\ pc' = "ready"
    /\ UNCHANGED <<env, markers, copyMarker, store, tuneFile, copying, profile, cur>>

----------------------------------------------------------------------------
(* End of the engine thread, and what the rest of the phone does *)

Quit ==
    /\ pc = "ready"
    /\ Halt
    /\ UNCHANGED <<env, markers, uiFlags, store, tuneFile, profile>>

\* Android kills the process, or the user does.
Kill ==
    /\ Running
    /\ Halt
    /\ UNCHANGED <<env, markers, uiFlags, store, tuneFile, profile>>

\* Another OpenCL driver, or an app update, between two runs.
ChangeDevice ==
    /\ ~Running
    /\ device' \in [gpu : Gpus, version : Versions] \ {device}
    /\ UNCHANGED <<outcome, markers, uiFlags, store, tuneFile, tuning, copying, pc, profile, cur>>

\* The Kotlin side asks for recovery or for safe defaults between two runs, and
\* deletes both markers when the activity is destroyed, whatever runs then.
RequestRecovery ==
    /\ ~Running
    /\ \/ recoveryMarker' = TRUE /\ UNCHANGED safeMarker
       \/ safeMarker' = TRUE /\ UNCHANGED recoveryMarker
    /\ UNCHANGED <<env, uiFlags, store, tuneFile, tuning, copying, pc, profile, cur>>

ClearMarkers ==
    /\ recoveryMarker' = FALSE /\ safeMarker' = FALSE
    /\ UNCHANGED <<env, uiFlags, store, tuneFile, tuning, copying, pc, profile, cur>>

\* Android or the user empties cacheDir while the app is not running.
ClearCache ==
    /\ ~Running
    /\ checkpoint' = [m \in Models |-> {}] /\ legacy' = {} /\ blacklist' = {}
    /\ tuneFile' = [g \in Gpus |-> [m \in Models |-> Absent]]
    /\ recoveryMarker' = FALSE /\ safeMarker' = FALSE
    /\ copyMarker' = FALSE /\ activeMarker' = FALSE
    /\ UNCHANGED <<env, tuning, copying, pc, profile, cur>>

LookupStep  == LookupHit \/ (\E a \in AutoCopy : LookupMiss(a))
CopyStep    == (\E m \in Models : CopyOpen(m)) \/ CopyWrite \/ CopyExhausted
RestoreStep == NotRequested \/ Restore \/ RestoreFails \/ RestoreDone
BenchStep   == SkipCase \/ AttemptCase \/ BenchOk \/ BenchFail
FamilyStep  == AdoptFamily \/ DropFamily
TuneStep    == Prepare \/ PrepareFails \/ BeginTuning \/ BenchStep \/ FamilyStep
               \/ FinishTuning \/ SaveOpen \/ SaveFails \/ SaveClose \/ TuneDone
\* Everything the engine thread does on its own between start and GTP loop.
ThreadStep  == LookupStep \/ CopyStep \/ RestoreStep \/ TuneStep

Next ==
    \/ \E m \in Models : Start(m)
    \/ ThreadStep \/ BenchCrash
    \/ Quit \/ Kill
    \/ ChangeDevice \/ RequestRecovery \/ ClearMarkers \/ ClearCache

Spec     == Init /\ [][Next]_vars
\* The engine thread is a running thread: it takes its next step or dies.
FairSpec == Spec /\ WF_vars(ThreadStep \/ BenchCrash)

----------------------------------------------------------------------------
(* Properties *)

Phases == {"off", "lookup", "copy", "copyWrite", "restored", "tune", "begin", "case",
           "bench", "finish", "saveOpen", "saveClose", "saved", "ready"} \cup RestorePhases

TypeOK ==
    /\ device \in [gpu : Gpus, version : Versions]
    /\ outcome \in [Gpus -> [Families -> [Cases -> SUBSET BenchResults]]]
    /\ checkpoint \in [Models -> SUBSET Checkpoints]
    /\ legacy \in SUBSET Checkpoints
    /\ blacklist \in SUBSET Entries /\ memBlack \in SUBSET Entries
    /\ tuneFile \in [Gpus -> [Models -> TuneFiles]]
    /\ source \in TuneFiles
    /\ recoveryMarker \in BOOLEAN /\ safeMarker \in BOOLEAN
    /\ copyMarker \in BOOLEAN /\ activeMarker \in BOOLEAN
    /\ pc \in Phases
    /\ profile \in Profiles
    /\ mem \in Checkpoints
    /\ cur \in Configs
    /\ kernel \in Families /\ case \in 1..(NC + 1)
    /\ pick \in SUBSET Picks
    /\ tried \in SUBSET Models

\* Every choice in the configuration was benchmarked successfully on its GPU.
Measured(c) == \A k \in Families : \A p \in c[k] : "ok" \in outcome[p[1]][k][p[2]]
FileMeasured(f) == f.kind = "usable" => Measured(f.config)

\* Whatever is loaded, copied, restored or saved, no tune file and no checkpoint
\* ever selects a configuration that did not pass its benchmark: not the copy
\* loop, not the restore blocks, not a crash between two writes.
MeasuredConfigs ==
    /\ Measured(cur)
    /\ FileMeasured(source)
    /\ \A g \in Gpus, m \in Models : FileMeasured(tuneFile[g][m])
    /\ \A m \in Models : \A c \in checkpoint[m] : \A t \in c.last : Measured(t)

\* The parameters the engine runs with are those the next start will load,
\* whichever of the four ways they were obtained (file, copy, restore, tuning).
RunsWhatIsStored == pc = "ready" => Own = Usable(cur)

\* "Save the current config text incrementally so that a crash mid-tune can
\* still restore the best partial config": once the first family is done, the
\* checkpoint on disk holds exactly the families adopted so far.
PartialResultDurable ==
    pc \in {"case", "bench", "finish"} /\ (kernel > 1 \/ pc = "finish")
        => \E c \in OwnCheckpoint : c.last = {cur} /\ c.profile = {profile}
                                    /\ c.status = "in_progress"

\* Where the engine thread looks for parameters to start with, and where it tunes.
Looking == {"copy", "copyWrite", "restored", "tune"} \cup RestorePhases
Tuning  == {"begin", "case", "bench", "finish", "saveOpen", "saveClose", "saved"}

\* What the loading screen reads from the markers is true of the engine thread while
\* it runs: tuning is announced only while it tunes, the copying of a tune file only
\* while it looks for one.  When file writes succeed, each is also announced all that
\* time; a marker whose write failed is missing, as the result is ignored.
LoadingScreenTruthful ==
    /\ Running /\ activeMarker => pc \in Tuning
    /\ Running /\ copyMarker => pc \in Looking
    /\ ~WritesMayFail => /\ pc \in Tuning => activeMarker
                         /\ pc \in Looking => copyMarker

\* A usable tune file is never truncated, replaced or lost by the tuner, with
\* in-place writes and a crash at any point; only emptying the cache removes it.
UsableFileKept ==
    [][ClearCache \/ \A g \in Gpus, m \in Models :
          tuneFile[g][m].kind = "usable" => tuneFile'[g][m] = tuneFile[g][m]]_vars

\* Blacklist entries survive every restart, and a combination that explicitly
\* failed is not benchmarked again under the same fingerprint.
FailedNeverRetried ==
    [][ClearCache \/ /\ blacklist \subseteq blacklist'
                     /\ pc = "case" /\ pc' = "bench"
                            => ~Blacklisted(blacklist, kernel, case)]_vars

\* Tuning from scratch starts only when the checkpoint has nothing to restore:
\* a run that got past its first family is the last one that tunes.
RestoreBeforeTuning == [][pc = "tune" /\ pc' = "begin" => ~Restorable]_vars

\* A started engine thread reaches the GTP loop or ends; it does not hang in the
\* copy loop, the restore blocks or the tuning loops.
StartSettles == pc = "lookup" ~> pc \in {"ready", "off"}

\* The two properties below are promised by comments and do not hold; README.md,
\* "Known disagreements", says why.

\* "finalize with the tuned config text" (opencltuner.cpp:5086): the checkpoint of a
\* completed run holds the configuration that was tuned.
CompletedHoldsTuned ==
    pc \in {"saveOpen", "saveClose", "saved"} => \E c \in OwnCheckpoint : c.last = {cur}

\* "every record is bound to a hardware/profile fingerprint"
\* (opencltuning_recovery.h:28): a tune file only holds choices measured on the GPU
\* it is named after.
BoundToHardware ==
    \A g \in Gpus, m \in Models : tuneFile[g][m].kind = "usable" =>
        \A k \in Families : \A p \in tuneFile[g][m].config[k] : p[1] = g

=============================================================================
