------------------------- MODULE OpenClTunerProofs -------------------------
(***************************************************************************)
(* Theorems about OpenClTuner, for every number of models, GPUs, versions,  *)
(* kernel families and cases, every behaviour of the benchmarks, and (unless *)
(* a theorem says otherwise) with or without failing writes: the types, what *)
(* is measured, and what is kept in files (the tune file, the blacklist, the *)
(* checkpoint and the markers of the loading screen).  Then theorems about   *)
(* AutotuneApp: the app is an environment of the native tuner, so that every *)
(* theorem about OpenClTuner holds in the app, and the crash record survives *)
(* every way a process can die.                                              *)
(***************************************************************************)
EXTENDS AutotuneApp, TLAPS

----------------------------------------------------------------------------
(* Types *)

\* TypeOK is not inductive by itself: the case counter stays in range because a
\* benchmark runs only for a case that exists, and the parameters loaded after a
\* restore are a configuration because the restored file is a complete one.
TypeInv ==
    /\ TypeOK
    /\ pc = "bench" => case \in Cases
    /\ pc = "restored" => Own.kind = "usable"

\* A default configuration is a configuration.
LEMMA DefaultConfigType == DefaultConfig \in Configs
BY DEF DefaultConfig, Configs

\* A complete tune file is a tune file, and is told apart from the two others.
LEMMA UsableType ==
    ASSUME NEW c \in Configs
    PROVE  /\ Usable(c) \in TuneFiles /\ Usable(c).kind = "usable"
           /\ Usable(c).config = c
BY DEF Usable, TuneFiles

\* The tune-file constants are tune files, and Own is one.
LEMMA TuneFileType ==
    /\ Absent \in TuneFiles /\ Torn \in TuneFiles
    /\ Absent.kind # "usable" /\ Torn.kind # "usable"
    /\ \A f \in TuneFiles : f.kind = "usable" => f.config \in Configs /\ f = Usable(f.config)
BY DEF Absent, Torn, TuneFiles, Usable

\* Updating one field of a checkpoint gives a checkpoint.
LEMMA CheckpointType ==
    /\ FreshCheckpoint \in Checkpoints
    /\ \A c \in Checkpoints :
         /\ c.profile \in SUBSET Profiles /\ c.last \in SUBSET Configs
         /\ \A p \in Profiles : [c EXCEPT !.profile = {p}, !.status = "in_progress"] \in Checkpoints
         /\ \A a \in SUBSET (Families \X Cases) :
              [c EXCEPT !.attempted = a, !.status = "in_progress"] \in Checkpoints
         /\ \A t \in Configs :
              /\ [c EXCEPT !.last = {t}] \in Checkpoints
              /\ [c EXCEPT !.status = "completed", !.last = {t}] \in Checkpoints
BY DEF FreshCheckpoint, Checkpoints

\* SetOwn replaces one tune file.
LEMMA SetOwnType ==
    ASSUME TypeOK, NEW f \in TuneFiles, SetOwn(f)
    PROVE  tuneFile' \in [Gpus -> [Models -> TuneFiles]]
BY DEF TypeOK, SetOwn, Profiles

\* SaveCheckpoint replaces one checkpoint, or none.
LEMMA SaveCheckpointType ==
    ASSUME TypeOK, NEW c \in Checkpoints, SaveCheckpoint(c)
    PROVE  checkpoint' \in [Models -> SUBSET Checkpoints]
BY DEF TypeOK, SaveCheckpoint, Profiles

\* The checkpoint a State starts from is a checkpoint.
LEMMA LoadedType == TypeOK => Loaded \in Checkpoints
<1>1. ASSUME TypeOK PROVE OwnCheckpoint \in SUBSET Checkpoints /\ legacy \in SUBSET Checkpoints
  BY <1>1 DEF TypeOK, OwnCheckpoint, Profiles
<1>2. QED
  BY <1>1, CheckpointType DEF Loaded

\* Migrating a legacy checkpoint keeps the type of the checkpoint files.
LEMMA MigrateType ==
    ASSUME TypeOK, Migrate
    PROVE  checkpoint' \in [Models -> SUBSET Checkpoints]
<1>1. Loaded \in Checkpoints
  BY LoadedType
<1>2. CASE UNCHANGED checkpoint
  BY <1>2 DEF TypeOK
<1>3. CASE SaveCheckpoint(Loaded)
  BY <1>1, <1>3, SaveCheckpointType
<1>4. QED
  BY <1>2, <1>3 DEF Migrate

\* The loops start inside their bounds.
LEMMA LoopStart == 1 \in Families /\ 1 \in 1..(NC + 1)
BY BoundsAssumption DEF Families

\* The initial states satisfy the inductive type invariant.
LEMMA TypeInit == Init => TypeInv
<1> SUFFICES ASSUME Init PROVE TypeInv
  OBVIOUS
<1>1. profile \in Profiles
  <2>1. PICK m \in Models, g \in Gpus, v \in Versions : TRUE
    BY ModelsAssumption
  <2>2. [model |-> m, gpu |-> g, version |-> v] \in Profiles
    BY DEF Profiles
  <2>3. QED
    BY <2>2 DEF Init
<1>2. legacy \in SUBSET Checkpoints
  <2>1. \A p \in Profiles : [profile |-> {p}, status |-> "in_progress",
                            last |-> {DefaultConfig}, attempted |-> {}] \in Checkpoints
    BY DefaultConfigType DEF Checkpoints
  <2>2. legacy = {} \/ \E p \in Profiles : legacy = {[profile |-> {p}, status |-> "in_progress",
                                                     last |-> {DefaultConfig}, attempted |-> {}]}
    BY DEF Init
  <2>3. QED
    BY <2>1, <2>2
<1>3. outcome \in [Gpus -> [Families -> [Cases -> SUBSET BenchResults]]]
  BY OutcomesAssumption DEF Init
<1>4. QED
  BY <1>1, <1>2, <1>3, LoopStart, CheckpointType, TuneFileType, DefaultConfigType
  DEF Init, TypeInv, TypeOK, Phases

\* A marker that is written is there, unless writes may fail.
LEMMA Announcing ==
    ASSUME NEW marker \in BOOLEAN
    PROVE  Announced(marker) \subseteq BOOLEAN /\ (~WritesMayFail => Announced(marker) = {TRUE})
<1>1. ASSUME NEW m \in Announced(marker) PROVE m \in BOOLEAN
  BY <1>1 DEF Announced
<1>2. ASSUME ~WritesMayFail PROVE Announced(marker) = {TRUE}
  BY <1>2 DEF Announced, WriteResults
<1> QED
  BY <1>1, <1>2

\* Every step keeps the types, one action at a time.
LEMMA TypeNext == TypeInv /\ [Next]_vars => TypeInv'
<1> SUFFICES ASSUME TypeInv, [Next]_vars PROVE TypeInv'
  OBVIOUS
<1> USE DEF env, markers, uiFlags, store, tuning, copying
<1>1. ASSUME NEW m \in Models, Start(m) PROVE TypeInv'
  BY <1>1 DEF Start, TypeInv, TypeOK, Phases, Profiles
<1>2. CASE LookupHit
  BY <1>2, TuneFileType DEF LookupHit, TypeInv, TypeOK, Phases, Own, Profiles
<1>3. ASSUME NEW a \in AutoCopy, LookupMiss(a) PROVE TypeInv'
  <2>1. copyMarker' \in BOOLEAN
    BY <1>3, Announcing DEF LookupMiss, TypeInv, TypeOK
  <2> QED
    BY <1>3, <2>1 DEF LookupMiss, TypeInv, TypeOK, Phases, RestorePhases
<1>4. ASSUME NEW m \in Models, CopyOpen(m) PROVE TypeInv'
  <2>1. tuneFile' \in [Gpus -> [Models -> TuneFiles]]
    BY <1>4, SetOwnType, TuneFileType DEF CopyOpen, TypeInv, TypeOK
  <2>2. source' \in TuneFiles /\ tried' \in SUBSET Models
    BY <1>4 DEF CopyOpen, TypeInv, TypeOK, Profiles
  <2>3. QED
    BY <1>4, <2>1, <2>2 DEF CopyOpen, TypeInv, TypeOK, Phases
<1>5. CASE CopyWrite
  <2>1. tuneFile' \in [Gpus -> [Models -> TuneFiles]]
    BY <1>5, SetOwnType DEF CopyWrite, TypeInv, TypeOK
  <2>2. cur' \in Configs
    BY <1>5, TuneFileType DEF CopyWrite, TypeInv, TypeOK
  <2>3. QED
    BY <1>5, <2>1, <2>2, TuneFileType DEF CopyWrite, TypeInv, TypeOK, Phases
<1>6. CASE CopyExhausted
  <2>1. copyMarker' \in BOOLEAN
    BY <1>6, Announcing DEF CopyExhausted, TypeInv, TypeOK
  <2> QED
    BY <1>6, <2>1 DEF CopyExhausted, TypeInv, TypeOK, Phases, RestorePhases
<1>7. CASE NotRequested
  BY <1>7 DEF NotRequested, NextPhase, TypeInv, TypeOK, Phases, RestorePhases
<1>8. CASE Restore
  <2>1. checkpoint' \in [Models -> SUBSET Checkpoints]
    BY <1>8, MigrateType DEF Restore, TypeInv
  <2>2. PICK c \in Loaded.last : SetOwn(Usable(c))
    BY <1>8 DEF Restore
  <2>3. c \in Configs
    BY LoadedType, CheckpointType DEF TypeInv
  <2>4. tuneFile' \in [Gpus -> [Models -> TuneFiles]]
    BY <2>2, <2>3, SetOwnType, UsableType DEF TypeInv
  <2>5. Own'.kind = "usable"
    BY <1>8, <2>2, <2>3, UsableType DEF Restore, SetOwn, Own, TypeInv, TypeOK, Profiles
  <2>6. QED
    BY <1>8, <2>1, <2>4, <2>5 DEF Restore, TypeInv, TypeOK, Phases
<1>9. CASE RestoreFails
  <2>1. checkpoint' \in [Models -> SUBSET Checkpoints]
    BY <1>9, MigrateType DEF RestoreFails, TypeInv
  <2>2. QED
    BY <1>9, <2>1 DEF RestoreFails, NextPhase, TypeInv, TypeOK, Phases, RestorePhases
<1>10. CASE RestoreDone
  BY <1>10, TuneFileType DEF RestoreDone, TypeInv, TypeOK, Phases, Own, Profiles
<1>11. CASE Prepare
  <2>1. checkpoint' \in [Models -> SUBSET Checkpoints] /\ mem' \in Checkpoints
    BY <1>11, MigrateType, LoadedType DEF Prepare, TypeInv
  <2>2. activeMarker' \in BOOLEAN
    BY <1>11, Announcing DEF Prepare, TypeInv, TypeOK
  <2>3. QED
    BY <1>11, <2>1, <2>2 DEF Prepare, TypeInv, TypeOK, Phases
<1>12. CASE BeginTuning
  <2>1. mem' \in Checkpoints
    BY <1>12, CheckpointType DEF BeginTuning, TypeInv, TypeOK
  <2>2. checkpoint' \in [Models -> SUBSET Checkpoints]
    BY <1>12, <2>1, SaveCheckpointType DEF BeginTuning, TypeInv
  <2>3. QED
    BY <1>12, <2>1, <2>2, LoopStart, DefaultConfigType DEF BeginTuning, TypeInv, TypeOK, Phases
<1>13. CASE SkipCase
  BY <1>13, BoundsAssumption DEF SkipCase, TypeInv, TypeOK, Cases
<1>14. CASE AttemptCase
  <2>1. FamilyName[kernel] \in Families /\ case \in Cases
    BY <1>14, FamilyAssumption DEF AttemptCase, TypeInv, TypeOK, Families
  <2>2. mem' \in Checkpoints
    <3>1. {<<FamilyName[kernel], case>>} \in SUBSET (Families \X Cases)
      BY <2>1
    <3>2. QED
      BY <1>14, <3>1, CheckpointType DEF AttemptCase, TypeInv, TypeOK
  <2>3. checkpoint' \in [Models -> SUBSET Checkpoints]
    BY <1>14, <2>2, SaveCheckpointType DEF AttemptCase, TypeInv
  <2>4. QED
    BY <1>14, <2>1, <2>2, <2>3 DEF AttemptCase, TypeInv, TypeOK, Phases
<1>15. CASE BenchOk
  <2>1. mem' \in Checkpoints
    BY <1>15, CheckpointType DEF BenchOk, TypeInv, TypeOK
  <2>2. checkpoint' \in [Models -> SUBSET Checkpoints]
    BY <1>15, <2>1, SaveCheckpointType DEF BenchOk, TypeInv
  <2>3. pick' \in SUBSET Picks
    BY <1>15 DEF BenchOk, TypeInv, TypeOK, Picks, Profiles
  <2>4. case' \in 1..(NC + 1)
    BY <1>15, BoundsAssumption DEF BenchOk, TypeInv, Cases
  <2>5. QED
    BY <1>15, <2>1, <2>2, <2>3, <2>4 DEF BenchOk, TypeInv, TypeOK, Phases
<1>16. CASE BenchFail
  <2>1. [profile |-> profile, kernel |-> FamilyName[kernel], case |-> case] \in Entries
    BY <1>16, FamilyAssumption DEF BenchFail, TypeInv, TypeOK, Entries, Families
  <2>2. memBlack' \in SUBSET Entries /\ blacklist' \in SUBSET Entries
    BY <1>16, <2>1 DEF BenchFail, TypeInv, TypeOK
  <2>3. case' \in 1..(NC + 1)
    BY <1>16, BoundsAssumption DEF BenchFail, TypeInv, Cases
  <2>4. QED
    BY <1>16, <2>2, <2>3 DEF BenchFail, TypeInv, TypeOK, Phases
<1>17. CASE AdoptFamily \/ DropFamily
  <2>1. NextFamily
    BY <1>17 DEF AdoptFamily, DropFamily
  <2>2. kernel' \in Families /\ case' \in 1..(NC + 1)
    BY <2>1, BoundsAssumption DEF NextFamily, TypeInv, TypeOK, Families
  <2>3. pick' \in SUBSET Picks /\ pc' \in {"case", "finish"}
    BY <2>1 DEF NextFamily
  <2>4. cur' \in Configs
    BY <1>17 DEF AdoptFamily, DropFamily, TypeInv, TypeOK, Configs
  <2>5. mem' \in Checkpoints /\ checkpoint' \in [Models -> SUBSET Checkpoints]
    <3>1. CASE AdoptFamily
      <4>1. mem' = [mem EXCEPT !.last = {cur'}] /\ SaveCheckpoint(mem')
        BY <3>1 DEF AdoptFamily
      <4>2. mem' \in Checkpoints
        BY <2>4, <4>1, CheckpointType DEF TypeInv, TypeOK
      <4>3. QED
        BY <4>1, <4>2, SaveCheckpointType DEF TypeInv
    <3>2. CASE DropFamily
      BY <3>2 DEF DropFamily, TypeInv, TypeOK
    <3>3. QED
      BY <1>17, <3>1, <3>2
  <2>6. QED
    BY <1>17, <2>2, <2>3, <2>4, <2>5 DEF AdoptFamily, DropFamily, TypeInv, TypeOK, Phases
<1>18. CASE FinishTuning
  <2>1. mem' \in Checkpoints
    BY <1>18, CheckpointType, DefaultConfigType DEF FinishTuning, FinishedConfig, TypeInv, TypeOK
  <2>2. checkpoint' \in [Models -> SUBSET Checkpoints]
    BY <1>18, <2>1, SaveCheckpointType DEF FinishTuning, TypeInv
  <2>3. QED
    BY <1>18, <2>1, <2>2 DEF FinishTuning, TypeInv, TypeOK, Phases
<1>19. CASE SaveOpen \/ SaveClose
  <2>1. tuneFile' \in [Gpus -> [Models -> TuneFiles]]
    BY <1>19, SetOwnType, TuneFileType, UsableType DEF SaveOpen, SaveClose, TypeInv, TypeOK
  <2>2. QED
    BY <1>19, <2>1 DEF SaveOpen, SaveClose, TypeInv, TypeOK, Phases
<1>20. CASE TuneDone
  BY <1>20, LoopStart, CheckpointType DEF TuneDone, TypeInv, TypeOK, Phases
<1>21. CASE Halt /\ UNCHANGED <<env, store, tuneFile, profile>> /\ activeMarker' \in BOOLEAN
            /\ copyMarker' \in BOOLEAN /\ UNCHANGED markers
  BY <1>21, LoopStart, CheckpointType, TuneFileType, DefaultConfigType
  DEF Halt, TypeInv, TypeOK, Phases
<1>22. CASE PrepareFails \/ BenchCrash \/ SaveFails \/ Quit \/ Kill
  <2>1. activeMarker \in BOOLEAN /\ copyMarker \in BOOLEAN /\ Announced(activeMarker) \subseteq BOOLEAN
    BY Announcing DEF TypeInv, TypeOK
  <2> QED
    BY <1>21, <1>22, <2>1 DEF PrepareFails, BenchCrash, SaveFails, Quit, Kill
<1>23. CASE ChangeDevice \/ RequestRecovery \/ ClearMarkers
  BY <1>23 DEF ChangeDevice, RequestRecovery, ClearMarkers, Running, TypeInv, TypeOK, Own
<1>24. CASE ClearCache
  BY <1>24, TuneFileType DEF ClearCache, Running, TypeInv, TypeOK
<1>25. CASE UNCHANGED vars
  BY <1>25 DEF vars, TypeInv, TypeOK, Own
<1>26. QED
  BY <1>1, <1>2, <1>3, <1>4, <1>5, <1>6, <1>7, <1>8, <1>9, <1>10, <1>11, <1>12, <1>13, <1>14,
     <1>15, <1>16, <1>17, <1>18, <1>19, <1>20, <1>22, <1>23, <1>24, <1>25
  DEF Next, ThreadStep, LookupStep, CopyStep, RestoreStep, TuneStep, BenchStep, FamilyStep

\* Every variable keeps its type: no counter of the tuning loops leaves its range,
\* no step reads the configuration of a file that is not complete.
THEOREM Types == Spec => []TypeOK
<1>1. Spec => []TypeInv
  BY TypeInit, TypeNext, PTL DEF Spec
<1>2. QED
  BY <1>1, PTL DEF TypeInv

----------------------------------------------------------------------------
(* Only measured configurations *)

\* MeasuredConfigs with the places a configuration passes through on its way to a
\* file: the State in memory, an old checkpoint, the best case of this family.
MeasuredInv ==
    /\ MeasuredConfigs
    /\ \A t \in mem.last : Measured(t)
    /\ \A c \in legacy : \A t \in c.last : Measured(t)
    /\ \A p \in pick : "ok" \in outcome[p[1]][kernel][p[2]]

\* The default configuration selects no case, so it is measured.
LEMMA DefaultMeasured == Measured(DefaultConfig)
BY DEF Measured, DefaultConfig

\* The behaviour of the device never changes.
LEMMA OutcomeFixed == TypeInv /\ [Next]_vars => outcome' = outcome
BY DEF Next, vars, env, ThreadStep, LookupStep, CopyStep, RestoreStep, TuneStep, BenchStep,
   FamilyStep, Start, LookupHit, LookupMiss, CopyOpen, CopyWrite, CopyExhausted, NotRequested,
   Restore, RestoreFails, RestoreDone, Prepare, PrepareFails, BeginTuning, SkipCase, AttemptCase,
   BenchOk, BenchFail, BenchCrash, AdoptFamily, DropFamily, FinishTuning, SaveOpen, SaveFails,
   SaveClose, TuneDone, Quit, Kill, ChangeDevice, RequestRecovery, ClearMarkers, ClearCache

\* What a State loads is measured, and so is every checkpoint after Migrate.
LEMMA LoadedMeasured ==
    ASSUME TypeInv, MeasuredInv
    PROVE  \A t \in Loaded.last : Measured(t)
<1>1. \A c \in OwnCheckpoint : \A t \in c.last : Measured(t)
  BY DEF MeasuredInv, MeasuredConfigs, OwnCheckpoint, TypeInv, TypeOK, Profiles
<1>2. FreshCheckpoint.last = {}
  BY DEF FreshCheckpoint
<1>3. QED
  BY <1>1, <1>2 DEF Loaded, MeasuredInv

\* Saving a checkpoint whose last configuration is measured.
LEMMA SaveMeasured ==
    ASSUME TypeInv, MeasuredInv, NEW c \in Checkpoints, SaveCheckpoint(c),
           \A t \in c.last : Measured(t)
    PROVE  \A m \in Models : \A d \in checkpoint'[m] : \A t \in d.last : Measured(t)
BY DEF SaveCheckpoint, MeasuredInv, MeasuredConfigs, TypeInv, TypeOK, Profiles

\* Migrating keeps every checkpoint measured.
LEMMA MigrateMeasured ==
    ASSUME TypeInv, MeasuredInv, Migrate
    PROVE  \A m \in Models : \A d \in checkpoint'[m] : \A t \in d.last : Measured(t)
BY LoadedMeasured, SaveMeasured, LoadedType DEF Migrate, MeasuredInv, MeasuredConfigs, TypeInv

\* Replacing the tune file of this run by one that is measured.
LEMMA SetOwnMeasured ==
    ASSUME TypeInv, MeasuredInv, NEW f \in TuneFiles, SetOwn(f), FileMeasured(f)
    PROVE  \A g \in Gpus, m \in Models : FileMeasured(tuneFile'[g][m])
BY DEF SetOwn, MeasuredInv, MeasuredConfigs, TypeInv, TypeOK, Profiles

\* Initially nothing is selected anywhere.
LEMMA MeasuredInit == Init => MeasuredInv
<1> SUFFICES ASSUME Init PROVE MeasuredInv
  OBVIOUS
<1>1. \A c \in legacy : \A t \in c.last : Measured(t)
  BY DefaultMeasured DEF Init
<1>2. FileMeasured(Absent)
  BY TuneFileType DEF FileMeasured
<1>3. QED
  BY <1>1, <1>2, DefaultMeasured DEF Init, MeasuredInv, MeasuredConfigs, FreshCheckpoint

\* What has to be shown of a step, with the outcomes of benchmarks fixed.
LEMMA MeasuredStep ==
    ASSUME outcome' = outcome,
           Measured(cur'), FileMeasured(source'),
           \A g \in Gpus, m \in Models : FileMeasured(tuneFile'[g][m]),
           \A m \in Models : \A d \in checkpoint'[m] : \A t \in d.last : Measured(t),
           \A t \in mem'.last : Measured(t),
           \A c \in legacy' : \A t \in c.last : Measured(t),
           \A p \in pick' : "ok" \in outcome[p[1]][kernel'][p[2]]
    PROVE  MeasuredInv'
BY DEF MeasuredInv, MeasuredConfigs, FileMeasured, Measured

\* Every step keeps every stored and loaded configuration measured.
LEMMA MeasuredNext == TypeInv /\ MeasuredInv /\ [Next]_vars => MeasuredInv'
<1> SUFFICES ASSUME TypeInv, MeasuredInv, [Next]_vars PROVE MeasuredInv'
  OBVIOUS
<1> USE DEF env, markers, uiFlags, store, tuning, copying
<1> outcome' = outcome
  BY OutcomeFixed
<1>1. ASSUME NEW m \in Models, Start(m) PROVE MeasuredInv'
  BY <1>1, MeasuredStep DEF Start, MeasuredInv, MeasuredConfigs
<1>2. CASE LookupHit
  <2>1. Measured(cur')
    BY <1>2 DEF LookupHit, Own, MeasuredInv, MeasuredConfigs, FileMeasured, TypeInv, TypeOK, Profiles
  <2>2. QED
    BY <1>2, <2>1, MeasuredStep DEF LookupHit, MeasuredInv, MeasuredConfigs
<1>3. ASSUME NEW a \in AutoCopy, LookupMiss(a) PROVE MeasuredInv'
  BY <1>3, MeasuredStep DEF LookupMiss, MeasuredInv, MeasuredConfigs
<1>4. ASSUME NEW m \in Models, CopyOpen(m) PROVE MeasuredInv'
  <2>1. FileMeasured(source')
    BY <1>4 DEF CopyOpen, MeasuredInv, MeasuredConfigs, TypeInv, TypeOK, Profiles
  <2>2. \A g \in Gpus, n \in Models : FileMeasured(tuneFile'[g][n])
    <3>1. FileMeasured(Torn)
      BY TuneFileType DEF FileMeasured
    <3>2. QED
      BY <1>4, <3>1, SetOwnMeasured, TuneFileType DEF CopyOpen, MeasuredInv, MeasuredConfigs
  <2>3. QED
    BY <1>4, <2>1, <2>2, MeasuredStep DEF CopyOpen, MeasuredInv, MeasuredConfigs
<1>5. CASE CopyWrite
  <2>1. FileMeasured(source) /\ source \in TuneFiles
    BY DEF MeasuredInv, MeasuredConfigs, TypeInv, TypeOK
  <2>2. \A g \in Gpus, n \in Models : FileMeasured(tuneFile'[g][n])
    BY <1>5, <2>1, SetOwnMeasured DEF CopyWrite, MeasuredInv, MeasuredConfigs
  <2>3. Measured(cur')
    BY <1>5, <2>1 DEF CopyWrite, FileMeasured, MeasuredInv, MeasuredConfigs
  <2>4. FileMeasured(source')
    BY <1>5, TuneFileType DEF CopyWrite, FileMeasured
  <2>5. QED
    BY <1>5, <2>2, <2>3, <2>4, MeasuredStep DEF CopyWrite, MeasuredInv, MeasuredConfigs
<1>6. CASE CopyExhausted \/ NotRequested
  BY <1>6, MeasuredStep DEF CopyExhausted, NotRequested, MeasuredInv, MeasuredConfigs
<1>7. CASE Restore
  <2>1. PICK c \in Loaded.last : SetOwn(Usable(c))
    BY <1>7 DEF Restore
  <2>2. c \in Configs /\ Measured(c)
    BY LoadedMeasured, LoadedType, CheckpointType DEF TypeInv
  <2>3. Usable(c) \in TuneFiles /\ FileMeasured(Usable(c))
    BY <2>2, UsableType DEF FileMeasured
  <2>4. \A g \in Gpus, n \in Models : FileMeasured(tuneFile'[g][n])
    BY <2>1, <2>3, SetOwnMeasured
  <2>5. QED
    BY <1>7, <2>4, MigrateMeasured, MeasuredStep DEF Restore, MeasuredInv, MeasuredConfigs
<1>8. CASE RestoreFails
  BY <1>8, MigrateMeasured, MeasuredStep DEF RestoreFails, MeasuredInv, MeasuredConfigs
<1>9. CASE RestoreDone
  <2>1. Measured(cur')
    BY <1>9 DEF RestoreDone, Own, MeasuredInv, MeasuredConfigs, FileMeasured, TypeInv, TypeOK, Profiles
  <2>2. QED
    BY <1>9, <2>1, MeasuredStep DEF RestoreDone, MeasuredInv, MeasuredConfigs
<1>10. CASE Prepare
  BY <1>10, LoadedMeasured, MigrateMeasured, MeasuredStep DEF Prepare, MeasuredInv, MeasuredConfigs
<1>11. CASE BeginTuning
  <2>1. mem' \in Checkpoints /\ mem'.last = mem.last
    <3>1. mem \in Checkpoints /\ profile \in Profiles
      BY DEF MeasuredInv, TypeInv, TypeOK
    <3>2. mem' = [mem EXCEPT !.profile = {profile}, !.status = "in_progress"]
      BY <1>11 DEF BeginTuning
    <3>3. mem' \in Checkpoints
      BY <3>1, <3>2, CheckpointType
    <3> QED
      BY <3>1, <3>2, <3>3 DEF Checkpoints
  <2>2. SaveCheckpoint(mem')
    BY <1>11 DEF BeginTuning
  <2>3. QED
    BY <1>11, <2>1, <2>2, SaveMeasured, DefaultMeasured, MeasuredStep
    DEF BeginTuning, MeasuredInv, MeasuredConfigs
<1>12. CASE SkipCase
  BY <1>12, MeasuredStep DEF SkipCase, MeasuredInv, MeasuredConfigs
<1>13. CASE AttemptCase
  <2>1. mem' \in Checkpoints
    BY <1>13, TypeNext DEF TypeInv, TypeOK
  <2>2. mem'.last = mem.last /\ SaveCheckpoint(mem')
    BY <1>13 DEF AttemptCase, TypeInv, TypeOK, Checkpoints
  <2>3. QED
    BY <1>13, <2>1, <2>2, SaveMeasured, MeasuredStep DEF AttemptCase, MeasuredInv, MeasuredConfigs
<1>14. CASE BenchOk
  <2>1. mem' \in Checkpoints
    BY <1>14, TypeNext DEF TypeInv, TypeOK
  <2>2. mem'.last = mem.last /\ SaveCheckpoint(mem')
    BY <1>14 DEF BenchOk, TypeInv, TypeOK, Checkpoints
  <2>3. \A p \in pick' : "ok" \in outcome[p[1]][kernel'][p[2]]
    BY <1>14 DEF BenchOk, May, MeasuredInv
  <2>4. QED
    BY <1>14, <2>1, <2>2, <2>3, SaveMeasured, MeasuredStep DEF BenchOk, MeasuredInv, MeasuredConfigs
<1>15. CASE BenchFail
  BY <1>15, MeasuredStep DEF BenchFail, MeasuredInv, MeasuredConfigs
<1>16. CASE AdoptFamily
  <2>1. Measured(cur')
    BY <1>16 DEF AdoptFamily, Measured, MeasuredInv, MeasuredConfigs, TypeInv, TypeOK, Configs
  <2>2. mem' \in Checkpoints
    BY <1>16, TypeNext DEF TypeInv, TypeOK
  <2>3. mem'.last = {cur'} /\ SaveCheckpoint(mem')
    BY <1>16 DEF AdoptFamily, TypeInv, TypeOK, Checkpoints
  <2>4. \A m \in Models : \A d \in checkpoint'[m] : \A t \in d.last : Measured(t)
    BY <2>1, <2>2, <2>3, SaveMeasured
  <2>5. QED
    BY <1>16, <2>1, <2>3, <2>4, MeasuredStep DEF AdoptFamily, NextFamily, MeasuredInv, MeasuredConfigs
<1>17. CASE DropFamily
  BY <1>17, MeasuredStep DEF DropFamily, NextFamily, MeasuredInv, MeasuredConfigs
<1>18. CASE FinishTuning
  <2>1. mem' \in Checkpoints
    BY <1>18, TypeNext DEF TypeInv, TypeOK
  <2>2. mem'.last = {DefaultConfig} /\ SaveCheckpoint(mem')
    BY <1>18 DEF FinishTuning, FinishedConfig, TypeInv, TypeOK, Checkpoints
  <2>3. \A m \in Models : \A d \in checkpoint'[m] : \A t \in d.last : Measured(t)
    BY <2>1, <2>2, DefaultMeasured, SaveMeasured
  <2>4. QED
    BY <1>18, <2>2, <2>3, DefaultMeasured, MeasuredStep DEF FinishTuning, MeasuredInv, MeasuredConfigs
<1>19. CASE SaveOpen \/ SaveClose
  <2>1. FileMeasured(Torn) /\ FileMeasured(Usable(cur)) /\ Usable(cur) \in TuneFiles
    BY TuneFileType, UsableType DEF FileMeasured, MeasuredInv, MeasuredConfigs, TypeInv, TypeOK
  <2>2. \A g \in Gpus, n \in Models : FileMeasured(tuneFile'[g][n])
    BY <1>19, <2>1, TuneFileType, SetOwnMeasured DEF SaveOpen, SaveClose, MeasuredInv, MeasuredConfigs
  <2>3. QED
    BY <1>19, <2>2, MeasuredStep DEF SaveOpen, SaveClose, MeasuredInv, MeasuredConfigs
<1>20. CASE TuneDone
  BY <1>20, MeasuredStep DEF TuneDone, FreshCheckpoint, MeasuredInv, MeasuredConfigs
<1>21. CASE Halt /\ UNCHANGED <<store, tuneFile>>
  <2>1. FileMeasured(Absent)
    BY TuneFileType DEF FileMeasured
  <2>2. QED
    BY <1>21, <2>1, DefaultMeasured, MeasuredStep DEF Halt, FreshCheckpoint, MeasuredInv, MeasuredConfigs
<1>22. CASE PrepareFails \/ BenchCrash \/ SaveFails \/ Quit \/ Kill
  BY <1>21, <1>22 DEF PrepareFails, BenchCrash, SaveFails, Quit, Kill
<1>23. CASE ChangeDevice \/ RequestRecovery \/ ClearMarkers
  BY <1>23, MeasuredStep DEF ChangeDevice, RequestRecovery, ClearMarkers, MeasuredInv, MeasuredConfigs
<1>24. CASE ClearCache
  <2>1. FileMeasured(Absent)
    BY TuneFileType DEF FileMeasured
  <2>2. QED
    BY <1>24, <2>1, MeasuredStep DEF ClearCache, MeasuredInv, MeasuredConfigs
<1>25. CASE UNCHANGED vars
  BY <1>25, MeasuredStep DEF vars, MeasuredInv, MeasuredConfigs
<1>26. QED
  BY <1>1, <1>2, <1>3, <1>4, <1>5, <1>6, <1>7, <1>8, <1>9, <1>10, <1>11, <1>12, <1>13, <1>14,
     <1>15, <1>16, <1>17, <1>18, <1>19, <1>20, <1>22, <1>23, <1>24, <1>25
  DEF Next, ThreadStep, LookupStep, CopyStep, RestoreStep, TuneStep, BenchStep, FamilyStep

\* MeasuredConfigs: on any number of GPUs and models, whatever crashes and whatever
\* write fails, no tune file, no checkpoint and no running engine ever selects a
\* case that did not pass its benchmark.
THEOREM OnlyMeasuredConfigs == Spec => []MeasuredConfigs
<1>1. Init => TypeInv /\ MeasuredInv
  BY TypeInit, MeasuredInit
<1>2. TypeInv /\ MeasuredInv /\ [Next]_vars => (TypeInv /\ MeasuredInv)'
  BY TypeNext, MeasuredNext
<1>3. TypeInv /\ MeasuredInv => MeasuredConfigs
  BY DEF MeasuredInv
<1>4. QED
  BY <1>1, <1>2, <1>3, PTL DEF Spec

----------------------------------------------------------------------------
(* The tune file *)

\* From the failed lookup until the file is written, there is nothing to lose:
\* no thread but this one writes tune files.
WithoutFile == {"copy", "copyWrite", "tune", "begin", "case", "bench", "finish",
                "saveOpen", "saveClose"} \cup RestorePhases

FileInv == pc \in WithoutFile => Own.kind # "usable"

\* No engine runs initially, so FileInv holds.
LEMMA FileInit == Init => FileInv
BY DEF Init, FileInv, WithoutFile, RestorePhases

\* Writing the tune file of this run changes no other file, and leaves what was
\* written.
LEMMA SetOwnEffect ==
    ASSUME TypeInv, NEW f, SetOwn(f)
    PROVE  /\ profile' = profile => Own' = f
           /\ \A g \in Gpus, m \in Models :
                 <<g, m>> # <<profile.gpu, profile.model>> => tuneFile'[g][m] = tuneFile[g][m]
BY DEF SetOwn, Own, TypeInv, TypeOK, Profiles

\* Every step keeps FileInv: a phase without a usable file is left only by writing one.
LEMMA FileNext == TypeInv /\ FileInv /\ [Next]_vars => FileInv'
<1> SUFFICES ASSUME TypeInv, FileInv, [Next]_vars PROVE FileInv'
  OBVIOUS
<1> USE DEF env, markers, uiFlags, store, tuning, copying, WithoutFile, RestorePhases
<1>1. ASSUME NEW m \in Models, Start(m) PROVE FileInv'
  BY <1>1 DEF Start, FileInv
<1>2. CASE LookupHit \/ RestoreDone \/ TuneDone
  BY <1>2 DEF LookupHit, RestoreDone, TuneDone, FileInv
<1>3. ASSUME NEW a \in AutoCopy, LookupMiss(a) PROVE FileInv'
  BY <1>3 DEF LookupMiss, FileInv, Own
<1>4. ASSUME NEW m \in Models, CopyOpen(m) PROVE FileInv'
  <2>1. CASE SetOwn(Torn)
    BY <1>4, <2>1, SetOwnEffect, TuneFileType DEF CopyOpen, FileInv
  <2>2. CASE UNCHANGED <<tuneFile, pc>>
    BY <1>4, <2>2 DEF CopyOpen, FileInv, Own
  <2>3. QED
    BY <1>4, <2>1, <2>2 DEF CopyOpen
<1>5. CASE CopyWrite
  BY <1>5 DEF CopyWrite, FileInv, Own
<1>6. CASE CopyExhausted \/ NotRequested \/ RestoreFails
  BY <1>6 DEF CopyExhausted, NotRequested, RestoreFails, NextPhase, FileInv, Own
<1>7. CASE Restore
  BY <1>7 DEF Restore, FileInv
<1>8. CASE Prepare \/ BeginTuning \/ SkipCase \/ AttemptCase \/ BenchOk \/ BenchFail
  BY <1>8 DEF Prepare, BeginTuning, SkipCase, AttemptCase, BenchOk, BenchFail, FileInv, Own
<1>9. CASE AdoptFamily \/ DropFamily \/ FinishTuning
  BY <1>9 DEF AdoptFamily, DropFamily, NextFamily, FinishTuning, FileInv, Own
<1>10. CASE SaveOpen
  BY <1>10, SetOwnEffect, TuneFileType DEF SaveOpen, FileInv
<1>11. CASE SaveClose
  BY <1>11 DEF SaveClose, FileInv
<1>12. CASE PrepareFails \/ BenchCrash \/ SaveFails \/ Quit \/ Kill
  BY <1>12 DEF PrepareFails, BenchCrash, SaveFails, Quit, Kill, Halt, FileInv
<1>13. CASE ChangeDevice \/ RequestRecovery \/ ClearMarkers \/ ClearCache \/ UNCHANGED vars
  BY <1>13 DEF ChangeDevice, RequestRecovery, ClearMarkers, ClearCache, Running, vars, FileInv, Own
<1>14. QED
  BY <1>1, <1>2, <1>3, <1>4, <1>5, <1>6, <1>7, <1>8, <1>9, <1>10, <1>11, <1>12, <1>13
  DEF Next, ThreadStep, LookupStep, CopyStep, RestoreStep, TuneStep, BenchStep, FamilyStep

\* A step that writes a tune file writes only that of this run, and only when it
\* is not usable.
LEMMA FileStep ==
    ASSUME TypeInv, FileInv, [Next]_vars, ~ClearCache,
           NEW g \in Gpus, NEW m \in Models, tuneFile[g][m].kind = "usable"
    PROVE  tuneFile'[g][m] = tuneFile[g][m]
<1> USE DEF env, markers, uiFlags, store, tuning, copying, WithoutFile, RestorePhases
<1>1. ASSUME NEW f, SetOwn(f), pc \in WithoutFile PROVE tuneFile'[g][m] = tuneFile[g][m]
  BY <1>1, SetOwnEffect DEF FileInv, Own
<1>2. CASE UNCHANGED tuneFile
  BY <1>2
<1>3. CASE (\E n \in Models : CopyOpen(n)) \/ CopyWrite \/ Restore \/ SaveOpen \/ SaveClose
  BY <1>1, <1>3 DEF CopyOpen, CopyWrite, Restore, SaveOpen, SaveClose
<1>4. CASE (\E n \in Models : Start(n)) \/ (\E a \in AutoCopy : LookupMiss(a)) \/ LookupHit
           \/ CopyExhausted \/ NotRequested \/ RestoreFails \/ RestoreDone
  BY <1>2, <1>4 DEF Start, LookupMiss, LookupHit, CopyExhausted, NotRequested, RestoreFails, RestoreDone
<1>5. CASE Prepare \/ BeginTuning \/ SkipCase \/ AttemptCase \/ BenchOk \/ BenchFail \/ AdoptFamily
           \/ DropFamily \/ FinishTuning \/ TuneDone
  BY <1>2, <1>5 DEF Prepare, BeginTuning, SkipCase, AttemptCase, BenchOk, BenchFail, AdoptFamily,
     DropFamily, FinishTuning, TuneDone
<1>6. CASE PrepareFails \/ BenchCrash \/ SaveFails \/ Quit \/ Kill \/ ChangeDevice
           \/ RequestRecovery \/ ClearMarkers \/ UNCHANGED vars
  BY <1>2, <1>6 DEF PrepareFails, BenchCrash, SaveFails, Quit, Kill, ChangeDevice, RequestRecovery,
     ClearMarkers, vars
<1>7. QED
  BY <1>3, <1>4, <1>5, <1>6
  DEF Next, ThreadStep, LookupStep, CopyStep, RestoreStep, TuneStep, BenchStep, FamilyStep

\* UsableFileKept: the tuner never truncates, replaces or loses a usable tune file,
\* although it writes tune files in place and may be killed between any two steps.
THEOREM UsableFilesKept == Spec => UsableFileKept
<1>1. Init => TypeInv /\ FileInv
  BY TypeInit, FileInit
<1>2. TypeInv /\ FileInv /\ [Next]_vars => (TypeInv /\ FileInv)'
  BY TypeNext, FileNext
<1>3. TypeInv /\ FileInv /\ [Next]_vars
      => [ClearCache \/ \A g \in Gpus, m \in Models :
             tuneFile[g][m].kind = "usable" => tuneFile'[g][m] = tuneFile[g][m]]_vars
  BY FileStep
<1>4. QED
  BY <1>1, <1>2, <1>3, PTL DEF Spec, UsableFileKept

----------------------------------------------------------------------------
(* The blacklist *)

\* While a State exists, it knows every entry of the file (it may know more, when
\* a write failed).
StatePhases == {"begin", "case", "bench", "finish", "saveOpen", "saveClose", "saved"}
BlacklistInv == pc \in StatePhases => blacklist \subseteq memBlack

\* What FailedNeverRetried says of a step that does not empty the cache.
KeepsAndSkips ==
    /\ blacklist \subseteq blacklist'
    /\ pc = "case" /\ pc' = "bench" => ~Blacklisted(blacklist, kernel, case)

\* Every step keeps the blacklist file within the list in memory, and skips it.
LEMMA BlacklistNext ==
    ASSUME BlacklistInv, [Next]_vars
    PROVE  BlacklistInv' /\ (ClearCache \/ KeepsAndSkips)
<1> USE DEF KeepsAndSkips
<1> USE DEF env, markers, uiFlags, store, tuning, copying, StatePhases, RestorePhases
<1>1. CASE (\E m \in Models : Start(m)) \/ (\E a \in AutoCopy : LookupMiss(a)) \/ LookupHit
  BY <1>1 DEF Start, LookupMiss, LookupHit, BlacklistInv
<1>2. CASE (\E m \in Models : CopyOpen(m)) \/ CopyWrite \/ CopyExhausted
  BY <1>2 DEF CopyOpen, CopyWrite, CopyExhausted, BlacklistInv
<1>3. CASE NotRequested \/ Restore \/ RestoreFails \/ RestoreDone
  BY <1>3 DEF NotRequested, Restore, RestoreFails, RestoreDone, NextPhase, BlacklistInv
<1>4. CASE Prepare \/ BeginTuning
  BY <1>4 DEF Prepare, BeginTuning, BlacklistInv
<1>5. CASE AttemptCase
  <2>1. ~Blacklisted(blacklist, kernel, case)
    BY <1>5 DEF AttemptCase, Blacklisted, BlacklistInv
  <2>2. QED
    BY <1>5, <2>1 DEF AttemptCase, BlacklistInv
<1>6. CASE SkipCase \/ BenchOk \/ BenchFail
  BY <1>6 DEF SkipCase, BenchOk, BenchFail, BlacklistInv
<1>7. CASE AdoptFamily \/ DropFamily \/ FinishTuning
  BY <1>7 DEF AdoptFamily, DropFamily, NextFamily, FinishTuning, BlacklistInv
<1>8. CASE SaveOpen \/ SaveClose \/ TuneDone
  BY <1>8 DEF SaveOpen, SaveClose, TuneDone, BlacklistInv
<1>9. CASE PrepareFails \/ BenchCrash \/ SaveFails \/ Quit \/ Kill
  BY <1>9 DEF PrepareFails, BenchCrash, SaveFails, Quit, Kill, Halt, BlacklistInv
<1>10. CASE ClearCache
  BY <1>10 DEF ClearCache, Running, BlacklistInv
<1>11. CASE ChangeDevice \/ RequestRecovery \/ ClearMarkers \/ UNCHANGED vars
  BY <1>11 DEF ChangeDevice, RequestRecovery, ClearMarkers, vars, BlacklistInv
<1>12. QED
  BY <1>1, <1>2, <1>3, <1>4, <1>5, <1>6, <1>7, <1>8, <1>9, <1>10, <1>11
  DEF Next, ThreadStep, LookupStep, CopyStep, RestoreStep, TuneStep, BenchStep, FamilyStep

\* FailedNeverRetried: a combination that failed under a fingerprint is recorded
\* for good, and is not benchmarked again by any later run.
THEOREM FailuresRemembered == Spec => FailedNeverRetried
<1>1. Init => BlacklistInv
  BY DEF Init, BlacklistInv, StatePhases
<1>2. BlacklistInv /\ [Next]_vars => [ClearCache \/ KeepsAndSkips]_vars
  BY BlacklistNext
<1>3. BlacklistInv /\ [Next]_vars => BlacklistInv'
  BY BlacklistNext
<1>4. QED
  BY <1>1, <1>2, <1>3, PTL DEF Spec, FailedNeverRetried, KeepsAndSkips

----------------------------------------------------------------------------
(* The markers of the loading screen *)

\* LoadingScreenTruthful as the steps keep it: what the markers are in each phase.
MarkerInv ==
    /\ pc \in {"lookup", "ready"} => ~copyMarker /\ ~activeMarker
    /\ pc \in Looking => ~activeMarker /\ (~WritesMayFail => copyMarker)
    /\ pc \in Tuning => ~copyMarker /\ (~WritesMayFail => activeMarker)

\* Every step keeps the loading-screen markers consistent with the phase.
LEMMA MarkerNext == TypeInv /\ MarkerInv /\ [Next]_vars => MarkerInv'
<1> SUFFICES ASSUME TypeInv, MarkerInv, [Next]_vars PROVE MarkerInv'
  OBVIOUS
<1> USE DEF env, markers, uiFlags, store, tuning, copying, RestorePhases, Looking, Tuning
<1>0. ~WritesMayFail => \A m \in Announced(copyMarker) \cup Announced(activeMarker) : m
  BY Announcing DEF TypeInv, TypeOK
<1>1. CASE (\E m \in Models : Start(m)) \/ LookupHit
  BY <1>1 DEF Start, LookupHit, MarkerInv
<1>2. ASSUME NEW a \in AutoCopy, LookupMiss(a) PROVE MarkerInv'
  BY <1>0, <1>2 DEF LookupMiss, MarkerInv
<1>3. CASE (\E m \in Models : CopyOpen(m)) \/ CopyWrite
  BY <1>3 DEF CopyOpen, CopyWrite, MarkerInv
<1>4. CASE CopyExhausted
  BY <1>0, <1>4 DEF CopyExhausted, MarkerInv
<1>5. CASE NotRequested \/ RestoreFails
  <2>1. pc \in RestorePhases /\ pc' = NextPhase[pc] /\ UNCHANGED uiFlags
    BY <1>5 DEF NotRequested, RestoreFails
  <2>2. pc \in Looking /\ pc' \in Looking \ {"lookup", "ready"} /\ pc' \notin Tuning
    BY <2>1 DEF NextPhase
  <2> QED
    BY <2>1, <2>2 DEF MarkerInv
<1>6. CASE Restore \/ RestoreDone
  BY <1>6 DEF Restore, RestoreDone, MarkerInv
<1>7. CASE Prepare
  BY <1>0, <1>7 DEF Prepare, MarkerInv
<1>8. CASE BeginTuning \/ SkipCase \/ AttemptCase \/ BenchOk \/ BenchFail
  BY <1>8 DEF BeginTuning, SkipCase, AttemptCase, BenchOk, BenchFail, MarkerInv
<1>9. CASE AdoptFamily \/ DropFamily \/ FinishTuning
  BY <1>9 DEF AdoptFamily, DropFamily, NextFamily, FinishTuning, MarkerInv
<1>10. CASE SaveOpen \/ SaveClose \/ TuneDone
  BY <1>10 DEF SaveOpen, SaveClose, TuneDone, MarkerInv
<1>11. CASE PrepareFails \/ BenchCrash \/ SaveFails \/ Quit \/ Kill
  <2>1. pc' = "off"
    BY <1>11 DEF PrepareFails, BenchCrash, SaveFails, Quit, Kill, Halt
  <2> QED
    BY <2>1 DEF MarkerInv
<1>12. CASE ChangeDevice \/ RequestRecovery \/ ClearMarkers \/ UNCHANGED vars
  <2>1. UNCHANGED <<pc, copyMarker, activeMarker>>
    BY <1>12 DEF ChangeDevice, RequestRecovery, ClearMarkers, vars
  <2> QED
    BY <2>1 DEF MarkerInv
<1>13. CASE ClearCache
  BY <1>13 DEF ClearCache, Running, MarkerInv
<1>14. QED
  BY <1>1, <1>2, <1>3, <1>4, <1>5, <1>6, <1>7, <1>8, <1>9, <1>10, <1>11, <1>12, <1>13
  DEF Next, ThreadStep, LookupStep, CopyStep, RestoreStep, TuneStep, BenchStep, FamilyStep

\* LoadingScreenTruthful: whether or not writes fail, the marker files the loading
\* screen polls never say "tuning" or "looking for a tune file" while the engine thread
\* does something else, on every path through the copy loop, the three restore blocks
\* and the tuner; and if writes succeed, they always say it.
THEOREM LoadingScreenIsTruthful == Spec => []LoadingScreenTruthful
<1>1. Init => TypeInv /\ MarkerInv
  BY TypeInit DEF Init, MarkerInv, RestorePhases, Looking, Tuning
<1>2. TypeInv /\ MarkerInv => LoadingScreenTruthful
  <2> SUFFICES ASSUME TypeInv, MarkerInv PROVE LoadingScreenTruthful
    OBVIOUS
  <2>1. Running => pc \in {"lookup", "ready"} \cup Looking \cup Tuning
    BY DEF Running, TypeInv, TypeOK, Phases, Looking, Tuning
  <2> QED
    BY <2>1 DEF MarkerInv, LoadingScreenTruthful
<1>3. TypeInv /\ MarkerInv /\ [Next]_vars => (TypeInv /\ MarkerInv)'
  BY TypeNext, MarkerNext
<1>4. QED
  BY <1>1, <1>2, <1>3, PTL DEF Spec

----------------------------------------------------------------------------
(* When file writes succeed *)

\* The file written, copied or restored is the one the engine runs with.
StoredInv ==
    pc \in {"saved", "ready"} => Own = Usable(cur)

\* Every step keeps the loaded parameters equal to the stored ones.
LEMMA StoredNext ==
    ASSUME ~WritesMayFail, TypeInv, StoredInv, [Next]_vars
    PROVE  StoredInv'
<1> USE DEF env, markers, uiFlags, store, tuning, copying, RestorePhases, WriteResults
<1>1. CASE LookupHit \/ RestoreDone
  <2>1. Own \in TuneFiles /\ Own.kind = "usable" /\ cur' = Own.config
    BY <1>1 DEF LookupHit, RestoreDone, TypeInv, TypeOK, Own, Profiles
  <2>2. Own = Usable(Own.config)
    BY <2>1, TuneFileType
  <2>3. UNCHANGED <<tuneFile, profile>>
    BY <1>1 DEF LookupHit, RestoreDone
  <2>4. QED
    BY <2>1, <2>2, <2>3 DEF StoredInv, Own, Usable
<1>2. CASE CopyWrite
  <2>1. CASE SetOwn(source) /\ source.kind = "usable" /\ cur' = source.config
    <3>1. source = Usable(source.config)
      BY <2>1, TuneFileType DEF TypeInv, TypeOK
    <3>2. Own' = source
      BY <1>2, <2>1, SetOwnEffect DEF CopyWrite
    <3>3. QED
      BY <2>1, <3>1, <3>2 DEF StoredInv, Usable
  <2>2. CASE pc' = "copy"
    BY <2>2 DEF StoredInv
  <2>3. QED
    BY <1>2, <2>1, <2>2 DEF CopyWrite
<1>3. CASE SaveClose
  BY <1>3, SetOwnEffect DEF SaveClose, StoredInv, Usable
<1>4. CASE TuneDone \/ ClearMarkers \/ UNCHANGED vars
  BY <1>4 DEF TuneDone, ClearMarkers, vars, StoredInv, Own, Usable
<1>5. CASE (\E m \in Models : Start(m)) \/ (\E a \in AutoCopy : LookupMiss(a)) \/ CopyExhausted
           \/ (\E m \in Models : CopyOpen(m)) \/ NotRequested \/ Restore \/ RestoreFails
  BY <1>5 DEF Start, LookupMiss, CopyExhausted, CopyOpen, NotRequested, Restore, RestoreFails,
     NextPhase, StoredInv
<1>6. CASE Prepare \/ BeginTuning \/ SkipCase \/ AttemptCase \/ BenchOk \/ BenchFail
  BY <1>6 DEF Prepare, BeginTuning, SkipCase, AttemptCase, BenchOk, BenchFail, StoredInv
<1>7. CASE AdoptFamily \/ DropFamily \/ FinishTuning \/ SaveOpen
  BY <1>7 DEF AdoptFamily, DropFamily, NextFamily, FinishTuning, SaveOpen, StoredInv
<1>8. CASE PrepareFails \/ BenchCrash \/ SaveFails \/ Quit \/ Kill
  BY <1>8 DEF PrepareFails, BenchCrash, SaveFails, Quit, Kill, Halt, StoredInv
<1>9. CASE ChangeDevice \/ RequestRecovery \/ ClearCache
  BY <1>9 DEF ChangeDevice, RequestRecovery, ClearCache, Running, StoredInv, Own, Usable
<1>10. QED
  BY <1>1, <1>2, <1>3, <1>4, <1>5, <1>6, <1>7, <1>8, <1>9
  DEF Next, ThreadStep, LookupStep, CopyStep, RestoreStep, TuneStep, BenchStep, FamilyStep

\* RunsWhatIsStored: an engine that is up runs with the parameters in its tune file,
\* whether it loaded, copied, restored or measured them.
THEOREM RunningIsStored == ASSUME ~WritesMayFail PROVE Spec => []RunsWhatIsStored
<1>1. Init => TypeInv /\ StoredInv
  BY TypeInit DEF Init, StoredInv
<1>2. TypeInv /\ StoredInv /\ [Next]_vars => (TypeInv /\ StoredInv)'
  BY TypeNext, StoredNext
<1>3. StoredInv => RunsWhatIsStored
  BY DEF StoredInv, RunsWhatIsStored
<1>4. QED
  BY <1>1, <1>2, <1>3, PTL DEF Spec

\* A thread about to tune has nothing to restore.
RestoreInv == pc = "tune" => ~Restorable

\* Migrating a checkpoint of this profile does not change what would be restored.
LEMMA MigrateKeeps ==
    ASSUME ~WritesMayFail, TypeInv, Migrate, UNCHANGED <<profile, legacy>>
    PROVE  Restorable' <=> Restorable
<1>1. CASE UNCHANGED checkpoint
  BY <1>1 DEF Restorable, Loaded, OwnCheckpoint
<1>2. CASE FromLegacy /\ SaveCheckpoint(Loaded)
  <2>1. checkpoint' = [checkpoint EXCEPT ![profile.model] = {Loaded}]
    BY <1>2 DEF SaveCheckpoint, WriteResults
  <2>2. OwnCheckpoint' = {Loaded}
    BY <2>1 DEF OwnCheckpoint, TypeInv, TypeOK, Profiles
  <2>3. Loaded' = Loaded
    BY <2>2 DEF Loaded
  <2>4. QED
    BY <2>3 DEF Restorable
<1>3. QED
  BY <1>1, <1>2 DEF Migrate

\* Every step keeps RestoreInv: a phase past the restore blocks means nothing was restorable.
LEMMA RestoreNext ==
    ASSUME ~WritesMayFail, TypeInv, RestoreInv, [Next]_vars
    PROVE  RestoreInv'
<1> USE DEF env, markers, uiFlags, store, tuning, copying, RestorePhases
<1>1. CASE RestoreFails
  <2>1. ~Restorable /\ Migrate /\ UNCHANGED <<profile, legacy>>
    BY <1>1 DEF RestoreFails
  <2>2. QED
    BY <2>1, MigrateKeeps DEF RestoreInv
<1>2. CASE NotRequested
  BY <1>2 DEF NotRequested, Requested, NextPhase, RestoreInv
<1>3. CASE ClearMarkers \/ UNCHANGED vars
  BY <1>3 DEF ClearMarkers, vars, RestoreInv, Restorable, Loaded, OwnCheckpoint
<1>4. CASE (\E m \in Models : Start(m)) \/ (\E a \in AutoCopy : LookupMiss(a)) \/ LookupHit
           \/ (\E m \in Models : CopyOpen(m)) \/ CopyWrite \/ CopyExhausted \/ Restore \/ RestoreDone
  BY <1>4 DEF Start, LookupMiss, LookupHit, CopyOpen, CopyWrite, CopyExhausted, Restore, RestoreDone,
     RestoreInv
<1>5. CASE Prepare \/ BeginTuning \/ SkipCase \/ AttemptCase \/ BenchOk \/ BenchFail
  BY <1>5 DEF Prepare, BeginTuning, SkipCase, AttemptCase, BenchOk, BenchFail, RestoreInv
<1>6. CASE AdoptFamily \/ DropFamily \/ FinishTuning \/ SaveOpen \/ SaveClose \/ TuneDone
  BY <1>6 DEF AdoptFamily, DropFamily, NextFamily, FinishTuning, SaveOpen, SaveClose, TuneDone, RestoreInv
<1>7. CASE PrepareFails \/ BenchCrash \/ SaveFails \/ Quit \/ Kill
  BY <1>7 DEF PrepareFails, BenchCrash, SaveFails, Quit, Kill, Halt, RestoreInv
<1>8. CASE ChangeDevice \/ RequestRecovery \/ ClearCache
  BY <1>8 DEF ChangeDevice, RequestRecovery, ClearCache, Running, RestoreInv
<1>9. QED
  BY <1>1, <1>2, <1>3, <1>4, <1>5, <1>6, <1>7, <1>8
  DEF Next, ThreadStep, LookupStep, CopyStep, RestoreStep, TuneStep, BenchStep, FamilyStep

\* RestoreBeforeTuning: a result that could be restored is never tuned over, even
\* when it is a legacy checkpoint that the restore attempts migrate on the way.
THEOREM TunesOnlyFromNothing == ASSUME ~WritesMayFail PROVE Spec => RestoreBeforeTuning
<1>1. Init => TypeInv /\ RestoreInv
  BY TypeInit DEF Init, RestoreInv
<1>2. TypeInv /\ RestoreInv /\ [Next]_vars => (TypeInv /\ RestoreInv)'
  BY TypeNext, RestoreNext
<1>3. TypeInv /\ RestoreInv /\ [Next]_vars => [pc = "tune" /\ pc' = "begin" => ~Restorable]_vars
  BY DEF RestoreInv
<1>4. QED
  BY <1>1, <1>2, <1>3, PTL DEF Spec, RestoreBeforeTuning

----------------------------------------------------------------------------
(* Partial results *)

\* From beginTuning on, the checkpoint on disk is the State in memory; once a
\* family is done, it holds the current configuration.  The first family is never
\* dropped.
Benchmarking == {"case", "bench", "finish"}
PartialInv ==
    pc \in Benchmarking =>
        /\ OwnCheckpoint = {mem}
        /\ mem.profile = {profile} /\ mem.status = "in_progress"
        /\ kernel > 1 \/ pc = "finish" => mem.last = {cur}

\* Saving a checkpoint that succeeds.
LEMMA SaveEffect ==
    ASSUME ~WritesMayFail, TypeInv, NEW c, SaveCheckpoint(c), profile' = profile
    PROVE  OwnCheckpoint' = {c}
BY DEF SaveCheckpoint, WriteResults, OwnCheckpoint, TypeInv, TypeOK, Profiles

\* Every step keeps the checkpoint on disk equal to the one in memory while tuning.
LEMMA PartialNext ==
    ASSUME ~WritesMayFail, TypeInv, PartialInv, [Next]_vars
    PROVE  PartialInv'
<1> USE DEF env, markers, uiFlags, store, tuning, copying, RestorePhases, Benchmarking
<1>1. CASE BeginTuning
  <2>1. OwnCheckpoint' = {mem'} /\ pc' = "case" /\ kernel' = 1 /\ profile' = profile
    BY <1>1, SaveEffect DEF BeginTuning
  <2>2. mem'.profile = {profile} /\ mem'.status = "in_progress"
    BY <1>1 DEF BeginTuning, TypeInv, TypeOK, Checkpoints
  <2>3. QED
    BY <2>1, <2>2 DEF PartialInv
<1>2. CASE SkipCase \/ BenchFail
  BY <1>2 DEF SkipCase, BenchFail, PartialInv, OwnCheckpoint
<1>3. CASE AttemptCase \/ BenchOk
  <2>1. OwnCheckpoint' = {mem'} /\ UNCHANGED <<kernel, cur, profile>> /\ pc' \in {"case", "bench"}
    BY <1>3, SaveEffect DEF AttemptCase, BenchOk
  <2>2. mem'.profile = mem.profile /\ mem'.status = "in_progress" /\ mem'.last = mem.last
    BY <1>3 DEF AttemptCase, BenchOk, TypeInv, TypeOK, Checkpoints
  <2>3. QED
    BY <1>3, <2>1, <2>2 DEF PartialInv, AttemptCase, BenchOk
<1>4. CASE AdoptFamily
  <2>1. OwnCheckpoint' = {mem'} /\ profile' = profile
    BY <1>4, SaveEffect DEF AdoptFamily
  <2>2. mem'.profile = mem.profile /\ mem'.status = mem.status /\ mem'.last = {cur'}
    BY <1>4 DEF AdoptFamily, TypeInv, TypeOK, Checkpoints
  <2>3. QED
    BY <1>4, <2>1, <2>2 DEF PartialInv, AdoptFamily
<1>5. CASE DropFamily
  <2>1. kernel > 1
    BY <1>5, FamilyAssumption, BoundsAssumption DEF DropFamily
  <2>2. QED
    BY <1>5, <2>1 DEF DropFamily, NextFamily, PartialInv, OwnCheckpoint
<1>6. CASE ClearMarkers \/ UNCHANGED vars
  BY <1>6 DEF ClearMarkers, vars, PartialInv, OwnCheckpoint
<1>7. CASE (\E m \in Models : Start(m)) \/ (\E a \in AutoCopy : LookupMiss(a)) \/ LookupHit
           \/ (\E m \in Models : CopyOpen(m)) \/ CopyWrite \/ CopyExhausted
  BY <1>7 DEF Start, LookupMiss, LookupHit, CopyOpen, CopyWrite, CopyExhausted, PartialInv
<1>8. CASE NotRequested \/ Restore \/ RestoreFails \/ RestoreDone \/ Prepare
  BY <1>8 DEF NotRequested, Restore, RestoreFails, RestoreDone, Prepare, NextPhase, PartialInv
<1>9. CASE FinishTuning \/ SaveOpen \/ SaveClose \/ TuneDone
  BY <1>9 DEF FinishTuning, SaveOpen, SaveClose, TuneDone, PartialInv
<1>10. CASE PrepareFails \/ BenchCrash \/ SaveFails \/ Quit \/ Kill
  BY <1>10 DEF PrepareFails, BenchCrash, SaveFails, Quit, Kill, Halt, PartialInv
<1>11. CASE ChangeDevice \/ RequestRecovery \/ ClearCache
  BY <1>11 DEF ChangeDevice, RequestRecovery, ClearCache, Running, PartialInv
<1>12. QED
  BY <1>1, <1>2, <1>3, <1>4, <1>5, <1>6, <1>7, <1>8, <1>9, <1>10, <1>11
  DEF Next, ThreadStep, LookupStep, CopyStep, RestoreStep, TuneStep, BenchStep, FamilyStep

\* PartialResultDurable: a crash in any later family finds on disk exactly the
\* families adopted so far, under this run's fingerprint.
THEOREM PartialResultsAreDurable == ASSUME ~WritesMayFail PROVE Spec => []PartialResultDurable
<1>1. Init => TypeInv /\ PartialInv
  BY TypeInit DEF Init, PartialInv, Benchmarking
<1>2. TypeInv /\ PartialInv /\ [Next]_vars => (TypeInv /\ PartialInv)'
  BY TypeNext, PartialNext
<1>3. PartialInv => PartialResultDurable
  BY DEF PartialInv, PartialResultDurable, Benchmarking
<1>4. QED
  BY <1>1, <1>2, <1>3, PTL DEF Spec

----------------------------------------------------------------------------
(* The app around the tuner (AutotuneApp) *)

Deaths == {"tuningCrash", "playCrash", "killed"}

\* The crash record.  A flag in memory and on disk while the GPU is in use; after
\* a death nothing is left alive that could overwrite it; and an app closed in
\* order leaves no attempt pending, in memory or on disk.
RecordInv ==
    /\ app \in GpuInUse => katago.pending /\ katagoDisk.pending
    /\ app # "closed" => lastExit = "running"
    /\ app = "closed" /\ lastExit = "clean" => ~katago.pending /\ ~katagoDisk.pending
    /\ app = "closed" /\ lastExit \in Deaths
           => ~alive /\ (engineLog = "crash" \/ katago.pending)
    /\ app = "closed" /\ katago.pending => pc = "off"
    /\ wanted \in Models

\* The recorded-exit invariant holds initially.
LEMMA RecordInit == AppInit => RecordInv
BY DEF AppInit, Init, RecordInv, GpuInUse, Deaths

\* A step of the engine thread neither starts nor revives an engine.
LEMMA ThreadStaysOff == ThreadStep => pc # "off"
BY DEF ThreadStep, LookupStep, CopyStep, RestoreStep, TuneStep, BenchStep, FamilyStep,
   LookupHit, LookupMiss, CopyOpen, CopyWrite, CopyExhausted, NotRequested, Restore,
   RestoreFails, RestoreDone, RestorePhases, Prepare, PrepareFails, BeginTuning, SkipCase,
   AttemptCase, BenchOk, BenchFail, AdoptFamily, DropFamily, FinishTuning, SaveOpen, SaveFails,
   SaveClose, TuneDone

\* Commit and Apply set the preferences in memory; only Commit sets those on disk.
LEMMA PendingTyped ==
    AppTypeOK => /\ \A b \in BOOLEAN : [katago EXCEPT !.pending = b].pending = b
                 /\ katago \in KatagoPrefs /\ katagoDisk \in KatagoPrefs
BY DEF AppTypeOK, KatagoPrefs

\* Every step of the app keeps the recorded-exit invariant.
LEMMA RecordNext == AppTypeOK /\ RecordInv /\ [AppNext]_allVars => RecordInv'
<1> SUFFICES ASSUME AppTypeOK, RecordInv, [AppNext]_allVars PROVE RecordInv'
  OBVIOUS
<1> USE PendingTyped DEF prefs, logs, GpuInUse, Deaths, Commit, Apply
<1>1. CASE Launch
  BY <1>1 DEF Launch, LaunchClean, LaunchRetry, LaunchSafeDefaults, LaunchGiveUp, LaunchDisable,
     LaunchDisabled, Created, RecordInv
<1>2. ASSUME NEW m \in Models, StartGame(m) PROVE RecordInv'
  BY <1>2 DEF StartGame, RecordInv
<1>3. CASE StartCpuGame \/ EngineStarts \/ Handshake \/ EndGame
  BY <1>3 DEF StartCpuGame, EngineStarts, Handshake, EndGame, RecordInv
<1>4. CASE EngineRefused \/ HandshakeFails
  BY <1>4 DEF EngineRefused, HandshakeFails, RecordInv
<1>5. CASE EngineQuits
  BY <1>5 DEF EngineQuits, appVars, Quit, Halt, RecordInv
<1>6. CASE CloseApp
  BY <1>6 DEF CloseApp, RecordInv
<1>7. CASE Tuner
  BY <1>7, ThreadStaysOff DEF Tuner, appVars, RecordInv
<1>8. CASE TuningCrash \/ PlayCrash
  BY <1>8 DEF TuningCrash, PlayCrash, BenchCrash, Kill, Halt, Die, RecordInv
<1>9. CASE OsKill
  BY <1>9 DEF OsKill, Kill, Running, Halt, vars, Die, RecordInv
<1>10. CASE FlushWatchdog \/ FlushKatago \/ RestoreDefaultConfig
  BY <1>10 DEF FlushWatchdog, FlushKatago, RestoreDefaultConfig, vars, RecordInv
<1>11. CASE UNCHANGED allVars
  BY <1>11 DEF allVars, appVars, vars, RecordInv
<1>12. QED
  BY <1>1, <1>2, <1>3, <1>4, <1>5, <1>6, <1>7, <1>8, <1>9, <1>10, <1>11 DEF AppNext

----------------------------------------------------------------------------
(* The app is an environment of the tuner *)

\* Every step of the app is a step of the tuner, or leaves it alone.  The two
\* launches that write a marker do so only after a death, with no engine running.
LEMMA AppStep == RecordInv /\ [AppNext]_allVars => [Next]_vars
<1> SUFFICES ASSUME RecordInv, [AppNext]_allVars PROVE [Next]_vars
  OBVIOUS
<1>1. CASE Launch
  <2>1. CASE LaunchRetry \/ LaunchSafeDefaults
    <3>1. ~Running
      BY <2>1 DEF LaunchRetry, LaunchSafeDefaults, Created, Recoverable, HadCrashDuringAutotuning,
         RecordInv, Running
    <3>2. RequestRecovery
      BY <2>1, <3>1 DEF LaunchRetry, LaunchSafeDefaults, Created, RequestRecovery, env, store
    <3>3. QED
      BY <3>2 DEF Next
  <2>2. CASE LaunchClean \/ LaunchGiveUp \/ LaunchDisable \/ LaunchDisabled
    BY <2>2 DEF LaunchClean, LaunchGiveUp, LaunchDisable, LaunchDisabled, Created, vars, env, uiFlags,
       store, tuning, copying, markers
  <2>3. QED
    BY <1>1, <2>1, <2>2 DEF Launch
<1>2. ASSUME NEW m \in Models, StartGame(m) PROVE [Next]_vars
  BY <1>2 DEF StartGame
<1>3. CASE StartCpuGame \/ EngineRefused \/ Handshake \/ HandshakeFails \/ EndGame
  BY <1>3 DEF StartCpuGame, EngineRefused, Handshake, HandshakeFails, EndGame
<1>4. CASE EngineStarts
  <2>1. wanted \in Models => Next
    BY <1>4 DEF EngineStarts, Next
  <2>2. QED
    BY <1>4, <2>1 DEF EngineStarts, RecordInv
<1>5. CASE EngineQuits \/ Tuner
  BY <1>5 DEF EngineQuits, Tuner, Next
<1>6. CASE CloseApp
  <2>1. ClearMarkers
    BY <1>6 DEF CloseApp, ClearMarkers, env, store
  <2>2. QED
    BY <2>1 DEF Next
<1>7. CASE TuningCrash \/ PlayCrash \/ OsKill
  BY <1>7 DEF TuningCrash, PlayCrash, OsKill, Next
<1>8. CASE FlushWatchdog \/ FlushKatago \/ RestoreDefaultConfig \/ UNCHANGED allVars
  BY <1>8 DEF FlushWatchdog, FlushKatago, RestoreDefaultConfig, allVars
<1>9. QED
  BY <1>1, <1>2, <1>3, <1>4, <1>5, <1>6, <1>7, <1>8 DEF AppNext

----------------------------------------------------------------------------
(* Types *)

\* What AppTypeOK adds to TypeOK.
AppTypes ==
    /\ app \in {"closed", "home", "starting", "loading", "gpu", "cpu"}
    /\ alive \in BOOLEAN /\ gpuDisabled \in BOOLEAN
    /\ katago \in KatagoPrefs /\ katagoDisk \in KatagoPrefs
    /\ watchdog \in WatchdogPrefs /\ watchdogDisk \in WatchdogPrefs
    /\ engineLog \in {"none", "clean", "crash"} /\ prevLog \in {"none", "clean", "crash"}
    /\ wanted \in Models
    /\ lastExit \in {"clean", "running", "tuningCrash", "playCrash", "killed"}

\* Initially every app variable has its type.
LEMMA AppTypesInit == AppInit => AppTypes
<1>1. 0 \in 0..MaxCount
  BY MaxCountAssumption
<1>2. [pending |-> FALSE, disabled |-> FALSE] \in KatagoPrefs
  BY DEF KatagoPrefs
<1>3. [count |-> 0, disabled |-> FALSE] \in WatchdogPrefs
  BY <1>1 DEF WatchdogPrefs
<1>4. QED
  BY <1>2, <1>3 DEF AppInit, AppTypes

\* Updating one preference gives preferences; the counter saturates.
LEMMA PrefTypes ==
    ASSUME AppTypes
    PROVE  /\ \A b \in BOOLEAN : [katago EXCEPT !.pending = b] \in KatagoPrefs
           /\ \A b, d \in BOOLEAN : [pending |-> b, disabled |-> d] \in KatagoPrefs
           /\ Counted \in WatchdogPrefs /\ [Counted EXCEPT !.disabled = TRUE] \in WatchdogPrefs
           /\ [watchdog EXCEPT !.count = 0] \in WatchdogPrefs
<1>1. \A b \in BOOLEAN : [katago EXCEPT !.pending = b] \in KatagoPrefs
  BY DEF AppTypes, KatagoPrefs
<1>2. \A b, d \in BOOLEAN : [pending |-> b, disabled |-> d] \in KatagoPrefs
  BY DEF KatagoPrefs
<1>3. \A w \in WatchdogPrefs : [w EXCEPT !.disabled = TRUE] \in WatchdogPrefs
  BY DEF WatchdogPrefs
<1>4. \A n \in 0..MaxCount : [watchdog EXCEPT !.count = n] \in WatchdogPrefs
  BY DEF AppTypes, WatchdogPrefs
<1>5. 0 \in 0..MaxCount
  BY MaxCountAssumption
<1>6. (IF watchdog.count < MaxCount THEN watchdog.count + 1 ELSE watchdog.count) \in 0..MaxCount
  BY MaxCountAssumption DEF AppTypes, WatchdogPrefs
<1>7. Counted \in WatchdogPrefs
  BY <1>4, <1>6 DEF Counted
<1>8. QED
  BY <1>1, <1>2, <1>3, <1>4, <1>5, <1>7

\* Every step of the app keeps the types, given the inductive type invariant of the tuner.
LEMMA AppTypesNext == AppTypes /\ [AppNext]_allVars => AppTypes'
<1> SUFFICES ASSUME AppTypes, [AppNext]_allVars PROVE AppTypes'
  OBVIOUS
<1> USE PrefTypes DEF prefs, logs, Commit, Apply
<1>1. CASE Launch
  BY <1>1 DEF Launch, LaunchClean, LaunchRetry, LaunchSafeDefaults, LaunchGiveUp, LaunchDisable,
     LaunchDisabled, Created, AppTypes
<1>2. ASSUME NEW m \in Models, StartGame(m) PROVE AppTypes'
  BY <1>2 DEF StartGame, AppTypes
<1>3. CASE StartCpuGame \/ EngineStarts \/ EngineRefused \/ Handshake \/ HandshakeFails \/ EndGame
  <2>1. CASE StartCpuGame \/ EngineStarts
    BY <2>1 DEF StartCpuGame, EngineStarts, AppTypes
  <2>2. CASE EngineRefused \/ Handshake
    BY <2>2 DEF EngineRefused, Handshake, AppTypes
  <2>3. CASE HandshakeFails \/ EndGame
    BY <2>3 DEF HandshakeFails, EndGame, AppTypes
  <2>4. QED
    BY <1>3, <2>1, <2>2, <2>3
<1>4. CASE EngineQuits \/ Tuner \/ UNCHANGED allVars
  BY <1>4 DEF EngineQuits, Tuner, appVars, allVars, AppTypes
<1>5. CASE CloseApp
  BY <1>5 DEF CloseApp, AppTypes
<1>6. CASE TuningCrash \/ PlayCrash \/ OsKill
  <2>1. CASE TuningCrash
    BY <2>1 DEF TuningCrash, Die, AppTypes
  <2>2. CASE PlayCrash \/ OsKill
    BY <2>2 DEF PlayCrash, OsKill, Die, AppTypes
  <2>3. QED
    BY <1>6, <2>1, <2>2
<1>7. CASE FlushWatchdog \/ FlushKatago \/ RestoreDefaultConfig
  <2>1. CASE FlushWatchdog \/ FlushKatago
    BY <2>1 DEF FlushWatchdog, FlushKatago, AppTypes
  <2>2. CASE RestoreDefaultConfig
    BY <2>2 DEF RestoreDefaultConfig, AppTypes
  <2>3. QED
    BY <1>7, <2>1, <2>2
<1>8. QED
  BY <1>1, <1>2, <1>3, <1>4, <1>5, <1>6, <1>7 DEF AppNext

----------------------------------------------------------------------------
(* The theorems *)

AppInv == TypeInv /\ AppTypes /\ RecordInv

\* The invariant of the pending flag holds initially.
LEMMA AppInvInit == AppInit => AppInv
BY TypeInit, AppTypesInit, RecordInit DEF AppInv, AppInit

\* Every step of the app keeps the invariant of the pending flag.
LEMMA AppInvNext == AppInv /\ [AppNext]_allVars => AppInv'
<1> SUFFICES ASSUME AppInv, [AppNext]_allVars PROVE AppInv'
  OBVIOUS
<1>1. TypeInv'
  BY AppStep, TypeNext DEF AppInv
<1>2. AppTypes'
  BY AppTypesNext DEF AppInv
<1>3. AppTypeOK
  BY DEF AppInv, TypeInv, AppTypes, AppTypeOK
<1>4. RecordInv'
  BY <1>3, RecordNext DEF AppInv
<1>5. QED
  BY <1>1, <1>2, <1>4 DEF AppInv

\* The app invariant holds in every reachable state.
LEMMA AppInvariant == AppSpec => []AppInv
BY AppInvInit, AppInvNext, PTL DEF AppSpec

\* Every variable of the app and of the tuner keeps its type.
THEOREM AppTypesHold == AppSpec => []AppTypeOK
<1>1. AppInv => AppTypeOK
  BY DEF AppInv, TypeInv, AppTypes, AppTypeOK
<1>2. QED
  BY <1>1, AppInvariant, PTL

\* TunerSpec: whatever the user, Android and the watchdog do, the native side sees
\* a behaviour of OpenClTuner; its theorems hold in the app.
THEOREM AppImplementsTuner == AppSpec => TunerSpec
<1>1. AppInit => Init
  BY DEF AppInit
<1>2. AppInv /\ [AppNext]_allVars => [Next]_vars
  BY AppStep DEF AppInv
<1>3. QED
  BY <1>1, <1>2, AppInvariant, PTL DEF AppSpec, TunerSpec, Spec

\* PendingCoversGame: the pending flag is on disk while the GPU engine is in use,
\* and a flag found on disk at a launch was not left by an orderly exit.
THEOREM PendingFlagCoversGame == AppSpec => []PendingCoversGame
<1>1. RecordInv => PendingCoversGame
  BY DEF RecordInv, PendingCoversGame
<1>2. QED
  BY <1>1, AppInvariant, PTL DEF AppInv

\* DeathNoticed: no interleaving of apply(), Android's kills, cancelled starts and
\* relaunches lets a launch treat a session that died as a clean one.
THEOREM DeathsAreNoticed == AppSpec => DeathNoticed
<1>1. AppInv /\ [AppNext]_allVars
      => [Launch /\ lastExit \in {"tuningCrash", "playCrash", "killed"}
          => watchdog' = Counted \/ gpuDisabled']_allVars
  <2> SUFFICES ASSUME RecordInv, Launch, lastExit \in Deaths
               PROVE  watchdog' = Counted \/ gpuDisabled'
    BY DEF AppInv, Deaths
  <2>1. app = "closed"
    BY DEF Launch, LaunchClean, LaunchRetry, LaunchSafeDefaults, LaunchGiveUp, LaunchDisable,
       LaunchDisabled, Created
  <2>2. HadNativeGpuCrash
    BY <2>1 DEF RecordInv, HadNativeGpuCrash, HadCrashDuringAutotuning
  <2>3. ~LaunchClean
    BY <2>2 DEF LaunchClean
  <2>4. QED
    BY <2>3 DEF Launch, LaunchRetry, LaunchSafeDefaults, LaunchGiveUp, LaunchDisable, LaunchDisabled,
       Created
<1>2. QED
  BY <1>1, AppInvariant, PTL DEF AppSpec, DeathNoticed

=============================================================================
