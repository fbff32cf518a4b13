--------------------------- MODULE AiCoachProofs ---------------------------
(***************************************************************************)
(* A theorem about AiCoach: whatever calls are in flight while settings    *)
(* are saved and tested, a provider is left out for failures of calls with *)
(* its present settings, or of tests of these or of others, since they     *)
(* were saved; for any providers, preferences and failure limit.           *)
(***************************************************************************)
EXTENDS AiCoach, TLAPS

Records == [status : {"AVAILABLE"} \cup HttpErrors, failures : 0 .. FailureLimit, limited : BOOLEAN]

\* A provider nothing was held against since it was created is healthy.
IInv ==
  /\ health \in [Providers -> Records]
  /\ \A p \in Providers : p \in blame \/ p \in mistested \/ health[p] = Healthy

\* Both updates of a health keep its type, and a success leaves nothing behind.
LEMMA HealthUpdates ==
  ASSUME NEW h \in Records, NEW status \in HttpErrors
  PROVE  OnFailure(h, status) \in Records /\ OnSuccess(h) = Healthy /\ Healthy \in Records
BY CoachAssumption DEF OnFailure, OnSuccess, Healthy, Records, HttpErrors

\* A healthy provider is not left out.
LEMMA HealthyIsCandidate ==
  ASSUME NEW p \in Providers, health[p] = Healthy
  PROVE  ~LeftOut(p)
BY CoachAssumption DEF LeftOut, Healthy

\* Every provider is healthy at first.
LEMMA InvInit == Init => IInv
<1>1. Healthy \in Records
  BY CoachAssumption DEF Healthy, Records
<1> QED
  BY <1>1 DEF Init, IInv

\* Only a failure the provider is blamed for changes a healthy record.
LEMMA InvStep == IInv /\ [Next]_vars => IInv'
<1> SUFFICES ASSUME IInv, [Next]_vars PROVE IInv'
  OBVIOUS
<1> USE DEF IInv
\* A step that leaves the registry alone, or replaces it.
<1>1. CASE UNCHANGED registry
  BY <1>1 DEF registry, Healthy
<1>2. CASE SaveProviderConfig
  <2>1. health' = [p \in Providers |-> Healthy] /\ Healthy \in Records
    BY <1>2, CoachAssumption DEF SaveProviderConfig, Healthy, Records
  <2> QED
    BY <2>1 DEF Healthy
\* The outcome goes to one provider: a success leaves it healthy, and a failure
\* is recorded in the same step, as one of its settings or of others.
<1>3. ASSUME NEW q, NEW status \in HttpErrors,
             blame \subseteq blame', mistested \subseteq mistested',
             \/ health' = [health EXCEPT ![q] = OnSuccess(@)]
             \/ health' = [health EXCEPT ![q] = OnFailure(@, status)] /\ q \in blame' \cup mistested'
      PROVE  IInv'
  <2>1. \A p \in Providers : health[p] \in Records
    OBVIOUS
  <2>2. \A p \in Providers : health'[p] \in Records
    BY <1>3, <2>1, HealthUpdates
  <2>3. health' \in [Providers -> Records]
    BY <1>3, <2>2
  <2>4. ASSUME NEW p \in Providers PROVE p \in blame' \/ p \in mistested' \/ health'[p] = Healthy
    BY <1>3, <2>1, HealthUpdates DEF Healthy
  <2> QED
    BY <2>3, <2>4 DEF Healthy
<1>4. ASSUME NEW c \in {"worker", "user"}, Call(c) PROVE IInv'
  <2>1. CASE Answered(c)
    <3>1. CASE SameProvider(c)
      <4>1. "ERROR" \in HttpErrors
        BY DEF HttpErrors
      <4> QED
        BY <2>1, <3>1, <4>1, <1>3 DEF Answered
    <3>2. CASE ~SameProvider(c)
      BY <2>1, <3>2, <1>1 DEF Answered, registry
    <3> QED
      BY <3>1, <3>2
  <2>2. ASSUME NEW status \in HttpErrors, NEW badJson, FailedCall(c, status, badJson) PROVE IInv'
    <3>1. CASE SameProvider(c)
      BY <2>2, <3>1, <1>3 DEF FailedCall, SameProvider
    <3>2. CASE ~SameProvider(c)
      BY <2>2, <3>2, <1>1 DEF FailedCall, SameProvider, registry
    <3> QED
      BY <3>1, <3>2
  <2>3. ASSUME NEW badJson, LostCall(c, badJson) PROVE IInv'
    BY <2>3, <1>1 DEF LostCall
  <2> QED
    BY <1>4, <2>1, <2>2, <2>3 DEF Call
<1>5. CASE TestEnds
  <2>1. "ERROR" \in HttpErrors
    BY DEF HttpErrors
  <2> QED
    BY <1>5, <2>1, <1>3 DEF TestEnds
<1>6. CASE MovesPass \/ NewGame \/ AskAiQuestion \/ QuestionDone \/ Worker
  BY <1>6, <1>1 DEF MovesPass, NewGame, AskAiQuestion, QuestionDone, Worker, Receive, Poll,
     CheckStale, OnResult
<1>7. CASE \E priority \in {60, 90} : DetectHumanMistake(priority)
  BY <1>7, <1>1 DEF DetectHumanMistake
<1>8. CASE \E c \in {"worker", "user"} : Route(c)
  BY <1>8, <1>1 DEF Route
<1>9. CASE \E p \in Providers, from \in {Unsaved, generation} : StartTest(p, from)
  BY <1>9, <1>1 DEF StartTest
<1>10. CASE UNCHANGED vars
  BY <1>10, <1>1 DEF vars
<1> QED
  BY <1>2, <1>4, <1>5, <1>6, <1>7, <1>8, <1>9, <1>10 DEF Next

\* Saving settings starts anew for good: the answer of a call that began before
\* it never leaves a provider out (AiRouter.chat and ProviderHealth.onFailure); what
\* else than a failure of its own settings can is a test of others (testAiDraft).
THEOREM BlameIsAlwaysEarned == Spec => []BlameIsEarned
<1>1. IInv => BlameIsEarned
  BY HealthyIsCandidate DEF IInv, BlameIsEarned
<1> QED
  BY <1>1, InvInit, InvStep, PTL DEF Spec
=============================================================================
