------------------------------ MODULE AiCoach ------------------------------
(***************************************************************************)
(* The AI commentary of the app: the activity queues an explanation when   *)
(* the human made a mistake (MainActivity.detectHumanMistake) and asks the *)
(* user's questions itself; AiRequestQueue runs one entry at a time;       *)
(* GoAiCoachImpl turns an entry into requests; AiRouter tries providers;   *)
(* ProviderHealth leaves failing ones out; saving a provider's settings    *)
(* (AiContainer.refreshProviders) replaces all of them.  What a vendor     *)
(* answers is chosen freely.                                               *)
(***************************************************************************)
EXTENDS Naturals, Sequences, FiniteSets, SequencesExt

CONSTANTS
  Ranking,       \* the enabled providers with a key, by priority
  Preferences,   \* the settings in force: preferred provider, allowFallback
  FailureLimit,  \* consecutive failures that leave a provider out: 5 in the code
  MaxRequests,   \* bound: mistakes, questions, new games, saves and tests
  MaxErrors,     \* bound: HTTP errors
  MaxMove        \* bound: moves of a game

Providers == ToSet(Ranking)
AUTO == "auto"
StaleAfter == 2

ASSUME CoachAssumption ==
  /\ IsInjective(Ranking) /\ Ranking # <<>> /\ AUTO \notin ToSet(Ranking)
  /\ Preferences \subseteq [preferred : ToSet(Ranking) \cup {AUTO}, allowFallback : BOOLEAN]
  /\ FailureLimit \in Nat \ {0}
  /\ MaxRequests \in Nat /\ MaxErrors \in Nat /\ MaxMove \in Nat

VARIABLES
  settings,          \* preferred provider, allowFallback
  moveNumber, aiAnalyzing,             \* the activity
  latestMoveNumber,                    \* the coach
  pending, signals, seq, worker,       \* the queue and its coroutine
  chat,              \* the router's call of the queue's worker and of the user's question
  health, generation,                  \* the registered providers, replaced by a save
  blame, mistested,  \* history: providers with a failed call or test of their own settings,
                     \* and with a failed test of other settings, since they were created
  testing,           \* the test that runs, and the save its settings date from
  requests, errors                     \* counts, for the bounds

activity == <<moveNumber, aiAnalyzing>>
queue    == <<pending, signals, seq, worker>>
registry == <<health, generation, blame, mistested>>
counts   == <<requests, errors>>
vars == <<settings, activity, latestMoveNumber, queue, chat, registry, testing, counts>>

Idle     == [pc |-> "none", left |-> <<>>, json |-> FALSE, generation |-> 0]
NoEntry  == [id |-> 0, priority |-> 0, move |-> 0]
NoTest   == [provider |-> AUTO, generation |-> 0]
Unsaved  == 0   \* the generation of a draft

\* ProviderHealth.  The router tells AVAILABLE and AUTH_FAILED from the other
\* statuses ("ERROR" here); limited stands for rateLimited or quotaExceeded,
\* which are set by a failure of that kind and cleared together.
Healthy == [status |-> "AVAILABLE", failures |-> 0, limited |-> FALSE]

Init ==
  /\ settings \in Preferences
  /\ moveNumber = 0 /\ aiAnalyzing = FALSE /\ latestMoveNumber = 0
  /\ pending = {} /\ signals = 0 /\ seq = 0 /\ worker = [pc |-> "receiving", entry |-> NoEntry]
  /\ chat = [c \in {"worker", "user"} |-> Idle]
  /\ health = [p \in Providers |-> Healthy] /\ blame = {} /\ mistested = {}
  /\ generation = 1
  /\ testing = NoTest
  /\ requests = 0 /\ errors = 0

(***************************************************************************)
(* The activity.                                                           *)
(***************************************************************************)
\* Mutant: the coach hears of every move, and not of the mistakes alone.
MovesPassNotified ==
  /\ moveNumber + 2 <= MaxMove
  /\ moveNumber' = moveNumber + 2
  /\ latestMoveNumber' = moveNumber'
  /\ UNCHANGED <<settings, aiAnalyzing, queue, chat, registry, testing, counts>>

\* The human and the engine moved; the commentary heard nothing of it.
MovesPass ==
  /\ moveNumber + 2 <= MaxMove
  /\ moveNumber' = moveNumber + 2
  /\ UNCHANGED <<settings, aiAnalyzing, latestMoveNumber, queue, chat, registry, testing, counts>>

Requested == requests < MaxRequests /\ requests' = requests + 1

\* detectHumanMistake found one (a blunder or a mistake).
DetectHumanMistake(priority) ==
  /\ Requested
  /\ moveNumber > 0
  /\ aiAnalyzing' = TRUE
  /\ latestMoveNumber' = moveNumber
  /\ seq' = seq + 1
  /\ pending' = pending \cup {[id |-> seq', priority |-> priority, move |-> moveNumber]}
  /\ signals' = signals + 1
  /\ UNCHANGED <<settings, moveNumber, worker, chat, registry, testing, errors>>

\* The queue is not cleared and the coach not told.
NewGame ==
  /\ Requested
  /\ moveNumber' = 0
  /\ aiAnalyzing' = FALSE
  /\ UNCHANGED <<settings, latestMoveNumber, queue, chat, registry, testing, errors>>

AskAiQuestion ==
  /\ chat["user"] = Idle
  /\ Requested
  /\ aiAnalyzing' = TRUE
  /\ chat' = [chat EXCEPT !["user"].pc = "routing"]
  /\ UNCHANGED <<settings, moveNumber, latestMoveNumber, queue, registry, testing, errors>>

\* The finally of askAiQuestion.
QuestionDone ==
  /\ chat["user"].pc \in {"answered", "failed"}
  /\ chat' = [chat EXCEPT !["user"] = Idle]
  /\ aiAnalyzing' = FALSE
  /\ UNCHANGED <<settings, moveNumber, latestMoveNumber, queue, registry, testing, counts>>

(***************************************************************************)
(* AiRequestQueue: one coroutine receives a signal and drains the queue.   *)
(***************************************************************************)
WorkerTo(pc, entry) == worker' = [pc |-> pc, entry |-> entry]

Receive ==
  /\ worker.pc = "receiving" /\ signals > 0
  /\ signals' = signals - 1
  /\ WorkerTo("draining", NoEntry)
  /\ UNCHANGED <<settings, activity, latestMoveNumber, pending, seq, chat, registry, testing, counts>>

Before(d, e) == d.priority > e.priority \/ (d.priority = e.priority /\ d.id <= e.id)
IsStale(e) == e.move + StaleAfter < latestMoveNumber

Poll ==
  /\ worker.pc = "draining"
  /\ IF pending = {} THEN WorkerTo("receiving", NoEntry) /\ UNCHANGED pending
     ELSE \E e \in pending :
            /\ \A d \in pending : Before(e, d)
            /\ pending' = pending \ {e}
            /\ WorkerTo("polled", e)
  /\ UNCHANGED <<settings, activity, latestMoveNumber, signals, seq, chat, registry, testing, counts>>

\* A stale entry is dropped without a word; another is explained.
CheckStale ==
  /\ worker.pc = "polled"
  /\ IF IsStale(worker.entry) THEN WorkerTo("draining", NoEntry) /\ UNCHANGED chat
     ELSE /\ WorkerTo("explaining", worker.entry)
          /\ chat' = [chat EXCEPT !["worker"] = [Idle EXCEPT !.pc = "routing", !.json = TRUE]]
  /\ UNCHANGED <<settings, activity, latestMoveNumber, pending, signals, seq, registry, testing, counts>>

\* onResult runs on the worker, with the answer or with what to show instead.
OnResult ==
  /\ worker.pc = "explaining"
  /\ chat["worker"].pc \in {"answered", "failed"}
  /\ chat' = [chat EXCEPT !["worker"] = Idle]
  /\ aiAnalyzing' = FALSE
  /\ WorkerTo("draining", NoEntry)
  /\ UNCHANGED <<settings, moveNumber, latestMoveNumber, pending, signals, seq, registry, testing, counts>>

(***************************************************************************)
(* AiRouter.chat, for the two callers that run at the same time.           *)
(***************************************************************************)
LeftOut(p) ==
  \/ health[p].status = "AUTH_FAILED"
  \/ health[p].limited
  \/ health[p].failures >= FailureLimit /\ health[p].status # "AVAILABLE"

Candidates == SelectSeq(Ranking, LAMBDA p : ~LeftOut(p))

\* MANUAL is the policy of a question when a provider was chosen.
Manual(c) == c = "user" /\ settings.preferred # AUTO
Pinned == settings.preferred # AUTO /\ ~settings.allowFallback

Ordered(c) ==
  IF Contains(Candidates, settings.preferred)
  THEN <<settings.preferred>> \o SelectSeq(Candidates, LAMBDA p : p # settings.preferred)
  ELSE Candidates

Attempts(c) == IF Manual(c) \/ Pinned THEN SubSeq(Ordered(c), 1, 1) ELSE Ordered(c)

Route(c) ==
  /\ chat[c].pc = "routing"
  /\ chat' = [chat EXCEPT ![c].pc = IF Candidates = <<>> THEN "failed" ELSE "calling",
                          ![c].left = IF Candidates = <<>> THEN <<>> ELSE Attempts(c),
                          ![c].generation = generation]
  /\ UNCHANGED <<settings, activity, latestMoveNumber, queue, registry, testing, counts>>

HttpErrors == {"AUTH_FAILED", "LIMITED", "ERROR"}

\* ProviderHealth.onSuccess and onFailure.
OnSuccess(h) == Healthy
OnFailure(h, status) ==
  [status   |-> IF status = "LIMITED" THEN "ERROR" ELSE status,
   failures |-> IF h.failures < FailureLimit THEN h.failures + 1 ELSE FailureLimit,
   limited  |-> h.limited \/ status = "LIMITED"]

\* Mutant: the outcome goes to the provider registered under the name, as
\* testAiDraft's does.
SameProviderByName(c) == chat[c].generation > 0

\* A call that began before a save has the provider it began with.
SameProvider(c) == chat[c].generation = generation

Answered(c) ==
  /\ chat[c].pc = "calling"
  /\ chat' = [chat EXCEPT ![c].pc = "answered", ![c].left = <<>>]
  /\ LET p == Head(chat[c].left) IN
       health' = IF SameProvider(c) THEN [health EXCEPT ![p] = OnSuccess(@)] ELSE health
  /\ UNCHANGED <<settings, activity, latestMoveNumber, queue, generation, blame, mistested, testing,
                 counts>>

\* The next attempt, or the end: a model's answer that is no JSON, or empty, is
\* asked for again as text, once, if it was the last failure.
AfterFailure(c, badJson) ==
  LET rest == Tail(chat[c].left) IN
  chat' = [chat EXCEPT
    ![c] = IF rest # <<>> THEN [@ EXCEPT !.left = rest]
           ELSE IF @.json /\ badJson
                THEN [Idle EXCEPT !.pc = "routing"]
                ELSE [@ EXCEPT !.left = <<>>, !.pc = "failed"]]

\* An HTTP error (a rejected JSON answer is one): the health hears of it, and
\* blame, which is the model's own, records whose settings it was.
FailedCall(c, status, badJson) ==
  /\ chat[c].pc = "calling"
  /\ errors < MaxErrors /\ errors' = errors + 1
  /\ AfterFailure(c, badJson)
  /\ LET p == Head(chat[c].left) IN
       /\ health' = IF SameProvider(c) THEN [health EXCEPT ![p] = OnFailure(@, status)] ELSE health
       /\ blame' = IF chat[c].generation = generation THEN blame \cup {p} ELSE blame
  /\ UNCHANGED <<settings, activity, latestMoveNumber, queue, generation, mistested, testing,
                 requests>>

\* A network error, a timeout, an empty answer: it does not.
LostCall(c, badJson) ==
  /\ chat[c].pc = "calling"
  /\ AfterFailure(c, badJson)
  /\ UNCHANGED <<settings, activity, latestMoveNumber, queue, registry, testing, counts>>

(***************************************************************************)
(* The settings.                                                           *)
(***************************************************************************)
\* saveProviderConfig: every provider is created anew.
SaveProviderConfig ==
  /\ Requested
  /\ generation' = generation + 1
  /\ health' = [p \in Providers |-> Healthy]
  /\ blame' = {} /\ mistested' = {}
  /\ UNCHANGED <<settings, activity, latestMoveNumber, queue, chat, testing, errors>>

\* The user tests the saved settings (testAiProvider) or those of the form, not saved
\* yet (the dialog's testAiDraft), with a provider made for the test.
StartTest(p, from) ==
  /\ testing = NoTest
  /\ Requested
  /\ testing' = [provider |-> p, generation |-> from]
  /\ UNCHANGED <<settings, activity, latestMoveNumber, queue, chat, registry, errors>>

\* The outcome goes to the provider registered now, whosever settings were tested.
TestEnds ==
  /\ testing # NoTest
  /\ testing' = NoTest
  /\ LET p == testing.provider IN
       \/ /\ health' = [health EXCEPT ![p] = OnSuccess(@)]
          /\ UNCHANGED <<blame, mistested>>
       \/ \E status \in HttpErrors :
            /\ health' = [health EXCEPT ![p] = OnFailure(@, status)]
            /\ IF testing.generation = generation
               THEN blame' = blame \cup {p} /\ UNCHANGED mistested
               ELSE mistested' = mistested \cup {p} /\ UNCHANGED blame
  /\ UNCHANGED <<settings, activity, latestMoveNumber, queue, chat, generation, counts>>

(***************************************************************************)
(* The system.                                                             *)
(***************************************************************************)
Call(c) ==
  \/ Answered(c)
  \/ \E status \in HttpErrors, badJson \in BOOLEAN :
       (badJson => status = "ERROR") /\ FailedCall(c, status, badJson)
  \/ \E badJson \in BOOLEAN : LostCall(c, badJson)

Worker == Receive \/ Poll \/ CheckStale \/ OnResult

Next ==
  \/ MovesPass \/ NewGame \/ AskAiQuestion \/ QuestionDone
  \/ \E priority \in {60, 90} : DetectHumanMistake(priority)
  \/ Worker
  \/ \E c \in {"worker", "user"} : Route(c) \/ Call(c)
  \/ SaveProviderConfig \/ TestEnds
  \/ \E p \in Providers, from \in {Unsaved, generation} : StartTest(p, from)

\* The coroutines run, and a call ends, by its timeout at the latest.
Spec ==
  /\ Init /\ [][Next]_vars
  /\ WF_vars(Worker) /\ WF_vars(QuestionDone)
  /\ \A c \in {"worker", "user"} : WF_vars(Route(c) \/ Call(c))

(***************************************************************************)
(* Properties.                                                             *)
(***************************************************************************)
\* The spinner of the game screen (aiAnalyzing) does not turn forever.  It is
\* one flag for every mistake and question; a stale entry is dropped without
\* its onResult, so it ends only because the newest entry is never stale:
\* detectHumanMistake alone moves latestMoveNumber (onGameAdvance).
SpinnerEnds == aiAnalyzing ~> ~aiAnalyzing

\* A provider is left out for failures of its own settings, or because the user tested
\* others since: testAiDraft charges the outcome of a draft, or of settings saved anew
\* during the test, to the provider registered then.  A call is held against the
\* settings it used alone: saving them (refreshProviders) starts anew, and what a call
\* begun with the old ones answers later leaves out nobody.
BlameIsEarned == \A p \in Providers : LeftOut(p) => p \in blame \/ p \in mistested
=============================================================================
