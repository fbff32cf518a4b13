----------------------------- MODULE SearchBot -----------------------------
(***************************************************************************)
(* What a search bot promises its users (the comments of search/asyncbot.h *)
(* as the code keeps them): one job at a time; a job that asks for a move  *)
(* answers it once, before it is over, unless the bot was killed; a stop   *)
(* holds until the job it hits is over.                                    *)
(***************************************************************************)
EXTENDS Naturals

NoJob == [id |-> 0, onMove |-> FALSE]

VARIABLES
  job,       \* the job searched now, or NoJob
  stop,      \* somebody asked to stop
  killed,    \* no further job is taken
  answered   \* the ids of the jobs whose move was handed over

vars == <<job, stop, killed, answered>>

Init ==
  /\ job = NoJob
  /\ stop = FALSE
  /\ killed = FALSE
  /\ answered = {}

Launch ==
  /\ job = NoJob
  /\ ~killed
  /\ job' \in [id : Nat \ {0}, onMove : BOOLEAN]
  /\ job'.id \notin answered
  /\ stop' = FALSE
  /\ UNCHANGED <<killed, answered>>

Stop ==
  /\ stop' = TRUE
  /\ UNCHANGED <<job, killed, answered>>

Kill ==
  /\ killed' = TRUE
  /\ stop' \in {stop, TRUE}
  /\ UNCHANGED <<job, answered>>

\* The job ends: with its move handed over if it asked for one, and without
\* only when the bot was killed.
End ==
  /\ job # NoJob
  /\ job' = NoJob
  /\ \/ job.onMove /\ answered' = answered \cup {job.id}
     \/ (~job.onMove \/ killed) /\ UNCHANGED answered
  /\ UNCHANGED <<stop, killed>>

Next == Launch \/ Stop \/ Kill \/ End

Spec == Init /\ [][Next]_vars
=============================================================================
