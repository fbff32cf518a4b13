----------------------------- MODULE MCAiCoach -----------------------------
(***************************************************************************)
(* The commentary with two providers, the first one preferred by priority. *)
(***************************************************************************)
EXTENDS AiCoach

CONSTANTS p1, p2

MCRanking == <<p1, p2>>
MCPreferences == {[preferred |-> "auto", allowFallback |-> TRUE],
                  [preferred |-> p2, allowFallback |-> FALSE]}
=============================================================================
