-------------------------------- MODULE Game --------------------------------
(***************************************************************************)
(* What a game against the engine promises its player, whatever coroutines,  *)
(* retries and resynchronisations carry it out (GameFlow.tla implements it). *)
(* Colours alternate; a game opens only when the player asks for one; the    *)
(* player moves in the player's turn; the engine answers each turn with one  *)
(* move; a refused move and an undo take moves back from the end of the      *)
(* record, and nothing else ever changes it.                                 *)
(***************************************************************************)
EXTENDS Integers, Sequences

VARIABLES
    phase,     \* "home", "opening" (a saved game is set up), "human", "engine"
    position,  \* the moves on the board, oldest first
    engine     \* the colour the engine plays

gameVars == <<phase, position, engine>>

\* BoardState.currentPlayer: black plays the first move.
ToMove(p) == IF Len(p) % 2 = 0 THEN "B" ELSE "W"

\* Who acts next on position p, when the engine plays colour e.
Owner(p, e) == IF ToMove(p) = e THEN "engine" ELSE "human"

\* q is p with one more move, by the colour to move.
Extends(p, q) ==
    /\ Len(q) = Len(p) + 1
    /\ SubSeq(q, 1, Len(p)) = p
    /\ q[Len(q)].color = ToMove(p)

\* q is p without its last n moves, or as many as there are.
Shortens(p, q, n) ==
    q = SubSeq(p, 1, IF n < Len(p) THEN Len(p) - n ELSE 0)

GameInit == phase = "home" /\ position = <<>>

\* Only here does a game begin.  One that is still opening may make way for it.
Open ==
    /\ phase \in {"home", "opening"} /\ position = <<>>
    /\ phase' = "opening" /\ position' = <<>>

\* A move of the saved game is put on the board; after the last one play begins.
Replay ==
    /\ phase = "opening"
    /\ Extends(position, position')
    /\ phase' \in {"opening", Owner(position', engine)}
    /\ UNCHANGED engine

Begin ==
    /\ phase = "opening" /\ phase' = Owner(position, engine)
    /\ UNCHANGED <<position, engine>>

HumanMove ==
    /\ phase = "human" /\ phase' = "engine"
    /\ Extends(position, position')
    /\ UNCHANGED engine

\* The engine does not accept the player's move: it is taken back.
Refuse ==
    /\ phase = "engine" /\ phase' = "human"
    /\ position # <<>> /\ Owner(position, engine) = "engine"
    /\ Shortens(position, position', 1)
    /\ UNCHANGED engine

\* The game may go on, or be scored first.
EngineMove ==
    /\ phase = "engine" /\ phase' \in {"human", "engine"}
    /\ Owner(position, engine) = "engine"
    /\ Extends(position, position')
    /\ UNCHANGED engine

AskUndo ==
    /\ phase = "human" /\ phase' = "engine"
    /\ UNCHANGED <<position, engine>>

Undo ==
    /\ phase = "engine"
    /\ Owner(position, engine) = "human"
    /\ Shortens(position, position', 2)
    /\ phase' = Owner(position', engine)
    /\ UNCHANGED engine

\* The game is over, abandoned, or ends with an error.
Leave ==
    /\ phase # "home" /\ phase' = "home"
    /\ position' = <<>>

GameNext ==
    \/ Open \/ Replay \/ Begin \/ HumanMove \/ Refuse \/ EngineMove
    \/ AskUndo \/ Undo \/ Leave

GameSpec == GameInit /\ [][GameNext]_gameVars

\* The player is asked to move only when it is the player's turn.
PlayersTurn == phase = "human" => Owner(position, engine) = "human"
=============================================================================
