------------------------------- MODULE GoGame -------------------------------
(***************************************************************************)
(* A game under the rules of GoRules.tla: moves are made and taken back, and *)
(* stones may be set.  BoardState.tla (the app's board) and KataBoard.tla    *)
(* (the engine's) implement it, so the two boards cannot disagree on what a  *)
(* move does, on whether it is allowed, or on what taking it back restores.  *)
(***************************************************************************)
EXTENDS GoRules

VARIABLES position, past, suicide

gameVars == <<position, past, suicide>>

GameInit ==
    /\ position.ko = NoKo /\ Settled(position.stones)
    /\ past = <<>> /\ suicide \in BOOLEAN

\* A legal move, or a pass.
Move ==
    /\ past' = Append(past, position)
    /\ \/ position' = Passed(position)
       \/ \E v \in Points, c \in Colors :
             Legal(position, v, c, suicide) /\ position' = After(position, v, c)
    /\ UNCHANGED suicide

\* The last n moves are taken back: everything is as it was before them.
TakeBack(n) ==
    /\ n <= Len(past)
    /\ position' = past[Len(past) + 1 - n]
    /\ past' = SubSeq(past, 1, Len(past) - n)
    /\ UNCHANGED suicide

\* The board is cleared, or one point of it is set; nothing that was before is taken
\* back any more.
SetUp ==
    /\ \/ position' = Start
       \/ \E v \in Points, c \in Colors \cup {Empty} : position' = SetTo(position, v, c)
    /\ past' = <<>>
    /\ UNCHANGED suicide

GameNext == Move \/ TakeBack(1) \/ TakeBack(2) \/ SetUp

GameSpec == GameInit /\ [][GameNext]_gameVars
=============================================================================
