------------------------------ MODULE BoardState ------------------------------
(***************************************************************************)
(* The board of the app (BoardState.kt), which draws every move at once and  *)
(* takes it back when the engine refuses it or the player asks for it.  A    *)
(* group is flooded when it is needed; liberties are counted once for every  *)
(* stone they touch; a move keeps what popLast() needs to take it back.      *)
(* Vertices are the points of GoRules.tla: row * size + col.  The app's size *)
(* is both XSize and YSize; nothing here depends on the board being square.  *)
(***************************************************************************)
EXTENDS GoRules

CONSTANTS
    Tried,      \* bound: vertices moves are tried on
    MaxMoves    \* bound: moves of a game

ASSUME BoundsAssumption == Tried \subseteq Points /\ MaxMoves \in Nat

VARIABLES
    grid, moves, koVertex, koStack,
    captures,   \* [B |-> blackCaptures, W |-> whiteCaptures]
    past        \* history: the positions before those moves

vars == <<grid, moves, koVertex, koStack, captures, past>>

NoMove == -1   \* the vertex of a pass

currentPlayer == IF Len(moves) % 2 = 0 THEN "B" ELSE "W"

\* neighbors(): up, down, left, right, where the board goes on.
neighbors ==
    [v \in Points |->
        LET near(there, w) == IF there THEN <<w>> ELSE <<>> IN
          near(Row(v) > 0, v - XSize) \o near(Row(v) < YSize - 1, v + XSize)
          \o near(Col(v) > 0, v - 1) \o near(Col(v) < XSize - 1, v + 1)]

Beside(v) == {neighbors[v][k] : k \in DOMAIN neighbors[v]}

\* groupOf(): same-coloured stones flooded from v.
groupOf(board, v) ==
    LET flood[seen \in SUBSET Points] ==
          LET next == {w \in Points \ seen : board[w] = board[v] /\ \E u \in seen : w \in Beside(u)}
          IN  IF next = {} THEN seen ELSE flood[seen \cup next]
    IN  IF board[v] = Empty THEN {} ELSE flood[{v}]

\* liberties(): an empty point counts for each stone of the group beside it.
liberties(board, v) ==
    Cardinality({sw \in groupOf(board, v) \X Points : sw[2] \in Beside(sw[1]) /\ board[sw[2]] = Empty})

\* Mutant of isLegal: the new stone's liberties are counted before the captures.
isLegalUncaptured(v, c) ==
    grid[v] = Empty /\ v # koVertex /\ liberties(Put(grid, {v}, c), v) > 0

\* Groups are taken off a copy one after the other, in the order of neighbors().
captureOn(board, v, c) ==
    LET around == neighbors[v]
        test[k \in 0..Len(around)] ==
          IF k = 0 THEN board
          ELSE IF test[k - 1][around[k]] = Opponent(c) /\ liberties(test[k - 1], around[k]) = 0
               THEN Put(test[k - 1], groupOf(test[k - 1], around[k]), Empty)
               ELSE test[k - 1]
    IN  test[Len(around)]

isLegal(v, c) ==
    /\ grid[v] = Empty /\ v # koVertex
    /\ liberties(captureOn(Put(grid, {v}, c), v, c), v) > 0

\* capturedNeighbors(), on the board with the new stone.
capturedNeighbors(board, v, c) ==
    UNION {groupOf(board, n) : n \in {n \in Beside(v) : board[n] = Opponent(c)
                                                       /\ liberties(board, n) = 0}}

computeKo(board, v, removed) ==
    IF Cardinality(removed) # 1 \/ Cardinality(groupOf(board, v)) # 1 \/ liberties(board, v) # 1
    THEN NoKo ELSE TheOne(removed)

Shown == Position(grid, koVertex, captures)

Recorded(m) ==
    /\ Len(moves) < MaxMoves
    /\ moves' = Append(moves, m) /\ koStack' = Append(koStack, koVertex)
    /\ past' = Append(past, Shown)

\* forcePlay() on a point that is free.
forcePlay(v, c) ==
    LET put     == Put(grid, {v}, c)
        removed == capturedNeighbors(put, v, c)
        left    == Put(put, removed, Empty)
    IN  /\ grid[v] = Empty
        /\ grid' = left
        /\ captures' = [captures EXCEPT ![c] = @ + Cardinality(removed)]
        /\ koVertex' = computeKo(left, v, removed)
        /\ Recorded([vertex |-> v, color |-> c, removed |-> removed])

\* Mutant of Restored: the captured stones come back in the mover's colour.
RestoredSame(s, m, ko) ==
    IF m.vertex = NoMove THEN [s EXCEPT !.ko = ko]
    ELSE Position(Put(Put(s.stones, {m.vertex}, Empty), m.removed, m.color), ko,
                  [s.prisoners EXCEPT ![m.color] = @ - Cardinality(m.removed)])

\* popLast(): the position s before the move m, where the ko forbade the point ko.
Restored(s, m, ko) ==
    IF m.vertex = NoMove THEN [s EXCEPT !.ko = ko]
    ELSE Position(Put(Put(s.stones, {m.vertex}, Empty), m.removed, Opponent(m.color)), ko,
                  [s.prisoners EXCEPT ![m.color] = @ - Cardinality(m.removed)])

----------------------------------------------------------------------------

Init ==
    /\ grid = [v \in Points |-> Empty] /\ moves = <<>>
    /\ koVertex = NoKo /\ koStack = <<>>
    /\ captures = [c \in Colors |-> 0]
    /\ past = <<>>

\* play(): the player's move.
play(v) == isLegal(v, currentPlayer) /\ forcePlay(v, currentPlayer)

\* The engine's move and the moves of a saved game, which the engine has accepted.
EngineMove(v) == Legal(Shown, v, currentPlayer, FALSE) /\ forcePlay(v, currentPlayer)

pass ==
    /\ Recorded([vertex |-> NoMove, color |-> currentPlayer, removed |-> {}])
    /\ koVertex' = NoKo
    /\ UNCHANGED <<grid, captures>>

\* The position that is left of the moves made when the last n are taken back in turn.
Unwound(n) ==
    LET back[k \in 0..n] ==
          IF k = 0 THEN Shown
          ELSE Restored(back[k - 1], moves[Len(moves) + 1 - k], koStack[Len(moves) + 1 - k])
    IN  back[n]

\* popLast(), n times.
popLast(n) ==
    /\ n \in 1..Len(moves)
    /\ grid' = Unwound(n).stones /\ koVertex' = Unwound(n).ko /\ captures' = Unwound(n).prisoners
    /\ moves' = SubSeq(moves, 1, Len(moves) - n) /\ koStack' = SubSeq(koStack, 1, Len(moves) - n)
    /\ past' = SubSeq(past, 1, Len(moves) - n)

\* A refused move is taken back; an undo takes back two, or the only one.
refuse  == popLast(1)
popTwo == popLast(IF Len(moves) = 1 THEN 1 ELSE 2)

clear ==
    /\ moves # <<>>
    /\ grid' = [v \in Points |-> Empty] /\ moves' = <<>>
    /\ koVertex' = NoKo /\ koStack' = <<>>
    /\ captures' = [c \in Colors |-> 0]
    /\ past' = <<>>

Next ==
    \/ \E v \in Tried : play(v) \/ EngineMove(v)
    \/ pass \/ refuse \/ popTwo \/ clear

Spec == Init /\ [][Next]_vars

----------------------------------------------------------------------------

TypeOK ==
    /\ grid \in [Points -> Colors \cup {Empty}]
    /\ moves \in Seq([vertex : Points \cup {NoMove}, color : Colors, removed : SUBSET Points])
    /\ koVertex \in Points \cup {NoKo} /\ koStack \in Seq(Points \cup {NoKo})
    /\ captures \in [Colors -> Nat]
    /\ Len(koStack) = Len(moves) /\ Len(past) = Len(moves)

\* A move the app refuses is one the engine would refuse, and the other way round:
\* the player is never kept from a legal move, and the engine's answer always fits.
LegalByTheRules ==
    \A v \in Points, c \in Colors : isLegal(v, c) <=> Legal(Shown, v, c, FALSE)

\* The app's board plays the game of GoGame.tla, as the engine's does: stones,
\* ko and prisoners follow the rules, and taking moves back restores them all.
Game == INSTANCE GoGame WITH position <- Shown, suicide <- FALSE

GameSpec == Game!GameSpec
=============================================================================
