------------------------------- MODULE GoRules -------------------------------
(***************************************************************************)
(* The rules both boards of the program have to agree on, as a referee would *)
(* state them: groups and liberties as sets of points, capture, suicide, the *)
(* simple ko and prisoners.  GoGame.tla is the game played by them.          *)
(***************************************************************************)
EXTENDS Integers, Sequences, FiniteSets

CONSTANTS XSize, YSize

ASSUME BoardAssumption == XSize \in Nat \ {0} /\ YSize \in Nat \ {0}

Colors == {"B", "W"}
Empty  == "."
Points == 0..XSize * YSize - 1
NoKo   == -1

Opponent(c) == IF c = "B" THEN "W" ELSE "B"

Row(v) == v \div XSize
Col(v) == v % XSize

Distance(v, w) ==
    (IF Row(v) < Row(w) THEN Row(w) - Row(v) ELSE Row(v) - Row(w))
    + (IF Col(v) < Col(w) THEN Col(w) - Col(v) ELSE Col(v) - Col(w))

Adj == [v \in Points |-> {w \in Points : Distance(v, w) = 1}]

----------------------------------------------------------------------------
(* Points of a placement p of stones *)

\* Everything of v's kind (a colour, or empty) that is connected to v.
Group(p, v) ==
    LET from[g \in SUBSET Points] ==
          LET more == g \cup {w \in Points : p[w] = p[v] /\ Adj[w] \cap g # {}}
          IN  IF more = g THEN g ELSE from[more]
    IN  from[{v}]

\* The empty points next to a set of points.
Around(p, g) == {w \in Points : p[w] = Empty /\ Adj[w] \cap g # {}}

Liberties(p, v) == Around(p, Group(p, v))

Put(p, S, c) == [w \in Points |-> IF w \in S THEN c ELSE p[w]]

\* Opposing stones without a liberty when c has just played at v.
Captured(p, v, c) ==
    UNION {Group(p, w) : w \in {w \in Adj[v] : p[w] = Opponent(c) /\ Liberties(p, w) = {}}}

\* No group is without liberties.
Settled(p) == \A v \in Points : p[v] # Empty => Liberties(p, v) # {}

----------------------------------------------------------------------------
(* A position: the stones, the point the ko forbids, and the prisoners each  *)
(* side has taken *)

Position(stones, ko, prisoners) == [stones |-> stones, ko |-> ko, prisoners |-> prisoners]

\* The point of a set of one.
TheOne(S) == CHOOSE w \in S : TRUE

Start == Position([v \in Points |-> Empty], NoKo, [c \in Colors |-> 0])

\* The position when c has played at v.  A group that is left without liberties
\* by its own move is taken off.
After(s, v, c) ==
    LET put   == Put(s.stones, {v}, c)
        taken == Captured(put, v, c)
        left  == Put(put, taken, Empty)
        own   == Group(left, v)
        libs  == Around(left, own)
    IN  IF libs = {}
        THEN Position(Put(left, own, Empty), NoKo,
                      [s.prisoners EXCEPT ![Opponent(c)] = @ + Cardinality(own)])
        ELSE Position(left,
                      IF Cardinality(taken) = 1 /\ own = {v} /\ libs = taken
                      THEN TheOne(taken) ELSE NoKo,
                      [s.prisoners EXCEPT ![c] = @ + Cardinality(taken)])

Passed(s) == [s EXCEPT !.ko = NoKo]

\* A single stone may never take its own last liberty, a larger group only when
\* the rules allow suicide.
Legal(s, v, c, suicide) ==
    /\ s.stones[v] = Empty /\ v # s.ko
    /\ LET after == After(s, v, c).stones IN
         after[v] = c \/ (suicide /\ \E w \in Adj[v] : s.stones[w] = c)

\* The position when the point v is set to c, out of turn: whatever stone is there is
\* taken off, and the new one is played if it can be.  A group may only give up its
\* last liberty where there was no stone.
SetTo(s, v, c) ==
    LET bare == Position(Put(s.stones, {v}, Empty), NoKo, s.prisoners) IN
    CASE s.stones[v] = c -> Passed(s)
      [] s.stones[v] # c /\ c # Empty /\ Legal(bare, v, c, s.stones[v] = Empty) -> Passed(After(bare, v, c))
      [] OTHER -> bare
=============================================================================
