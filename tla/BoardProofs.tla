------------------------------ MODULE BoardProofs ------------------------------
(***************************************************************************)
(* What both boards need, for a board of any size: the rules themselves,     *)
(* lists, regions and counting.  Then theorems about BoardState (the app     *)
(* allows the moves the rules allow, and its moves, captures, kos and undos  *)
(* are those of GoGame), and how the lists of KataBoard become those of the  *)
(* groups again when a stone is played; KataBoardProofs goes on from there.  *)
(***************************************************************************)
EXTENDS BoardState, KataBoard, SequencesExt, FiniteSetTheorems, WellFoundedInduction, SequenceTheorems, TLAPS

----------------------------------------------------------------------------
(* Rows, columns and neighbours *)

\* A point is given by its row and its column.
LEMMA Coordinates ==
    ASSUME NEW v \in Points
    PROVE  /\ Row(v) \in 0..YSize - 1 /\ Col(v) \in 0..XSize - 1
           /\ v = XSize * Row(v) + Col(v)
<1>1. v \in Nat /\ v < XSize * YSize /\ XSize \in Nat \ {0} /\ YSize \in Nat \ {0}
  BY BoardAssumption DEF Points
<1>2. /\ Row(v) \in Nat /\ Col(v) \in 0..XSize - 1
      /\ v = XSize * Row(v) + Col(v)
  BY <1>1 DEF Row, Col
<1>3. Row(v) < YSize
  <2> SUFFICES ASSUME Row(v) >= YSize PROVE FALSE
    BY <1>1, <1>2
  <2>1. XSize * Row(v) >= XSize * YSize
    BY <1>1, <1>2
  <2> QED
    BY <1>1, <1>2, <2>1
<1> QED
  BY <1>1, <1>2, <1>3

\* ... and a row and a column make a point.
LEMMA PointAt ==
    ASSUME NEW r \in 0..YSize - 1, NEW c \in 0..XSize - 1
    PROVE  /\ XSize * r + c \in Points
           /\ Row(XSize * r + c) = r /\ Col(XSize * r + c) = c
<1>1. XSize \in Nat \ {0} /\ YSize \in Nat \ {0} /\ r \in Nat /\ r + 1 <= YSize
  BY BoardAssumption
<1>2. Row(XSize * r + c) = r /\ Col(XSize * r + c) = c
  BY <1>1 DEF Row, Col
<1>3. XSize * (r + 1) <= XSize * YSize /\ XSize * (r + 1) = XSize * r + XSize
  BY <1>1
<1>4. XSize * r \in Nat /\ XSize * YSize \in Nat
  BY <1>1
<1> QED
  BY <1>1, <1>2, <1>3, <1>4 DEF Points

\* Neighbours lie beside each other in a row or a column.
LEMMA Neighbours ==
    ASSUME NEW v \in Points, NEW w \in Points
    PROVE  w \in Adj[v] <=>
             \/ Col(w) = Col(v) /\ (Row(w) = Row(v) - 1 \/ Row(w) = Row(v) + 1)
             \/ Row(w) = Row(v) /\ (Col(w) = Col(v) - 1 \/ Col(w) = Col(v) + 1)
<1>1. /\ Row(v) \in Int /\ Col(v) \in Int /\ Row(w) \in Int /\ Col(w) \in Int
  BY Coordinates, BoardAssumption
<1>2. w \in Adj[v] <=> Distance(v, w) = 1
  BY DEF Adj
<1> QED
  BY <1>1, <1>2 DEF Distance

\* Being neighbours is symmetric.
LEMMA Symmetric ==
    /\ \A v \in Points : Adj[v] \subseteq Points /\ v \notin Adj[v]
    /\ \A v, w \in Points : w \in Adj[v] <=> v \in Adj[w]
<1>1. \A v \in Points : Adj[v] \subseteq Points
  BY DEF Adj
<1>2. ASSUME NEW v \in Points, NEW w \in Points
      PROVE  (w \in Adj[v] <=> v \in Adj[w]) /\ v \notin Adj[v]
  <2>1. /\ Row(v) \in Int /\ Col(v) \in Int /\ Row(w) \in Int /\ Col(w) \in Int
    BY Coordinates, BoardAssumption
  <2> QED
    BY <2>1, Neighbours
<1> QED
  BY <1>1, <1>2

Has(s, w) == \E k \in DOMAIN s : s[k] = w

\* What a sequence of two parts holds.
LEMMA Parts ==
    ASSUME NEW S, NEW s \in Seq(S), NEW t \in Seq(S), NEW w
    PROVE  Has(s \o t, w) <=> Has(s, w) \/ Has(t, w)
<1>1. /\ s \o t \in Seq(S) /\ Len(s \o t) = Len(s) + Len(t)
      /\ \A i \in 1..Len(s) + Len(t) : (s \o t)[i] = IF i <= Len(s) THEN s[i] ELSE t[i - Len(s)]
      /\ DOMAIN s = 1..Len(s) /\ DOMAIN t = 1..Len(t) /\ DOMAIN (s \o t) = 1..Len(s) + Len(t)
      /\ Len(s) \in Nat /\ Len(t) \in Nat
  OBVIOUS
<1>2. ASSUME NEW k \in DOMAIN s PROVE k \in DOMAIN (s \o t) /\ (s \o t)[k] = s[k]
  BY <1>1
<1>3. ASSUME NEW k \in DOMAIN t
      PROVE  Len(s) + k \in DOMAIN (s \o t) /\ (s \o t)[Len(s) + k] = t[k]
  BY <1>1
<1>4. ASSUME NEW k \in DOMAIN (s \o t)
      PROVE  \/ k \in DOMAIN s /\ (s \o t)[k] = s[k]
             \/ k - Len(s) \in DOMAIN t /\ (s \o t)[k] = t[k - Len(s)]
  BY <1>1
<1> QED
  BY <1>2, <1>3, <1>4 DEF Has

\* Four parts.
LEMMA FourParts ==
    ASSUME NEW S, NEW q \in Seq(S), NEW r \in Seq(S), NEW s \in Seq(S), NEW t \in Seq(S)
    PROVE  /\ q \o r \o s \o t \in Seq(S)
           /\ \A w : Has(q \o r \o s \o t, w) <=> Has(q, w) \/ Has(r, w) \/ Has(s, w) \/ Has(t, w)
<1> DEFINE qr == q \o r
           qrs == qr \o s
           qrst == qrs \o t
<1>1. qr \in Seq(S) /\ \A w : Has(qr, w) <=> Has(q, w) \/ Has(r, w)
  BY Parts
<1> HIDE DEF qr
<1>2. qrs \in Seq(S) /\ \A w : Has(qrs, w) <=> Has(qr, w) \/ Has(s, w)
  BY <1>1, Parts
<1> HIDE DEF qrs
<1>3. qrst \in Seq(S) /\ \A w : Has(qrst, w) <=> Has(qrs, w) \/ Has(t, w)
  BY <1>2, Parts
<1>4. qrst = q \o r \o s \o t
  BY DEF qr, qrs
<1> HIDE DEF qrst
<1> QED
  BY <1>1, <1>2, <1>3, <1>4

\* A neighbour in one direction, if the board goes on there.
Near(there, w) == IF there THEN <<w>> ELSE <<>>

LEMMA NearPoints ==
    ASSUME NEW there \in BOOLEAN, NEW w, there => w \in Points
    PROVE  Near(there, w) \in Seq(Points) /\ \A x : Has(Near(there, w), x) <=> there /\ x = w
BY DEF Near, Has

\* The neighbours in the four directions.
LEMMA AdjacentPoints ==
    ASSUME NEW v \in Points
    PROVE  /\ Row(v) > 0 => v - XSize \in Points
           /\ Row(v) < YSize - 1 => v + XSize \in Points
           /\ Col(v) > 0 => v - 1 \in Points
           /\ Col(v) < XSize - 1 => v + 1 \in Points
           /\ \A w : w \in Adj[v] <=>
                \/ Row(v) > 0 /\ w = v - XSize
                \/ Row(v) < YSize - 1 /\ w = v + XSize
                \/ Col(v) > 0 /\ w = v - 1
                \/ Col(v) < XSize - 1 /\ w = v + 1
<1> DEFINE r == Row(v)
           c == Col(v)
<1>0. /\ r \in 0..YSize - 1 /\ c \in 0..XSize - 1 /\ v = XSize * r + c
      /\ XSize \in Nat \ {0} /\ YSize \in Nat \ {0} /\ v \in Int /\ XSize * r \in Int
  BY Coordinates, BoardAssumption DEF Points
<1>1. r = Row(v) /\ c = Col(v)
  OBVIOUS
<1> HIDE DEF r, c
<1>2. r > 0 => /\ v - XSize \in Points /\ Row(v - XSize) = r - 1 /\ Col(v - XSize) = c
  <2> SUFFICES ASSUME r > 0
               PROVE  v - XSize \in Points /\ Row(v - XSize) = r - 1 /\ Col(v - XSize) = c
    OBVIOUS
  <2>1. PICK q \in 0..YSize - 1 : q = r - 1
    BY <1>0
  <2>2. v - XSize = XSize * q + c
    BY <1>0, <2>1
  <2>3. XSize * q + c \in Points /\ Row(XSize * q + c) = q /\ Col(XSize * q + c) = c
    BY <1>0, <2>1, PointAt
  <2> QED
    BY <2>1, <2>2, <2>3
<1>3. r < YSize - 1 => /\ v + XSize \in Points /\ Row(v + XSize) = r + 1 /\ Col(v + XSize) = c
  <2> SUFFICES ASSUME r < YSize - 1
               PROVE  v + XSize \in Points /\ Row(v + XSize) = r + 1 /\ Col(v + XSize) = c
    OBVIOUS
  <2>1. r + 1 \in 0..YSize - 1
    BY <1>0
  <2>2. v + XSize = XSize * (r + 1) + c
    BY <1>0
  <2>3. /\ XSize * (r + 1) + c \in Points
        /\ Row(XSize * (r + 1) + c) = r + 1 /\ Col(XSize * (r + 1) + c) = c
    BY <1>0, <2>1, PointAt
  <2> QED
    BY <2>2, <2>3
<1>4. c > 0 => /\ v - 1 \in Points /\ Row(v - 1) = r /\ Col(v - 1) = c - 1
  <2> SUFFICES ASSUME c > 0
               PROVE  v - 1 \in Points /\ Row(v - 1) = r /\ Col(v - 1) = c - 1
    OBVIOUS
  <2>1. c - 1 \in 0..XSize - 1
    BY <1>0
  <2>2. v - 1 = XSize * r + (c - 1)
    BY <1>0
  <2>3. PICK d \in 0..XSize - 1 : d = c - 1
    BY <2>1
  <2>4. XSize * r + d \in Points /\ Row(XSize * r + d) = r /\ Col(XSize * r + d) = d
    BY <1>0, PointAt
  <2> QED
    BY <2>2, <2>3, <2>4
<1>5. c < XSize - 1 => /\ v + 1 \in Points /\ Row(v + 1) = r /\ Col(v + 1) = c + 1
  <2> SUFFICES ASSUME c < XSize - 1
               PROVE  v + 1 \in Points /\ Row(v + 1) = r /\ Col(v + 1) = c + 1
    OBVIOUS
  <2>1. c + 1 \in 0..XSize - 1
    BY <1>0
  <2>2. v + 1 = XSize * r + (c + 1)
    BY <1>0
  <2>3. PICK d \in 0..XSize - 1 : d = c + 1
    BY <2>1
  <2>4. XSize * r + d \in Points /\ Row(XSize * r + d) = r /\ Col(XSize * r + d) = d
    BY <1>0, PointAt
  <2> QED
    BY <2>2, <2>3, <2>4
<1>6. ASSUME NEW w \in Points
      PROVE  w \in Adj[v] <=> \/ r > 0 /\ w = v - XSize
                              \/ r < YSize - 1 /\ w = v + XSize
                              \/ c > 0 /\ w = v - 1
                              \/ c < XSize - 1 /\ w = v + 1
  <2>1. /\ Row(w) \in 0..YSize - 1 /\ Col(w) \in 0..XSize - 1 /\ w = XSize * Row(w) + Col(w)
    BY Coordinates
  <2>2. w \in Adj[v] <=>
             \/ Col(w) = c /\ (Row(w) = r - 1 \/ Row(w) = r + 1)
             \/ Row(w) = r /\ (Col(w) = c - 1 \/ Col(w) = c + 1)
    BY <1>1, Neighbours
  <2>3. /\ r > 0 => (w = v - XSize <=> Col(w) = c /\ Row(w) = r - 1)
        /\ r < YSize - 1 => (w = v + XSize <=> Col(w) = c /\ Row(w) = r + 1)
    <3>1. XSize * (r - 1) + c = v - XSize /\ XSize * (r + 1) + c = v + XSize
      BY <1>0
    <3> QED
      BY <1>2, <1>3, <2>1, <3>1
  <2>4. /\ c > 0 => (w = v - 1 <=> Row(w) = r /\ Col(w) = c - 1)
        /\ c < XSize - 1 => (w = v + 1 <=> Row(w) = r /\ Col(w) = c + 1)
    <3>1. XSize * r + (c - 1) = v - 1 /\ XSize * r + (c + 1) = v + 1
      BY <1>0
    <3> QED
      BY <1>4, <1>5, <2>1, <3>1
  <2> QED
    BY <1>0, <2>1, <2>2, <2>3, <2>4
<1>7. Adj[v] \subseteq Points
  BY Symmetric
<1>8. \A w : w \in Adj[v] <=>
            \/ r > 0 /\ w = v - XSize
            \/ r < YSize - 1 /\ w = v + XSize
            \/ c > 0 /\ w = v - 1
            \/ c < XSize - 1 /\ w = v + 1
  <2> TAKE w
  <2>1. CASE w \in Points
    BY <1>6, <2>1
  <2>2. CASE w \notin Points
    BY <1>2, <1>3, <1>4, <1>5, <1>7, <2>2
  <2> QED
    BY <2>1, <2>2
<1> QED
  BY <1>1, <1>2, <1>3, <1>4, <1>5, <1>8

\* neighbors(): all the neighbours, and no row or column is wrapped around.
LEMMA BesideIsAdj ==
    ASSUME NEW v \in Points
    PROVE  /\ Beside(v) = Adj[v] /\ neighbors[v] \in Seq(Points)
<1> DEFINE up == Near(Row(v) > 0, v - XSize)
           down == Near(Row(v) < YSize - 1, v + XSize)
           left == Near(Col(v) > 0, v - 1)
           right == Near(Col(v) < XSize - 1, v + 1)
<1>1. neighbors[v] = up \o down \o left \o right
  BY DEF neighbors, Near
<1>2. /\ up \in Seq(Points) /\ \A x : Has(up, x) <=> Row(v) > 0 /\ x = v - XSize
      /\ down \in Seq(Points) /\ \A x : Has(down, x) <=> Row(v) < YSize - 1 /\ x = v + XSize
      /\ left \in Seq(Points) /\ \A x : Has(left, x) <=> Col(v) > 0 /\ x = v - 1
      /\ right \in Seq(Points) /\ \A x : Has(right, x) <=> Col(v) < XSize - 1 /\ x = v + 1
  <2>1. /\ (Row(v) > 0) \in BOOLEAN /\ (Row(v) < YSize - 1) \in BOOLEAN
        /\ (Col(v) > 0) \in BOOLEAN /\ (Col(v) < XSize - 1) \in BOOLEAN
    OBVIOUS
  <2>2. /\ Row(v) > 0 => v - XSize \in Points
        /\ Row(v) < YSize - 1 => v + XSize \in Points
        /\ Col(v) > 0 => v - 1 \in Points
        /\ Col(v) < XSize - 1 => v + 1 \in Points
    BY AdjacentPoints
  <2> QED
    BY <2>1, <2>2, NearPoints
<1> HIDE DEF up, down, left, right
<1>3. /\ neighbors[v] \in Seq(Points)
      /\ \A w : Has(neighbors[v], w) <=> Has(up, w) \/ Has(down, w) \/ Has(left, w) \/ Has(right, w)
  BY <1>1, <1>2, FourParts
<1>4. \A w : w \in Beside(v) <=> Has(neighbors[v], w)
  BY DEF Beside, Has
<1>5. \A w : w \in Beside(v) <=> w \in Adj[v]
  BY <1>2, <1>3, <1>4, AdjacentPoints
<1> QED
  BY <1>3, <1>5

----------------------------------------------------------------------------
(* Flooding: what the recursive functions of the rules and of the app compute *)

\* The points of kind k next to g.
Kin(p, k, g) == {w \in Points : p[w] = k /\ Adj[w] \cap g # {}}

Closed(p, k, g) == Kin(p, k, g) \subseteq g

\* The least closed set around g.
Closure(p, k, g) == {w \in Points : \A s \in SUBSET Points : g \subseteq s /\ Closed(p, k, s) => w \in s}

LEMMA PointsFinite == IsFiniteSet(Points)
<1>1. XSize * YSize \in Int
  BY BoardAssumption
<1> QED
  BY <1>1, FS_Interval DEF Points

Grows(grow) ==
    grow \in [SUBSET Points -> SUBSET Points] /\ \A g \in SUBSET Points : g \subseteq grow[g]

\* f is what is left when a set has grown until it does not change any more.
Grown(grow, f) == \A g \in SUBSET Points : f[g] = IF grow[g] = g THEN g ELSE f[grow[g]]

\* A set that grows until it does not change any more ends at the only value that
\* growing leaves as it is.
LEMMA Saturation ==
    ASSUME NEW grow, Grows(grow), NEW end, Grown(grow, end), NEW f, Grown(grow, f)
    PROVE  \A g \in SUBSET Points : f[g] = end[g]
<1> DEFINE Bad == {h \in SUBSET Points : f[Points \ h] # end[Points \ h]}
<1> SUFFICES ASSUME Bad # {} PROVE FALSE
  <2> SUFFICES ASSUME NEW g \in SUBSET Points, f[g] # end[g] PROVE Bad # {}
    OBVIOUS
  <2>1. Points \ g \in SUBSET Points /\ Points \ (Points \ g) = g
    OBVIOUS
  <2>2. Points \ g \in Bad
    BY <2>1
  <2> QED
    BY <2>2
<1>1. Bad \subseteq FiniteSubsetsOf(Points)
  BY PointsFinite, FS_Subset DEF FiniteSubsetsOf
<1>2. PICK h \in Bad : \A y \in Bad : <<y, h>> \notin StrictSubsetOrdering(Points)
  <2>1. IsWellFoundedOn(StrictSubsetOrdering(Points), FiniteSubsetsOf(Points))
    BY FS_StrictSubsetOrderingWellFounded
  <2> HIDE DEF Bad
  <2> QED
    BY <1>1, <2>1, WFMin
<1> DEFINE g == Points \ h
<1>3. g \in SUBSET Points /\ grow[g] \in SUBSET Points /\ g \subseteq grow[g] /\ f[g] # end[g]
  BY DEF Grows
<1>4. grow[g] # g /\ f[grow[g]] # end[grow[g]]
  BY <1>3 DEF Grown
<1> DEFINE y == Points \ grow[g]
<1>5. y \in Bad
  <2>1. Points \ y = grow[g] /\ y \in SUBSET Points
    BY <1>3
  <2> QED
    BY <1>4, <2>1
<1>6. y \subseteq h /\ y # h
  BY <1>3, <1>4
<1>7. <<y, h>> \in StrictSubsetOrdering(Points)
  BY <1>6 DEF StrictSubsetOrdering
<1> QED
  BY <1>2, <1>5, <1>7

\* Closures.
LEMMA Closures ==
    ASSUME NEW p, NEW k, NEW g \in SUBSET Points
    PROVE  /\ Closure(p, k, g) \in SUBSET Points /\ g \subseteq Closure(p, k, g)
           /\ Closed(p, k, Closure(p, k, g))
           /\ \A s \in SUBSET Points : g \subseteq s /\ Closed(p, k, s) => Closure(p, k, g) \subseteq s
           /\ Closed(p, k, g) => Closure(p, k, g) = g
           /\ Closure(p, k, g \cup Kin(p, k, g)) = Closure(p, k, g)
<1>1. Closure(p, k, g) \in SUBSET Points /\ g \subseteq Closure(p, k, g)
  BY DEF Closure
<1>2. ASSUME NEW s \in SUBSET Points, g \subseteq s, Closed(p, k, s) PROVE Closure(p, k, g) \subseteq s
  BY <1>2 DEF Closure
<1>3. Closed(p, k, Closure(p, k, g))
  <2> SUFFICES ASSUME NEW w \in Kin(p, k, Closure(p, k, g)),
                      NEW s \in SUBSET Points, g \subseteq s, Closed(p, k, s)
               PROVE  w \in s
    BY DEF Closed, Closure, Kin
  <2>1. w \in Kin(p, k, s)
    BY <1>2 DEF Kin
  <2> QED
    BY <2>1 DEF Closed
<1>4. Closed(p, k, g) => Closure(p, k, g) = g
  BY <1>1, <1>2
<1>5. \A s \in SUBSET Points : Closed(p, k, s) => (g \cup Kin(p, k, g) \subseteq s <=> g \subseteq s)
  BY DEF Closed, Kin
<1>6. Closure(p, k, g \cup Kin(p, k, g)) = Closure(p, k, g)
  BY <1>5 DEF Closure
<1> QED
  BY <1>1, <1>2, <1>3, <1>4, <1>6

\* A group of the rules.
LEMMA GroupIsClosure ==
    ASSUME NEW p, NEW v \in Points
    PROVE  Group(p, v) = Closure(p, p[v], {v})
<1> DEFINE k == p[v]
           grow == [g \in SUBSET Points |-> g \cup Kin(p, k, g)]
           end == [g \in SUBSET Points |-> Closure(p, k, g)]
           Flood(f) == f = [g \in SUBSET Points |-> IF g \cup Kin(p, k, g) = g THEN g ELSE f[g \cup Kin(p, k, g)]]
<1>1. Group(p, v) = (CHOOSE f : Flood(f))[{v}]
  BY DEF Group, Kin
<1>2. Grows(grow)
  BY DEF Kin, Grows
<1>3. Grown(grow, end)
  <2> SUFFICES \A g \in SUBSET Points : end[g] = IF grow[g] = g THEN g ELSE end[grow[g]]
    BY DEF Grown
  <2> TAKE g \in SUBSET Points
  <2>1. g \cup Kin(p, k, g) = g => Closed(p, k, g)
    BY DEF Closed
  <2>2. g \cup Kin(p, k, g) \in SUBSET Points
    BY DEF Kin
  <2> QED
    BY <2>1, <2>2, Closures
<1>4. Flood(end)
  <2>1. \A g \in SUBSET Points : grow[g] = g \cup Kin(p, k, g)
    OBVIOUS
  <2>2. end = [g \in SUBSET Points |-> end[g]]
    OBVIOUS
  <2> HIDE DEF end, grow
  <2>3. \A g \in SUBSET Points :
           end[g] = IF g \cup Kin(p, k, g) = g THEN g ELSE end[g \cup Kin(p, k, g)]
    BY <1>3, <2>1 DEF Grown
  <2>4. [g \in SUBSET Points |-> end[g]]
          = [g \in SUBSET Points |-> IF g \cup Kin(p, k, g) = g THEN g ELSE end[g \cup Kin(p, k, g)]]
    BY <2>3, Zenon
  <2> QED
    BY <2>2, <2>4
<1> DEFINE f == CHOOSE f : Flood(f)
<1> HIDE DEF end
<1>5. Flood(f)
  BY <1>4
<1> HIDE DEF f
<1>6. Grown(grow, f)
  <2>1. \A g \in SUBSET Points : grow[g] = g \cup Kin(p, k, g)
    OBVIOUS
  <2> HIDE DEF grow
  <2> QED
    BY <1>5, <2>1 DEF Grown
<1> HIDE DEF grow, Flood
<1>7. \A g \in SUBSET Points : f[g] = end[g]
  BY <1>2, <1>3, <1>6, Saturation
<1>8. {v} \in SUBSET Points
  OBVIOUS
<1> QED
  BY <1>1, <1>7, <1>8 DEF end, f

\* groupOf() floods the group of a stone.
LEMMA FloodedGroup ==
    ASSUME NEW p, NEW v \in Points, p[v] # Empty
    PROVE  groupOf(p, v) = Group(p, v)
<1> DEFINE k == p[v]
           grow == [g \in SUBSET Points |-> g \cup Kin(p, k, g)]
           end == [g \in SUBSET Points |-> Closure(p, k, g)]
           next(seen) == {w \in Points \ seen : p[w] = p[v] /\ \E u \in seen : w \in Beside(u)}
           Flood(f) == f = [seen \in SUBSET Points |-> IF next(seen) = {} THEN seen ELSE f[seen \cup next(seen)]]
<1>1. groupOf(p, v) = (CHOOSE f : Flood(f))[{v}]
  BY DEF groupOf
<1>2. Grows(grow)
  BY DEF Kin, Grows
<1>3. \A g \in SUBSET Points : grow[g] \in SUBSET Points /\ grow[g] = g \cup next(g) /\ (grow[g] = g <=> next(g) = {})
  <2> TAKE g \in SUBSET Points
  <2>1. \A w \in Points : (\E u \in g : w \in Beside(u)) <=> Adj[w] \cap g # {}
    BY BesideIsAdj, Symmetric
  <2>2. grow[g] = g \cup next(g)
    BY <2>1 DEF Kin
  <2> QED
    BY <1>2, <2>2 DEF Grows
<1>4. Grown(grow, end)
  <2> SUFFICES \A g \in SUBSET Points : end[g] = IF grow[g] = g THEN g ELSE end[grow[g]]
    BY DEF Grown
  <2> TAKE g \in SUBSET Points
  <2>1. g \cup Kin(p, k, g) = g => Closed(p, k, g)
    BY DEF Closed
  <2>2. g \cup Kin(p, k, g) \in SUBSET Points
    BY DEF Kin
  <2> QED
    BY <2>1, <2>2, Closures
<1>5. Flood(end)
  <2>1. end = [g \in SUBSET Points |-> end[g]]
    OBVIOUS
  <2> HIDE DEF end, grow, next
  <2>2. ASSUME NEW g \in SUBSET Points
        PROVE  end[g] = IF next(g) = {} THEN g ELSE end[g \cup next(g)]
    <3>1. grow[g] = g \cup next(g) /\ (grow[g] = g <=> next(g) = {})
      BY <1>3
    <3>2. end[g] = IF grow[g] = g THEN g ELSE end[grow[g]]
      BY <1>4 DEF Grown
    <3> QED
      BY <3>1, <3>2
  <2>3. [g \in SUBSET Points |-> end[g]]
          = [g \in SUBSET Points |-> IF next(g) = {} THEN g ELSE end[g \cup next(g)]]
    BY <2>2, Zenon
  <2> QED
    BY <2>1, <2>3
<1> DEFINE f == CHOOSE f : Flood(f)
<1> HIDE DEF end
<1>6. Flood(f)
  BY <1>5
<1> HIDE DEF f
<1>7. Grown(grow, f)
  <2> HIDE DEF grow, next
  <2> QED
    BY <1>3, <1>6 DEF Grown
<1> HIDE DEF grow, Flood
<1>8. \A g \in SUBSET Points : f[g] = end[g]
  BY <1>2, <1>4, <1>7, Saturation
<1>9. {v} \in SUBSET Points
  OBVIOUS
<1> QED
  BY <1>1, <1>8, <1>9, GroupIsClosure DEF end, f

Stones == [Points -> Colors \cup {Empty}]

\* What a group is: the connected points of one kind.
LEMMA Groups ==
    ASSUME NEW p, NEW v \in Points
    PROVE  /\ v \in Group(p, v) /\ Group(p, v) \in SUBSET Points
           /\ \A w \in Group(p, v) : p[w] = p[v]
           /\ \A w \in Points : \A u \in Group(p, v) : p[w] = p[v] /\ u \in Adj[w] => w \in Group(p, v)
           /\ \A s \in SUBSET Points :
                 /\ v \in s
                 /\ \A w \in Points : \A u \in s : p[w] = p[v] /\ u \in Adj[w] => w \in s
                 => Group(p, v) \subseteq s
           /\ \A w \in Group(p, v) : Group(p, w) = Group(p, v)
<1>1. ASSUME NEW x \in Points
      PROVE  /\ x \in Group(p, x) /\ Group(p, x) \in SUBSET Points /\ Closed(p, p[x], Group(p, x))
             /\ \A s \in SUBSET Points : x \in s /\ Closed(p, p[x], s) => Group(p, x) \subseteq s
  <2> DEFINE g == {x}
             k == p[x]
  <2>1. g \in SUBSET Points /\ Group(p, x) = Closure(p, k, g)
    BY GroupIsClosure
  <2>2. x \in g /\ \A s : x \in s => g \subseteq s
    OBVIOUS
  <2> HIDE DEF g, k
  <2>3. /\ Closure(p, k, g) \in SUBSET Points /\ g \subseteq Closure(p, k, g)
        /\ Closed(p, k, Closure(p, k, g))
        /\ \A s \in SUBSET Points : g \subseteq s /\ Closed(p, k, s) => Closure(p, k, g) \subseteq s
    BY <2>1, Closures
  <2> QED
    BY <2>1, <2>2, <2>3 DEF k
<1>2. v \in Group(p, v) /\ Group(p, v) \in SUBSET Points
  BY <1>1
<1>3. ASSUME NEW x \in Points, NEW w \in Points, NEW u \in Group(p, x), p[w] = p[x], u \in Adj[w]
      PROVE  w \in Group(p, x)
  BY <1>1, <1>3 DEF Closed, Kin
<1>4. ASSUME NEW x \in Points, NEW s \in SUBSET Points, x \in s,
             \A w \in Points : \A u \in s : p[w] = p[x] /\ u \in Adj[w] => w \in s
      PROVE  Group(p, x) \subseteq s
  <2>1. Closed(p, p[x], s)
    BY <1>4 DEF Closed, Kin
  <2> QED
    BY <1>1, <1>4, <2>1
<1>5. \A w \in Group(p, v) : p[w] = p[v]
  <2> DEFINE s == {w \in Points : p[w] = p[v]}
  <2>1. Group(p, v) \subseteq s
    BY <1>4
  <2> QED
    BY <2>1
<1>6. ASSUME NEW w \in Group(p, v) PROVE Group(p, w) = Group(p, v)
  <2>0. w \in Points /\ p[w] = p[v] /\ w \in Group(p, w) /\ Group(p, w) \in SUBSET Points
    BY <1>1, <1>2, <1>5, <1>6
  <2>1. Group(p, w) \subseteq Group(p, v)
    BY <1>2, <1>3, <1>4, <2>0
  <2>2. v \in Group(p, w)
    <3> SUFFICES ASSUME v \notin Group(p, w) PROVE FALSE
      OBVIOUS
    <3> DEFINE s == {x \in Points \ Group(p, w) : p[x] = p[v]}
    <3>2. ASSUME NEW x \in Points, NEW u \in s, p[x] = p[v], u \in Adj[x] PROVE x \in s
      <4>1. x \in Adj[u] /\ u \in Points /\ p[u] = p[w] /\ u \notin Group(p, w)
        BY <2>0, <3>2, Symmetric
      <4> QED
        BY <1>3, <2>0, <3>2, <4>1
    <3>3. Closed(p, p[v], s) /\ v \in s /\ s \in SUBSET Points
      BY <3>2 DEF Closed, Kin
    <3> HIDE DEF s
    <3>4. Group(p, v) \subseteq s
      BY <1>1, <3>3
    <3> QED
      BY <2>0, <3>4 DEF s
  <2>3. Group(p, v) \subseteq Group(p, w)
    <3>1. Closed(p, p[v], Group(p, w))
      BY <1>1, <2>0
    <3> QED
      BY <1>1, <2>0, <2>2, <3>1
  <2> QED
    BY <2>1, <2>3
<1> QED
  BY <1>2, <1>3, <1>4, <1>5, <1>6

----------------------------------------------------------------------------
(* Liberties and captures *)

LEMMA Kinds ==
    /\ "B" \in Colors /\ "W" \in Colors /\ Empty \notin Colors
    /\ \A c \in Colors : Opponent(c) \in Colors /\ Opponent(c) # c /\ c # Empty /\ Opponent(c) # Empty
                         /\ Opponent(Opponent(c)) = c
BY DEF Colors, Empty, Opponent

LEMMA PutStones ==
    ASSUME NEW p, NEW s \in SUBSET Points, NEW c
    PROVE  /\ \A w \in Points : Put(p, s, c)[w] = IF w \in s THEN c ELSE p[w]
           /\ p \in Stones /\ c \in Colors \cup {Empty} => Put(p, s, c) \in Stones
BY DEF Put, Stones

LEMMA PutTwice ==
    ASSUME NEW p, NEW s, NEW t, NEW c
    PROVE  Put(Put(p, s, c), t, c) = Put(p, s \cup t, c)
BY DEF Put

\* Two boards are the same when they hold the same at every point.
LEMMA SameStones ==
    ASSUME NEW p \in Stones, NEW q \in Stones, \A w \in Points : p[w] = q[w]
    PROVE  p = q
BY DEF Stones

\* liberties() counts an empty point once for every stone beside it, which makes no
\* difference to whether there is one, nor to a single stone.
LEMMA LibertyCount ==
    ASSUME NEW p, NEW v \in Points, p[v] # Empty
    PROVE  /\ liberties(p, v) \in Nat
           /\ liberties(p, v) = 0 <=> Liberties(p, v) = {}
           /\ Group(p, v) = {v} => (liberties(p, v) = 1 <=> \E w : Liberties(p, v) = {w})
<1> DEFINE g == Group(p, v)
           pairs == {sw \in g \X Points : sw[2] \in Beside(sw[1]) /\ p[sw[2]] = Empty}
<1>1. liberties(p, v) = Cardinality(pairs)
  BY FloodedGroup DEF liberties
<1>2. g \in SUBSET Points
  BY Groups
<1> HIDE DEF g
<1>3. IsFiniteSet(pairs)
  <2>1. IsFiniteSet(g) /\ IsFiniteSet(Points)
    BY <1>2, PointsFinite, FS_Subset
  <2>2. IsFiniteSet(g \X Points)
    BY <2>1, FS_Product
  <2>3. pairs \in SUBSET (g \X Points)
    OBVIOUS
  <2> HIDE DEF pairs
  <2> QED
    BY <2>2, <2>3, FS_Subset
<1>4. \A w : w \in Liberties(p, v) <=> w \in Points /\ p[w] = Empty /\ \E u \in g : w \in Adj[u]
  BY <1>2, Symmetric DEF Liberties, Around, g
<1>5. \A u, w : <<u, w>> \in pairs <=> u \in g /\ w \in Points /\ w \in Adj[u] /\ p[w] = Empty
  BY <1>2, BesideIsAdj
<1>6. \A x \in pairs : \E u, w : x = <<u, w>>
  OBVIOUS
<1> HIDE DEF pairs
<1>7. pairs = {} <=> Liberties(p, v) = {}
  <2>1. ASSUME NEW w \in Liberties(p, v) PROVE pairs # {}
    <3>1. PICK u \in g : w \in Adj[u] /\ w \in Points /\ p[w] = Empty
      BY <1>4
    <3>2. <<u, w>> \in pairs
      BY <1>5, <3>1
    <3> QED
      BY <3>2
  <2>2. ASSUME NEW x \in pairs PROVE Liberties(p, v) # {}
    <3>1. PICK u, w : x = <<u, w>>
      BY <1>6
    <3>2. w \in Liberties(p, v)
      BY <1>4, <1>5, <3>1
    <3> QED
      BY <3>2
  <2> QED
    BY <2>1, <2>2
<1>8. ASSUME g = {v} PROVE (\E x : pairs = {x}) <=> (\E w : Liberties(p, v) = {w})
  <2>1. \A w : <<v, w>> \in pairs <=> w \in Liberties(p, v)
    BY <1>4, <1>5, <1>8
  <2>2. \A x \in pairs : \E w : x = <<v, w>>
    BY <1>5, <1>6, <1>8
  <2>3. ASSUME NEW x, pairs = {x} PROVE \E w : Liberties(p, v) = {w}
    <3>1. PICK w : x = <<v, w>>
      BY <2>2, <2>3
    <3>2. Liberties(p, v) = {w}
      BY <2>1, <2>3, <3>1
    <3> QED
      BY <3>2
  <2>4. ASSUME NEW w, Liberties(p, v) = {w} PROVE \E x : pairs = {x}
    <3>1. pairs = {<<v, w>>}
      BY <2>1, <2>2, <2>4
    <3> QED
      BY <3>1
  <2> QED
    BY <2>3, <2>4
<1>9. Cardinality(pairs) \in Nat /\ (Cardinality(pairs) = 0 <=> pairs = {})
      /\ (Cardinality(pairs) = 1 <=> \E x : pairs = {x})
  BY <1>3, FS_CardinalityType, FS_EmptySet, FS_Singleton
<1> QED
  BY <1>1, <1>7, <1>8, <1>9 DEF g

\* capturedNeighbors() are the captured stones.
LEMMA CapturedIsCaptured ==
    ASSUME NEW p, NEW v \in Points, NEW c \in Colors
    PROVE  capturedNeighbors(p, v, c) = Captured(p, v, c)
<1>1. \A n \in Adj[v] : n \in Points /\ (p[n] = Opponent(c) =>
         groupOf(p, n) = Group(p, n) /\ (liberties(p, n) = 0 <=> Liberties(p, n) = {}))
  BY Symmetric, Kinds, FloodedGroup, LibertyCount
<1>2. Beside(v) = Adj[v]
  BY BesideIsAdj
<1> QED
  BY <1>1, <1>2 DEF capturedNeighbors, Captured

\* Taking groups off the board leaves the other groups of their colour, and the
\* liberties of those, as they are.
LEMMA Removal ==
    ASSUME NEW p \in Stones, NEW o \in Colors, NEW s \in SUBSET Points,
           \A x \in s : p[x] = o /\ Group(p, x) \subseteq s,
           NEW n \in Points, p[n] = o, n \notin s
    PROVE  LET q == Put(p, s, Empty) IN
             q[n] = o /\ Group(q, n) = Group(p, n) /\ Liberties(q, n) = Liberties(p, n)
<1> DEFINE q == Put(p, s, Empty)
           g == Group(p, n)
<1>1. /\ \A w \in Points : q[w] = IF w \in s THEN Empty ELSE p[w]
      /\ o # Empty
  BY PutStones, Kinds
<1>2. q[n] = o
  BY <1>1
<1> HIDE DEF q
<1>3. g \in SUBSET Points /\ g \cap s = {} /\ \A w \in g : p[w] = o
  <2>1. g \in SUBSET Points /\ n \in g /\ \A w \in g : p[w] = o /\ Group(p, w) = g
    BY Groups
  <2> QED
    BY <2>1
<1>4. Group(q, n) \subseteq g
  <2>1. n \in g /\ \A w \in Points : \A u \in g : p[w] = o /\ u \in Adj[w] => w \in g
    BY Groups
  <2>2. \A w \in Points : \A u \in g : q[w] = q[n] /\ u \in Adj[w] => w \in g
    BY <1>1, <1>2, <2>1
  <2> HIDE DEF g
  <2> QED
    BY <1>3, <2>1, <2>2, Groups
<1>5. g \subseteq Group(q, n)
  <2> DEFINE h == Group(q, n)
  <2>1. /\ n \in h /\ h \in SUBSET Points /\ \A w \in h : q[w] = o
        /\ \A w \in Points : \A u \in h : q[w] = o /\ u \in Adj[w] => w \in h
    BY <1>2, Groups
  <2> HIDE DEF h
  <2>2. ASSUME NEW w \in Points, NEW u \in h, p[w] = p[n], u \in Adj[w] PROVE w \in h
    <3>1. u \in Points /\ u \notin s /\ p[u] = o
      BY <1>1, <2>1
    <3>2. w \notin s
      <4> SUFFICES ASSUME w \in s PROVE FALSE
        OBVIOUS
      <4>1. w \in Group(p, w) /\ w \in Adj[u] /\ p[u] = p[w]
        BY <2>2, <3>1, Groups, Symmetric
      <4>2. u \in Group(p, w)
        BY <2>2, <3>1, <4>1, Groups
      <4> QED
        BY <3>1, <4>2
    <3> QED
      BY <1>1, <2>1, <2>2, <3>2
  <2>3. Group(p, n) \subseteq h
    BY <2>1, <2>2, Groups
  <2> QED
    BY <2>3 DEF h
<1>6. Around(q, g) = Around(p, g)
  <2>1. \A w \in Points : Adj[w] \cap g # {} => w \notin s
    <3> SUFFICES ASSUME NEW w \in s, NEW u \in Adj[w], u \in g PROVE FALSE
      OBVIOUS
    <3>1. w \in g
      BY Groups
    <3> QED
      BY <1>3, <3>1
  <2> QED
    BY <1>1, <2>1 DEF Around
<1>7. Group(q, n) = g
  BY <1>4, <1>5
<1>8. Liberties(q, n) = Liberties(p, n)
  BY <1>6, <1>7 DEF Liberties
<1> QED
  BY <1>2, <1>7, <1>8 DEF q

----------------------------------------------------------------------------
(* Legal moves *)

GoOnAlike(f, g, n) == \A k \in 1..n : f[k - 1] = g[k - 1] => f[k] = g[k]

\* Two sequences that begin alike, and go on alike as long as they are alike.
LEMMA Alike ==
    ASSUME NEW n \in Nat, NEW f, NEW g, f[0] = g[0], GoOnAlike(f, g, n)
    PROVE  \A k \in 0..n : f[k] = g[k]
<1> DEFINE Bad == {k \in 0..n : f[k] # g[k]}
<1> SUFFICES ASSUME Bad # {} PROVE FALSE
  OBVIOUS
<1>1. PICK k \in Bad : \A j \in Bad : <<j, k>> \notin OpToRel(<, Nat)
  <2>1. Bad \subseteq Nat
    OBVIOUS
  <2> HIDE DEF Bad
  <2> QED
    BY <2>1, NatLessThanWellFounded, WFMin
<1>2. k \in 1..n /\ k - 1 \in 0..n /\ k - 1 < k /\ k - 1 \in Nat /\ k \in Nat
  OBVIOUS
<1>3. k - 1 \notin Bad
  <2>1. <<k - 1, k>> \in OpToRel(<, Nat)
    BY <1>2 DEF OpToRel
  <2> QED
    BY <1>1, <2>1
<1> QED
  BY <1>2, <1>3 DEF GoOnAlike

\* The group of n, when it is of colour o and has no liberties.
Dead(p, o, n) == IF p[n] = o /\ Liberties(p, n) = {} THEN Group(p, n) ELSE {}

\* The groups of colour o without liberties at the first k points of ns.
Taken(p, o, ns, k) ==
    UNION {Dead(p, o, ns[i]) : i \in 1..k}

LEMMA TakenSets ==
    ASSUME NEW p, NEW o, NEW ns \in Seq(Points), NEW k \in 0..Len(ns)
    PROVE  /\ Taken(p, o, ns, k) \in SUBSET Points
           /\ \A x \in Taken(p, o, ns, k) : p[x] = o /\ Group(p, x) \subseteq Taken(p, o, ns, k)
<1>1. \A i \in 1..k : ns[i] \in Points
  OBVIOUS
<1>2. \A i \in 1..k : /\ Dead(p, o, ns[i]) \in SUBSET Points
                      /\ \A x \in Dead(p, o, ns[i]) : p[x] = o /\ Group(p, x) = Dead(p, o, ns[i])
  BY <1>1, Groups DEF Dead
<1> QED
  BY <1>2 DEF Taken

LEMMA TakenNext ==
    ASSUME NEW p, NEW o, NEW ns, NEW k \in Nat \ {0}
    PROVE  Taken(p, o, ns, k) = Taken(p, o, ns, k - 1) \cup Dead(p, o, ns[k])
<1>1. 1..k = 1..k - 1 \cup {k}
  OBVIOUS
<1> QED
  BY <1>1 DEF Taken

\* One turn of captureOn(): a copy that lacks the captured groups of the
\* neighbours before ns[k] afterwards lacks that of ns[k].
LEMMA CaptureStep ==
    ASSUME NEW p \in Stones, NEW o \in Colors, NEW ns \in Seq(Points), NEW k \in 1..Len(ns)
    PROVE  LET t == Put(p, Taken(p, o, ns, k - 1), Empty) IN
             Put(p, Taken(p, o, ns, k), Empty) =
               IF t[ns[k]] = o /\ liberties(t, ns[k]) = 0 THEN Put(t, groupOf(t, ns[k]), Empty) ELSE t
<1> DEFINE s == Taken(p, o, ns, k - 1)
           t == Put(p, s, Empty)
           n == ns[k]
<1>1. /\ k - 1 \in 0..Len(ns) /\ k \in 0..Len(ns) /\ k > 0 /\ n \in Points
  OBVIOUS
<1>2. s \in SUBSET Points /\ \A x \in s : p[x] = o /\ Group(p, x) \subseteq s
  BY <1>1, TakenSets
<1>3. Taken(p, o, ns, k) = s \cup Dead(p, o, n)
  <2>1. k \in Nat \ {0}
    OBVIOUS
  <2> QED
    BY <2>1, TakenNext
<1> HIDE DEF s, n
<1>4. t[n] = (IF n \in s THEN Empty ELSE p[n]) /\ o # Empty
  <2>1. \A w \in Points : Put(p, s, Empty)[w] = IF w \in s THEN Empty ELSE p[w]
    BY <1>2, PutStones
  <2> QED
    BY <1>1, <2>1, Kinds
<1>5. CASE n \in s
  <2>1. Group(p, n) \subseteq s
    BY <1>2, <1>5
  <2>2. Taken(p, o, ns, k) = s
    BY <1>3, <2>1 DEF Dead
  <2> QED
    BY <1>4, <1>5, <2>2 DEF s, n
<1>6. CASE n \notin s /\ p[n] # o
  BY <1>3, <1>4, <1>6 DEF s, n, Dead
<1>7. CASE n \notin s /\ p[n] = o
  <2>1. t[n] = o /\ Group(t, n) = Group(p, n) /\ Liberties(t, n) = Liberties(p, n)
    BY <1>1, <1>2, <1>7, Removal
  <2>2. groupOf(t, n) = Group(p, n) /\ (liberties(t, n) = 0 <=> Liberties(p, n) = {})
    BY <1>1, <1>4, <2>1, FloodedGroup, LibertyCount
  <2>3. Put(t, Group(p, n), Empty) = Put(p, s \cup Group(p, n), Empty)
    BY PutTwice
  <2> QED
    BY <1>3, <1>7, <2>1, <2>2, <2>3 DEF s, n, Dead
<1> QED
  BY <1>5, <1>6, <1>7

\* What captureOn() has taken off in the end is what the rules take off.
LEMMA CapturesInTurn ==
    ASSUME NEW p \in Stones, NEW v \in Points, NEW c \in Colors
    PROVE  captureOn(p, v, c) = Put(p, Captured(p, v, c), Empty)
<1> DEFINE ns == neighbors[v]
           o == Opponent(c)
           step(t, n) == IF t[n] = o /\ liberties(t, n) = 0 THEN Put(t, groupOf(t, n), Empty) ELSE t
           Loop(f) == f = [k \in 0..Len(ns) |-> IF k = 0 THEN p ELSE step(f[k - 1], ns[k])]
           goal == [k \in 0..Len(ns) |-> Put(p, Taken(p, o, ns, k), Empty)]
           f == CHOOSE f : Loop(f)
<1>1. ns \in Seq(Points) /\ o \in Colors
  BY BesideIsAdj, Kinds
<1> HIDE DEF ns, o
<1>2. goal[0] = p /\ \A k \in 1..Len(ns) : goal[k] = step(goal[k - 1], ns[k])
  <2>1. Put(p, {}, Empty) = p
    BY DEF Put, Stones
  <2>2. goal[0] = p
    <3>1. Taken(p, o, ns, 0) = {}
      BY DEF Taken
    <3>2. 0 \in 0..Len(ns)
      BY <1>1
    <3>3. goal[0] = Put(p, Taken(p, o, ns, 0), Empty)
      BY <3>2
    <3> HIDE DEF goal
    <3> QED
      BY <2>1, <3>1, <3>3
  <2>3. ASSUME NEW k \in 1..Len(ns) PROVE goal[k] = step(goal[k - 1], ns[k])
    <3>1. goal[k - 1] = Put(p, Taken(p, o, ns, k - 1), Empty) /\ goal[k] = Put(p, Taken(p, o, ns, k), Empty)
      OBVIOUS
    <3> HIDE DEF goal
    <3> QED
      BY <1>1, <3>1, CaptureStep
  <2> QED
    BY <2>2, <2>3
<1>3. Len(ns) \in Nat /\ goal = [k \in 0..Len(ns) |-> goal[k]]
  BY <1>1
<1> HIDE DEF goal, step
<1>4. Loop(goal)
  <2>1. \A k \in 0..Len(ns) : goal[k] = IF k = 0 THEN p ELSE step(goal[k - 1], ns[k])
    BY <1>2, <1>3
  <2>2. [k \in 0..Len(ns) |-> goal[k]] = [k \in 0..Len(ns) |-> IF k = 0 THEN p ELSE step(goal[k - 1], ns[k])]
    BY <2>1, Zenon
  <2> QED
    BY <1>3, <2>2
<1>5. Loop(f)
  BY <1>4
<1> HIDE DEF f
<1>6. f[0] = p /\ \A k \in 1..Len(ns) : f[k] = step(f[k - 1], ns[k])
  <2>1. f = [k \in 0..Len(ns) |-> IF k = 0 THEN p ELSE step(f[k - 1], ns[k])]
    BY <1>5
  <2>2. \A k \in 0..Len(ns) : f[k] = IF k = 0 THEN p ELSE step(f[k - 1], ns[k])
    BY <2>1
  <2> QED
    BY <1>3, <2>2
<1> HIDE DEF Loop
<1>7. f[Len(ns)] = goal[Len(ns)]
  <2>1. GoOnAlike(f, goal, Len(ns))
    BY <1>2, <1>6 DEF GoOnAlike
  <2>2. f[0] = goal[0] /\ Len(ns) \in 0..Len(ns)
    BY <1>2, <1>3, <1>6
  <2>3. \A k \in 0..Len(ns) : f[k] = goal[k]
    BY <1>3, <2>1, <2>2, Alike
  <2> QED
    BY <2>2, <2>3
<1>8. Taken(p, o, ns, Len(ns)) = Captured(p, v, c)
  <2>1. \A n : n \in Adj[v] <=> \E k \in 1..Len(ns) : n = ns[k]
    <3>1. Adj[v] = {ns[k] : k \in DOMAIN ns} /\ DOMAIN ns = 1..Len(ns)
      BY <1>1, BesideIsAdj DEF Beside, ns
    <3> QED
      BY <3>1
  <2> QED
    BY <2>1 DEF Taken, Captured, Dead, o
<1>9. goal[Len(ns)] = Put(p, Captured(p, v, c), Empty)
  BY <1>3, <1>8 DEF goal
<1> QED
  BY <1>7, <1>9 DEF captureOn, f, Loop, step, ns, o
\* The stones after a move at v, before the mover's own group is looked at.
Placed(p, v, c) == Put(p, {v}, c)
LeftBy(p, v, c) == Put(Placed(p, v, c), Captured(Placed(p, v, c), v, c), Empty)

LEMMA MoveMade ==
    ASSUME NEW p \in Stones, NEW v \in Points, NEW c \in Colors
    PROVE  LET put == Placed(p, v, c)
               taken == Captured(put, v, c)
               left == LeftBy(p, v, c)
           IN  /\ put \in Stones /\ put[v] = c
               /\ taken \in SUBSET Points /\ IsFiniteSet(taken) /\ Cardinality(taken) \in Nat
               /\ \A x \in taken : put[x] = Opponent(c)
               /\ left \in Stones /\ left[v] = c /\ \A x \in taken : left[x] = Empty
               /\ \A t : taken = {t} => t \in Adj[v]
<1> DEFINE put == Placed(p, v, c)
           taken == Captured(put, v, c)
           left == LeftBy(p, v, c)
<1>1. put \in Stones /\ put[v] = c
  <2>1. {v} \in SUBSET Points /\ c \in Colors \cup {Empty}
    OBVIOUS
  <2> QED
    BY <2>1, PutStones DEF Placed
<1> HIDE DEF put
<1>2. \A w \in Adj[v] : /\ Group(put, w) \in SUBSET Points /\ w \in Group(put, w)
                        /\ \A x \in Group(put, w) : put[x] = put[w]
  BY Groups, Symmetric
<1>3. taken \in SUBSET Points /\ \A x \in taken : put[x] = Opponent(c)
  BY <1>2 DEF Captured
<1>4. \A t : taken = {t} => t \in Adj[v]
  <2> SUFFICES ASSUME NEW t, taken = {t} PROVE t \in Adj[v]
    OBVIOUS
  <2>1. PICK w \in Adj[v] : t \in Group(put, w) /\ Group(put, w) \subseteq taken
    BY DEF Captured
  <2>2. w = t
    BY <1>2, <2>1
  <2> QED
    BY <2>1, <2>2
<1> HIDE DEF taken
<1>5. IsFiniteSet(taken) /\ Cardinality(taken) \in Nat
  <2>1. IsFiniteSet(taken)
    BY <1>3, PointsFinite, FS_Subset
  <2> QED
    BY <2>1, FS_CardinalityType
<1>6. left = Put(put, taken, Empty)
  BY DEF LeftBy, put, taken
<1>7. left \in Stones /\ \A w \in Points : left[w] = IF w \in taken THEN Empty ELSE put[w]
  <2> HIDE DEF left
  <2>1. Put(put, taken, Empty) \in Stones
    BY <1>1, <1>3, PutStones
  <2>2. \A w \in Points : Put(put, taken, Empty)[w] = IF w \in taken THEN Empty ELSE put[w]
    BY <1>3, PutStones
  <2> QED
    BY <1>6, <2>1, <2>2
<1> HIDE DEF left
<1>8. v \notin taken
  BY <1>1, <1>3, Kinds
<1>9. left[v] = c /\ \A x \in taken : left[x] = Empty
  BY <1>1, <1>3, <1>7, <1>8
<1> QED
  BY <1>1, <1>3, <1>4, <1>5, <1>7, <1>9 DEF put, taken, left

\* A move is one the rules allow when it leaves its own group a liberty.
LEMMA LegalMove ==
    ASSUME NEW s, s.stones \in Stones, NEW v \in Points, NEW c \in Colors
    PROVE  Legal(s, v, c, FALSE) <=> /\ s.stones[v] = Empty /\ v # s.ko
                                     /\ Liberties(LeftBy(s.stones, v, c), v) # {}
<1> DEFINE left == LeftBy(s.stones, v, c)
           own == Group(left, v)
           libs == Around(left, own)
           after == After(s, v, c).stones
<1>1. left \in Stones /\ left[v] = c /\ v \in own /\ own \in SUBSET Points /\ c # Empty
  <2>1. PICK p \in Stones : p = s.stones
    OBVIOUS
  <2>2. LeftBy(p, v, c) \in Stones /\ LeftBy(p, v, c)[v] = c
    BY MoveMade
  <2>3. left \in Stones /\ left[v] = c
    BY <2>1, <2>2
  <2> HIDE DEF left
  <2> QED
    BY <2>3, Groups, Kinds
<1>2. after = IF libs = {} THEN Put(left, own, Empty) ELSE left
  BY DEF After, Position, LeftBy, Placed
<1>3. libs = Liberties(left, v)
  BY DEF Liberties
<1> HIDE DEF left, own, libs
<1>4. Put(left, own, Empty)[v] = Empty
  BY <1>1, PutStones
<1>5. after[v] = c <=> libs # {}
  BY <1>1, <1>2, <1>4
<1> HIDE DEF after
<1>6. Legal(s, v, c, FALSE) <=> s.stones[v] = Empty /\ v # s.ko /\ after[v] = c
  BY DEF Legal, after
<1> QED
  BY <1>3, <1>5, <1>6 DEF left

\* isLegal() allows the moves the rules allow.
LEMMA LegalMoves == grid \in Stones => LegalByTheRules
<1> SUFFICES ASSUME grid \in Stones, NEW v \in Points, NEW c \in Colors
             PROVE  isLegal(v, c) <=> Legal(Shown, v, c, FALSE)
  BY DEF LegalByTheRules
<1>0. Shown.stones = grid /\ Shown.ko = koVertex
  BY DEF Shown, Position
<1> DEFINE put == Placed(grid, v, c)
           left == LeftBy(grid, v, c)
<1>1. put \in Stones /\ left \in Stones /\ left[v] = c /\ c # Empty
  BY MoveMade, Kinds
<1> HIDE DEF put, left
<1>2. captureOn(put, v, c) = left
  BY <1>1, CapturesInTurn DEF LeftBy, put, left
<1>3. isLegal(v, c) <=> grid[v] = Empty /\ v # koVertex /\ liberties(left, v) > 0
  BY <1>2 DEF isLegal, put, Placed
<1>4. liberties(left, v) > 0 <=> Liberties(left, v) # {}
  BY <1>1, LibertyCount
<1>5. Legal(Shown, v, c, FALSE) <=> grid[v] = Empty /\ v # koVertex /\ Liberties(left, v) # {}
  BY <1>0, LegalMove DEF left
<1> QED
  BY <1>3, <1>4, <1>5

\* forcePlay() of a move the rules allow does what the rules say.
LEMMA MovePlayed ==
    ASSUME NEW v \in Points, NEW c \in Colors, grid \in Stones, Legal(Shown, v, c, FALSE), forcePlay(v, c)
    PROVE  /\ Shown' = After(Shown, v, c)
           /\ Recorded([vertex |-> v, color |-> c, removed |-> Captured(Placed(grid, v, c), v, c)])
           /\ grid' \in Stones /\ koVertex' \in Points \cup {NoKo}
<1> DEFINE put == Placed(grid, v, c)
           removed == Captured(put, v, c)
           left == LeftBy(grid, v, c)
           own == Group(left, v)
           libs == Liberties(left, v)
<1>1. /\ Shown.stones = grid /\ Shown.ko = koVertex /\ Shown.prisoners = captures
      /\ Shown' = Position(grid', koVertex', captures')
  BY DEF Shown, Position
<1>2. /\ put \in Stones /\ left \in Stones /\ left[v] = c /\ c # Empty
      /\ removed \in SUBSET Points /\ Cardinality(removed) \in Nat /\ IsFiniteSet(removed)
      /\ \A x \in removed : left[x] = Empty
      /\ \A t : removed = {t} => t \in Adj[v]
  <2>1. c # Empty
    BY Kinds
  <2> HIDE DEF Stones
  <2> QED
    BY <2>1, MoveMade
<1>3. capturedNeighbors(put, v, c) = removed
  BY <1>2, CapturedIsCaptured
<1>4. /\ grid' = left
      /\ captures' = [captures EXCEPT ![c] = @ + Cardinality(removed)]
      /\ koVertex' = computeKo(left, v, removed)
      /\ Recorded([vertex |-> v, color |-> c, removed |-> removed])
  <2> HIDE DEF removed
  <2> QED
    BY <1>3 DEF forcePlay, LeftBy, Placed, removed
<1>5. libs # {}
  BY <1>1, LegalMove
<1>6. /\ Around(left, own) = libs
      /\ After(Shown, v, c) =
           IF libs = {}
           THEN Position(Put(left, own, Empty), NoKo,
                         [captures EXCEPT ![Opponent(c)] = @ + Cardinality(own)])
           ELSE Position(left,
                         IF Cardinality(removed) = 1 /\ own = {v} /\ libs = removed
                         THEN TheOne(removed) ELSE NoKo,
                         [captures EXCEPT ![c] = @ + Cardinality(removed)])
  BY <1>1 DEF After, Liberties, LeftBy, Placed
<1>7. own \in SUBSET Points /\ v \in own
  BY Groups
<1>8. groupOf(left, v) = own
  BY <1>2, FloodedGroup
<1>9. own = {v} => (liberties(left, v) = 1 <=> \E w : libs = {w})
  BY <1>2, LibertyCount
<1> HIDE DEF put, removed, left, own, libs
<1>10. Cardinality(own) = 1 <=> own = {v}
  <2>1. IsFiniteSet(own)
    BY <1>7, PointsFinite, FS_Subset
  <2>2. Cardinality(own) = 1 <=> \E x : own = {x}
    BY <2>1, FS_Singleton
  <2> QED
    BY <1>7, <2>2
<1>11. Cardinality(removed) = 1 /\ own = {v} => (liberties(left, v) = 1 <=> libs = removed)
  <2> SUFFICES ASSUME Cardinality(removed) = 1, own = {v}
               PROVE  liberties(left, v) = 1 <=> libs = removed
    OBVIOUS
  <2>1. PICK t : removed = {t}
    BY <1>2, FS_Singleton
  <2>2. t \in Points /\ t \in Adj[v] /\ left[t] = Empty /\ v \in Adj[t]
    BY <1>2, <2>1, Symmetric
  <2>3. t \in libs
    BY <1>6, <1>7, <2>2 DEF Around
  <2>4. (\E w : libs = {w}) <=> libs = removed
    BY <2>1, <2>3
  <2> QED
    BY <1>9, <2>4
<1>12. computeKo(left, v, removed)
         = IF Cardinality(removed) = 1 /\ own = {v} /\ libs = removed
           THEN TheOne(removed) ELSE NoKo
  BY <1>8, <1>10, <1>11 DEF computeKo
<1>13. Shown' = After(Shown, v, c)
  BY <1>1, <1>4, <1>5, <1>6, <1>12
<1>14. koVertex' \in Points \cup {NoKo}
  <2>1. CASE Cardinality(removed) = 1 /\ own = {v} /\ libs = removed
    <3>1. PICK t : removed = {t}
      BY <1>2, <2>1, FS_Singleton
    <3>2. TheOne(removed) \in removed
      BY <3>1 DEF TheOne
    <3> QED
      BY <1>2, <1>4, <1>12, <2>1, <3>2
  <2>2. CASE ~(Cardinality(removed) = 1 /\ own = {v} /\ libs = removed)
    BY <1>4, <1>12, <2>2
  <2> QED
    BY <2>1, <2>2
<1> QED
  BY <1>2, <1>4, <1>13, <1>14 DEF removed, put

----------------------------------------------------------------------------
(* Loops *)

LoopOf(f, n, s, step) == f = [k \in 0..n |-> IF k = 0 THEN s ELSE step[<<k, f[k - 1]>>]]

\* A loop of n turns that goes from J[k - 1] to J[k] in turn k exists as a function.
LEMMA Looped ==
    ASSUME NEW n \in Nat, NEW s, NEW J, s \in J[0], NEW step,
           \A k \in 1..n : \A t \in J[k - 1] : step[<<k, t>>] \in J[k]
    PROVE  \E f : LoopOf(f, n, s, step) /\ \A k \in 0..n : f[k] \in J[k]
<1> USE DEF LoopOf
<1> DEFINE Loop(f, m) == LoopOf(f, m, s, step)
           Bad == {m \in 0..n : ~ \E f : Loop(f, m) /\ \A k \in 0..m : f[k] \in J[k]}
<1> SUFFICES ASSUME Bad # {} PROVE FALSE
  <2>1. n \in 0..n
    OBVIOUS
  <2> QED
    BY <2>1
<1>1. PICK m \in Bad : \A j \in Bad : <<j, m>> \notin OpToRel(<, Nat)
  <2>1. Bad \subseteq Nat
    OBVIOUS
  <2> HIDE DEF Bad
  <2> QED
    BY <2>1, NatLessThanWellFounded, WFMin
<1>2. m # 0
  <2> SUFFICES ASSUME m = 0 PROVE FALSE
    OBVIOUS
  <2> DEFINE f == [k \in 0..0 |-> s]
  <2>1. f = [k \in 0..0 |-> IF k = 0 THEN s ELSE step[<<k, f[k - 1]>>]]
    OBVIOUS
  <2>2. \A k \in 0..0 : f[k] \in J[k]
    OBVIOUS
  <2> QED
    BY <2>1, <2>2
<1>3. m \in 1..n /\ m - 1 \in 0..n
  BY <1>2
<1>4. PICK f : Loop(f, m - 1) /\ \A k \in 0..m - 1 : f[k] \in J[k]
  <2>1. <<m - 1, m>> \in OpToRel(<, Nat)
    BY <1>3 DEF OpToRel
  <2> QED
    BY <1>1, <1>3, <2>1
<1> HIDE DEF Bad
<1> DEFINE h == [k \in 0..m |-> IF k = m THEN step[<<m, f[m - 1]>>] ELSE f[k]]
<1>5. \A k \in 0..m : h[k] = (IF k = m THEN step[<<m, f[m - 1]>>] ELSE f[k])
  OBVIOUS
<1>6. \A k \in 0..m - 1 : f[k] = IF k = 0 THEN s ELSE step[<<k, f[k - 1]>>]
  BY <1>4
<1>7. h = [k \in 0..m |-> h[k]]
  OBVIOUS
<1> HIDE DEF h
<1>8. \A k \in 0..m : h[k] = IF k = 0 THEN s ELSE step[<<k, h[k - 1]>>]
  <2> TAKE k \in 0..m
  <2>1. CASE k = m
    <3>1. m - 1 \in 0..m /\ m - 1 # m
      BY <1>3
    <3> QED
      BY <1>3, <1>5, <2>1, <3>1
  <2>2. CASE k # m /\ k # 0
    <3>1. k \in 0..m - 1 /\ k - 1 \in 0..m /\ k - 1 # m
      BY <1>3, <2>2
    <3> QED
      BY <1>5, <1>6, <2>2, <3>1
  <2>3. CASE k # m /\ k = 0
    <3>1. k \in 0..m - 1
      BY <1>3, <2>3
    <3> QED
      BY <1>5, <1>6, <2>3, <3>1
  <2> QED
    BY <2>1, <2>2, <2>3
<1>9. Loop(h, m)
  <2>1. [k \in 0..m |-> h[k]] = [k \in 0..m |-> IF k = 0 THEN s ELSE step[<<k, h[k - 1]>>]]
    BY <1>8, Zenon
  <2> QED
    BY <1>7, <2>1
<1>10. \A k \in 0..m : h[k] \in J[k]
  <2> TAKE k \in 0..m
  <2>1. CASE k = m
    <3>1. m - 1 \in 0..m - 1
      BY <1>3
    <3>2. f[m - 1] \in J[m - 1]
      BY <1>4, <3>1
    <3> QED
      BY <1>3, <1>5, <2>1, <3>2
  <2>2. CASE k # m
    <3>1. k \in 0..m - 1
      BY <1>3, <2>2
    <3> QED
      BY <1>4, <1>5, <2>2, <3>1
  <2> QED
    BY <2>1, <2>2
<1> QED
  BY <1>1, <1>9, <1>10 DEF Bad

GoesOn(f, J, n) == \A k \in 1..n : f[k - 1] \in J[k - 1] => f[k] \in J[k]

\* ... and where it ends.
LEMMA LoopEnds ==
    ASSUME NEW n \in Nat, NEW f, NEW J, f[0] \in J[0], GoesOn(f, J, n)
    PROVE  f[n] \in J[n]
<1> DEFINE Bad == {k \in 0..n : f[k] \notin J[k]}
<1> SUFFICES ASSUME Bad # {} PROVE FALSE
  <2>1. n \in 0..n
    OBVIOUS
  <2> QED
    BY <2>1
<1>1. PICK k \in Bad : \A j \in Bad : <<j, k>> \notin OpToRel(<, Nat)
  <2>1. Bad \subseteq Nat
    OBVIOUS
  <2> HIDE DEF Bad
  <2> QED
    BY <2>1, NatLessThanWellFounded, WFMin
<1>2. k \in 1..n /\ k - 1 \in 0..n /\ k - 1 < k /\ k - 1 \in Nat /\ k \in Nat
  OBVIOUS
<1>3. k - 1 \notin Bad
  <2>1. <<k - 1, k>> \in OpToRel(<, Nat)
    BY <1>2 DEF OpToRel
  <2> QED
    BY <1>1, <2>1
<1> QED
  BY <1>2, <1>3 DEF GoesOn

----------------------------------------------------------------------------
(* Sequences and circular lists *)

Distinct(s) == \A i, j \in 1..Len(s) : s[i] = s[j] => i = j

\* A sequence without repetitions is as long as the set of its members is large.
LEMMA DistinctLength ==
    ASSUME NEW S, NEW s \in Seq(S), Distinct(s)
    PROVE  /\ ToSet(s) \subseteq S /\ IsFiniteSet(ToSet(s)) /\ Cardinality(ToSet(s)) = Len(s)
           /\ \A w : w \in ToSet(s) <=> \E i \in 1..Len(s) : s[i] = w
<1>1. Len(s) \in Nat /\ s \in [1..Len(s) -> S] /\ DOMAIN s = 1..Len(s)
  BY LenProperties
<1>2. ToSet(s) = {s[i] : i \in 1..Len(s)}
  BY <1>1 DEF ToSet
<1>3. s \in Bijection(1..Len(s), ToSet(s))
  <2>1. s \in [1..Len(s) -> ToSet(s)]
    BY <1>1, <1>2
  <2>2. s \in Injection(1..Len(s), ToSet(s))
    BY <2>1 DEF Injection, IsInjective, Distinct
  <2>3. s \in Surjection(1..Len(s), ToSet(s))
    BY <2>1, <1>2 DEF Surjection
  <2> QED
    BY <2>2, <2>3 DEF Bijection
<1>4. IsFiniteSet(1..Len(s)) /\ Cardinality(1..Len(s)) = Len(s)
  BY <1>1, FS_Interval
<1>5. ExistsBijection(1..Len(s), ToSet(s))
  BY <1>3 DEF ExistsBijection
<1>6. IsFiniteSet(ToSet(s)) /\ Cardinality(ToSet(s)) = Len(s)
  BY <1>4, <1>5, FS_Bijection
<1> QED
  BY <1>1, <1>2, <1>6

LEMMA DistinctParts ==
    ASSUME NEW S, NEW r \in Seq(S), NEW t \in Seq(S), Distinct(r), Distinct(t), \A w : ~(Has(r, w) /\ Has(t, w))
    PROVE  Distinct(r \o t)
<1>1. /\ r \o t \in Seq(S) /\ Len(r \o t) = Len(r) + Len(t)
      /\ \A i \in 1..Len(r) + Len(t) : (r \o t)[i] = IF i <= Len(r) THEN r[i] ELSE t[i - Len(r)]
      /\ Len(r) \in Nat /\ Len(t) \in Nat
  BY ConcatProperties, LenProperties
<1>2. \A i \in 1..Len(r), j \in 1..Len(t) : r[i] # t[j]
  <2>1. DOMAIN r = 1..Len(r) /\ DOMAIN t = 1..Len(t)
    BY LenProperties
  <2> QED
    BY <2>1 DEF Has
<1> DEFINE rt == r \o t
<1> HIDE DEF rt
<1> DEFINE m == Len(r)
           n == Len(t)
<1> HIDE DEF m, n
<1>3. ASSUME NEW i \in 1..m + n, NEW j \in 1..m + n, rt[i] = rt[j] PROVE i = j
  <2>1. m \in Nat /\ n \in Nat /\ i \in Nat /\ j \in Nat
    BY <1>1 DEF m, n
  <2>2. /\ rt[i] = IF i <= m THEN r[i] ELSE t[i - m]
        /\ rt[j] = IF j <= m THEN r[j] ELSE t[j - m]
    BY <1>1 DEF rt, m, n
  <2>3. /\ i <= m => i \in 1..m
        /\ j <= m => j \in 1..m
        /\ ~(i <= m) => i - m \in 1..n
        /\ ~(j <= m) => j - m \in 1..n
        /\ i - m = j - m => i = j
    BY <2>1
  <2>4. /\ \A k, l \in 1..m : r[k] = r[l] => k = l
        /\ \A k, l \in 1..n : t[k] = t[l] => k = l
        /\ \A k \in 1..m, l \in 1..n : r[k] # t[l]
    BY <1>2 DEF Distinct, m, n
  <2>5. CASE i <= m /\ j <= m
    BY <1>3, <2>2, <2>3, <2>4, <2>5
  <2>6. CASE ~(i <= m) /\ ~(j <= m)
    <3>1. t[i - m] = t[j - m] /\ i - m \in 1..n /\ j - m \in 1..n
      BY <1>3, <2>2, <2>3, <2>6
    <3>2. i - m = j - m
      BY <2>4, <3>1
    <3> QED
      BY <2>3, <3>2
  <2>7. CASE i <= m /\ ~(j <= m)
    BY <1>3, <2>2, <2>3, <2>4, <2>7
  <2>8. CASE ~(i <= m) /\ j <= m
    <3>1. r[j] = t[i - m] /\ j \in 1..m /\ i - m \in 1..n
      BY <1>3, <2>2, <2>3, <2>8
    <3> QED
      BY <2>4, <3>1
  <2> QED
    BY <2>5, <2>6, <2>7, <2>8
<1>4. Len(rt) = m + n
  BY <1>1 DEF rt, m, n
<1> QED
  BY <1>3, <1>4 DEF Distinct, rt

LEMMA HeadTail ==
    ASSUME NEW S, NEW s \in Seq(S), s # <<>>
    PROVE  /\ Head(s) \in S /\ Tail(s) \in Seq(S) /\ Len(Tail(s)) = Len(s) - 1 /\ Len(s) \in Nat \ {0}
           /\ Head(s) = s[1] /\ \A i \in 1..Len(Tail(s)) : Tail(s)[i] = s[i + 1]
           /\ \A w : Has(s, w) <=> w = Head(s) \/ Has(Tail(s), w)
<1>1. /\ Head(s) \in S /\ Tail(s) \in Seq(S) /\ Len(Tail(s)) = Len(s) - 1 /\ Len(s) \in Nat \ {0}
      /\ Head(s) = s[1] /\ \A i \in 1..Len(Tail(s)) : Tail(s)[i] = s[i + 1]
  OBVIOUS
<1>2. DOMAIN s = 1..Len(s) /\ DOMAIN Tail(s) = 1..Len(Tail(s))
  BY <1>1
<1> DEFINE t == Tail(s)
           hd == Head(s)
<1> HIDE DEF t, hd
<1>3. \A w : Has(s, w) <=> w = hd \/ Has(t, w)
  <2> TAKE w
  <2>1. Has(s, w) <=> \E i \in 1..Len(s) : s[i] = w
    BY <1>2 DEF Has
  <2>2. Has(t, w) <=> \E i \in 1..Len(t) : t[i] = w
    BY <1>2 DEF Has, t
  <2>3. ASSUME NEW i \in 1..Len(s), s[i] = w, w # hd PROVE \E j \in 1..Len(t) : t[j] = w
    <3>1. i # 1 /\ i - 1 \in 1..Len(t)
      BY <1>1, <2>3 DEF t, hd
    <3>2. t[i - 1] = s[(i - 1) + 1]
      BY <1>1, <3>1 DEF t
    <3> QED
      BY <2>3, <3>1, <3>2
  <2>4. ASSUME NEW j \in 1..Len(t), t[j] = w PROVE \E i \in 1..Len(s) : s[i] = w
    <3>1. j + 1 \in 1..Len(s) /\ t[j] = s[j + 1]
      BY <1>1 DEF t
    <3> QED
      BY <2>4, <3>1
  <2>5. hd = s[1] /\ 1 \in 1..Len(s)
    BY <1>1 DEF hd
  <2> QED
    BY <2>1, <2>2, <2>3, <2>4, <2>5
<1> QED
  BY <1>1, <1>3 DEF t, hd

\* The links of next close one circle through the members of S.
Cyclic(next, S) ==
    /\ \A x \in S : next[x] \in S
    /\ \A T \in SUBSET S : T # {} /\ (\A x \in T : next[x] \in T) => T = S

\* A list followed from v on.
Path(p, next, S, v) ==
    /\ p \in Seq(S) /\ Len(p) \in Nat \ {0} /\ p[1] = v /\ Distinct(p)
    /\ \A i \in 1..Len(p) - 1 : p[i + 1] = next[p[i]]

\* ... until it is back.
Circle(p, next, S, v) ==
    /\ Path(p, next, S, v) /\ next[p[Len(p)]] = v
    /\ ToSet(p) = S /\ Cardinality(S) = Len(p)

LEMMA PathGrows ==
    ASSUME NEW next, NEW S, Cyclic(next, S), NEW v \in S, NEW p, Path(p, next, S, v), next[p[Len(p)]] # v
    PROVE  Path(Append(p, next[p[Len(p)]]), next, S, v)
<1> DEFINE n == Len(p)
           w == next[p[n]]
           q == Append(p, w)
<1>1. p \in Seq(S) /\ n \in Nat \ {0} /\ p[n] \in S /\ w \in S
  <2>1. p \in Seq(S) /\ n \in Nat \ {0} /\ n \in 1..n
    BY DEF Path
  <2>2. p[n] \in S
    BY <2>1, ElementOfSeq
  <2> QED
    BY <2>1, <2>2 DEF Cyclic
<1>2. q \in Seq(S) /\ Len(q) = n + 1 /\ q[n + 1] = w /\ \A i \in 1..n : q[i] = p[i]
  BY <1>1
<1>3. \A i \in 1..n : p[i] \in S /\ p[i] # w
  <2> SUFFICES ASSUME NEW i \in 1..n, p[i] = w PROVE FALSE
    BY <1>1, ElementOfSeq
  <2>1. p[1] = v /\ i # 1 /\ 1 \in 1..n
    BY <1>1 DEF Path
  <2> DEFINE T == {p[j] : j \in i..n}
  <2>2. \A j \in i..n : j \in 1..n /\ p[j] \in S
    BY <1>1, ElementOfSeq
  <2>3. \A j \in i..n : next[p[j]] \in T
    <3> TAKE j \in i..n
    <3>1. CASE j = n
      BY <1>1, <2>1, <3>1
    <3>2. CASE j # n
      <4>1. j \in 1..n - 1 /\ j + 1 \in i..n
        BY <1>1, <3>2
      <4> QED
        BY <4>1 DEF Path
    <3> QED
      BY <3>1, <3>2
  <2>4. T \in SUBSET S /\ T # {} /\ \A x \in T : next[x] \in T
    BY <1>1, <2>2, <2>3
  <2>5. T = S
    <3> HIDE DEF T
    <3> QED
      BY <2>4 DEF Cyclic
  <2>6. PICK j \in i..n : p[j] = p[1]
    BY <2>1, <2>5
  <2> QED
    BY <2>1, <2>2, <2>6 DEF Path, Distinct
<1> HIDE DEF w, q, n
<1>4. Distinct(q)
  <2> SUFFICES ASSUME NEW i \in 1..n + 1, NEW j \in 1..n + 1, q[i] = q[j] PROVE i = j
    BY <1>2 DEF Distinct
  <2>1. CASE i \in 1..n /\ j \in 1..n
    BY <1>1, <1>2, <2>1 DEF Path, Distinct, n
  <2>2. CASE i = n + 1 \/ j = n + 1
    <3>1. (i \in 1..n \/ i = n + 1) /\ (j \in 1..n \/ j = n + 1)
      BY <1>1
    <3> QED
      BY <1>2, <1>3, <2>2, <3>1
  <2> QED
    BY <1>1, <2>1, <2>2
<1>5. \A i \in 1..n : q[i + 1] = next[q[i]]
  <2> TAKE i \in 1..n
  <2>1. CASE i = n
    BY <1>1, <1>2, <2>1 DEF w
  <2>2. CASE i # n
    <3>1. i \in 1..n - 1 /\ i + 1 \in 1..n
      BY <1>1, <2>2
    <3> QED
      BY <1>2, <3>1 DEF Path, n
  <2> QED
    BY <2>1, <2>2
<1>6. q[1] = v /\ Len(q) \in Nat \ {0} /\ Len(q) - 1 = n
  BY <1>1, <1>2 DEF Path
<1> QED
  BY <1>2, <1>4, <1>5, <1>6 DEF Path, q, w, n

LEMMA LeastOf ==
    ASSUME NEW A \in SUBSET Nat, A # {}
    PROVE  \E k \in A : \A j \in A : k <= j
<1>1. PICK k \in A : \A j \in A : <<j, k>> \notin OpToRel(<, Nat)
  BY NatLessThanWellFounded, WFMin
<1>2. ASSUME NEW j \in A, j < k PROVE FALSE
  <2>1. <<j, k>> \in OpToRel(<, Nat)
    BY <1>2 DEF OpToRel
  <2> QED
    BY <1>1, <2>1
<1> QED
  BY <1>2

LEMMA GreatestOf ==
    ASSUME NEW n \in Nat, NEW A \in SUBSET (1..n), A # {}
    PROVE  \E k \in A : \A j \in A : j <= k
<1> DEFINE M == {n - j : j \in A}
<1>1. M \in SUBSET Nat /\ M # {}
  <2>1. \A j \in A : j \in 1..n
    OBVIOUS
  <2>2. \A j \in A : n - j \in Nat
    BY <2>1
  <2> QED
    BY <2>2
<1> HIDE DEF M
<1>2. PICK m \in M : \A j \in M : m <= j
  BY <1>1, LeastOf
<1>3. PICK k \in A : m = n - k
  BY <1>2 DEF M
<1>4. \A j \in A : n - k <= n - j
  BY <1>2, <1>3 DEF M
<1>5. \A j \in A : j \in 1..n
  OBVIOUS
<1> QED
  BY <1>3, <1>4, <1>5

LEMMA PathLength ==
    ASSUME NEW next, NEW S \in SUBSET Points, NEW v, NEW p, Path(p, next, S, v)
    PROVE  Len(p) <= XSize * YSize
<1>1. p \in Seq(S) /\ Distinct(p)
  BY DEF Path
<1>2. ToSet(p) \in SUBSET Points /\ Cardinality(ToSet(p)) = Len(p)
  BY <1>1, DistinctLength
<1>3. IsFiniteSet(Points) /\ Cardinality(Points) = XSize * YSize
  <2>1. XSize * YSize \in Nat /\ XSize * YSize > 0
    BY BoardAssumption
  <2> QED
    BY <2>1, FS_Interval DEF Points
<1> QED
  BY <1>2, <1>3, FS_Subset

LEMMA PathCloses ==
    ASSUME NEW next, NEW S, Cyclic(next, S), NEW v \in S, NEW p, Path(p, next, S, v), next[p[Len(p)]] = v
    PROVE  Circle(p, next, S, v)
<1>1. p \in Seq(S) /\ Distinct(p) /\ Len(p) \in Nat \ {0} /\ p[1] = v
  BY DEF Path
<1>2. /\ ToSet(p) \subseteq S /\ Cardinality(ToSet(p)) = Len(p)
      /\ \A w : w \in ToSet(p) <=> \E i \in 1..Len(p) : p[i] = w
  BY <1>1, DistinctLength
<1>3. \A x \in ToSet(p) : next[x] \in ToSet(p)
  <2> SUFFICES ASSUME NEW i \in 1..Len(p) PROVE next[p[i]] \in ToSet(p)
    BY <1>2
  <2>1. CASE i = Len(p)
    BY <1>1, <1>2, <2>1
  <2>2. CASE i # Len(p)
    <3>1. i \in 1..Len(p) - 1 /\ i + 1 \in 1..Len(p)
      BY <1>1, <2>2
    <3> QED
      BY <1>2, <3>1 DEF Path
  <2> QED
    BY <2>1, <2>2
<1>4. ToSet(p) # {}
  <2>1. 1 \in 1..Len(p)
    BY <1>1
  <2> QED
    BY <1>2, <2>1
<1>5. ToSet(p) = S
  BY <1>2, <1>3, <1>4 DEF Cyclic
<1> QED
  BY <1>2, <1>5 DEF Circle

\* Two lists become one when the successors of a stone of each are swapped.
LEMMA CyclesJoin ==
    ASSUME NEW next, NEW A, NEW B, Cyclic(next, A), Cyclic(next, B), A \cap B = {},
           NEW a \in A, NEW z \in B, NEW new,
           \A x \in A \cup B : new[x] = IF x = a THEN next[z] ELSE IF x = z THEN next[a] ELSE next[x]
    PROVE  Cyclic(new, A \cup B)
<1>1. \A x \in A : next[x] \in A
  BY DEF Cyclic
<1>2. \A x \in B : next[x] \in B
  BY DEF Cyclic
<1>3. /\ new[a] = next[z] /\ new[z] = next[a] /\ a # z
      /\ \A x \in A : x # a => new[x] = next[x]
      /\ \A x \in B : x # z => new[x] = next[x]
  OBVIOUS
<1>4. \A x \in A \cup B : new[x] \in A \cup B
  BY <1>1, <1>2, <1>3
<1>5. ASSUME NEW T \in SUBSET (A \cup B), T # {}, \A x \in T : new[x] \in T PROVE T = A \cup B
  <2>1. T \cap A # {} => a \in T
    <3> SUFFICES ASSUME T \cap A # {}, a \notin T PROVE FALSE
      OBVIOUS
    <3>1. T \cap A \in SUBSET A /\ \A x \in T \cap A : next[x] \in T \cap A
      BY <1>1, <1>3, <1>5
    <3>2. T \cap A = A
      BY <3>1 DEF Cyclic
    <3> QED
      BY <3>2
  <2>2. T \cap B # {} => z \in T
    <3> SUFFICES ASSUME T \cap B # {}, z \notin T PROVE FALSE
      OBVIOUS
    <3>1. T \cap B \in SUBSET B /\ \A x \in T \cap B : next[x] \in T \cap B
      BY <1>2, <1>3, <1>5
    <3>2. T \cap B = B
      BY <3>1 DEF Cyclic
    <3> QED
      BY <3>2
  <2>3. a \in T /\ z \in T
    <3>1. a \in T => T \cap B # {}
      BY <1>2, <1>3, <1>5
    <3>2. z \in T => T \cap A # {}
      BY <1>1, <1>3, <1>5
    <3>3. T \cap A # {} \/ T \cap B # {}
      BY <1>5
    <3> QED
      BY <2>1, <2>2, <3>1, <3>2, <3>3
  <2>4. \A x \in T \cap A : next[x] \in T \cap A
    <3> TAKE x \in T \cap A
    <3>1. CASE x = a
      BY <1>1, <1>3, <1>5, <2>3, <3>1
    <3>2. CASE x # a
      BY <1>1, <1>3, <1>5, <3>2
    <3> QED
      BY <3>1, <3>2
  <2>5. \A x \in T \cap B : next[x] \in T \cap B
    <3> TAKE x \in T \cap B
    <3>1. CASE x = z
      BY <1>2, <1>3, <1>5, <2>3, <3>1
    <3>2. CASE x # z
      BY <1>2, <1>3, <1>5, <3>2
    <3> QED
      BY <3>1, <3>2
  <2>6. T \cap A = A /\ T \cap B = B
    <3>1. T \cap A \in SUBSET A /\ T \cap A # {} /\ T \cap B \in SUBSET B /\ T \cap B # {}
      BY <2>3
    <3> QED
      BY <2>4, <2>5, <3>1 DEF Cyclic
  <2> QED
    BY <2>6
<1> QED
  BY <1>4, <1>5 DEF Cyclic

\* Only the last stone of a list leads back to the first.
LEMMA OnlyLastLeadsBack ==
    ASSUME NEW p, NEW next, NEW S, NEW v \in S, Circle(p, next, S, v), NEW x \in S, next[x] = v
    PROVE  x = p[Len(p)]
<1>1. p \in Seq(S) /\ Distinct(p) /\ Len(p) \in Nat \ {0} /\ p[1] = v /\ ToSet(p) = S
  BY DEF Circle, Path
<1>2. PICK i \in 1..Len(p) : p[i] = x
  BY <1>1, DistinctLength
<1>3. CASE i = Len(p)
  BY <1>2, <1>3
<1>4. CASE i # Len(p)
  <2>1. i \in 1..Len(p) - 1 /\ i + 1 \in 1..Len(p) /\ 1 \in 1..Len(p) /\ i + 1 # 1
    BY <1>1, <1>4
  <2>2. p[i + 1] = p[1]
    BY <1>1, <1>2, <2>1 DEF Circle, Path
  <2> QED
    BY <1>1, <2>1, <2>2 DEF Distinct
<1> QED
  BY <1>3, <1>4

\* A list stays one when a stone leaves it.
LEMMA CycleCut ==
    ASSUME NEW next, NEW S, Cyclic(next, S), NEW v \in S, NEW a \in S, a # v, next[a] = v,
           \A x \in S : next[x] = v => x = a,
           NEW new, \A x \in S \ {v} : new[x] = IF x = a THEN next[v] ELSE next[x]
    PROVE  Cyclic(new, S \ {v})
<1>1. \A x \in S : next[x] \in S
  BY DEF Cyclic
<1>2. next[v] # v
  BY <1>1
<1>3. \A x \in S \ {v} : new[x] \in S \ {v}
  BY <1>1, <1>2
<1>4. ASSUME NEW T \in SUBSET (S \ {v}), T # {}, \A x \in T : new[x] \in T PROVE T = S \ {v}
  <2>1. a \in T
    <3> SUFFICES ASSUME a \notin T PROVE FALSE
      OBVIOUS
    <3>1. T \in SUBSET S /\ \A x \in T : next[x] \in T
      BY <1>4
    <3>2. T = S
      BY <1>4, <3>1 DEF Cyclic
    <3> QED
      BY <3>2
  <2>2. \A x \in T \cup {v} : next[x] \in T \cup {v}
    <3>1. new[a] = next[v]
      BY <2>1
    <3>2. \A x \in T : x # a => new[x] = next[x]
      OBVIOUS
    <3> QED
      BY <1>4, <2>1, <3>1, <3>2
  <2>3. T \cup {v} \in SUBSET S /\ T \cup {v} # {}
    OBVIOUS
  <2>4. T \cup {v} = S
    BY <2>2, <2>3 DEF Cyclic
  <2> QED
    BY <2>4
<1> QED
  BY <1>3, <1>4 DEF Cyclic

\* The stones of a sequence are a list when each leads to the one before it.
LEMMA SequenceCycle ==
    ASSUME NEW S, NEW s \in Seq(S), Len(s) # 0, Distinct(s), NEW next,
           \A k \in 1..Len(s) : next[s[k]] = s[IF k = 1 THEN Len(s) ELSE k - 1]
    PROVE  Cyclic(next, ToSet(s))
<1> DEFINE n == Len(s)
           U == ToSet(s)
<1>1. n \in Nat \ {0} /\ \A w : w \in U <=> \E i \in 1..n : s[i] = w
  BY DistinctLength
<1>2. \A k \in 1..n : next[s[k]] = s[IF k = 1 THEN n ELSE k - 1]
  OBVIOUS
<1> HIDE DEF n, U
<1>3. \A x \in U : next[x] \in U
  <2> SUFFICES ASSUME NEW k \in 1..n PROVE next[s[k]] \in U
    BY <1>1
  <2>1. (IF k = 1 THEN n ELSE k - 1) \in 1..n
    BY <1>1
  <2> QED
    BY <1>1, <1>2, <2>1
<1>4. ASSUME NEW T \in SUBSET U, T # {}, \A x \in T : next[x] \in T PROVE T = U
  <2> DEFINE A == {k \in 1..n : s[k] \in T}
             B == {k \in 1..n : s[k] \notin T}
  <2>1. A # {}
    BY <1>1, <1>4
  <2>2. PICK k \in A : \A j \in A : k <= j
    <3>1. A \in SUBSET Nat
      OBVIOUS
    <3> HIDE DEF A
    <3> QED
      BY <2>1, <3>1, LeastOf
  <2>3. k = 1
    <3> SUFFICES ASSUME k # 1 PROVE FALSE
      OBVIOUS
    <3>1. k \in 1..n /\ k - 1 \in 1..n /\ ~(k <= k - 1)
      BY <1>1, <2>2
    <3>2. s[k - 1] \in T
      BY <1>2, <1>4, <2>2, <3>1
    <3> QED
      BY <2>2, <3>1, <3>2
  <2>4. s[n] \in T
    <3>1. 1 \in 1..n /\ s[1] \in T
      BY <2>2, <2>3
    <3> QED
      BY <1>2, <1>4, <3>1
  <2>5. B = {}
    <3> SUFFICES ASSUME B # {} PROVE FALSE
      OBVIOUS
    <3>1. PICK j \in B : \A i \in B : i <= j
      <4>1. B \in SUBSET (1..n)
        OBVIOUS
      <4> HIDE DEF B
      <4> QED
        BY <1>1, <4>1, GreatestOf
    <3>2. j \in 1..n /\ j # n /\ s[j] \notin T
      BY <2>4, <3>1
    <3>3. j + 1 \in 1..n /\ j + 1 # 1 /\ (j + 1) - 1 = j /\ ~(j + 1 <= j)
      BY <1>1, <3>2
    <3>4. s[j + 1] \in T
      BY <3>1, <3>3
    <3>5. next[s[j + 1]] = s[j]
      BY <1>2, <3>3
    <3> QED
      BY <1>4, <3>2, <3>4, <3>5
  <2>6. \A i \in 1..n : s[i] \in T
    BY <2>5
  <2>7. \A w \in U : w \in T
    BY <1>1, <2>6
  <2> QED
    BY <2>7
<1> QED
  BY <1>3, <1>4 DEF Cyclic, U

LEMMA CyclicSame ==
    ASSUME NEW next, NEW S, Cyclic(next, S), NEW new, \A x \in S : new[x] = next[x]
    PROVE  Cyclic(new, S)
<1>1. \A x \in S : new[x] \in S
  BY DEF Cyclic
<1>2. ASSUME NEW T \in SUBSET S, T # {}, \A x \in T : new[x] \in T PROVE T = S
  <2>1. \A x \in T : next[x] \in T
    BY <1>2
  <2> QED
    BY <1>2, <2>1 DEF Cyclic
<1> QED
  BY <1>1, <1>2 DEF Cyclic

----------------------------------------------------------------------------
(* Counting *)

\* The sizes of sets of points.
LEMMA SetSizes ==
    ASSUME NEW A \in SUBSET Points, NEW B \in SUBSET Points
    PROVE  /\ IsFiniteSet(A) /\ Cardinality(A) \in Nat
           /\ Cardinality(A) = 0 <=> A = {}
           /\ Cardinality(A) = 1 <=> \E x : A = {x}
           /\ A \cap B = {} => Cardinality(A \cup B) = Cardinality(A) + Cardinality(B)
           /\ Cardinality(A \cup B) = Cardinality(A) + Cardinality(B \ A)
           /\ B \subseteq A => Cardinality(A \ B) = Cardinality(A) - Cardinality(B)
<1>1. IsFiniteSet(A) /\ IsFiniteSet(B)
  BY PointsFinite, FS_Subset
<1>2. /\ Cardinality(A) \in Nat /\ Cardinality(B) \in Nat
      /\ Cardinality(A) = 0 <=> A = {}
      /\ Cardinality(A) = 1 <=> \E x : A = {x}
  BY <1>1, FS_CardinalityType, FS_EmptySet, FS_Singleton
<1>3. \A C \in SUBSET Points : A \cap C = {} => Cardinality(A \cup C) = Cardinality(A) + Cardinality(C)
  <2> SUFFICES ASSUME NEW C \in SUBSET Points, A \cap C = {}
               PROVE  Cardinality(A \cup C) = Cardinality(A) + Cardinality(C)
    OBVIOUS
  <2>1. IsFiniteSet(C)
    BY PointsFinite, FS_Subset
  <2>2. Cardinality(A \cup C) = Cardinality(A) + Cardinality(C) - Cardinality(A \cap C)
    BY <1>1, <2>1, FS_Union
  <2>3. Cardinality(C) \in Nat /\ Cardinality(A \cap C) = 0
    BY <2>1, FS_CardinalityType, FS_EmptySet
  <2> QED
    BY <1>2, <2>2, <2>3
<1>4. Cardinality(A \cup B) = Cardinality(A) + Cardinality(B \ A)
  <2>1. B \ A \in SUBSET Points /\ A \cap (B \ A) = {} /\ A \cup (B \ A) = A \cup B
    OBVIOUS
  <2>2. Cardinality(A \cup (B \ A)) = Cardinality(A) + Cardinality(B \ A)
    BY <1>3, <2>1
  <2> QED
    BY <2>1, <2>2
<1>5. B \subseteq A => Cardinality(A \ B) = Cardinality(A) - Cardinality(B)
  <2> SUFFICES ASSUME B \subseteq A PROVE Cardinality(A \ B) = Cardinality(A) - Cardinality(B)
    OBVIOUS
  <2>1. A \cap B = B
    OBVIOUS
  <2> QED
    BY <1>1, <2>1, FS_Difference
<1> QED
  BY <1>1, <1>2, <1>3, <1>4, <1>5

LEMMA DisjointSets ==
    ASSUME NEW A \in SUBSET Points, NEW B \in SUBSET Points, A \cap B = {}
    PROVE  Cardinality(A \cup B) = Cardinality(A) + Cardinality(B)
BY SetSizes

\* Sets of pairs that stand for different points.
LEMMA PairsCount ==
    ASSUME NEW n \in Nat, NEW P \in SUBSET ((1..n) \X Points), NEW T \in SUBSET Points,
           \A x, y \in P : x[2] = y[2] => x = y,
           \A w : w \in T <=> \E x \in P : x[2] = w
    PROVE  Cardinality(P) = Cardinality(T)
<1> DEFINE f == [x \in P |-> x[2]]
<1>1. f \in [P -> T]
  OBVIOUS
<1>2. f \in Injection(P, T)
  BY <1>1 DEF Injection, IsInjective
<1>3. f \in Surjection(P, T)
  BY <1>1 DEF Surjection
<1>4. IsFiniteSet(P)
  <2>1. IsFiniteSet(1..n)
    BY FS_Interval
  <2>2. IsFiniteSet((1..n) \X Points)
    BY <2>1, PointsFinite, FS_Product
  <2> QED
    BY <2>2, FS_Subset
<1>5. ExistsBijection(P, T)
  BY <1>2, <1>3 DEF ExistsBijection, Bijection
<1> QED
  BY <1>4, <1>5, FS_Bijection

LEMMA UnionSize ==
    ASSUME NEW A \in SUBSET Points, NEW B \in SUBSET Points
    PROVE  /\ Cardinality(A \cup B) <= Cardinality(A) + Cardinality(B)
           /\ Cardinality(A) \in Nat /\ Cardinality(B) \in Nat /\ Cardinality(A \cup B) \in Nat
<1>1. IsFiniteSet(A) /\ IsFiniteSet(B) /\ IsFiniteSet(A \cap B) /\ IsFiniteSet(A \cup B)
  BY PointsFinite, FS_Subset
<1>2. Cardinality(A \cup B) = Cardinality(A) + Cardinality(B) - Cardinality(A \cap B)
  BY <1>1, FS_Union
<1>3. /\ Cardinality(A \cap B) \in Nat /\ Cardinality(A) \in Nat /\ Cardinality(B) \in Nat
      /\ Cardinality(A \cup B) \in Nat
  BY <1>1, FS_CardinalityType
<1> QED
  BY <1>2, <1>3

LEMMA Fewer ==
    ASSUME NEW A \in SUBSET Points, NEW B \in SUBSET Points, A \subseteq B
    PROVE  Cardinality(A) <= Cardinality(B)
<1>1. IsFiniteSet(B)
  BY PointsFinite, FS_Subset
<1> QED
  BY <1>1, FS_Subset

----------------------------------------------------------------------------
(* Groups and what is around them *)

LEMMA AroundSets ==
    ASSUME NEW p, NEW A, NEW B
    PROVE  /\ Around(p, A) \in SUBSET Points
           /\ Around(p, A \cup B) = Around(p, A) \cup Around(p, B)
BY DEF Around

\* Every stone of S is connected to x through S.
Connected(S, x) ==
    /\ x \in S
    /\ \A T \in SUBSET S : x \in T /\ (\A w \in S : \A u \in T : u \in Adj[w] => w \in T) => T = S

LEMMA GroupConnected ==
    ASSUME NEW p, NEW x \in Points
    PROVE  Connected(Group(p, x), x)
<1> DEFINE G == Group(p, x)
<1>1. x \in G /\ G \in SUBSET Points /\ \A w \in G : p[w] = p[x]
  BY Groups
<1>2. ASSUME NEW T \in SUBSET G, x \in T, \A w \in G : \A u \in T : u \in Adj[w] => w \in T PROVE T = G
  <2>1. \A w \in Points : \A u \in T : p[w] = p[x] /\ u \in Adj[w] => w \in T
    <3> SUFFICES ASSUME NEW w \in Points, NEW u \in T, p[w] = p[x], u \in Adj[w] PROVE w \in T
      OBVIOUS
    <3>1. w \in G
      BY Groups
    <3> QED
      BY <1>2, <3>1
  <2>2. T \in SUBSET Points
    BY <1>1
  <2>3. G \subseteq T
    BY <1>2, <2>1, <2>2, Groups
  <2> QED
    BY <2>3
<1> QED
  BY <1>1, <1>2 DEF Connected

\* Connected stones of one colour are a group when no other stone of the colour is
\* next to them.
LEMMA GroupIs ==
    ASSUME NEW p, NEW S \in SUBSET Points, NEW x \in Points, Connected(S, x), \A w \in S : p[w] = p[x],
           \A u \in S : \A w \in Adj[u] : p[w] = p[x] => w \in S
    PROVE  Group(p, x) = S
<1>1. x \in S
  BY DEF Connected
<1>2. \A w \in Points : \A u \in S : p[w] = p[x] /\ u \in Adj[w] => w \in S
  BY Symmetric
<1>3. Group(p, x) \subseteq S
  BY <1>1, <1>2, Groups
<1>4. \A w \in S : \A u \in Group(p, x) : u \in Adj[w] => w \in Group(p, x)
  <2> SUFFICES ASSUME NEW w \in S, NEW u \in Group(p, x), u \in Adj[w] PROVE w \in Group(p, x)
    OBVIOUS
  <2>1. p[w] = p[x] /\ w \in Points
    OBVIOUS
  <2> QED
    BY <2>1, Groups
<1>5. x \in Group(p, x)
  BY Groups
<1> QED
  BY <1>3, <1>4, <1>5 DEF Connected

\* A group whose stones stay, with no stone of their colour put next to them.
LEMMA GroupStays ==
    ASSUME NEW p, NEW q, NEW x \in Points, \A w \in Group(p, x) : q[w] = p[w],
           \A u \in Group(p, x) : \A w \in Adj[u] : q[w] = p[x] => p[w] = p[x]
    PROVE  Group(q, x) = Group(p, x)
<1> DEFINE G == Group(p, x)
<1>1. x \in G /\ G \in SUBSET Points /\ \A w \in G : p[w] = p[x]
  BY Groups
<1>2. Connected(G, x)
  BY GroupConnected
<1>3. \A u \in G : \A w \in Adj[u] : q[w] = q[x] => w \in G
  <2> SUFFICES ASSUME NEW u \in G, NEW w \in Adj[u], q[w] = q[x] PROVE w \in G
    OBVIOUS
  <2>1. u \in Points /\ w \in Points /\ u \in Adj[w] /\ p[w] = p[x]
    BY <1>1, Symmetric
  <2> QED
    BY <2>1, Groups
<1>4. \A w \in G : q[w] = q[x]
  BY <1>1
<1> HIDE DEF G
<1>5. Group(q, x) = G
  BY <1>1, <1>2, <1>3, <1>4, GroupIs
<1> QED
  BY <1>5 DEF G

\* A region is connected and holds all its neighbours of its kind.
RegionOf(C, R, v) ==
    /\ R \in SUBSET Points /\ C \in SUBSET R /\ Connected(C, v)
    /\ \A u \in C : \A x \in Adj[u] : x \in R => x \in C

LEMMA GroupRegion ==
    ASSUME NEW p, NEW v \in Points
    PROVE  RegionOf(Group(p, v), {w \in Points : p[w] = p[v]}, v)
<1> DEFINE C == Group(p, v)
<1>1. C \in SUBSET Points /\ (\A w \in C : p[w] = p[v]) /\ Connected(C, v)
  BY Groups, GroupConnected
<1>2. \A u \in C : \A x \in Adj[u] : p[x] = p[v] => x \in C
  <2> SUFFICES ASSUME NEW u \in C, NEW x \in Adj[u], p[x] = p[v] PROVE x \in C
    OBVIOUS
  <2>1. x \in Points /\ u \in Adj[x]
    BY <1>1, Symmetric
  <2> QED
    BY <2>1, Groups
<1> HIDE DEF C
<1>3. C \in SUBSET {w \in Points : p[w] = p[v]}
  BY <1>1
<1> QED
  BY <1>1, <1>2, <1>3 DEF RegionOf, C

\* A chain next to the empty point v has that point among its liberties.
LEMMA NextToChain ==
    ASSUME NEW p, NEW v \in Points, p[v] = Empty, NEW w \in Adj[v]
    PROVE  v \in Liberties(p, w)
<1>1. w \in Points /\ w \in Group(p, w)
  BY Symmetric, Groups
<1> QED
  BY <1>1 DEF Liberties, Around

----------------------------------------------------------------------------
(* Moves *)

\* What a single stone that is captured leaves.
LEMMA OneTaken ==
    ASSUME NEW p \in Stones, NEW v \in Points, NEW c \in Colors, NEW t,
           Captured(Placed(p, v, c), v, c) = {t}
    PROVE  /\ t \in Points /\ t \in Adj[v] /\ LeftBy(p, v, c)[t] = Empty
           /\ \A w \in Adj[t] : LeftBy(p, v, c)[w] # Empty
<1> DEFINE put == Placed(p, v, c)
           left == LeftBy(p, v, c)
<1>1. put \in Stones /\ left[t] = Empty /\ t \in Adj[v] /\ t \in Points
  BY MoveMade
<1>2. left = Put(put, {t}, Empty)
  BY DEF LeftBy
<1> HIDE DEF put, left
<1>3. PICK w \in Adj[v] : put[w] = Opponent(c) /\ Liberties(put, w) = {} /\ t \in Group(put, w)
  BY DEF Captured, put
<1>4. Group(put, w) \subseteq {t} /\ w \in Points
  <2>1. Group(put, w) \subseteq Captured(put, v, c)
    BY <1>3 DEF Captured
  <2> QED
    BY <2>1, Symmetric DEF put
<1>5. w = t /\ Group(put, t) = {t}
  <2>1. w \in Group(put, w)
    BY <1>4, Groups
  <2> QED
    BY <1>4, <2>1
<1>6. \A u \in Adj[t] : put[u] # Empty /\ u # t
  <2>1. Around(put, {t}) = {}
    BY <1>3, <1>5 DEF Liberties
  <2>2. \A u \in Adj[t] : u \in Points /\ t \in Adj[u] /\ u # t
    BY <1>1, Symmetric
  <2> QED
    BY <2>1, <2>2 DEF Around
<1>7. \A u \in Adj[t] : left[u] # Empty
  <2>1. \A u \in Adj[t] : u \in Points
    BY <1>1, Symmetric
  <2> QED
    BY <1>2, <1>6, <2>1 DEF Put
<1> QED
  BY <1>1, <1>7 DEF left

\* A stone stands among the groups it joined: each of them is next to it.
LEMMA OwnParts ==
    ASSUME NEW p \in Stones, NEW v \in Points, p[v] = Empty, NEW c \in Colors,
           NEW own, own = Group(Placed(p, v, c), v), NEW x \in own \ {v}
    PROVE  /\ x \in Points /\ p[x] = c /\ Group(p, x) \subseteq own \ {v}
           /\ \E w \in Adj[v] : w \in Group(p, x) /\ p[w] = c
<1> DEFINE put == Placed(p, v, c)
           T == Group(p, x)
<1>1. c # Empty /\ \A w \in Points : put[w] = IF w = v THEN c ELSE p[w]
  BY Kinds DEF Placed, Put
<1> HIDE DEF put
<1>2. own = Group(put, v) /\ put[v] = c
  BY <1>1 DEF put
<1>3. /\ own \in SUBSET Points /\ v \in own /\ \A w \in own : put[w] = c /\ Group(put, w) = own
      /\ \A w \in Points : \A u \in own : put[w] = c /\ u \in Adj[w] => w \in own
  BY <1>2, Groups
<1>4. x \in Points /\ x # v /\ p[x] = c /\ put[x] = c
  BY <1>1, <1>3
<1>5. /\ x \in T /\ T \in SUBSET Points /\ \A w \in T : p[w] = c
      /\ \A w \in Points : \A u \in T : p[w] = c /\ u \in Adj[w] => w \in T
  BY <1>4, Groups
<1>6. \A s \in SUBSET Points : x \in s /\ (\A w \in Points : \A u \in s : p[w] = c /\ u \in Adj[w] => w \in s)
                               => T \subseteq s
  BY <1>4, Groups
<1>7. \A s \in SUBSET Points : x \in s /\ (\A w \in Points : \A u \in s : put[w] = c /\ u \in Adj[w] => w \in s)
                               => Group(put, x) \subseteq s
  BY <1>4, Groups
<1> HIDE DEF T
<1>8. T \subseteq own
  BY <1>1, <1>3, <1>6
<1>9. v \notin T
  BY <1>1, <1>5
<1>10. \E w \in Adj[v] : w \in T
  <2> SUFFICES ASSUME \A w \in Adj[v] : w \notin T PROVE FALSE
    OBVIOUS
  <2>1. \A w \in Points : \A u \in T : put[w] = c /\ u \in Adj[w] => w \in T
    BY <1>1, <1>5
  <2>2. Group(put, x) \subseteq T
    BY <1>5, <1>7, <2>1
  <2> QED
    BY <1>3, <1>9, <2>2
<1> QED
  BY <1>4, <1>5, <1>8, <1>9, <1>10 DEF T

\* The liberties of the stones that are left when v is taken off its chain.
LEMMA LibertiesLeft ==
    ASSUME NEW p \in Stones, NEW v \in Points, p[v] = Empty, NEW c \in Colors,
           NEW own, own = Group(Placed(p, v, c), v), own # {v}
    PROVE  Cardinality(Around(p, own \ {v})) = Cardinality(Around(Placed(p, v, c), own))
             - Cardinality({w \in Adj[v] : p[w] = Empty /\ Adj[w] \cap (own \ {v}) = {}}) + 1
<1> DEFINE put == Placed(p, v, c)
           left == own \ {v}
           New == {w \in Adj[v] : p[w] = Empty /\ Adj[w] \cap left = {}}
           L == Around(put, own)
           A == Around(p, left)
<1>1. c # Empty /\ \A w \in Points : put[w] = IF w = v THEN c ELSE p[w]
  BY Kinds DEF Placed, Put
<1>2. own = Group(put, v)
  BY DEF put
<1> HIDE DEF put
<1>3. own \in SUBSET Points /\ v \in own
  BY <1>2, Groups
<1>4. \E w \in Adj[v] : w \in left
  <2>1. PICK x \in own : x # v
    BY <1>3
  <2> QED
    BY <2>1, OwnParts
<1>5. \A w \in Points : Adj[w] \subseteq Points /\ w \notin Adj[w] /\ (w \in Adj[v] <=> v \in Adj[w])
  BY Symmetric
<1> HIDE DEF left
<1>6. \A w : w \in own <=> w = v \/ w \in left
  BY <1>3 DEF left
<1>7. \A w \in Points : w \in L <=> p[w] = Empty /\ w # v /\ (w \in Adj[v] \/ Adj[w] \cap left # {})
  BY <1>1, <1>5, <1>6 DEF Around
<1>8. \A w \in Points : w \in New <=> w \in Adj[v] /\ p[w] = Empty /\ Adj[w] \cap left = {}
  BY <1>5
<1>9. \A w \in Points : w \in A <=> p[w] = Empty /\ Adj[w] \cap left # {}
  BY DEF Around
<1>10. L \in SUBSET Points /\ A \in SUBSET Points /\ New \in SUBSET Points
  BY <1>5, AroundSets
<1>11. v \in A
  BY <1>4, <1>9
<1> HIDE DEF L, A, New
<1>12. New \subseteq L
  BY <1>5, <1>7, <1>8, <1>10
<1>13. A = (L \ New) \cup {v} /\ (L \ New) \cap {v} = {}
  <2>1. \A w \in Points : w \in A <=> w \in (L \ New) \cup {v}
    BY <1>7, <1>8, <1>9, <1>11
  <2> QED
    BY <1>7, <1>10, <2>1
<1>14. L \ New \in SUBSET Points /\ {v} \in SUBSET Points
  BY <1>10
<1>15. Cardinality(A) = Cardinality(L \ New) + Cardinality({v})
  BY <1>13, <1>14, DisjointSets
<1>16. Cardinality(L \ New) = Cardinality(L) - Cardinality(New)
  BY <1>10, <1>12, SetSizes
<1>17. Cardinality({v}) = 1
  BY FS_Singleton
<1>18. Cardinality(L) \in Nat /\ Cardinality(New) \in Nat
  BY <1>10, SetSizes
<1>19. Cardinality(A) = Cardinality(L) - Cardinality(New) + 1
  BY <1>15, <1>16, <1>17, <1>18
<1> QED
  BY <1>19 DEF A, L, New, left, put

LEMMA MoveTakes ==
    ASSUME NEW p \in Stones, NEW v \in Points, NEW c \in Colors, NEW x \in Captured(Placed(p, v, c), v, c)
    PROVE  x \in Points /\ Placed(p, v, c)[x] = Opponent(c)
BY MoveMade

\* A part of a group is taken off: what is left of it has the points next to the part,
\* and no other group loses a liberty.
LEMMA PartTaken ==
    ASSUME NEW p \in Stones, Settled(p), NEW v \in Points, p[v] # Empty,
           NEW D \in SUBSET Group(p, v), v \in D
    PROVE  Settled(Put(p, D, Empty))
<1> DEFINE q == Put(p, D, Empty)
           G == Group(p, v)
<1>1. \A w \in Points : q[w] = IF w \in D THEN Empty ELSE p[w]
  BY DEF Put
<1>2. /\ v \in G /\ G \in SUBSET Points /\ D \in SUBSET Points
      /\ \A w \in G : p[w] = p[v] /\ Group(p, w) = G
      /\ \A w \in Points : \A u \in G : p[w] = p[v] /\ u \in Adj[w] => w \in G
      /\ \A s \in SUBSET Points :
            /\ v \in s
            /\ \A w \in Points : \A u \in s : p[w] = p[v] /\ u \in Adj[w] => w \in s
            => G \subseteq s
  BY Groups
<1> HIDE DEF q, G
<1> SUFFICES ASSUME NEW x \in Points, q[x] # Empty PROVE Liberties(q, x) # {}
  BY DEF Settled, q
<1>3. x \notin D /\ q[x] = p[x]
  BY <1>1
<1>4. CASE x \notin G
  <2> DEFINE X == Group(p, x)
  <2>1. X \in SUBSET Points /\ \A w \in X : p[w] = p[x] /\ Group(p, w) = X
    BY Groups
  <2>2. x \in X
    BY Groups
  <2>3. \A w \in X : w \notin D
    BY <1>2, <1>4, <2>1, <2>2 DEF G
  <2> HIDE DEF X
  <2>4. \A w \in X : q[w] = p[w]
    BY <1>1, <2>1, <2>3
  <2>5. \A u \in X : \A w \in Adj[u] : q[w] = p[x] => p[w] = p[x]
    <3> SUFFICES ASSUME NEW u \in X, NEW w \in Adj[u], q[w] = p[x] PROVE p[w] = p[x]
      OBVIOUS
    <3>1. w \in Points
      BY <2>1, Symmetric
    <3> QED
      BY <1>1, <1>3, <3>1
  <2>6. Group(q, x) = X
    BY <2>4, <2>5, GroupStays DEF X
  <2>7. Liberties(p, x) # {}
    BY <1>3 DEF Settled
  <2>8. Around(p, X) \subseteq Around(q, X)
    BY <1>1 DEF Around
  <2> QED
    BY <2>6, <2>7, <2>8 DEF Liberties, X
<1>5. CASE x \in G
  <2> SUFFICES ASSUME Liberties(q, x) = {} PROVE FALSE
    OBVIOUS
  <2> DEFINE H == Group(q, x)
  <2>1. /\ x \in H /\ H \in SUBSET Points /\ \A w \in H : q[w] = q[x]
        /\ \A w \in Points : \A u \in H : q[w] = q[x] /\ u \in Adj[w] => w \in H
    BY Groups
  <2>2. Around(q, H) = {}
    BY DEF Liberties
  <2> HIDE DEF H
  <2>3. v \in G \ H
    BY <1>1, <1>2, <2>1
  <2>4. ASSUME NEW w \in Points, NEW u \in G \ H, p[w] = p[v], u \in Adj[w]
        PROVE  w \in G \ H
    <3>1. w \in G /\ u \in Points
      BY <1>2, <2>4
    <3> SUFFICES ASSUME w \in H PROVE FALSE
      BY <3>1
    <3>2. w \in Adj[u]
      BY <2>4, <3>1, Symmetric
    <3>3. CASE u \in D
      BY <1>1, <2>2, <3>1, <3>2, <3>3 DEF Around
    <3>4. CASE u \notin D
      <4>1. q[u] = q[x]
        BY <1>1, <1>2, <1>3, <1>5, <3>1, <3>4
      <4> QED
        BY <2>1, <3>1, <3>2, <4>1
    <3> QED
      BY <3>3, <3>4
  <2>5. G \subseteq G \ H
    BY <1>2, <2>3, <2>4
  <2> QED
    BY <1>5, <2>1, <2>5
<1> QED
  BY <1>4, <1>5

\* A stone that leaves no group without liberties captures nothing.
LEMMA QuietMove ==
    ASSUME NEW s, s.stones \in Stones, s.prisoners \in [Colors -> Int], NEW v \in Points, NEW c \in Colors,
           Settled(Put(s.stones, {v}, c))
    PROVE  After(s, v, c) = Position(Put(s.stones, {v}, c), NoKo, s.prisoners)
<1> DEFINE put == Put(s.stones, {v}, c)
           taken == Captured(put, v, c)
           left == Put(put, taken, Empty)
<1>1. put \in Stones /\ put[v] = c /\ c # Empty /\ Opponent(c) # Empty
  <2>1. c # Empty /\ Opponent(c) # Empty
    BY Kinds
  <2> QED
    BY <2>1, PutStones
<1> HIDE DEF put
<1>2. taken = {}
  <2>1. \A w \in Adj[v] : put[w] = Opponent(c) => Liberties(put, w) # {}
    BY <1>1, Symmetric DEF Settled, put
  <2> QED
    BY <2>1 DEF Captured
<1> HIDE DEF taken
<1>3. left = put
  BY <1>1, <1>2 DEF Put, Stones
<1>4. Around(put, Group(put, v)) # {}
  BY <1>1 DEF Settled, put, Liberties
<1>5. Cardinality(taken) = 0
  BY <1>2, FS_EmptySet
<1>6. [s.prisoners EXCEPT ![c] = @ + Cardinality(taken)] = s.prisoners
  BY <1>5
<1>7. After(s, v, c) =
          IF Around(left, Group(left, v)) = {}
          THEN Position(Put(left, Group(left, v), Empty), NoKo,
                        [s.prisoners EXCEPT ![Opponent(c)] = @ + Cardinality(Group(left, v))])
          ELSE Position(left,
                        IF Cardinality(taken) = 1 /\ Group(left, v) = {v} /\ Around(left, Group(left, v)) = taken
                        THEN TheOne(taken) ELSE NoKo,
                        [s.prisoners EXCEPT ![c] = @ + Cardinality(taken)])
  BY DEF After, put, taken, left
<1> HIDE DEF left
<1>8. After(s, v, c) = Position(put, IF 0 = 1 /\ Group(put, v) = {v} /\ Around(put, Group(put, v)) = taken
                                     THEN TheOne(taken) ELSE NoKo, s.prisoners)
  BY <1>3, <1>4, <1>5, <1>6, <1>7
<1> QED
  BY <1>8 DEF put
----------------------------------------------------------------------------
(* Stones that cannot be captured (Benson) *)

\* A part of the board without stones of c, with an empty point and walled in by S:
\* each of its points, or each that is empty where suicide is not allowed, is next to
\* the chain of x.
Eye(p, S, c, multi, x, R) ==
    /\ R \in SUBSET Points /\ \E y \in R : p[y] = Empty
    /\ \A y \in R : p[y] # c /\ \A w \in Adj[y] : w \in R \/ w \in S
    /\ \A y \in R : multi \/ p[y] = Empty => Adj[y] \cap Group(p, x) # {}

\* Chains of c that have two eyes each and wall each other's eyes in.
Secure(p, S, c, multi) ==
    /\ S \in SUBSET Points
    /\ \A x \in S :
         /\ p[x] = c /\ Group(p, x) \subseteq S
         /\ \E R, Q : Eye(p, S, c, multi, x, R) /\ Eye(p, S, c, multi, x, Q) /\ R \cap Q = {}

\* The other side's move.
LEMMA SecureStays ==
    ASSUME NEW s, s.stones \in Stones, NEW c \in Colors, NEW S, NEW multi \in BOOLEAN,
           Secure(s.stones, S, c, multi), NEW v \in Points, Legal(s, v, Opponent(c), multi)
    PROVE  Secure(After(s, v, Opponent(c)).stones, S, c, multi)
<1> DEFINE p == s.stones
           d == Opponent(c)
           put == Placed(p, v, d)
           taken == Captured(put, v, d)
           left == LeftBy(p, v, d)
           own == Group(left, v)
           fell == Around(left, own) = {}
           q == After(s, v, d).stones
<1>1. /\ d \in Colors /\ d # c /\ c # Empty /\ d # Empty /\ Opponent(d) = c
      /\ p \in Stones /\ p[v] = Empty
  BY Kinds DEF Legal
<1>2. /\ put \in Stones /\ taken \in SUBSET Points /\ \A x \in taken : put[x] = c
      /\ left[v] = d
  <2> HIDE DEF p, put, taken, left, d
  <2>1. put \in Stones /\ taken \in SUBSET Points
    BY <1>1, MoveMade DEF put, taken
  <2>2. ASSUME NEW x \in taken PROVE put[x] = Opponent(d)
    <3>1. \A u \in Captured(Placed(p, v, d), v, d) : Placed(p, v, d)[u] = Opponent(d)
      BY <1>1, MoveTakes
    <3> QED
      BY <3>1 DEF put, taken
  <2>3. left[v] = d
    BY <1>1, MoveMade DEF left
  <2> QED
    BY <1>1, <2>1, <2>2, <2>3
<1>3. \A w \in Points : put[w] = IF w = v THEN d ELSE p[w]
  BY <1>1, PutStones DEF Placed
<1>4. \A w \in Points : left[w] = IF w \in taken THEN Empty ELSE put[w]
  <2> HIDE DEF p, put, taken, d
  <2> QED
    BY <1>2, PutStones DEF LeftBy, put, taken, left
<1>5. own \in SUBSET Points /\ v \in own /\ \A x \in own : left[x] = d
  <2> HIDE DEF left
  <2> QED
    BY <1>2, Groups
<1>6. q = IF fell THEN Put(left, own, Empty) ELSE left
  BY DEF After, Position, LeftBy, Placed
<1>7. \A w \in Points : q[w] = IF fell /\ w \in own THEN Empty ELSE left[w]
  <2> HIDE DEF left, own, q, fell
  <2>1. \A w \in Points : Put(left, own, Empty)[w] = IF w \in own THEN Empty ELSE left[w]
    BY <1>5, PutStones
  <2> QED
    BY <1>6, <2>1
<1>8. fell => multi
  <2>1. q[v] = d \/ multi
    BY DEF Legal
  <2> HIDE DEF q, fell, d
  <2> QED
    BY <1>1, <1>5, <1>7, <2>1
<1>9. /\ S \in SUBSET Points /\ \A x \in S : p[x] = c /\ x \in Points /\ Group(p, x) \subseteq S
      /\ \A x \in S : \E R, Q : Eye(p, S, c, multi, x, R) /\ Eye(p, S, c, multi, x, Q) /\ R \cap Q = {}
  BY DEF Secure
<1> HIDE DEF p, d, put, taken, left, own, fell, q
<1>10. \A x \in S : Group(put, x) = Group(p, x) /\ Liberties(put, x) # {}
  <2> SUFFICES ASSUME NEW x \in S PROVE Group(put, x) = Group(p, x) /\ Liberties(put, x) # {}
    OBVIOUS
  <2>1. p[x] = c /\ x \in Points
    BY <1>9
  <2>2. \A w \in Group(p, x) : w \in Points /\ p[w] = c
    BY <2>1, Groups
  <2>3. \A w \in Group(p, x) : put[w] = p[w]
    BY <1>1, <1>3, <2>2
  <2>4. \A u \in Group(p, x) : \A w \in Adj[u] : put[w] = p[x] => p[w] = p[x]
    BY <1>1, <1>3, <2>1, <2>2, Symmetric
  <2>5. Group(put, x) = Group(p, x)
    BY <2>1, <2>3, <2>4, GroupStays
  <2>6. PICK R, Q : Eye(p, S, c, multi, x, R) /\ Eye(p, S, c, multi, x, Q) /\ R \cap Q = {}
    BY <1>9
  <2>7. PICK y, z : /\ y \in R /\ z \in Q /\ p[y] = Empty /\ p[z] = Empty /\ y \in Points /\ z \in Points
                    /\ Adj[y] \cap Group(p, x) # {} /\ Adj[z] \cap Group(p, x) # {}
    BY <2>6 DEF Eye
  <2>8. y # z
    BY <2>6, <2>7
  <2>9. y \in Liberties(put, x) \/ z \in Liberties(put, x)
    BY <1>3, <2>5, <2>7, <2>8 DEF Liberties, Around
  <2> QED
    BY <2>5, <2>9
<1>11. \A x \in S : x \notin taken
  <2> SUFFICES ASSUME NEW x \in S, x \in taken PROVE FALSE
    OBVIOUS
  <2>1. PICK w \in Adj[v] : Liberties(put, w) = {} /\ x \in Group(put, w)
    BY DEF Captured, taken
  <2>2. w \in Points
    BY Symmetric
  <2>3. Group(put, x) = Group(put, w)
    BY <2>1, <2>2, Groups
  <2> QED
    BY <1>10, <2>1, <2>3 DEF Liberties
<1>12. \A w \in S : left[w] = c /\ q[w] = c
  <2>1. \A w \in S : left[w] = c
    BY <1>1, <1>3, <1>4, <1>9, <1>11
  <2> QED
    BY <1>1, <1>5, <1>7, <1>9, <2>1
<1>13. \A w \in Points : q[w] = c => p[w] = c
  BY <1>1, <1>3, <1>4, <1>7
<1>14. \A x \in S : Group(q, x) = Group(p, x)
  <2> SUFFICES ASSUME NEW x \in S PROVE Group(q, x) = Group(p, x)
    OBVIOUS
  <2>1. x \in Points /\ p[x] = c /\ Group(p, x) \subseteq S
    BY <1>9
  <2>2. \A w \in Group(p, x) : q[w] = p[w]
    BY <1>9, <1>12, <2>1
  <2>3. \A u \in Group(p, x) : \A w \in Adj[u] : q[w] = p[x] => p[w] = p[x]
    BY <1>9, <1>13, <2>1, Symmetric
  <2> QED
    BY <2>1, <2>2, <2>3, GroupStays
<1>15. \A w \in Points : q[w] = Empty /\ p[w] # c => p[w] = Empty \/ multi
  BY <1>1, <1>2, <1>3, <1>4, <1>7, <1>8
<1>16. \A w \in Points : p[w] = Empty /\ w # v => q[w] = Empty
  <2>1. \A w \in Points : p[w] = Empty /\ w # v => left[w] = Empty
    BY <1>3, <1>4
  <2> QED
    BY <1>7, <2>1
<1>17. ASSUME NEW x \in S, NEW R, Eye(p, S, c, multi, x, R) PROVE Eye(q, S, c, multi, x, R)
  <2>1. /\ R \in SUBSET Points
        /\ \A y \in R : p[y] # c /\ \A w \in Adj[y] : w \in R \/ w \in S
        /\ \A y \in R : multi \/ p[y] = Empty => Adj[y] \cap Group(p, x) # {}
    BY <1>17 DEF Eye
  <2>2. PICK y \in R : p[y] = Empty
    BY <1>17 DEF Eye
  <2>3. \E z \in R : q[z] = Empty
    <3> SUFFICES ASSUME y = v, \A z \in R : p[z] = Empty => z = v PROVE q[v] = Empty
      BY <1>16, <2>1, <2>2
    <3>1. own \subseteq R
      <4>1. \A w \in Points : \A u \in R : left[w] = left[v] /\ u \in Adj[w] => w \in R
        BY <1>1, <1>2, <1>12, <2>1, Symmetric
      <4> QED
        BY <2>1, <2>2, <4>1, Groups DEF own
    <3>2. fell
      <4> SUFFICES ASSUME NEW w \in Points, left[w] = Empty, NEW u \in Adj[w], u \in own PROVE FALSE
        BY DEF fell, Around
      <4>1. u \in R /\ w \in Adj[u]
        BY <3>1, Symmetric, <2>1
      <4>2. w \in R
        BY <1>1, <1>12, <2>1, <4>1
      <4>3. p[w] # c /\ w \notin taken
        BY <1>1, <1>2, <1>3, <2>1, <4>2
      <4>4. p[w] = Empty /\ w # v
        BY <1>1, <1>3, <1>4, <4>3
      <4> QED
        BY <4>2, <4>4
    <3> QED
      BY <1>5, <1>7, <3>2
  <2>4. \A z \in R : q[z] # c /\ \A w \in Adj[z] : w \in R \/ w \in S
    BY <1>13, <2>1
  <2>5. \A z \in R : multi \/ q[z] = Empty => Adj[z] \cap Group(q, x) # {}
    BY <1>14, <1>15, <2>1
  <2> QED
    BY <2>1, <2>3, <2>4, <2>5 DEF Eye
<1>18. \A x \in S : q[x] = c /\ Group(q, x) \subseteq S
  BY <1>9, <1>12, <1>14
<1>19. \A x \in S : \E R, Q : Eye(q, S, c, multi, x, R) /\ Eye(q, S, c, multi, x, Q) /\ R \cap Q = {}
  BY <1>9, <1>17
<1>20. Secure(q, S, c, multi)
  BY <1>9, <1>18, <1>19 DEF Secure
<1> QED
  BY <1>20 DEF q, d

\* A board has no part that is not connected with the rest.
LEMMA OnePiece ==
    ASSUME NEW S \in SUBSET Points, S # {}, \A x \in S : Adj[x] \subseteq S
    PROVE  S = Points
<1>1. ASSUME NEW T \in SUBSET Points, T # {}, \A x \in T : Adj[x] \subseteq T PROVE 0 \in T
  <2>1. T \in SUBSET Nat
    BY BoardAssumption DEF Points
  <2>2. PICK m \in T : \A j \in T : m <= j
    BY <1>1, <2>1, LeastOf
  <2>3. m \in Points /\ m \in Nat /\ XSize \in Nat \ {0}
    BY <2>1, BoardAssumption
  <2>4. Row(m) \in Nat /\ Col(m) \in Nat /\ m = XSize * Row(m) + Col(m)
    BY <2>3, Coordinates, BoardAssumption
  <2>5. ~(Col(m) > 0)
    <3> SUFFICES ASSUME Col(m) > 0 PROVE FALSE
      OBVIOUS
    <3>1. m - 1 \in Adj[m]
      BY <2>3, AdjacentPoints
    <3>2. m - 1 \in T
      BY <1>1, <3>1
    <3>3. m <= m - 1
      BY <2>2, <3>2
    <3> QED
      BY <2>3, <3>3
  <2>6. ~(Row(m) > 0)
    <3> SUFFICES ASSUME Row(m) > 0 PROVE FALSE
      OBVIOUS
    <3>1. m - XSize \in Adj[m]
      BY <2>3, AdjacentPoints
    <3>2. m - XSize \in T
      BY <1>1, <3>1
    <3>3. m <= m - XSize
      BY <2>2, <3>2
    <3> QED
      BY <2>3, <3>3
  <2>7. Row(m) = 0 /\ Col(m) = 0
    BY <2>4, <2>5, <2>6
  <2>8. m = 0
    BY <2>3, <2>4, <2>7
  <2> QED
    BY <2>8
<1>2. 0 \in S
  BY <1>1
<1>3. ASSUME S # Points PROVE FALSE
  <2>1. \A x \in Points \ S : Adj[x] \subseteq Points \ S
    BY Symmetric
  <2>2. 0 \in Points \ S
    BY <1>1, <1>3, <2>1
  <2> QED
    BY <1>2, <2>2
<1> QED
  BY <1>3
----------------------------------------------------------------------------
(* Regions without stones of a side *)

Without(p, c, v) == Group([w \in Points |-> p[w] = c], v)

LEMMA Withouts ==
    ASSUME NEW p, NEW c, NEW v \in Points, p[v] # c
    PROVE  /\ v \in Without(p, c, v) /\ Without(p, c, v) \in SUBSET Points
           /\ \A w \in Without(p, c, v) : p[w] # c /\ Without(p, c, w) = Without(p, c, v)
           /\ \A u \in Without(p, c, v) : \A w \in Adj[u] : p[w] # c => w \in Without(p, c, v)
           /\ \A s \in SUBSET Points :
                 v \in s /\ (\A u \in s : \A w \in Adj[u] : p[w] # c => w \in s) => Without(p, c, v) \subseteq s
<1> DEFINE q == [w \in Points |-> p[w] = c]
           R == Group(q, v)
<1>1. \A w \in Points : q[w] = (p[w] = c)
  OBVIOUS
<1>2. \A w \in Points : q[w] = q[v] <=> p[w] # c
  BY <1>1, Zenon
<1> HIDE DEF q
<1>3. /\ v \in R /\ R \in SUBSET Points
      /\ \A w \in R : q[w] = q[v]
      /\ \A w \in Points : \A u \in R : q[w] = q[v] /\ u \in Adj[w] => w \in R
      /\ \A w \in R : Group(q, w) = R
  BY Groups
<1>4. \A s \in SUBSET Points :
         v \in s /\ (\A w \in Points : \A u \in s : q[w] = q[v] /\ u \in Adj[w] => w \in s) => R \subseteq s
  BY Groups
<1> HIDE DEF R
<1>5. \A w \in R : p[w] # c
  BY <1>2, <1>3
<1>6. \A u \in R : \A w \in Adj[u] : p[w] # c => w \in R
  <2> SUFFICES ASSUME NEW u \in R, NEW w \in Adj[u], p[w] # c PROVE w \in R
    OBVIOUS
  <2>1. w \in Points /\ u \in Adj[w]
    BY <1>3, Symmetric
  <2>2. q[w] = q[v]
    BY <1>2, <2>1
  <2> QED
    BY <1>3, <2>1, <2>2
<1>7. ASSUME NEW s \in SUBSET Points, v \in s, \A u \in s : \A w \in Adj[u] : p[w] # c => w \in s PROVE R \subseteq s
  <2>1. ASSUME NEW w \in Points, NEW u \in s, q[w] = q[v], u \in Adj[w] PROVE w \in s
    <3>1. p[w] # c
      BY <1>2, <2>1
    <3>2. w \in Adj[u]
      BY <2>1, Symmetric
    <3> QED
      BY <1>7, <3>1, <3>2
  <2> QED
    BY <1>4, <1>7, <2>1
<1> QED
  BY <1>3, <1>5, <1>6, <1>7 DEF Without, R, q

\* What is left of a set that shrinks until it does not change any more.
Shrinks(keep) ==
    /\ keep \in [SUBSET Points -> SUBSET Points]
    /\ \A a \in SUBSET Points : keep[a] \subseteq a
    /\ \A a, d \in SUBSET Points : a \subseteq d => keep[a] \subseteq keep[d]

Shrunk(keep, f) == \A a \in SUBSET Points : f[a] = IF keep[a] = a THEN a ELSE f[keep[a]]

\* The largest part that keeps all it has.
Kept(keep, a) == {x \in a : \E s \in SUBSET a : x \in s /\ s \subseteq keep[s]}

LEMMA KeptParts ==
    ASSUME NEW keep, Shrinks(keep), NEW a \in SUBSET Points
    PROVE  /\ Kept(keep, a) \in SUBSET a /\ keep[Kept(keep, a)] = Kept(keep, a)
           /\ Kept(keep, keep[a]) = Kept(keep, a)
           /\ keep[a] = a => Kept(keep, a) = a
<1> DEFINE E == Kept(keep, a)
<1>1. E \in SUBSET a /\ E \in SUBSET Points
  BY DEF Kept
<1>2. \A x \in E : \E s \in SUBSET a : x \in s /\ s \subseteq keep[s]
  BY DEF Kept
<1>3. \A s \in SUBSET a : s \subseteq keep[s] => s \subseteq E
  BY DEF Kept
<1>4. keep[a] \in SUBSET a
  BY DEF Shrinks
<1> HIDE DEF E
<1>5. E \subseteq keep[E]
  <2> SUFFICES ASSUME NEW x \in E PROVE x \in keep[E]
    OBVIOUS
  <2>1. PICK s \in SUBSET a : x \in s /\ s \subseteq keep[s]
    BY <1>2
  <2>2. s \subseteq E /\ s \in SUBSET Points
    BY <1>3, <2>1
  <2>3. keep[s] \subseteq keep[E]
    BY <1>1, <2>2 DEF Shrinks
  <2> QED
    BY <2>1, <2>3
<1>6. keep[E] = E
  <2>1. keep[E] \subseteq E
    BY <1>1 DEF Shrinks
  <2> QED
    BY <1>5, <2>1
<1>7. Kept(keep, keep[a]) = E
  <2>1. \A x \in Kept(keep, keep[a]) : x \in E
    BY <1>3, <1>4 DEF Kept
  <2>2. E \in SUBSET keep[a]
    <3>1. keep[E] \subseteq keep[a]
      BY <1>1 DEF Shrinks
    <3> QED
      BY <1>6, <3>1
  <2>3. \A x \in E : x \in Kept(keep, keep[a])
    BY <1>6, <2>2 DEF Kept
  <2> QED
    BY <2>1, <2>3
<1>8. keep[a] = a => E = a
  BY <1>1, <1>3
<1> QED
  BY <1>1, <1>6, <1>7, <1>8 DEF E

LEMMA Shrinking ==
    ASSUME NEW keep, Shrinks(keep), NEW f, Shrunk(keep, f)
    PROVE  \A a \in SUBSET Points : f[a] = Kept(keep, a)
<1> DEFINE Bad == {a \in SUBSET Points : f[a] # Kept(keep, a)}
<1> SUFFICES ASSUME Bad # {} PROVE FALSE
  OBVIOUS
<1>1. Bad \subseteq FiniteSubsetsOf(Points)
  BY PointsFinite, FS_Subset DEF FiniteSubsetsOf
<1>2. PICK a \in Bad : \A y \in Bad : <<y, a>> \notin StrictSubsetOrdering(Points)
  <2>1. IsWellFoundedOn(StrictSubsetOrdering(Points), FiniteSubsetsOf(Points))
    BY FS_StrictSubsetOrderingWellFounded
  <2> HIDE DEF Bad
  <2> QED
    BY <1>1, <2>1, WFMin
<1>3. a \in SUBSET Points /\ f[a] # Kept(keep, a)
  OBVIOUS
<1>4. keep[a] \in SUBSET Points /\ keep[a] \subseteq a
  BY <1>3 DEF Shrinks
<1>5. keep[a] # a /\ f[keep[a]] # Kept(keep, keep[a])
  <2>1. f[a] = IF keep[a] = a THEN a ELSE f[keep[a]]
    BY <1>3 DEF Shrunk
  <2> QED
    BY <1>3, <2>1, KeptParts
<1>6. keep[a] \in Bad
  BY <1>4, <1>5
<1>7. <<keep[a], a>> \in StrictSubsetOrdering(Points)
  BY <1>3, <1>4, <1>5 DEF StrictSubsetOrdering
<1> QED
  BY <1>2, <1>6, <1>7

\* A region without stones of c whose walls are all in S, with at most one point that
\* is not next to a stone of c.
Hold(p, S, c, R) ==
    /\ \E v \in Points : p[v] = Empty /\ R = Without(p, c, v)
    /\ \A y \in R : \A w \in Adj[y] : p[w] = c => w \in S
    /\ \A y, z \in R : (\A w \in Adj[y] \cup Adj[z] : p[w] # c) => y = z

\* Such a region holds no chain of the other side that is secure.
LEMMA NoneInside ==
    ASSUME NEW p \in Stones, NEW c \in Colors, NEW multi \in BOOLEAN, NEW S, NEW T, NEW R,
           Secure(p, S, c, multi), Secure(p, T, Opponent(c), multi), Hold(p, S, c, R)
    PROVE  R \cap T = {}
<1> SUFFICES ASSUME NEW x \in R, x \in T PROVE FALSE
  OBVIOUS
<1> DEFINE d == Opponent(c)
           G == Group(p, x)
<1>1. c # Empty /\ d # Empty /\ d # c
  BY Kinds
<1>2. PICK v \in Points : p[v] = Empty /\ R = Without(p, c, v)
  BY DEF Hold
<1>3. /\ \A y \in R : \A w \in Adj[y] : p[w] = c => w \in S
      /\ \A y, z \in R : (\A w \in Adj[y] \cup Adj[z] : p[w] # c) => y = z
  BY DEF Hold
<1>4. /\ R \in SUBSET Points
      /\ \A w \in R : p[w] # c /\ Without(p, c, w) = R
      /\ \A u \in R : \A w \in Adj[u] : p[w] # c => w \in R
  BY <1>1, <1>2, Withouts
<1>5. /\ T \in SUBSET Points /\ p[x] = d /\ G \subseteq T
      /\ \A w \in T : p[w] = d
  BY DEF Secure
<1>6. \E Q1, Q2 : Eye(p, T, d, multi, x, Q1) /\ Eye(p, T, d, multi, x, Q2) /\ Q1 \cap Q2 = {}
  BY DEF Secure
<1>7. /\ S \in SUBSET Points
      /\ \A w \in S : /\ p[w] = c
                      /\ \E Q1, Q2 : Eye(p, S, c, multi, w, Q1) /\ Eye(p, S, c, multi, w, Q2) /\ Q1 \cap Q2 = {}
  BY DEF Secure
<1>8. G \subseteq R
  <2>1. x \in Points /\ x \in R
    BY <1>4
  <2>2. \A w \in Points : \A u \in R : p[w] = p[x] /\ u \in Adj[w] => w \in R
    BY <1>1, <1>4, <1>5, Symmetric
  <2> QED
    BY <1>4, <2>1, <2>2, Groups
<1> HIDE DEF d, G
\* An eye of x in which R meets no stone of c has a point of R without one next to it.
<1>9. ASSUME NEW Q, Eye(p, T, d, multi, x, Q)
      PROVE  \/ \E y \in Q \cap R : \A w \in Adj[y] : p[w] # c
             \/ \E w \in Q : w \in S
  <2> SUFFICES ASSUME \A w \in Q : w \notin S PROVE \E y \in Q \cap R : \A w \in Adj[y] : p[w] # c
    OBVIOUS
  <2>1. PICK y \in Q : p[y] = Empty
    BY <1>9 DEF Eye
  <2>2. Q \in SUBSET Points /\ Adj[y] \cap G # {} /\ \A w \in Adj[y] : w \in Q \/ w \in T
    BY <1>9, <2>1 DEF Eye, G
  <2>3. y \in R
    BY <1>1, <1>4, <1>8, <2>1, <2>2, Symmetric
  <2>4. \A w \in Adj[y] : p[w] # c
    BY <1>1, <1>3, <1>5, <2>2, <2>3
  <2> QED
    BY <2>3, <2>4
<1>10. ASSUME NEW Q, Eye(p, T, d, multi, x, Q), NEW w \in Q, w \in S PROVE FALSE
  <2>1. /\ Q \in SUBSET Points
        /\ \A y \in Q : p[y] # d /\ \A u \in Adj[y] : u \in Q \/ u \in T
        /\ \A y \in Q : p[y] = Empty => Adj[y] \cap G # {}
    BY <1>10 DEF Eye, G
  <2>2. p[w] = c /\ w \in Points
    BY <1>7, <1>10
  <2>3. Group(p, w) \subseteq Q
    <3>1. \A z \in Points : \A u \in Q : p[z] = p[w] /\ u \in Adj[z] => z \in Q
      BY <1>1, <1>5, <2>1, <2>2, Symmetric
    <3> QED
      BY <2>1, <2>2, <3>1, <1>10, Groups
  <2>4. PICK Q1, Q2 : Eye(p, S, c, multi, w, Q1) /\ Eye(p, S, c, multi, w, Q2) /\ Q1 \cap Q2 = {}
    BY <1>7, <1>10
  <2>5. ASSUME NEW E, Eye(p, S, c, multi, w, E) PROVE E # {} /\ R \subseteq E
    <3>1. PICK z \in E : p[z] = Empty
      BY <2>5 DEF Eye
    <3>2. /\ E \in SUBSET Points /\ Adj[z] \cap Group(p, w) # {}
          /\ \A y \in E : \A u \in Adj[y] : u \in E \/ u \in S
      BY <2>5, <3>1 DEF Eye
    <3>3. z \in Q
      <4>1. PICK u \in Adj[z] : u \in Q
        BY <2>3, <3>2
      <4>2. z \in Adj[u]
        BY <3>2, <4>1, Symmetric
      <4> QED
        BY <1>1, <1>5, <2>1, <3>1, <4>1, <4>2
    <3>4. z \in R
      <4>1. PICK u \in Adj[z] : u \in R
        BY <1>8, <2>1, <3>1, <3>3
      <4>2. z \in Adj[u]
        BY <3>2, <4>1, Symmetric
      <4> QED
        BY <1>1, <1>4, <3>1, <4>1, <4>2
    <3>5. \A u \in E : \A y \in Adj[u] : p[y] # c => y \in E
      BY <1>7, <3>2
    <3>6. Without(p, c, z) \subseteq E
      BY <1>4, <3>2, <3>4, <3>5, Withouts
    <3> QED
      BY <1>4, <3>4, <3>6
  <2>6. R \subseteq Q1 /\ R \subseteq Q2
    BY <2>4, <2>5
  <2> QED
    BY <2>4, <2>6
<1>11. PICK Q1, Q2 : Eye(p, T, d, multi, x, Q1) /\ Eye(p, T, d, multi, x, Q2) /\ Q1 \cap Q2 = {}
  BY <1>6
<1>12. PICK y \in Q1 \cap R : \A w \in Adj[y] : p[w] # c
  BY <1>9, <1>10, <1>11
<1>13. PICK z \in Q2 \cap R : \A w \in Adj[z] : p[w] # c
  BY <1>9, <1>10, <1>11
<1>14. y = z
  BY <1>3, <1>12, <1>13
<1> QED
  BY <1>11, <1>14

\* No point is held by both sides.
LEMMA HeldApart ==
    ASSUME NEW p \in Stones, NEW multi \in BOOLEAN, NEW c \in Colors, NEW S, NEW T, NEW R, NEW Q,
           Secure(p, S, c, multi), Secure(p, T, Opponent(c), multi),
           Hold(p, S, c, R), Hold(p, T, Opponent(c), Q), \E v \in Points : p[v] # Empty
    PROVE  R \cap Q = {}
<1> SUFFICES ASSUME NEW x \in R, x \in Q PROVE FALSE
  OBVIOUS
<1> DEFINE d == Opponent(c)
           E == Group(p, x)
<1>1. c # Empty /\ d # Empty /\ d \in Colors /\ Opponent(d) = c /\ \A k \in Colors \cup {Empty} : k = c \/ k = d \/ k = Empty
  BY Kinds DEF Colors, Opponent
<1>2. /\ R \in SUBSET Points /\ \A w \in R : p[w] # c
      /\ \A u \in R : \A w \in Adj[u] : p[w] # c => w \in R
      /\ \A y \in R : \A w \in Adj[y] : p[w] = c => w \in S
  BY <1>1, Withouts DEF Hold
<1> HIDE DEF d
<1>3. /\ Q \in SUBSET Points /\ \A w \in Q : p[w] # d
      /\ \A u \in Q : \A w \in Adj[u] : p[w] # d => w \in Q
      /\ \A y \in Q : \A w \in Adj[y] : p[w] = d => w \in T
  BY <1>1, Withouts DEF Hold, d
<1>4. p[x] = Empty /\ x \in Points
  BY <1>1, <1>2, <1>3 DEF Stones
<1>5. /\ x \in E /\ E \in SUBSET Points /\ \A w \in E : p[w] = Empty
      /\ \A w \in Points : \A u \in E : p[w] = Empty /\ u \in Adj[w] => w \in E
  BY <1>4, Groups
<1>6. E \subseteq R \cap Q
  <2>1. R \cap Q \in SUBSET Points /\ x \in R \cap Q
    BY <1>2
  <2>2. \A w \in Points : \A u \in R \cap Q : p[w] = p[x] /\ u \in Adj[w] => w \in R \cap Q
    BY <1>1, <1>2, <1>3, <1>4, Symmetric
  <2>3. \A s \in SUBSET Points :
          x \in s /\ (\A w \in Points : \A u \in s : p[w] = p[x] /\ u \in Adj[w] => w \in s) => E \subseteq s
    BY <1>4, Groups
  <2> HIDE DEF E
  <2> QED
    BY <2>1, <2>2, <2>3
<1> HIDE DEF E
<1>7. PICK u \in E : \E w \in Adj[u] : w \notin E
  <2> SUFFICES ASSUME \A u \in E : Adj[u] \subseteq E PROVE FALSE
    OBVIOUS
  <2>1. E = Points
    BY <1>5, OnePiece
  <2> QED
    BY <1>5, <2>1
<1>8. PICK w \in Adj[u] : w \notin E
  BY <1>7
<1>9. w \in Points /\ p[w] # Empty
  BY <1>5, <1>8, Symmetric
<1>10. p[w] = c \/ p[w] = d
  BY <1>1, <1>9 DEF Stones
<1>11. CASE p[w] = c
  <2>1. w \in S /\ w \in Q
    BY <1>1, <1>2, <1>3, <1>6, <1>8, <1>11, Kinds DEF d
  <2>2. Secure(p, T, d, multi) /\ Secure(p, S, Opponent(d), multi) /\ Hold(p, T, d, Q)
    BY <1>1 DEF d
  <2>3. Q \cap S = {}
    BY <1>1, <2>2, NoneInside
  <2> QED
    BY <2>1, <2>3
<1>12. CASE p[w] = d
  <2>1. w \in T /\ w \in R
    BY <1>1, <1>2, <1>3, <1>6, <1>8, <1>12, Kinds DEF d
  <2>2. R \cap T = {}
    BY NoneInside
  <2> QED
    BY <2>1, <2>2
<1> QED
  BY <1>10, <1>11, <1>12
----------------------------------------------------------------------------
(* The inductive invariant: what is recorded of every move takes it back *)

Positions == [stones : Stones, ko : Points \cup {NoKo}, prisoners : [Colors -> Nat]]
PlayedMoves == [vertex : Points \cup {NoMove}, color : Colors, removed : SUBSET Points]

Types ==
    /\ Shown \in Positions /\ past \in Seq(Positions)
    /\ moves \in Seq(PlayedMoves) /\ koStack \in Seq(Points \cup {NoKo})
    /\ Len(koStack) = Len(moves) /\ Len(past) = Len(moves)

\* The position before the i-th move; after the last one it is the one shown.
At(i) == IF i = Len(moves) + 1 THEN Shown ELSE past[i]

\* Taking the i-th move back from the position after it gives the position before it.
History == \A i \in 1..Len(moves) : past[i] = Restored(At(i + 1), moves[i], koStack[i])

IInv == Types /\ History

LEMMA TypesAreTypeOK == Types => TypeOK
BY DEF Types, Positions, PlayedMoves, Stones, Shown, Position, TypeOK

LEMMA ShownParts ==
    /\ Shown.stones = grid /\ Shown.ko = koVertex /\ Shown.prisoners = captures
    /\ \A s \in Positions : s = Position(s.stones, s.ko, s.prisoners)
    /\ \A st, ko, pr : Position(st, ko, pr) \in Positions
                         <=> st \in Stones /\ ko \in Points \cup {NoKo} /\ pr \in [Colors -> Nat]
BY DEF Shown, Position, Positions

\* What a move leaves, taken back, is what was there before it.
LEMMA MoveRestored ==
    ASSUME Types, NEW v \in Points, NEW c \in Colors, grid[v] = Empty,
           NEW s, s.stones = LeftBy(grid, v, c),
           s.prisoners = [captures EXCEPT ![c] = @ + Cardinality(Captured(Placed(grid, v, c), v, c))]
    PROVE  Restored(s, [vertex |-> v, color |-> c, removed |-> Captured(Placed(grid, v, c), v, c)], koVertex)
             = Shown
<1> DEFINE put == Placed(grid, v, c)
           removed == Captured(put, v, c)
           left == LeftBy(grid, v, c)
           m == [vertex |-> v, color |-> c, removed |-> removed]
           back == Put(Put(left, {v}, Empty), removed, Opponent(c))
<1>1. grid \in Stones /\ captures \in [Colors -> Nat]
  BY ShownParts DEF Types, Positions
<1>2. /\ put[v] = c /\ removed \in SUBSET Points /\ Cardinality(removed) \in Nat
      /\ \A x \in removed : put[x] = Opponent(c)
  <2> HIDE DEF Stones
  <2> QED
    BY <1>1, MoveMade
<1>3. \A w \in Points : put[w] = IF w = v THEN c ELSE grid[w]
  BY DEF Placed, Put
<1>4. \A w \in Points : left[w] = IF w \in removed THEN Empty ELSE put[w]
  BY DEF LeftBy, Placed, Put
<1> HIDE DEF put, left, removed
<1>5. \A w \in Points : back[w] = IF w \in removed THEN Opponent(c) ELSE IF w = v THEN Empty ELSE left[w]
  BY DEF Put
<1>6. \A w \in Points : back[w] = grid[w]
  BY <1>2, <1>3, <1>4, <1>5, Kinds
<1>7. back = grid
  <2>1. back = [w \in Points |-> back[w]]
    BY DEF Put
  <2>2. grid = [w \in Points |-> grid[w]]
    BY <1>1 DEF Stones
  <2> HIDE DEF back
  <2>3. [w \in Points |-> back[w]] = [w \in Points |-> grid[w]]
    BY <1>6, Zenon
  <2> QED
    BY <2>1, <2>2, <2>3
<1>8. [s.prisoners EXCEPT ![c] = @ - Cardinality(removed)] = captures
  <2>1. PICK k \in Nat : k = Cardinality(removed)
    BY <1>2
  <2>2. s.prisoners = [captures EXCEPT ![c] = @ + k]
    BY <2>1 DEF removed, put
  <2>3. \A d \in Colors : captures[d] \in Nat /\ (captures[d] + k) - k = captures[d]
    BY <1>1
  <2>4. [s.prisoners EXCEPT ![c] = @ - k] = captures
    BY <1>1, <2>2, <2>3
  <2> QED
    BY <2>1, <2>4
<1>9. m.vertex = v /\ m.color = c /\ m.removed = removed /\ v # NoMove
  BY BoardAssumption DEF NoMove, Points
<1>10. Restored(s, m, koVertex) = Position(back, koVertex, [s.prisoners EXCEPT ![c] = @ - Cardinality(removed)])
  BY <1>9 DEF Restored, left
<1> HIDE DEF back
<1> QED
  BY <1>7, <1>8, <1>10 DEF Shown, removed, put

\* Recording a move that can be taken back keeps the invariant.
LEMMA RecordedMove ==
    ASSUME IInv, NEW m \in PlayedMoves, Recorded(m), Shown' \in Positions,
           Restored(Shown', m, koVertex) = Shown
    PROVE  IInv'
<1>0. PICK n : n = Len(moves)
  OBVIOUS
<1>1. /\ Shown \in Positions /\ past \in Seq(Positions) /\ moves \in Seq(PlayedMoves)
      /\ koStack \in Seq(Points \cup {NoKo}) /\ koVertex \in Points \cup {NoKo}
      /\ Len(moves) = n /\ Len(koStack) = n /\ Len(past) = n /\ n \in Nat
  BY <1>0, ShownParts DEF IInv, Types, Positions
<1>2. moves' = Append(moves, m) /\ koStack' = Append(koStack, koVertex) /\ past' = Append(past, Shown)
  BY DEF Recorded
<1>3. Types'
  BY <1>1, <1>2 DEF Types
<1>4. /\ Len(moves') = n + 1
      /\ moves'[n + 1] = m /\ koStack'[n + 1] = koVertex /\ past'[n + 1] = Shown
      /\ \A i \in 1..n : moves'[i] = moves[i] /\ koStack'[i] = koStack[i] /\ past'[i] = past[i]
  BY <1>1, <1>2
<1>5. \A i \in 1..n : At(i + 1)' = At(i + 1)
  BY <1>1, <1>4 DEF At
<1>6. At(n + 2)' = Shown'
  BY <1>1, <1>4 DEF At
<1>7. ASSUME NEW i \in 1..Len(moves')
      PROVE  past'[i] = Restored(At(i + 1)', moves'[i], koStack'[i])
  <2>1. CASE i \in 1..n
    BY <1>1, <1>4, <1>5, <2>1 DEF IInv, History
  <2>2. CASE i = n + 1
    BY <1>1, <1>4, <1>6, <2>2
  <2> QED
    BY <1>1, <1>4, <2>1, <2>2
<1>8. History'
  BY <1>7 DEF History
<1> QED
  BY <1>3, <1>8 DEF IInv
\* Taking moves back in turn leads to the position before the first of them.
LEMMA UnwoundIsPast ==
    ASSUME IInv, NEW n \in 1..Len(moves)
    PROVE  Unwound(n) = past[Len(moves) + 1 - n]
<1> DEFINE len == Len(moves)
           step(s, k) == Restored(s, moves[len + 1 - k], koStack[len + 1 - k])
           Loop(f) == f = [k \in 0..n |-> IF k = 0 THEN Shown ELSE step(f[k - 1], k)]
           goal == [k \in 0..n |-> At(len + 1 - k)]
           f == CHOOSE f : Loop(f)
<1>1. Unwound(n) = f[n]
  BY DEF Unwound
<1>2. len \in Nat /\ n \in Nat /\ n <= len /\ n > 0
  BY DEF IInv, Types
<1> HIDE DEF step
<1>3. goal[0] = Shown
  BY <1>2 DEF At
<1>4. ASSUME NEW k \in 1..n PROVE goal[k] = step(goal[k - 1], k)
  <2>1. PICK i \in 1..len : i = len + 1 - k
    BY <1>2
  <2>2. past[i] = Restored(At(i + 1), moves[i], koStack[i])
    BY DEF IInv, History
  <2>3. At(i) = past[i]
    BY <1>2 DEF At
  <2>4. k \in 0..n /\ k - 1 \in 0..n /\ i + 1 = len + 1 - (k - 1)
    BY <1>2, <2>1
  <2>5. goal[k] = At(i) /\ goal[k - 1] = At(i + 1)
    BY <2>1, <2>4
  <2> HIDE DEF goal
  <2> QED
    BY <2>1, <2>2, <2>3, <2>5 DEF step
<1>5. goal = [k \in 0..n |-> goal[k]]
  OBVIOUS
<1> HIDE DEF goal
<1>6. Loop(goal)
  <2>1. \A k \in 0..n : goal[k] = IF k = 0 THEN Shown ELSE step(goal[k - 1], k)
    BY <1>2, <1>3, <1>4
  <2>2. [k \in 0..n |-> goal[k]] = [k \in 0..n |-> IF k = 0 THEN Shown ELSE step(goal[k - 1], k)]
    BY <2>1, Zenon
  <2> QED
    BY <1>5, <2>2
<1>7. Loop(f)
  BY <1>6
<1> HIDE DEF f
<1>8. f[0] = Shown /\ \A k \in 1..n : f[k] = step(f[k - 1], k)
  BY <1>2, <1>7
<1> HIDE DEF Loop
<1>9. f[n] = goal[n]
  <2>1. GoOnAlike(f, goal, n)
    BY <1>4, <1>8 DEF GoOnAlike
  <2> QED
    BY <1>2, <1>3, <1>8, <2>1, Alike
<1>10. goal[n] = past[len + 1 - n]
  BY <1>2 DEF goal, At
<1> QED
  BY <1>1, <1>9, <1>10 DEF f, Loop, step

LEMMA MoversAreColors == currentPlayer \in Colors
BY DEF currentPlayer, Colors

\* A move of the player or of the engine.
LEMMA StepMove ==
    ASSUME IInv, NEW v \in Points, NEW c \in Colors, Legal(Shown, v, c, FALSE), forcePlay(v, c)
    PROVE  IInv' /\ Shown' = After(Shown, v, c) /\ past' = Append(past, Shown)
<1> DEFINE removed == Captured(Placed(grid, v, c), v, c)
           m == [vertex |-> v, color |-> c, removed |-> removed]
<1>1. grid \in Stones /\ captures \in [Colors -> Nat] /\ Types
  BY ShownParts DEF IInv, Types, Positions
<1>2. /\ Shown' = After(Shown, v, c) /\ Recorded(m)
      /\ grid' \in Stones /\ koVertex' \in Points \cup {NoKo}
  <2> HIDE DEF Stones
  <2> QED
    BY <1>1, MovePlayed
<1>3. removed \in SUBSET Points /\ Cardinality(removed) \in Nat
  <2> HIDE DEF Stones
  <2> QED
    BY <1>1, MoveMade
<1>4. grid[v] = Empty /\ grid' = LeftBy(grid, v, c) /\ captures' = [captures EXCEPT ![c] = @ + Cardinality(removed)]
  <2>1. capturedNeighbors(Placed(grid, v, c), v, c) = removed
    BY CapturedIsCaptured
  <2> HIDE DEF removed
  <2> QED
    BY <2>1 DEF forcePlay, Placed, LeftBy, removed
<1>5. Shown'.stones = grid' /\ Shown'.prisoners = captures' /\ Shown' = Position(grid', koVertex', captures')
  BY DEF Shown, Position
<1>6. Shown' \in Positions
  <2>1. captures' \in [Colors -> Nat]
    BY <1>1, <1>3, <1>4
  <2> QED
    BY <1>2, <1>5, <2>1, ShownParts
<1>7. Restored(Shown', m, koVertex) = Shown
  <2>1. PICK s : s = Shown'
    OBVIOUS
  <2>2. s.stones = LeftBy(grid, v, c) /\ s.prisoners = [captures EXCEPT ![c] = @ + Cardinality(removed)]
    BY <1>4, <1>5, <2>1
  <2>3. Restored(s, m, koVertex) = Shown
    BY <1>1, <1>4, <2>2, MoveRestored
  <2> QED
    BY <2>1, <2>3
<1>8. m \in PlayedMoves
  BY <1>3 DEF PlayedMoves
<1> HIDE DEF m
<1>9. IInv'
  BY <1>2, <1>6, <1>7, <1>8, RecordedMove
<1>10. past' = Append(past, Shown)
  BY <1>2 DEF Recorded
<1> QED
  BY <1>2, <1>9, <1>10

LEMMA StepPass ==
    ASSUME IInv, pass
    PROVE  IInv' /\ Shown' = Passed(Shown) /\ past' = Append(past, Shown)
<1> DEFINE m == [vertex |-> NoMove, color |-> currentPlayer, removed |-> {}]
<1>1. /\ Recorded(m) /\ koVertex' = NoKo /\ grid' = grid /\ captures' = captures
      /\ past' = Append(past, Shown)
  BY DEF pass, Recorded
<1>2. Shown' = Passed(Shown) /\ Restored(Shown', m, koVertex) = Shown
  BY <1>1 DEF Shown, Position, Passed, Restored
<1>3. Shown' \in Positions
  BY <1>1 DEF IInv, Types, Positions, Shown, Position
<1>4. m \in PlayedMoves
  BY MoversAreColors DEF PlayedMoves
<1> HIDE DEF m
<1> QED
  BY <1>1, <1>2, <1>3, <1>4, RecordedMove

LEMMA FirstPart ==
    ASSUME NEW S, NEW s \in Seq(S), NEW k \in 0..Len(s)
    PROVE  /\ SubSeq(s, 1, k) \in Seq(S) /\ Len(SubSeq(s, 1, k)) = k
           /\ \A i \in 1..k : SubSeq(s, 1, k)[i] = s[i]
OBVIOUS

\* Moves taken back.
LEMMA StepBack ==
    ASSUME IInv, NEW n \in Nat, popLast(n)
    PROVE  /\ IInv' /\ n <= Len(past) /\ Shown' = past[Len(past) + 1 - n]
           /\ past' = SubSeq(past, 1, Len(past) - n)
<1>0. PICK len, rest : len = Len(moves) /\ rest = len - n
  OBVIOUS
<1>1. /\ past \in Seq(Positions) /\ moves \in Seq(PlayedMoves)
      /\ koStack \in Seq(Points \cup {NoKo})
      /\ Len(koStack) = len /\ Len(past) = len /\ Len(moves) = len /\ len \in Nat
      /\ n \in 1..len /\ rest \in 0..len /\ rest + 1 \in 1..len /\ rest < len
  BY <1>0 DEF IInv, Types, popLast
<1>2. Unwound(n) = past[rest + 1]
  <2>1. len + 1 - n = rest + 1
    BY <1>0, <1>1
  <2> QED
    BY <1>1, <2>1, UnwoundIsPast
<1>3. past[rest + 1] \in Positions
  BY <1>1
<1>4. Shown' = past[rest + 1]
  <2>1. /\ grid' = past[rest + 1].stones /\ koVertex' = past[rest + 1].ko
        /\ captures' = past[rest + 1].prisoners
    BY <1>2 DEF popLast
  <2>2. Shown' = Position(grid', koVertex', captures')
    BY DEF Shown
  <2> QED
    BY <1>3, <2>1, <2>2, ShownParts
<1>5. /\ moves' = SubSeq(moves, 1, rest) /\ koStack' = SubSeq(koStack, 1, rest)
      /\ past' = SubSeq(past, 1, rest)
  BY <1>0, <1>1 DEF popLast
<1>6. /\ moves' \in Seq(PlayedMoves) /\ koStack' \in Seq(Points \cup {NoKo}) /\ past' \in Seq(Positions)
      /\ Len(moves') = rest /\ Len(koStack') = rest /\ Len(past') = rest
      /\ \A i \in 1..rest : moves'[i] = moves[i] /\ koStack'[i] = koStack[i] /\ past'[i] = past[i]
  <2>1. moves' \in Seq(PlayedMoves) /\ Len(moves') = rest /\ \A i \in 1..rest : moves'[i] = moves[i]
    BY <1>1, <1>5, FirstPart
  <2>2. /\ koStack' \in Seq(Points \cup {NoKo}) /\ Len(koStack') = rest
        /\ \A i \in 1..rest : koStack'[i] = koStack[i]
    BY <1>1, <1>5, FirstPart
  <2>3. past' \in Seq(Positions) /\ Len(past') = rest /\ \A i \in 1..rest : past'[i] = past[i]
    BY <1>1, <1>5, FirstPart
  <2> QED
    BY <2>1, <2>2, <2>3
<1>7. Types'
  BY <1>3, <1>4, <1>6 DEF Types
<1>8. \A i \in 1..rest : At(i + 1)' = At(i + 1)
  BY <1>1, <1>4, <1>6 DEF At
<1>9. \A i \in 1..Len(moves') : past'[i] = Restored(At(i + 1)', moves'[i], koStack'[i])
  <2> SUFFICES ASSUME NEW i \in 1..rest PROVE past'[i] = Restored(At(i + 1)', moves'[i], koStack'[i])
    BY <1>6
  <2>1. i \in 1..Len(moves)
    BY <1>1
  <2>2. past[i] = Restored(At(i + 1), moves[i], koStack[i])
    BY <2>1 DEF IInv, History
  <2> QED
    BY <1>6, <1>8, <2>2
<1>10. History'
  BY <1>9 DEF History
<1>11. rest + 1 = Len(past) + 1 - n /\ rest = Len(past) - n
  BY <1>0, <1>1
<1> QED
  BY <1>1, <1>4, <1>5, <1>7, <1>10, <1>11 DEF IInv

\* An empty board.
LEMMA EmptyBoard ==
    /\ Init => IInv /\ Shown.ko = NoKo /\ Settled(Shown.stones) /\ past = <<>>
    /\ clear => IInv' /\ Shown' = Start /\ past' = <<>>
<1> DEFINE p == [v \in Points |-> Empty]
           nobody == [c \in Colors |-> 0]
<1>1. Position(p, NoKo, nobody) \in Positions
  BY DEF Position, Positions, Stones
<1>2. Settled(p)
  BY DEF Settled
<1> HIDE DEF p, nobody
<1>3. ASSUME Init PROVE IInv /\ Shown.ko = NoKo /\ Settled(Shown.stones) /\ past = <<>>
  <2>1. Shown = Position(p, NoKo, nobody) /\ moves = <<>> /\ koStack = <<>> /\ past = <<>>
    BY <1>3 DEF Init, Shown, p, nobody
  <2>2. Shown.ko = NoKo /\ Shown.stones = p
    BY <2>1 DEF Position
  <2>3. Types /\ History
    BY <1>1, <2>1 DEF Types, History
  <2> QED
    BY <1>2, <2>1, <2>2, <2>3 DEF IInv
<1>4. ASSUME clear PROVE IInv' /\ Shown' = Start /\ past' = <<>>
  <2>1. Shown' = Position(p, NoKo, nobody) /\ moves' = <<>> /\ koStack' = <<>> /\ past' = <<>>
    BY <1>4 DEF clear, Shown, p, nobody
  <2>2. Start = Position(p, NoKo, nobody)
    BY DEF Start, p, nobody
  <2>3. Types' /\ History'
    BY <1>1, <2>1 DEF Types, History
  <2> QED
    BY <2>1, <2>2, <2>3 DEF IInv
<1> QED
  BY <1>3, <1>4

\* The rules GoGame goes by are those of this board.
LEMMA SameRules ==
    /\ Game!Points = Points /\ Game!Colors = Colors /\ Game!NoKo = NoKo /\ Game!Start = Start
    /\ \A s : Game!Passed(s) = Passed(s)
    /\ \A s, v, c : Game!After(s, v, c) = After(s, v, c)
    /\ \A s, v, c : Game!Legal(s, v, c, FALSE) <=> Legal(s, v, c, FALSE)
    /\ \A p : Game!Settled(p) <=> Settled(p)
<1>1. /\ Game!Points = Points /\ Game!Colors = Colors /\ Game!NoKo = NoKo /\ Game!Empty = Empty
      /\ \A c : Game!Opponent(c) = Opponent(c)
      /\ \A st, ko, pr : Game!Position(st, ko, pr) = Position(st, ko, pr)
      /\ \A s : Game!Passed(s) = Passed(s)
  BY DEF Game!Points, Points, Game!Colors, Colors, Game!NoKo, NoKo, Game!Empty, Empty, Game!Opponent,
         Opponent, Game!Position, Position, Game!Passed, Passed
<1>2. \A v, w : Game!Distance(v, w) = Distance(v, w)
  BY DEF Game!Distance, Distance, Game!Row, Row, Game!Col, Col
<1>3. Game!Adj = Adj
  BY <1>1, <1>2 DEF Game!Adj, Adj
<1>4. ASSUME NEW p, NEW v PROVE Game!Group(p, v) = Group(p, v)
  BY DEF Game!Group, Group, Game!Points, Points, Game!Adj, Adj, Game!Distance, Distance,
         Game!Row, Row, Game!Col, Col
<1>5. \A p, s, c : Game!Put(p, s, c) = Put(p, s, c)
  BY <1>1 DEF Game!Put, Put
<1>6. \A p, g : Game!Around(p, g) = Around(p, g)
  BY <1>1, <1>3 DEF Game!Around, Around
<1>7. \A p, v : Game!Liberties(p, v) = Liberties(p, v)
  BY <1>4, <1>6 DEF Game!Liberties, Liberties
<1>8. \A p, v, c : Game!Captured(p, v, c) = Captured(p, v, c)
  BY <1>1, <1>3, <1>4, <1>7 DEF Game!Captured, Captured
<1>9. \A t : Game!TheOne(t) = TheOne(t) /\ Game!Cardinality(t) = Cardinality(t)
  <2> TAKE t
  <2>1. Game!TheOne(t) = TheOne(t)
    BY DEF Game!TheOne, TheOne
  <2>2. Game!Cardinality(t) = Cardinality(t)
    BY DEF Game!Cardinality, Cardinality
  <2> QED
    BY <2>1, <2>2
<1>10. ASSUME NEW s, NEW v, NEW c PROVE Game!After(s, v, c) = After(s, v, c)
  <2> DEFINE put == Put(s.stones, {v}, c)
             taken == Captured(put, v, c)
             left == Put(put, taken, Empty)
             own == Group(left, v)
             libs == Around(left, own)
             gput == Game!Put(s.stones, {v}, c)
             gtaken == Game!Captured(gput, v, c)
             gleft == Game!Put(gput, gtaken, Game!Empty)
             gown == Game!Group(gleft, v)
             glibs == Game!Around(gleft, gown)
  <2>1. gput = put
    BY <1>5
  <2>2. gtaken = taken
    BY <1>8, <2>1
  <2>3. gleft = left
    BY <1>1, <1>5, <2>1, <2>2
  <2>4. gown = own
    BY <1>4, <2>3
  <2>5. glibs = libs
    BY <1>6, <2>3, <2>4
  <2>6. Game!After(s, v, c) =
          IF glibs = {}
          THEN Game!Position(Game!Put(gleft, gown, Game!Empty), Game!NoKo,
                             [s.prisoners EXCEPT ![Game!Opponent(c)] = @ + Game!Cardinality(gown)])
          ELSE Game!Position(gleft,
                             IF Game!Cardinality(gtaken) = 1 /\ gown = {v} /\ glibs = gtaken
                             THEN Game!TheOne(gtaken) ELSE Game!NoKo,
                             [s.prisoners EXCEPT ![c] = @ + Game!Cardinality(gtaken)])
    BY DEF Game!After
  <2>7. After(s, v, c) =
          IF libs = {}
          THEN Position(Put(left, own, Empty), NoKo,
                        [s.prisoners EXCEPT ![Opponent(c)] = @ + Cardinality(own)])
          ELSE Position(left,
                        IF Cardinality(taken) = 1 /\ own = {v} /\ libs = taken
                        THEN TheOne(taken) ELSE NoKo,
                        [s.prisoners EXCEPT ![c] = @ + Cardinality(taken)])
    BY DEF After
  <2> HIDE DEF put, taken, left, own, libs, gput, gtaken, gleft, gown, glibs
  <2> QED
    BY <1>1, <1>5, <1>9, <2>1, <2>2, <2>3, <2>4, <2>5, <2>6, <2>7
<1>11. \A s, v, c : Game!Legal(s, v, c, FALSE) <=> Legal(s, v, c, FALSE)
  BY <1>1, <1>10 DEF Game!Legal, Legal
<1>12. \A p : Game!Settled(p) <=> Settled(p)
  BY <1>1, <1>7 DEF Game!Settled, Settled
<1>13. Game!Start = Start
  BY <1>1 DEF Game!Start, Start
<1> QED
  BY <1>1, <1>10, <1>11, <1>12, <1>13

LEMMA StepNext == IInv /\ [Next]_vars => IInv' /\ [Game!GameNext]_(Game!gameVars)
<1> SUFFICES ASSUME IInv, [Next]_vars PROVE IInv' /\ [Game!GameNext]_(Game!gameVars)
  OBVIOUS
<1>1. ASSUME NEW v \in Tried, play(v) \/ EngineMove(v)
      PROVE  IInv' /\ Game!Move
  <2>0. PICK c \in Colors : c = currentPlayer
    BY MoversAreColors
  <2>1. v \in Points
    BY BoundsAssumption
  <2>2. forcePlay(v, c) /\ Legal(Shown, v, c, FALSE)
    <3>1. LegalByTheRules
      BY TypesAreTypeOK, LegalMoves DEF IInv, TypeOK, Stones
    <3> QED
      BY <1>1, <2>0, <2>1, <3>1 DEF play, EngineMove, LegalByTheRules
  <2>3. IInv' /\ Shown' = After(Shown, v, c) /\ past' = Append(past, Shown)
    BY <2>1, <2>2, StepMove
  <2> QED
    BY <2>1, <2>2, <2>3, SameRules DEF Game!Move
<1>2. ASSUME pass PROVE IInv' /\ Game!Move
  BY <1>2, StepPass, SameRules DEF Game!Move
<1>3. ASSUME refuse PROVE IInv' /\ Game!TakeBack(1)
  BY <1>3, StepBack DEF refuse, Game!TakeBack
<1>4. ASSUME popTwo PROVE IInv' /\ (Game!TakeBack(1) \/ Game!TakeBack(2))
  <2>1. PICK n \in {1, 2} : popLast(n)
    BY <1>4 DEF popTwo
  <2>2. /\ IInv' /\ n <= Len(past) /\ Shown' = past[Len(past) + 1 - n]
        /\ past' = SubSeq(past, 1, Len(past) - n)
    BY <2>1, StepBack
  <2> QED
    BY <2>2 DEF Game!TakeBack
<1>5. ASSUME clear PROVE IInv' /\ Game!SetUp
  BY <1>5, EmptyBoard, SameRules DEF Game!SetUp
<1>6. ASSUME UNCHANGED vars PROVE IInv' /\ UNCHANGED Game!gameVars
  <2>1. /\ UNCHANGED grid /\ UNCHANGED moves /\ UNCHANGED koVertex /\ UNCHANGED koStack
        /\ UNCHANGED captures /\ UNCHANGED past
    BY <1>6 DEF vars
  <2>2. UNCHANGED Shown
    BY <2>1 DEF Shown
  <2>3. Types' /\ \A i : At(i)' = At(i)
    BY <2>1, <2>2 DEF IInv, Types, At
  <2>4. History'
    BY <2>1, <2>3 DEF IInv, History
  <2> QED
    BY <2>1, <2>2, <2>3, <2>4 DEF IInv, Game!gameVars
<1> QED
  BY <1>1, <1>2, <1>3, <1>4, <1>5, <1>6 DEF Next, Game!GameNext

----------------------------------------------------------------------------
(* Theorems about BoardState *)

\* The record of the moves always takes them back, for every board and every game.
THEOREM Invariance == Spec => []IInv
<1>1. Init => IInv
  BY EmptyBoard
<1>2. IInv /\ [Next]_vars => IInv'
  BY StepNext
<1> QED
  BY <1>1, <1>2, PTL DEF Spec

\* Every variable keeps its type.
THEOREM TypeCorrectness == Spec => []TypeOK
BY Invariance, TypesAreTypeOK, PTL DEF IInv

\* On a board of any size the app allows exactly the moves the rules allow: isLegal()
\* refuses neither the player's legal moves nor lets an illegal one through.
THEOREM LegalEverywhere == Spec => []LegalByTheRules
<1>1. IInv => LegalByTheRules
  BY TypesAreTypeOK, LegalMoves DEF IInv, TypeOK, Stones
<1> QED
  BY <1>1, Invariance, PTL

\* The app's board implements the game of GoGame: captures, ko and prisoners follow
\* the rules, and popLast() restores the position before the move, ko and all.
THEOREM BoardImplemented == Spec => GameSpec
<1>1. Init => Game!GameInit
  BY EmptyBoard, SameRules DEF Game!GameInit
<1>2. IInv /\ [Next]_vars => [Game!GameNext]_(Game!gameVars)
  BY StepNext
<1> QED
  BY <1>1, <1>2, Invariance, PTL DEF Spec, GameSpec, Game!GameSpec
----------------------------------------------------------------------------
(* KataBoard: lists of stones *)

\* What is walked is the whole list, once.
LEMMA RingWalk ==
    ASSUME NEW g, NEW S \in SUBSET Points, NEW v \in S, Cyclic(g.next_in_chain, S)
    PROVE  Circle(Ring(g, v), g.next_in_chain, S, v)
<1> DEFINE next == g.next_in_chain
           n == XSize * YSize
           list == Turns(n)
           walk(s, k) == IF next[Last(s)] = v THEN s ELSE Append(s, next[Last(s)])
           Loop(f) == f = [k \in 0..n |-> IF k = 0 THEN <<v>> ELSE walk(f[k - 1], list[k])]
           Walks(k) == {p \in Seq(S) : Path(p, next, S, v) /\ (next[p[Len(p)]] = v \/ Len(p) = k + 1)}
           J == [k \in 0..n |-> Walks(k)]
           f == CHOOSE f : Loop(f)
<1>1. n \in Nat /\ Len(list) = n
  BY BoardAssumption DEF Turns
<1>2. Ring(g, v) = f[n]
  <2>1. Ring(g, v) = (CHOOSE e : e = [k \in 0..Len(list) |-> IF k = 0 THEN <<v>> ELSE walk(e[k - 1], list[k])])[Len(list)]
    BY DEF Ring, InTurn
  <2> HIDE DEF list, n, walk
  <2> QED
    BY <1>1, <2>1
<1>3. <<v>> \in Walks(0)
  BY DEF Path, Distinct
<1>4. ASSUME NEW k \in 1..n, NEW p \in Walks(k - 1) PROVE walk(p, list[k]) \in Walks(k)
  <2>1. Path(p, next, S, v) /\ p \in Seq(S) /\ Len(p) \in Nat \ {0} /\ (next[p[Len(p)]] = v \/ Len(p) = k)
    BY <1>1, <1>4 DEF Path
  <2>2. CASE next[p[Len(p)]] = v
    BY <2>1, <2>2 DEF Last
  <2>3. CASE next[p[Len(p)]] # v
    <3> DEFINE q == Append(p, next[p[Len(p)]])
    <3>1. Path(q, next, S, v)
      BY <2>1, <2>3, PathGrows
    <3>2. q \in Seq(S)
      BY <3>1 DEF Path
    <3>3. Len(q) = k + 1
      BY <2>1, <2>3
    <3>4. walk(p, list[k]) = q
      BY <2>3 DEF Last
    <3> HIDE DEF q
    <3> QED
      BY <3>1, <3>2, <3>3, <3>4
  <2> QED
    BY <2>2, <2>3
<1>5. ASSUME NEW k \in 1..n, NEW p \in J[k - 1] PROVE walk(p, list[k]) \in J[k]
  <2>1. k - 1 \in 0..n /\ k \in 0..n
    BY <1>1
  <2> HIDE DEF Walks, walk, list, n
  <2> QED
    BY <1>4, <1>5, <2>1
<1>6. <<v>> \in J[0]
  <2> HIDE DEF Walks
  <2> QED
    BY <1>1, <1>3
<1>7. J[n] = Walks(n)
  BY <1>1
<1> HIDE DEF J, Walks, walk, list, n
<1>8. \E h : Loop(h)
  <2> DEFINE U == UNION {J[k] : k \in 0..n}
             step == [x \in (1..n) \X U |-> walk(x[2], list[x[1]])]
  <2>1. \A k \in 1..n : \A p \in J[k - 1] : step[<<k, p>>] = walk(p, list[k]) /\ step[<<k, p>>] \in J[k]
    <3> TAKE k \in 1..n
    <3> TAKE p \in J[k - 1]
    <3>1. k - 1 \in 0..n
      BY <1>1
    <3>2. <<k, p>> \in (1..n) \X U
      BY <3>1
    <3>3. step[<<k, p>>] = walk(p, list[k])
      BY <3>2
    <3> HIDE DEF step
    <3> QED
      BY <1>5, <3>3
  <2> HIDE DEF step, U
  <2>2. PICK h : LoopOf(h, n, <<v>>, step) /\ \A k \in 0..n : h[k] \in J[k]
    <3>1. \A k \in 1..n : \A p \in J[k - 1] : step[<<k, p>>] \in J[k]
      BY <2>1
    <3> QED
      BY <1>1, <1>6, <3>1, Looped
  <2>3. \A k \in 0..n : (IF k = 0 THEN <<v>> ELSE step[<<k, h[k - 1]>>])
                        = (IF k = 0 THEN <<v>> ELSE walk(h[k - 1], list[k]))
    <3> TAKE k \in 0..n
    <3>1. CASE k # 0
      <4>1. k \in 1..n /\ k - 1 \in 0..n
        BY <1>1, <3>1
      <4> QED
        BY <2>1, <2>2, <4>1
    <3> QED
      BY <3>1
  <2>4. Loop(h)
    <3>1. [k \in 0..n |-> IF k = 0 THEN <<v>> ELSE step[<<k, h[k - 1]>>]]
          = [k \in 0..n |-> IF k = 0 THEN <<v>> ELSE walk(h[k - 1], list[k])]
      BY <2>3, Zenon
    <3> QED
      BY <2>2, <3>1 DEF LoopOf
  <2> QED
    BY <2>4
<1>9. Loop(f)
  BY <1>8
<1> HIDE DEF f
<1>10. f[0] = <<v>> /\ \A k \in 1..n : f[k] = walk(f[k - 1], list[k])
  <2>1. \A k \in 0..n : f[k] = IF k = 0 THEN <<v>> ELSE walk(f[k - 1], list[k])
    BY <1>9
  <2> QED
    BY <1>1, <2>1
<1>11. f[n] \in Walks(n)
  <2>1. GoesOn(f, J, n)
    BY <1>5, <1>10 DEF GoesOn
  <2> QED
    BY <1>1, <1>6, <1>7, <1>10, <2>1, LoopEnds
<1>12. Path(f[n], next, S, v) /\ next[f[n][Len(f[n])]] = v
  <2>1. Path(f[n], next, S, v) /\ (next[f[n][Len(f[n])]] = v \/ Len(f[n]) = n + 1)
    BY <1>11 DEF Walks
  <2>2. Len(f[n]) <= n
    BY <2>1, PathLength DEF n
  <2> QED
    BY <1>1, <2>1, <2>2
<1> QED
  BY <1>2, <1>12, PathCloses
----------------------------------------------------------------------------
(* The parts of a board *)

Boards ==
    [colors : Stones, chain_head : [Points -> Points \cup {NoLoc}],
     next_in_chain : [Points -> Points \cup {NoLoc}],
     libs : [Points -> Int], locs : [Points -> Int], ko_loc : Points \cup {NoLoc},
     captures : [Colors -> Int], hash : SUBSET (Points \X Colors)]

\* The stones that have a head, and those with the head h.
OnList(g)     == {x \in Points : g.colors[x] # Empty /\ g.chain_head[x] # NoLoc}
Members(g, h) == {x \in Points : g.colors[x] # Empty /\ g.chain_head[x] = h}

\* The stones with the head h are one circular list of h's colour.
ListOf(g, h) ==
    /\ h \in Members(g, h)
    /\ \A x \in Members(g, h) : g.colors[x] = g.colors[h]
    /\ Cyclic(g.next_in_chain, Members(g, h))
    /\ g.locs[h] = Cardinality(Members(g, h))

\* Every head has its list, ...
Linked(g) == \A h \in Points : Members(g, h) # {} => ListOf(g, h)

\* ... the number of its liberties (one more when a stone that has just been put
\* still has to be taken into account), ...
Counted(g, owing) ==
    \A h \in Points : Members(g, h) # {} =>
        g.libs[h] = Cardinality(Around(g.colors, Members(g, h))) + IF h \in owing THEN 1 ELSE 0

\* ... and all the stones of a group.
Grouped(g) == \A h \in Points : \A x \in Members(g, h) : Members(g, h) = Group(g.colors, x)

Keys(p)   == {<<v, p[v]>> : v \in {v \in Points : p[v] # Empty}}
Hashed(g) == g.hash = Keys(g.colors)

LEMMA NoLocIsNoPoint == NoLoc \notin Points
BY BoardAssumption DEF NoLoc, NoKo, Points

LEMMA BoardParts ==
    ASSUME NEW g \in Boards
    PROVE  /\ g.colors \in Stones
           /\ g.chain_head \in [Points -> Points \cup {NoLoc}]
           /\ g.next_in_chain \in [Points -> Points \cup {NoLoc}]
           /\ g.libs \in [Points -> Int] /\ g.locs \in [Points -> Int]
           /\ g.ko_loc \in Points \cup {NoLoc} /\ g.captures \in [Colors -> Int]
           /\ g.hash \in SUBSET (Points \X Colors)
BY DEF Boards

LEMMA MembersSets ==
    ASSUME NEW g, NEW h
    PROVE  Members(g, h) \in SUBSET Points /\ OnList(g) \in SUBSET Points
BY DEF Members, OnList

\* Every stone that has a head is in a list.
LEMMA StoneOnList ==
    ASSUME NEW g \in Boards, Linked(g), NEW x \in Points, g.colors[x] # Empty, g.chain_head[x] # NoLoc
    PROVE  LET h == g.chain_head[x] IN
             /\ h \in Points /\ x \in Members(g, h) /\ ListOf(g, h)
             /\ g.colors[h] = g.colors[x] /\ g.chain_head[h] = h
<1>1. g.chain_head[x] \in Points
  BY BoardParts
<1>2. x \in Members(g, g.chain_head[x])
  BY DEF Members
<1>3. ListOf(g, g.chain_head[x])
  BY <1>1, <1>2 DEF Linked
<1> QED
  BY <1>1, <1>2, <1>3 DEF ListOf, Members

\* The neighbours in the order of the code.
LEMMA AdjSeqIsAdj ==
    ASSUME NEW v \in Points
    PROVE  /\ AdjSeq[v] \in Seq(Points) /\ Len(AdjSeq[v]) \in 0..4
           /\ \A w : w \in Adj[v] <=> \E k \in 1..Len(AdjSeq[v]) : AdjSeq[v][k] = w
<1> DEFINE a == Near(Row(v) > 0, v - XSize)
           c == Near(Col(v) > 0, v - 1)
           d == Near(Col(v) < XSize - 1, v + 1)
           e == Near(Row(v) < YSize - 1, v + XSize)
<1>1. AdjSeq[v] = a \o c \o d \o e
  BY DEF AdjSeq, Near
<1>2. /\ a \in Seq(Points) /\ \A x : Has(a, x) <=> Row(v) > 0 /\ x = v - XSize
      /\ c \in Seq(Points) /\ \A x : Has(c, x) <=> Col(v) > 0 /\ x = v - 1
      /\ d \in Seq(Points) /\ \A x : Has(d, x) <=> Col(v) < XSize - 1 /\ x = v + 1
      /\ e \in Seq(Points) /\ \A x : Has(e, x) <=> Row(v) < YSize - 1 /\ x = v + XSize
  <2>1. /\ (Row(v) > 0) \in BOOLEAN /\ (Row(v) < YSize - 1) \in BOOLEAN
        /\ (Col(v) > 0) \in BOOLEAN /\ (Col(v) < XSize - 1) \in BOOLEAN
    OBVIOUS
  <2>2. /\ Row(v) > 0 => v - XSize \in Points
        /\ Row(v) < YSize - 1 => v + XSize \in Points
        /\ Col(v) > 0 => v - 1 \in Points
        /\ Col(v) < XSize - 1 => v + 1 \in Points
    BY AdjacentPoints
  <2> QED
    BY <2>1, <2>2, NearPoints
<1>3. Len(a) \in 0..1 /\ Len(c) \in 0..1 /\ Len(d) \in 0..1 /\ Len(e) \in 0..1
  BY DEF Near
<1> HIDE DEF a, c, d, e
<1>4. Len(a \o c \o d \o e) \in 0..4
  <2>1. a \o c \in Seq(Points) /\ Len(a \o c) = Len(a) + Len(c)
    BY <1>2, ConcatProperties
  <2>2. (a \o c) \o d \in Seq(Points) /\ Len((a \o c) \o d) = Len(a \o c) + Len(d)
    BY <1>2, <2>1, ConcatProperties
  <2>3. Len(((a \o c) \o d) \o e) = Len((a \o c) \o d) + Len(e)
    BY <1>2, <2>2, ConcatProperties
  <2>4. Len(a \o c \o d \o e) = Len(a) + Len(c) + Len(d) + Len(e)
    BY <2>1, <2>2, <2>3
  <2>5. \A i, j, k, l \in 0..1 : i + j + k + l \in 0..4
    OBVIOUS
  <2> QED
    BY <1>3, <2>4, <2>5
<1>5. /\ AdjSeq[v] \in Seq(Points)
      /\ \A w : Has(AdjSeq[v], w) <=> Has(a, w) \/ Has(c, w) \/ Has(d, w) \/ Has(e, w)
  BY <1>1, <1>2, FourParts
<1>6. \A w : w \in Adj[v] <=> Has(AdjSeq[v], w)
  BY <1>2, <1>5, AdjacentPoints
<1>7. DOMAIN AdjSeq[v] = 1..Len(AdjSeq[v])
  BY <1>5, LenProperties
<1> QED
  BY <1>1, <1>4, <1>5, <1>6, <1>7 DEF Has

\* What is counted while the stones of a list join a chain: the liberties that the
\* chain does not have yet, each of them once.
LEMMA LibertiesJoin ==
    ASSUME NEW g \in Boards, NEW head \in Points, NEW c, g.colors[head] = c, c # Empty,
           NEW list \in Seq(Points), \A i \in 1..Len(list) : g.colors[list[i]] = c,
           \A x \in Members(g, head) : g.colors[x] = c
    PROVE  NewLibertiesOf(g, list, head)
             = Cardinality(Around(g.colors, ToSet(list)) \ Around(g.colors, Members(g, head)))
<1> DEFINE n == Len(list)
           M == Members(g, head)
           K(k) == M \cup {list[j] : j \in 1..k}
           T == Around(g.colors, ToSet(list)) \ Around(g.colors, M)
           P == {kw \in (1..n) \X Points :
                   kw[2] \in NewLiberties(Joining(g, list, kw[1] - 1, head), list[kw[1]], head)}
<1>1. n \in Nat /\ \A i \in 1..n : list[i] \in Points
  BY ElementOfSeq
<1>2. ASSUME NEW k \in 0..n, NEW w \in Points
      PROVE  IsLibertyOf(Joining(g, list, k, head), w, head) <=> Adj[w] \cap K(k) # {}
  <2> DEFINE j == Joining(g, list, k, head)
  <2>1. /\ j.colors = g.colors
        /\ \A u \in Points : j.chain_head[u] = IF \E i \in 1..k : list[i] = u THEN head ELSE g.chain_head[u]
    BY DEF Joining, Boards
  <2> HIDE DEF j
  <2>2. Adj[w] \subseteq Points
    BY Symmetric
  <2>3. ASSUME NEW u \in Points
        PROVE  g.colors[u] = c /\ j.chain_head[u] = head <=> u \in K(k)
    BY <1>1, <2>1 DEF Members
  <2> QED
    BY <2>1, <2>2, <2>3 DEF IsLibertyOf, j
<1>3. \A k \in 1..n : \A w \in Points :
        <<k, w>> \in P <=> /\ list[k] \in Adj[w] /\ g.colors[w] = Empty
                           /\ Adj[w] \cap K(k - 1) = {}
  <2> TAKE k \in 1..n
  <2> TAKE w \in Points
  <2>1. k - 1 \in 0..n /\ list[k] \in Points
    BY <1>1
  <2>2. Joining(g, list, k - 1, head).colors = g.colors
    BY DEF Joining, Boards
  <2>3. <<k, w>> \in P <=> /\ w \in Adj[list[k]] /\ g.colors[w] = Empty
                           /\ ~IsLibertyOf(Joining(g, list, k - 1, head), w, head)
    BY <2>2 DEF NewLiberties
  <2>4. IsLibertyOf(Joining(g, list, k - 1, head), w, head) <=> Adj[w] \cap K(k - 1) # {}
    <3> HIDE DEF K
    <3> QED
      BY <1>2, <2>1
  <2>5. w \in Adj[list[k]] <=> list[k] \in Adj[w]
    BY <2>1, Symmetric
  <2> HIDE DEF P, K
  <2> QED
    BY <2>3, <2>4, <2>5
<1>4. P \in SUBSET ((1..n) \X Points) /\ T \in SUBSET Points
  BY DEF Around
<1>5. \A w : w \in ToSet(list) <=> \E i \in 1..n : list[i] = w
  <2>1. DOMAIN list = 1..n
    BY LenProperties
  <2> QED
    BY <2>1 DEF ToSet
<1>6. NewLibertiesOf(g, list, head) = Cardinality(P)
  BY DEF NewLibertiesOf
<1>7. \A x, y \in P : x[2] = y[2] => x = y
  <2> SUFFICES ASSUME NEW k \in 1..n, NEW l \in 1..n, NEW w \in Points, <<k, w>> \in P, <<l, w>> \in P, k < l
               PROVE  FALSE
    <3>1. ASSUME NEW x \in P, NEW y \in P, x[2] = y[2], x # y PROVE FALSE
      <4>1. /\ x[1] \in 1..n /\ y[1] \in 1..n /\ x[2] \in Points
            /\ x = <<x[1], x[2]>> /\ y = <<y[1], x[2]>>
        BY <1>4, <3>1
      <4>2. x[1] # y[1]
        BY <3>1, <4>1
      <4>3. x[1] < y[1] \/ y[1] < x[1]
        BY <1>1, <4>1, <4>2
      <4> HIDE DEF P
      <4> QED
        BY <3>1, <4>1, <4>3
    <3> QED
      BY <3>1
  <2>1. list[k] \in K(l - 1)
    BY <1>1
  <2>2. list[k] \in Adj[w] /\ Adj[w] \cap K(l - 1) = {}
    BY <1>3
  <2> QED
    BY <2>1, <2>2
<1>8. \A w : w \in T <=> \E x \in P : x[2] = w
  <2> TAKE w
  <2>1. ASSUME NEW x \in P, x[2] = w PROVE w \in T
    <3>1. x[1] \in 1..n /\ w \in Points /\ x = <<x[1], w>>
      BY <1>4, <2>1
    <3>2. list[x[1]] \in Adj[w] /\ g.colors[w] = Empty /\ Adj[w] \cap K(x[1] - 1) = {}
      BY <1>3, <2>1, <3>1
    <3>3. Adj[w] \cap M = {}
      BY <3>2
    <3>4. list[x[1]] \in ToSet(list)
      BY <1>5, <3>1
    <3> QED
      BY <3>1, <3>2, <3>3, <3>4 DEF Around
  <2>2. ASSUME w \in T PROVE \E x \in P : x[2] = w
    <3>1. w \in Points /\ g.colors[w] = Empty /\ Adj[w] \cap M = {} /\ Adj[w] \cap ToSet(list) # {}
      BY <2>2 DEF Around
    <3> DEFINE A == {k \in 1..n : list[k] \in Adj[w]}
    <3>2. A \in SUBSET Nat /\ A # {}
      BY <1>5, <3>1
    <3>3. PICK k \in A : \A j \in A : k <= j
      <4> HIDE DEF A
      <4> QED
        BY <3>2, LeastOf
    <3>4. k \in 1..n /\ list[k] \in Adj[w] /\ \A j \in 1..k - 1 : j \in 1..n /\ j \notin A
      BY <1>1, <3>3
    <3>5. Adj[w] \cap K(k - 1) = {}
      BY <3>1, <3>4
    <3>6. <<k, w>> \in P
      BY <1>3, <3>1, <3>4, <3>5
    <3> HIDE DEF P
    <3> QED
      BY <3>6
  <2> HIDE DEF P, T
  <2> QED
    BY <2>1, <2>2
<1> HIDE DEF P, T, n
<1>9. Cardinality(P) = Cardinality(T)
  BY <1>1, <1>4, <1>7, <1>8, PairsCount
<1> QED
  BY <1>6, <1>9 DEF T
----------------------------------------------------------------------------
(* Chains that are merged and taken off *)

\* The board m is g with the chain s merged into the chain l.
Merged(g, m, l, s) ==
    /\ m \in Boards
    /\ m.colors = g.colors /\ m.hash = g.hash /\ m.ko_loc = g.ko_loc /\ m.captures = g.captures
    /\ \A x \in Points : m.chain_head[x] = IF x \in Members(g, s) THEN l ELSE g.chain_head[x]
    /\ \E last \in Members(g, s) :
          /\ g.next_in_chain[last] = s
          /\ \A x \in Points : m.next_in_chain[x] =
                IF x = l THEN s ELSE IF x = last THEN g.next_in_chain[l] ELSE g.next_in_chain[x]
    /\ \A x \in Points : m.locs[x] = g.locs[x] + IF x = l THEN g.locs[s] ELSE 0
    /\ \A x \in Points : m.libs[x] = g.libs[x] + IF x = l
          THEN Cardinality(Around(g.colors, Members(g, s)) \ Around(g.colors, Members(g, l))) ELSE 0

LEMMA RingOfList ==
    ASSUME NEW g \in Boards, NEW h \in Points, ListOf(g, h), NEW v \in Members(g, h)
    PROVE  /\ Circle(Ring(g, v), g.next_in_chain, Members(g, h), v)
           /\ Ring(g, v) \in Seq(Points) /\ Len(Ring(g, v)) \in Nat \ {0}
           /\ ToSet(Ring(g, v)) = Members(g, h)
           /\ Len(Ring(g, v)) = g.locs[h] /\ Cardinality(Members(g, h)) = g.locs[h]
           /\ \A w : w \in Members(g, h) <=> \E i \in 1..Len(Ring(g, v)) : Ring(g, v)[i] = w
<1>1. Circle(Ring(g, v), g.next_in_chain, Members(g, h), v)
  BY MembersSets, RingWalk DEF ListOf
<1>2. /\ Ring(g, v) \in Seq(Members(g, h)) /\ Distinct(Ring(g, v))
      /\ ToSet(Ring(g, v)) = Members(g, h) /\ Cardinality(Members(g, h)) = Len(Ring(g, v))
      /\ Len(Ring(g, v)) \in Nat \ {0}
  BY <1>1 DEF Circle, Path
<1>3. Ring(g, v) \in Seq(Points)
  <2>1. Members(g, h) \subseteq Points
    BY MembersSets
  <2> QED
    BY <1>2, <2>1
<1>4. \A w : w \in Members(g, h) <=> \E i \in 1..Len(Ring(g, v)) : Ring(g, v)[i] = w
  BY <1>2, DistinctLength
<1> QED
  BY <1>1, <1>2, <1>3, <1>4 DEF ListOf

LEMMA Merging ==
    ASSUME NEW g \in Boards, Linked(g), NEW v1 \in Points, NEW v2 \in Points,
           g.colors[v1] # Empty, g.colors[v1] = g.colors[v2],
           g.chain_head[v1] # NoLoc, g.chain_head[v2] # NoLoc, g.chain_head[v1] # g.chain_head[v2]
    PROVE  \E l, s \in {g.chain_head[v1], g.chain_head[v2]} :
              l # s /\ Merged(g, MergeChains(g, v1, v2), l, s)
<1> DEFINE h1 == g.chain_head[v1]
           h2 == g.chain_head[v2]
           l == IF g.locs[h1] < g.locs[h2] THEN h2 ELSE h1
           s == IF l = h1 THEN h2 ELSE h1
           ring == Ring(g, s)
           last == ring[Len(ring)]
           j == Joining(g, ring, Len(ring), l)
           m == MergeChains(g, v1, v2)
<1>1. /\ h1 \in Points /\ ListOf(g, h1) /\ g.colors[h1] = g.colors[v1]
      /\ h2 \in Points /\ ListOf(g, h2) /\ g.colors[h2] = g.colors[v1]
  BY StoneOnList
<1>2. l \in {h1, h2} /\ s \in {h1, h2} /\ l # s
  OBVIOUS
<1>a. m = Spliced(g, ring, l, s)
  BY DEF MergeChains
<1> HIDE DEF l, s, h1, h2, m
<1>3. m = [j EXCEPT !.libs[l] = @ + NewLibertiesOf(g, ring, l), !.locs[l] = @ + g.locs[s],
                    !.next_in_chain[last] = g.next_in_chain[l], !.next_in_chain[l] = s]
  <2> HIDE DEF ring
  <2> QED
    BY <1>a DEF Spliced
<1>4. l \in Points /\ s \in Points /\ ListOf(g, l) /\ ListOf(g, s) /\ g.colors[l] = g.colors[s]
      /\ l \in Members(g, l) /\ s \in Members(g, s) /\ g.colors[l] # Empty
  <2>1. l \in Points /\ s \in Points /\ ListOf(g, l) /\ ListOf(g, s) /\ g.colors[l] = g.colors[s]
        /\ g.colors[l] # Empty
    BY <1>1, <1>2
  <2> QED
    BY <2>1 DEF ListOf
<1>5. /\ Circle(ring, g.next_in_chain, Members(g, s), s) /\ ring \in Seq(Points) /\ Len(ring) \in Nat \ {0}
      /\ ToSet(ring) = Members(g, s)
      /\ \A w : w \in Members(g, s) <=> \E i \in 1..Len(ring) : ring[i] = w
  BY <1>4, RingOfList
<1>6. last \in Members(g, s) /\ g.next_in_chain[last] = s
  <2>1. Len(ring) \in 1..Len(ring)
    BY <1>5
  <2> QED
    BY <1>5, <2>1 DEF Circle
<1>7. NewLibertiesOf(g, ring, l)
        = Cardinality(Around(g.colors, Members(g, s)) \ Around(g.colors, Members(g, l)))
  <2>1. \A i \in 1..Len(ring) : g.colors[ring[i]] = g.colors[l]
    BY <1>4, <1>5 DEF ListOf
  <2>2. \A x \in Members(g, l) : g.colors[x] = g.colors[l]
    BY <1>4 DEF ListOf
  <2>3. g.colors[l] # Empty /\ l \in Points
    BY <1>4
  <2> HIDE DEF ring
  <2>4. NewLibertiesOf(g, ring, l)
          = Cardinality(Around(g.colors, ToSet(ring)) \ Around(g.colors, Members(g, l)))
    BY <1>5, <2>1, <2>2, <2>3, LibertiesJoin
  <2> QED
    BY <1>5, <2>4
<1>8. Cardinality(Around(g.colors, Members(g, s)) \ Around(g.colors, Members(g, l))) \in Nat
  <2>1. Around(g.colors, Members(g, s)) \ Around(g.colors, Members(g, l)) \in SUBSET Points
    BY AroundSets
  <2> QED
    BY <2>1, SetSizes
<1> DEFINE k == Cardinality(Around(g.colors, Members(g, s)) \ Around(g.colors, Members(g, l)))
<1>9. \A x \in Points : (\E i \in 1..Len(ring) : ring[i] = x) <=> x \in Members(g, s)
  BY <1>5
<1>10. last \in Points /\ g.next_in_chain[l] \in Points \cup {NoLoc} /\ l # last
  <2>1. last \in Points
    BY <1>6, MembersSets
  <2>2. l \notin Members(g, s)
    BY <1>2, <1>4 DEF Members
  <2> QED
    BY <1>4, <1>6, <2>1, <2>2, BoardParts
<1> HIDE DEF ring, last
<1>11. /\ j.colors = g.colors /\ j.hash = g.hash /\ j.ko_loc = g.ko_loc /\ j.captures = g.captures
       /\ j.next_in_chain = g.next_in_chain /\ j.libs = g.libs /\ j.locs = g.locs
       /\ j.chain_head = [w \in Points |-> IF \E i \in 1..Len(ring) : ring[i] = w THEN l ELSE g.chain_head[w]]
       /\ j \in [colors : {j.colors}, chain_head : {j.chain_head}, next_in_chain : {j.next_in_chain},
                 libs : {j.libs}, locs : {j.locs}, ko_loc : {j.ko_loc}, captures : {j.captures}, hash : {j.hash}]
  BY DEF Joining, Boards
<1>12. \A x \in Points : j.chain_head[x] = IF x \in Members(g, s) THEN l ELSE g.chain_head[x]
  BY <1>9, <1>11
<1>13. j.chain_head \in [Points -> Points \cup {NoLoc}]
  BY <1>4, <1>11, BoardParts
<1> HIDE DEF j, k
<1>14. /\ m.colors = g.colors /\ m.hash = g.hash /\ m.ko_loc = g.ko_loc /\ m.captures = g.captures
       /\ m.chain_head = j.chain_head
       /\ m.next_in_chain = [[g.next_in_chain EXCEPT ![last] = g.next_in_chain[l]] EXCEPT ![l] = s]
       /\ m.libs = [g.libs EXCEPT ![l] = @ + k]
       /\ m.locs = [g.locs EXCEPT ![l] = @ + g.locs[s]]
       /\ m \in [colors : {m.colors}, chain_head : {m.chain_head}, next_in_chain : {m.next_in_chain},
                 libs : {m.libs}, locs : {m.locs}, ko_loc : {m.ko_loc}, captures : {m.captures}, hash : {m.hash}]
  BY <1>3, <1>7, <1>11 DEF k
<1>15. m.next_in_chain \in [Points -> Points \cup {NoLoc}] /\ m.libs \in [Points -> Int] /\ m.locs \in [Points -> Int]
  BY <1>4, <1>8, <1>10, <1>14, BoardParts DEF k
<1>16. m \in Boards
  BY <1>13, <1>14, <1>15, BoardParts DEF Boards
<1>17. /\ \A x \in Points : m.next_in_chain[x] =
            IF x = l THEN s ELSE IF x = last THEN g.next_in_chain[l] ELSE g.next_in_chain[x]
       /\ \A x \in Points : m.locs[x] = g.locs[x] + IF x = l THEN g.locs[s] ELSE 0
       /\ \A x \in Points : m.libs[x] = g.libs[x] + IF x = l THEN k ELSE 0
  BY <1>4, <1>8, <1>10, <1>14, BoardParts DEF k
<1>18. Merged(g, m, l, s)
  BY <1>6, <1>12, <1>14, <1>16, <1>17 DEF Merged, k
<1> QED
  BY <1>2, <1>18 DEF h1, h2, m

\* A list whose stones, links and size are left alone.
LEMMA ListSame ==
    ASSUME NEW g, NEW h, ListOf(g, h), NEW m, Members(m, h) = Members(g, h), m.locs[h] = g.locs[h],
           \A x \in Members(g, h) : m.colors[x] = g.colors[x] /\ m.next_in_chain[x] = g.next_in_chain[x]
    PROVE  ListOf(m, h)
<1>1. h \in Members(g, h) /\ \A x \in Members(g, h) : m.colors[x] = m.colors[h]
  BY DEF ListOf
<1>2. Cyclic(m.next_in_chain, Members(g, h))
  BY CyclicSame DEF ListOf
<1> QED
  BY <1>1, <1>2 DEF ListOf

LEMMA MergedLists ==
    ASSUME NEW g \in Boards, Linked(g), NEW l \in Points, NEW s \in Points, l # s,
           ListOf(g, l), ListOf(g, s), g.colors[l] = g.colors[s], NEW m, Merged(g, m, l, s)
    PROVE  /\ Members(m, l) = Members(g, l) \cup Members(g, s) /\ Members(m, s) = {}
           /\ \A h \in Points \ {l, s} : Members(m, h) = Members(g, h)
           /\ Linked(m)
           /\ \A owing : Counted(g, owing) /\ l \notin owing /\ s \notin owing => Counted(m, owing)
<1> DEFINE A == Members(g, l)
           B == Members(g, s)
<1>1. /\ m.colors = g.colors
      /\ \A x \in Points : m.chain_head[x] = IF x \in B THEN l ELSE g.chain_head[x]
      /\ \A x \in Points : m.locs[x] = g.locs[x] + IF x = l THEN g.locs[s] ELSE 0
      /\ \A x \in Points : m.libs[x] = g.libs[x] + IF x = l
            THEN Cardinality(Around(g.colors, B) \ Around(g.colors, A)) ELSE 0
  BY DEF Merged
<1>2. PICK last \in B :
          /\ g.next_in_chain[last] = s
          /\ \A x \in Points : m.next_in_chain[x] =
                IF x = l THEN s ELSE IF x = last THEN g.next_in_chain[l] ELSE g.next_in_chain[x]
  BY DEF Merged
<1>3. A \in SUBSET Points /\ B \in SUBSET Points /\ A \cap B = {}
  BY DEF Members
<1>4. /\ l \in A /\ Cyclic(g.next_in_chain, A) /\ g.locs[l] = Cardinality(A)
      /\ s \in B /\ Cyclic(g.next_in_chain, B) /\ g.locs[s] = Cardinality(B)
      /\ \A x \in A \cup B : g.colors[x] = g.colors[l]
  BY DEF ListOf
<1>5. Members(m, l) = A \cup B
  BY <1>1 DEF Members
<1>6. Members(m, s) = {}
  BY <1>1 DEF Members
<1>7. ASSUME NEW h \in Points \ {l, s} PROVE Members(m, h) = Members(g, h) /\ Members(g, h) \cap (A \cup B) = {}
  BY <1>1 DEF Members
<1> HIDE DEF A, B
<1>8. Cyclic(m.next_in_chain, A \cup B)
  <2>1. \A x \in A \cup B : m.next_in_chain[x] = IF x = l THEN g.next_in_chain[last]
                              ELSE IF x = last THEN g.next_in_chain[l] ELSE g.next_in_chain[x]
    BY <1>2, <1>3
  <2> QED
    BY <1>2, <1>3, <1>4, <2>1, CyclesJoin
<1>9. ListOf(m, l)
  <2>1. m.locs[l] = Cardinality(A \cup B)
    <3>1. Cardinality(A \cup B) = Cardinality(A) + Cardinality(B)
      BY <1>3, SetSizes
    <3> QED
      BY <1>1, <1>4, <3>1
  <2> QED
    BY <1>1, <1>4, <1>5, <1>8, <2>1 DEF ListOf
<1>10. ASSUME NEW h \in Points \ {l, s}, Members(g, h) # {} PROVE ListOf(m, h)
  <2>1. ListOf(g, h)
    BY <1>10 DEF Linked
  <2>2. \A x \in Members(g, h) : x \in Points /\ x # l /\ x # last
    BY <1>2, <1>4, <1>7, MembersSets
  <2>3. \A x \in Members(g, h) : m.next_in_chain[x] = g.next_in_chain[x]
    BY <1>2, <2>2
  <2>4. m.locs[h] = g.locs[h]
    BY <1>1, BoardParts
  <2> QED
    BY <1>1, <1>7, <2>1, <2>3, <2>4, ListSame
<1>11. Linked(m)
  <2> SUFFICES ASSUME NEW h \in Points, Members(m, h) # {} PROVE ListOf(m, h)
    BY DEF Linked
  <2> QED
    BY <1>6, <1>7, <1>9, <1>10
<1>12. ASSUME NEW owing, Counted(g, owing), l \notin owing, s \notin owing PROVE Counted(m, owing)
  <2> SUFFICES ASSUME NEW h \in Points, Members(m, h) # {}
               PROVE  m.libs[h] = Cardinality(Around(m.colors, Members(m, h))) + IF h \in owing THEN 1 ELSE 0
    BY DEF Counted
  <2>1. CASE h = l
    <3> DEFINE a == Around(g.colors, A)
               z == Around(g.colors, B)
    <3>1. a \in SUBSET Points /\ z \in SUBSET Points /\ Around(g.colors, A \cup B) = a \cup z
      BY AroundSets
    <3>2. g.libs[l] = Cardinality(a)
      <4>1. Members(g, l) # {}
        BY <1>4 DEF A
      <4>2. g.libs[l] = Cardinality(Around(g.colors, Members(g, l))) + 0
        BY <1>12, <4>1 DEF Counted
      <4>3. Cardinality(a) \in Nat
        BY <3>1, SetSizes
      <4> QED
        BY <4>2, <4>3 DEF A
    <3>3. Cardinality(a \cup z) = Cardinality(a) + Cardinality(z \ a) /\ Cardinality(a) \in Nat
          /\ Cardinality(z \ a) \in Nat
      <4>1. z \ a \in SUBSET Points
        BY <3>1
      <4> QED
        BY <3>1, <4>1, SetSizes
    <3>4. m.libs[l] = Cardinality(a \cup z)
      BY <1>1, <3>2, <3>3
    <3>5. m.libs[l] = Cardinality(Around(m.colors, Members(m, l)))
      BY <1>1, <1>5, <3>1, <3>4
    <3> HIDE DEF a, z
    <3>6. m.libs[l] \in Nat
      BY <3>1, <3>3, <3>4
    <3> QED
      BY <1>12, <2>1, <3>5, <3>6
  <2>2. CASE h # l
    <3>1. h # s /\ Members(m, h) = Members(g, h) /\ Members(g, h) # {}
      BY <1>6, <1>7, <2>2
    <3>2. m.libs[h] = g.libs[h]
      BY <1>1, <2>2, BoardParts
    <3> QED
      BY <1>1, <1>12, <3>1, <3>2 DEF Counted
  <2> QED
    BY <2>1, <2>2
<1> QED
  BY <1>5, <1>6, <1>7, <1>11, <1>12 DEF A, B

\* The stones of S next to a stone of colour d whose head is h.
Touching(p, head, S, d, h) == {w \in S : \E u \in Adj[w] : p[u] = d /\ head[u] = h}

\* The board m is g without the stones of S, which were c's.
Cleared(g, m, S, c) ==
    /\ m \in Boards
    /\ m.colors = Put(g.colors, S, Empty) /\ m.chain_head = g.chain_head
    /\ m.next_in_chain = g.next_in_chain /\ m.locs = g.locs
    /\ m.ko_loc = g.ko_loc /\ m.captures = g.captures
    /\ m.hash = SymDiff(g.hash, {<<w, c>> : w \in S})
    /\ \A h \in Points :
          m.libs[h] = g.libs[h] + Cardinality(Touching(m.colors, g.chain_head, S, Opp(c), h))

LEMMA Removing ==
    ASSUME NEW g \in Boards, NEW h \in Points, ListOf(g, h), NEW v \in Members(g, h), g.colors[h] \in Colors
    PROVE  Cleared(g, RemoveChain(g, v), Members(g, h), g.colors[h])
<1> DEFINE c == g.colors[h]
           S == ToSet(Ring(g, v))
           f == [Flip(g, S, c) EXCEPT !.colors = Put(@, S, Empty)]
           m == RemoveChain(g, v)
           gain == [x \in Points |-> Cardinality({w \in S : \E u \in Adj[w] : f.colors[u] = Opp(c) /\ f.chain_head[u] = x})]
<1>1. S = Members(g, h) /\ S \in SUBSET Points
  BY RingOfList, MembersSets
<1>2. g.colors[v] = c /\ c \in Colors
  BY DEF ListOf
<1>3. m = ChangeSurroundingLiberties(f, S, Opp(c), 1)
  BY <1>2 DEF RemoveChain
<1> HIDE DEF S, c, m
<1>4. /\ f.colors = Put(g.colors, S, Empty) /\ f.chain_head = g.chain_head
      /\ f.next_in_chain = g.next_in_chain /\ f.libs = g.libs /\ f.locs = g.locs /\ f.ko_loc = g.ko_loc
      /\ f.captures = g.captures /\ f.hash = SymDiff(g.hash, {<<w, c>> : w \in S})
      /\ f \in [colors : {f.colors}, chain_head : {f.chain_head}, next_in_chain : {f.next_in_chain},
                libs : {f.libs}, locs : {f.locs}, ko_loc : {f.ko_loc}, captures : {f.captures}, hash : {f.hash}]
  BY DEF Flip, Boards
<1>5. \A x \in Points : gain[x] \in Nat
  <2> TAKE x \in Points
  <2> DEFINE G == {w \in S : \E u \in Adj[w] : f.colors[u] = Opp(c) /\ f.chain_head[u] = x}
  <2>1. G \in SUBSET Points
    BY <1>1
  <2>2. Cardinality(G) \in Nat
    <3> HIDE DEF G
    <3> QED
      BY <2>1, SetSizes
  <2> QED
    BY <2>2
<1>6. \A x \in Points : gain[x] = Cardinality(Touching(f.colors, f.chain_head, S, Opp(c), x))
  BY DEF Touching
<1>7. /\ m.colors = f.colors /\ m.chain_head = f.chain_head
      /\ m.next_in_chain = f.next_in_chain /\ m.locs = f.locs /\ m.ko_loc = f.ko_loc
      /\ m.captures = f.captures /\ m.hash = f.hash
      /\ m.libs = [x \in Points |-> f.libs[x] + 1 * gain[x]]
      /\ m \in [colors : {m.colors}, chain_head : {m.chain_head}, next_in_chain : {m.next_in_chain},
                libs : {m.libs}, locs : {m.locs}, ko_loc : {m.ko_loc}, captures : {m.captures}, hash : {m.hash}]
  <2> HIDE DEF f
  <2> QED
    BY <1>3, <1>4 DEF ChangeSurroundingLiberties
<1> HIDE DEF gain, f
<1>8. \A x \in Points : m.libs[x] = g.libs[x] + gain[x] /\ m.libs[x] \in Int
  BY <1>4, <1>5, <1>7, BoardParts
<1>9. m \in Boards
  <2>1. m.colors \in Stones
    <3>1. g.colors \in Stones
      BY BoardParts
    <3>2. Put(g.colors, S, Empty) \in Stones
      BY <1>1, <3>1, PutStones
    <3> QED
      BY <1>4, <1>7, <3>2
  <2>2. m.libs \in [Points -> Int]
    BY <1>7, <1>8
  <2>3. m.hash \in SUBSET (Points \X Colors)
    BY <1>1, <1>2, <1>4, <1>7, BoardParts DEF SymDiff
  <2> QED
    BY <1>4, <1>7, <2>1, <2>2, <2>3, BoardParts DEF Boards
<1>10. \A x \in Points : m.libs[x] = g.libs[x] + Cardinality(Touching(m.colors, g.chain_head, S, Opp(c), x))
  BY <1>4, <1>6, <1>7, <1>8
<1>11. Cleared(g, m, S, c)
  BY <1>4, <1>7, <1>9, <1>10 DEF Cleared
<1> QED
  BY <1>1, <1>11 DEF m, c

LEMMA KeysCleared ==
    ASSUME NEW p, NEW S \in SUBSET Points, NEW c, \A x \in S : p[x] = c, c # Empty
    PROVE  SymDiff(Keys(p), {<<w, c>> : w \in S}) = Keys(Put(p, S, Empty))
<1>1. \A w \in Points : Put(p, S, Empty)[w] = IF w \in S THEN Empty ELSE p[w]
  BY DEF Put
<1> QED
  BY <1>1 DEF Keys, SymDiff

LEMMA KeysFilled ==
    ASSUME NEW p, NEW S \in SUBSET Points, NEW c, \A x \in S : p[x] = Empty, c # Empty
    PROVE  SymDiff(Keys(p), {<<w, c>> : w \in S}) = Keys(Put(p, S, c))
<1>1. \A w \in Points : Put(p, S, c)[w] = IF w \in S THEN c ELSE p[w]
  BY DEF Put
<1> QED
  BY <1>1 DEF Keys, SymDiff

LEMMA ClearedLists ==
    ASSUME NEW g \in Boards, Linked(g), NEW h \in Points, ListOf(g, h), g.colors[h] \in Colors,
           \A x \in Members(g, h) : \A w \in Adj[x] : g.colors[w] = g.colors[h] => w \in Members(g, h),
           NEW m, Cleared(g, m, Members(g, h), g.colors[h])
    PROVE  /\ Members(m, h) = {}
           /\ \A k \in Points \ {h} : Members(m, k) = Members(g, k)
           /\ Linked(m)
           /\ \A owing : Counted(g, owing) => Counted(m, owing)
           /\ Hashed(g) => Hashed(m)
<1> DEFINE S == Members(g, h)
           c == g.colors[h]
<1>1. /\ m.colors = Put(g.colors, S, Empty) /\ m.chain_head = g.chain_head
      /\ m.next_in_chain = g.next_in_chain /\ m.locs = g.locs
      /\ m.hash = SymDiff(g.hash, {<<w, c>> : w \in S})
      /\ \A k \in Points : m.libs[k] = g.libs[k] + Cardinality(Touching(m.colors, g.chain_head, S, Opp(c), k))
  BY DEF Cleared
<1>2. S \in SUBSET Points /\ \A x \in S : g.colors[x] = c
  BY MembersSets DEF ListOf
<1>3. \A w \in Points : m.colors[w] = IF w \in S THEN Empty ELSE g.colors[w]
  BY <1>1, <1>2, PutStones
<1>4. c \in Colors /\ c # Empty /\ Opp(c) # Empty /\ \A d \in Colors : d = c \/ d = Opp(c)
  BY Kinds DEF Opp, Opponent, Colors
<1>5. Members(m, h) = {}
  BY <1>1, <1>3 DEF Members
<1>6. \A k \in Points \ {h} : Members(m, k) = Members(g, k) /\ Members(g, k) \cap S = {}
  BY <1>1, <1>3 DEF Members
<1> HIDE DEF S, c
<1>7. Linked(m)
  <2> SUFFICES ASSUME NEW k \in Points, Members(m, k) # {} PROVE ListOf(m, k)
    BY DEF Linked
  <2>1. k # h /\ Members(m, k) = Members(g, k) /\ ListOf(g, k) /\ Members(g, k) \cap S = {}
    BY <1>5, <1>6 DEF Linked
  <2>2. \A x \in Members(g, k) : x \in Points /\ x \notin S
    BY <2>1, MembersSets
  <2> QED
    BY <1>1, <1>3, <2>1, <2>2, ListSame
<1>8. ASSUME NEW owing, Counted(g, owing) PROVE Counted(m, owing)
  <2> SUFFICES ASSUME NEW k \in Points, Members(m, k) # {}
               PROVE  m.libs[k] = Cardinality(Around(m.colors, Members(m, k))) + IF k \in owing THEN 1 ELSE 0
    BY DEF Counted
  <2> DEFINE M == Members(g, k)
             near == {w \in S : Adj[w] \cap M # {}}
             old == Around(g.colors, M)
  <2>1. k # h /\ Members(m, k) = M /\ M \cap S = {} /\ M # {} /\ M \in SUBSET Points
    BY <1>5, <1>6, MembersSets
  <2>2. Touching(m.colors, g.chain_head, S, Opp(c), k) = near
    <3>1. ASSUME NEW w \in S, NEW u \in Adj[w], m.colors[u] = Opp(c), g.chain_head[u] = k PROVE u \in M
      <4>1. u \in Points
        BY <1>2, Symmetric
      <4> QED
        BY <1>3, <1>4, <3>1, <4>1 DEF Members
    <3>2. ASSUME NEW w \in S, NEW u \in Adj[w], u \in M PROVE m.colors[u] = Opp(c) /\ g.chain_head[u] = k
      <4>1. u \in Points /\ u \notin S /\ g.chain_head[u] = k /\ g.colors[u] # Empty
        BY <2>1, <3>2 DEF Members
      <4>2. g.colors[u] # c
        BY <3>2, <4>1 DEF S, c
      <4>3. g.colors[u] \in Colors
        BY <4>1, BoardParts DEF Stones
      <4> QED
        BY <1>3, <1>4, <4>1, <4>2, <4>3
    <3> HIDE DEF M
    <3> QED
      BY <3>1, <3>2 DEF Touching
  <2>3. Around(m.colors, M) = old \cup near
    BY <1>2, <1>3 DEF Around
  <2>4. old \in SUBSET Points /\ near \in SUBSET Points /\ old \cap near = {}
    BY <1>2, <1>4 DEF Around
  <2>5. g.libs[k] = Cardinality(old) + IF k \in owing THEN 1 ELSE 0
    BY <1>8, <2>1 DEF Counted
  <2>6. m.libs[k] = g.libs[k] + Cardinality(near)
    BY <1>1, <2>2
  <2> HIDE DEF old, near
  <2>7. Cardinality(old \cup near) = Cardinality(old) + Cardinality(near)
        /\ Cardinality(old) \in Nat /\ Cardinality(near) \in Nat
    <3>1. Cardinality(near) \in Nat
      BY <2>4, SetSizes
    <3>2. Cardinality(old) \in Nat
      BY <2>4, SetSizes
    <3>3. Cardinality(old \cup near) = Cardinality(old) + Cardinality(near)
      BY <2>4, DisjointSets
    <3> QED
      BY <3>1, <3>2, <3>3
  <2> QED
    BY <2>1, <2>3, <2>5, <2>6, <2>7
<1>9. Hashed(g) => Hashed(m)
  BY <1>1, <1>2, <1>4, KeysCleared DEF Hashed
<1> QED
  BY <1>5, <1>6, <1>7, <1>8, <1>9 DEF S
----------------------------------------------------------------------------
(* Lists and groups *)

Listed(g) == \A x \in Points : g.colors[x] # Empty => g.chain_head[x] # NoLoc

\* A board whose lists are its groups, with the right sizes, liberties and hash, and
\* no group without liberties.
Solid(g) ==
    /\ g \in Boards /\ Linked(g) /\ Counted(g, {}) /\ Grouped(g) /\ Hashed(g) /\ Listed(g)
    /\ Settled(g.colors)

LEMMA SolidStone ==
    ASSUME NEW g, Solid(g), NEW x \in Points, g.colors[x] # Empty
    PROVE  LET h == g.chain_head[x] IN
             /\ h \in Points /\ ListOf(g, h) /\ g.colors[h] = g.colors[x] /\ g.chain_head[h] = h
             /\ g.colors[x] \in Colors
             /\ x \in Members(g, h) /\ Members(g, h) = Group(g.colors, x)
             /\ g.libs[h] = Cardinality(Liberties(g.colors, x)) /\ g.libs[h] \in Nat \ {0}
             /\ g.locs[h] = Cardinality(Group(g.colors, x))
             /\ \A y \in Points : g.colors[y] # Empty /\ g.chain_head[y] = h <=> y \in Group(g.colors, x)
<1> DEFINE h == g.chain_head[x]
<1>1. g \in Boards /\ Linked(g) /\ Counted(g, {}) /\ Grouped(g) /\ g.chain_head[x] # NoLoc
  BY DEF Solid, Listed
<1>2. /\ h \in Points /\ x \in Members(g, h) /\ ListOf(g, h)
      /\ g.colors[h] = g.colors[x] /\ g.chain_head[h] = h
  BY <1>1, StoneOnList
<1>3. Members(g, h) = Group(g.colors, x)
  BY <1>1, <1>2 DEF Grouped
<1>4. g.locs[h] = Cardinality(Group(g.colors, x))
  BY <1>2, <1>3 DEF ListOf
<1>5. g.libs[h] = Cardinality(Liberties(g.colors, x)) /\ g.libs[h] \in Nat \ {0}
  <2>1. g.libs[h] = Cardinality(Around(g.colors, Members(g, h))) + 0
    BY <1>1, <1>2 DEF Counted
  <2>2. Liberties(g.colors, x) = Around(g.colors, Members(g, h))
    BY <1>3 DEF Liberties
  <2>3. Liberties(g.colors, x) # {}
    BY DEF Solid, Settled
  <2>4. Around(g.colors, Members(g, h)) \in SUBSET Points
    BY AroundSets
  <2>5. Cardinality(Around(g.colors, Members(g, h))) \in Nat \ {0}
    BY <2>2, <2>3, <2>4, SetSizes
  <2> QED
    BY <2>1, <2>2, <2>5
<1>6. g.colors[x] \in Colors
  BY <1>1, BoardParts DEF Stones
<1>7. \A y \in Points : g.colors[y] # Empty /\ g.chain_head[y] = h <=> y \in Group(g.colors, x)
  BY <1>3 DEF Members
<1> QED
  BY <1>2, <1>3, <1>4, <1>5, <1>6, <1>7
----------------------------------------------------------------------------
(* A stone that is played: it is put on the board, ... *)

NewStone(g, v, c) ==
    [Flip(g, {v}, c) EXCEPT !.colors[v] = c, !.locs[v] = 1, !.libs[v] = ImmediateLiberties(g, v),
                            !.chain_head[v] = v, !.next_in_chain[v] = v]

\* The heads of the stones among the first k neighbours of v.
MetBy(g, v, k) == {g.chain_head[AdjSeq[v][i]] : i \in {i \in 1..k : g.colors[AdjSeq[v][i]] # Empty}}
MetAll(g, v) == MetBy(g, v, Len(AdjSeq[v]))

LEMMA MetAllHeads ==
    ASSUME NEW g, NEW v \in Points
    PROVE  \A h : h \in MetAll(g, v) <=> \E w \in Adj[v] : g.colors[w] # Empty /\ g.chain_head[w] = h
<1>1. \A w : w \in Adj[v] <=> \E k \in 1..Len(AdjSeq[v]) : AdjSeq[v][k] = w
  BY AdjSeqIsAdj
<1> QED
  BY <1>1 DEF MetAll, MetBy

LEMMA MetHeads ==
    ASSUME NEW g, Solid(g), NEW v \in Points, NEW k \in 0..Len(AdjSeq[v])
    PROVE  /\ MetBy(g, v, k) \in SUBSET Points /\ MetBy(g, v, k) \subseteq MetAll(g, v)
           /\ \A h \in MetBy(g, v, k) : g.colors[h] # Empty /\ g.chain_head[h] = h
           /\ k > 0 => MetBy(g, v, k) = MetBy(g, v, k - 1) \cup
                IF g.colors[AdjSeq[v][k]] # Empty THEN {g.chain_head[AdjSeq[v][k]]} ELSE {}
<1>1. AdjSeq[v] \in Seq(Points) /\ Len(AdjSeq[v]) \in 0..4
  BY AdjSeqIsAdj
<1>2. \A i \in 1..k : i \in 1..Len(AdjSeq[v]) /\ AdjSeq[v][i] \in Points
  BY <1>1
<1>3. \A h \in MetBy(g, v, k) : h \in Points /\ g.colors[h] # Empty /\ g.chain_head[h] = h
  <2> SUFFICES ASSUME NEW i \in 1..k, g.colors[AdjSeq[v][i]] # Empty
               PROVE  LET h == g.chain_head[AdjSeq[v][i]] IN h \in Points /\ g.colors[h] # Empty /\ g.chain_head[h] = h
    BY DEF MetBy
  <2> QED
    BY <1>2, SolidStone
<1>4. MetBy(g, v, k) \subseteq MetAll(g, v)
  BY <1>2 DEF MetBy, MetAll
<1>5. k > 0 => MetBy(g, v, k) = MetBy(g, v, k - 1) \cup
                IF g.colors[AdjSeq[v][k]] # Empty THEN {g.chain_head[AdjSeq[v][k]]} ELSE {}
  <2> SUFFICES ASSUME k > 0
               PROVE  MetBy(g, v, k) = MetBy(g, v, k - 1) \cup
                          IF g.colors[AdjSeq[v][k]] # Empty THEN {g.chain_head[AdjSeq[v][k]]} ELSE {}
    OBVIOUS
  <2>1. 1..k = 1..k - 1 \cup {k}
    BY <1>1
  <2> QED
    BY <2>1 DEF MetBy
<1> QED
  BY <1>3, <1>4, <1>5

LEMMA StonePut ==
    ASSUME NEW g, Solid(g), NEW v \in Points, g.colors[v] = Empty, NEW c \in Colors
    PROVE  LET m == NewStone(g, v, c) IN
             /\ m \in Boards /\ Linked(m) /\ Hashed(m) /\ Counted(m, MetAll(g, v))
             /\ m.colors = Put(g.colors, {v}, c)
             /\ \A x \in Points : m.chain_head[x] = IF x = v THEN v ELSE g.chain_head[x]
             /\ m.ko_loc = g.ko_loc /\ m.captures = g.captures
<1> DEFINE m == NewStone(g, v, c)
<1>1. g \in Boards /\ Linked(g) /\ Counted(g, {}) /\ Hashed(g) /\ Listed(g)
  BY DEF Solid
<1>2. ImmediateLiberties(g, v) \in Nat
  <2> DEFINE L == {w \in Adj[v] : g.colors[w] = Empty}
  <2>1. L \in SUBSET Points
    BY Symmetric
  <2>2. Cardinality(L) \in Nat
    <3> HIDE DEF L
    <3> QED
      BY <2>1, SetSizes
  <2> QED
    BY <2>2 DEF ImmediateLiberties
<1> DEFINE free == ImmediateLiberties(g, v)
<1> HIDE DEF free
<1>3. /\ m.colors = [g.colors EXCEPT ![v] = c] /\ m.chain_head = [g.chain_head EXCEPT ![v] = v]
      /\ m.next_in_chain = [g.next_in_chain EXCEPT ![v] = v]
      /\ m.libs = [g.libs EXCEPT ![v] = free] /\ m.locs = [g.locs EXCEPT ![v] = 1]
      /\ m.ko_loc = g.ko_loc /\ m.captures = g.captures
      /\ m.hash = SymDiff(g.hash, {<<w, c>> : w \in {v}})
      /\ m \in [colors : {m.colors}, chain_head : {m.chain_head}, next_in_chain : {m.next_in_chain},
                libs : {m.libs}, locs : {m.locs}, ko_loc : {m.ko_loc}, captures : {m.captures}, hash : {m.hash}]
  BY <1>1 DEF NewStone, Flip, Boards, free
<1> HIDE DEF m
<1>4. m.colors = Put(g.colors, {v}, c) /\ m.colors \in Stones
  BY <1>1, <1>3, BoardParts DEF Put, Stones
<1>5. m \in Boards
  <2>1. /\ m.chain_head \in [Points -> Points \cup {NoLoc}] /\ m.next_in_chain \in [Points -> Points \cup {NoLoc}]
        /\ m.libs \in [Points -> Int] /\ m.locs \in [Points -> Int]
    BY <1>1, <1>2, <1>3, BoardParts DEF free
  <2>2. m.hash \in SUBSET (Points \X Colors)
    BY <1>1, <1>3, BoardParts DEF SymDiff
  <2> QED
    BY <1>1, <1>3, <1>4, <2>1, <2>2, BoardParts DEF Boards
<1>6. /\ \A x \in Points : m.chain_head[x] = IF x = v THEN v ELSE g.chain_head[x]
      /\ \A x \in Points : m.next_in_chain[x] = IF x = v THEN v ELSE g.next_in_chain[x]
      /\ \A x \in Points : m.libs[x] = IF x = v THEN free ELSE g.libs[x]
      /\ \A x \in Points : m.locs[x] = IF x = v THEN 1 ELSE g.locs[x]
      /\ \A x \in Points : m.colors[x] = IF x = v THEN c ELSE g.colors[x]
  <2>1. g.colors \in Stones /\ g.chain_head \in [Points -> Points \cup {NoLoc}]
        /\ g.next_in_chain \in [Points -> Points \cup {NoLoc}]
    BY <1>1, BoardParts
  <2>2. g.libs \in [Points -> Int] /\ g.locs \in [Points -> Int]
    BY <1>1, BoardParts
  <2> QED
    BY <1>3, <2>1, <2>2 DEF Stones
<1>7. Members(g, v) = {}
  <2> SUFFICES ASSUME Members(g, v) # {} PROVE FALSE
    OBVIOUS
  <2>1. v \in Members(g, v)
    BY <1>1 DEF Linked, ListOf
  <2> QED
    BY <2>1 DEF Members
<1>8. c # Empty
  BY Kinds
<1>9. Members(m, v) = {v}
  BY <1>6, <1>7, <1>8 DEF Members
<1>10. \A h \in Points \ {v} : Members(m, h) = Members(g, h) /\ v \notin Members(g, h)
  BY <1>6 DEF Members
<1>11. ListOf(m, v)
  <2>1. Cyclic(m.next_in_chain, {v})
    <3>1. \A T \in SUBSET {v} : T # {} => T = {v}
      OBVIOUS
    <3> QED
      BY <1>6, <3>1 DEF Cyclic
  <2>2. Cardinality({v}) = 1
    BY FS_Singleton
  <2> QED
    BY <1>6, <1>9, <2>1, <2>2 DEF ListOf
<1>12. Linked(m)
  <2> SUFFICES ASSUME NEW h \in Points, Members(m, h) # {}, h # v PROVE ListOf(m, h)
    BY <1>11 DEF Linked
  <2>1. ListOf(g, h) /\ Members(m, h) = Members(g, h) /\ v \notin Members(g, h)
    BY <1>1, <1>10 DEF Linked
  <2>2. \A x \in Members(g, h) : x \in Points /\ x # v
    BY <2>1, MembersSets
  <2> QED
    BY <1>6, <2>1, <2>2, ListSame
<1>13. Hashed(m)
  <2>1. \A x \in {v} : g.colors[x] = Empty
    OBVIOUS
  <2>2. SymDiff(Keys(g.colors), {<<w, c>> : w \in {v}}) = Keys(Put(g.colors, {v}, c))
    BY <1>8, <2>1, KeysFilled
  <2> QED
    BY <1>1, <1>3, <1>4, <2>2 DEF Hashed
<1>14. Counted(m, MetAll(g, v))
  <2> SUFFICES ASSUME NEW h \in Points, Members(m, h) # {}
               PROVE  m.libs[h] = Cardinality(Around(m.colors, Members(m, h)))
                                  + IF h \in MetAll(g, v) THEN 1 ELSE 0
    BY DEF Counted
  <2>1. \A k : k \in MetAll(g, v) <=> \E w \in Adj[v] : g.colors[w] # Empty /\ g.chain_head[w] = k
    BY MetAllHeads
  <2>2. CASE h = v
    <3>1. v \notin MetAll(g, v)
      <4>1. \A w \in Adj[v] : w \in Points
        BY Symmetric
      <4> QED
        BY <1>7, <2>1, <4>1 DEF Members
    <3>2. Around(m.colors, {v}) = {w \in Adj[v] : g.colors[w] = Empty}
      <4>1. v \notin Adj[v] /\ \A w \in Adj[v] : w \in Points
        BY Symmetric
      <4>2. \A w \in Points : Adj[w] \cap {v} # {} <=> w \in Adj[v]
        BY Symmetric
      <4> QED
        BY <1>6, <4>1, <4>2 DEF Around
    <3>3. m.libs[v] = Cardinality(Around(m.colors, {v})) + 0
      BY <1>2, <1>6, <3>2 DEF free, ImmediateLiberties
    <3> QED
      BY <1>9, <2>2, <3>1, <3>3
  <2>3. CASE h # v
    <3> DEFINE M == Members(g, h)
               old == Around(g.colors, M)
               new == Around(m.colors, M)
    <3>1. Members(m, h) = M /\ v \notin M /\ M # {} /\ M \in SUBSET Points
      BY <1>10, <2>3, MembersSets
    <3>2. g.libs[h] = Cardinality(old) + 0
      BY <1>1, <3>1 DEF Counted
    <3>3. m.libs[h] = g.libs[h]
      BY <1>6, <2>3
    <3>4. new = old \ {v} /\ old \in SUBSET Points
      BY <1>6, <1>8 DEF Around
    <3>5. v \in old <=> h \in MetAll(g, v)
      <4>1. \A w \in Adj[v] : w \in Points
        BY Symmetric
      <4>2. v \in old <=> \E w \in Adj[v] : w \in M
        BY DEF Around
      <4> QED
        BY <2>1, <4>1, <4>2 DEF Members
    <3> HIDE DEF M, old, new
    <3>6. Cardinality(old) \in Nat /\ Cardinality(new) \in Nat
      <4>1. new \in SUBSET Points
        BY <3>4
      <4>2. Cardinality(new) \in Nat
        BY <4>1, SetSizes
      <4>3. Cardinality(old) \in Nat
        BY <3>4, SetSizes
      <4> QED
        BY <4>2, <4>3
    <3>7. CASE v \in old
      <4>1. {v} \in SUBSET Points /\ {v} \subseteq old
        BY <3>7
      <4>2. Cardinality(old \ {v}) = Cardinality(old) - Cardinality({v})
        BY <3>4, <4>1, SetSizes
      <4>3. Cardinality({v}) = 1
        BY FS_Singleton
      <4> QED
        BY <3>1, <3>2, <3>3, <3>4, <3>5, <3>6, <3>7, <4>2, <4>3 DEF new
    <3>8. CASE v \notin old
      <4>1. new = old
        BY <3>4, <3>8
      <4> QED
        BY <3>1, <3>2, <3>3, <3>5, <3>6, <3>8, <4>1 DEF new
    <3> QED
      BY <3>7, <3>8
  <2> QED
    BY <2>2, <2>3
<1> QED
  BY <1>3, <1>4, <1>5, <1>6, <1>12, <1>13, <1>14 DEF m
----------------------------------------------------------------------------
(* ... and meets its neighbours one by one *)

Eaten(g, h) == [g EXCEPT !.libs[h] = @ - 1]

LEMMA Eating ==
    ASSUME NEW g \in Boards, Linked(g), Hashed(g), NEW owing, Counted(g, owing),
           NEW h \in Points, h \in owing, Members(g, h) # {}
    PROVE  LET e == Eaten(g, h) IN
             /\ e \in Boards /\ Linked(e) /\ Hashed(e) /\ Counted(e, owing \ {h})
             /\ e.colors = g.colors /\ e.chain_head = g.chain_head
             /\ e.ko_loc = g.ko_loc /\ e.captures = g.captures
             /\ \A k : Members(e, k) = Members(g, k)
             /\ e.libs[h] = Cardinality(Around(g.colors, Members(g, h)))
<1> DEFINE e == Eaten(g, h)
<1>1. /\ e.colors = g.colors /\ e.chain_head = g.chain_head /\ e.next_in_chain = g.next_in_chain
      /\ e.locs = g.locs /\ e.ko_loc = g.ko_loc /\ e.captures = g.captures /\ e.hash = g.hash
      /\ e.libs = [g.libs EXCEPT ![h] = @ - 1]
      /\ e \in [colors : {e.colors}, chain_head : {e.chain_head}, next_in_chain : {e.next_in_chain},
                libs : {e.libs}, locs : {e.locs}, ko_loc : {e.ko_loc}, captures : {e.captures}, hash : {e.hash}]
  BY DEF Eaten, Boards
<1> HIDE DEF e
<1>2. e \in Boards
  <2>1. e.libs \in [Points -> Int]
    BY <1>1, BoardParts
  <2> QED
    BY <1>1, <2>1, BoardParts DEF Boards
<1>3. \A x \in Points : e.libs[x] = IF x = h THEN g.libs[x] - 1 ELSE g.libs[x]
  BY <1>1, BoardParts
<1>4. \A k : Members(e, k) = Members(g, k)
  BY <1>1 DEF Members
<1>5. Linked(e)
  <2> SUFFICES ASSUME NEW k \in Points, Members(e, k) # {} PROVE ListOf(e, k)
    BY DEF Linked
  <2>1. ListOf(g, k)
    BY <1>4 DEF Linked
  <2> QED
    BY <1>1, <1>4, <2>1, ListSame
<1>6. Hashed(e)
  BY <1>1 DEF Hashed
<1>7. \A k \in Points : g.libs[k] \in Int /\ Cardinality(Around(g.colors, Members(g, k))) \in Nat
  <2> TAKE k \in Points
  <2>1. Around(g.colors, Members(g, k)) \in SUBSET Points
    BY AroundSets
  <2>2. g.libs[k] \in Int
    BY BoardParts
  <2> QED
    BY <2>1, <2>2, SetSizes
<1>8. Counted(e, owing \ {h})
  <2> SUFFICES ASSUME NEW k \in Points, Members(e, k) # {}
               PROVE  e.libs[k] = Cardinality(Around(e.colors, Members(e, k)))
                                  + IF k \in owing \ {h} THEN 1 ELSE 0
    BY DEF Counted
  <2>1. g.libs[k] = Cardinality(Around(g.colors, Members(g, k))) + IF k \in owing THEN 1 ELSE 0
    BY <1>4 DEF Counted
  <2>2. Around(e.colors, Members(e, k)) = Around(g.colors, Members(g, k))
    BY <1>1, <1>4
  <2> QED
    BY <1>3, <1>7, <2>1, <2>2
<1>9. e.libs[h] = Cardinality(Around(g.colors, Members(g, h)))
  <2>1. g.libs[h] = Cardinality(Around(g.colors, Members(g, h))) + 1
    BY DEF Counted
  <2> QED
    BY <1>3, <1>7, <2>1
<1> QED
  BY <1>1, <1>2, <1>4, <1>5, <1>6, <1>8, <1>9 DEF e

\* How the new stone at v meets the neighbour w.
Meet(v, c, s, w) ==
    LET h == s.g.chain_head[w]   eaten == Eaten(s.g, h) IN
    CASE s.g.colors[w] = c /\ h # s.g.chain_head[v] ->
           [s EXCEPT !.g = MergeChains(eaten, w, v)]
      [] s.g.colors[w] = Opp(c) /\ h \notin s.seen ->
           IF eaten.libs[h] = 0
           THEN [g |-> RemoveChain(eaten, w), seen |-> s.seen \cup {h}, ko |-> w,
                 captured |-> s.captured + Len(Ring(eaten, w))]
           ELSE [s EXCEPT !.g = eaten, !.seen = @ \cup {h}]
      [] OTHER -> s

Meetings == [g : Boards, seen : SUBSET Points, captured : Nat, ko : Points \cup {NoLoc}]

\* What is taken at the first k neighbours.
TakenBy(old, v, c, k) == Taken(Put(old.colors, {v}, c), Opp(c), AdjSeq[v], k)

\* The board when the stone has met k of its neighbours: their chains of c have its
\* head, the others that had no other liberty are gone, and the liberty it takes is
\* still counted by the chains it has not met.
Met(old, v, c, k, s) ==
    LET met == MetBy(old, v, k)   taken == TakenBy(old, v, c, k) IN
    /\ s \in Meetings
    /\ Linked(s.g) /\ Hashed(s.g) /\ Counted(s.g, MetAll(old, v) \ met)
    /\ s.g.colors = Put(Put(old.colors, {v}, c), taken, Empty)
    /\ s.g.ko_loc = old.ko_loc /\ s.g.captures = old.captures
    /\ s.g.chain_head[v] \in {v} \cup met
    /\ \A x \in Points \ {v} : s.g.chain_head[x] =
          IF old.colors[x] = c /\ old.chain_head[x] \in met THEN s.g.chain_head[v] ELSE old.chain_head[x]
    /\ s.seen = {h \in met : old.colors[h] = Opp(c)}
    /\ s.captured = Cardinality(taken)
    /\ s.captured = 1 => taken = {s.ko}

\* The groups of the other colour are what they were before the stone was put.
LEMMA OpposingGroup ==
    ASSUME NEW g, Solid(g), NEW v \in Points, g.colors[v] = Empty, NEW c \in Colors,
           NEW x \in Points, g.colors[x] = Opp(c)
    PROVE  LET q == Put(g.colors, {v}, c) IN
             /\ q[x] = Opp(c) /\ Group(q, x) = Group(g.colors, x)
             /\ Group(q, x) = Members(g, g.chain_head[x])
<1> DEFINE q == Put(g.colors, {v}, c)
<1>1. \A w \in Points : q[w] = IF w = v THEN c ELSE g.colors[w]
  BY DEF Put
<1>2. Opp(c) # c /\ Opp(c) # Empty
  BY Kinds DEF Opp
<1> HIDE DEF q
<1>3. q[x] = Opp(c)
  BY <1>1, <1>2
<1>4. \A w \in Group(g.colors, x) : w \in Points /\ g.colors[w] = Opp(c)
  BY Groups
<1>5. \A w \in Group(g.colors, x) : q[w] = g.colors[w]
  BY <1>1, <1>2, <1>4
<1>6. \A u \in Group(g.colors, x) : \A w \in Adj[u] : q[w] = g.colors[x] => g.colors[w] = g.colors[x]
  <2> SUFFICES ASSUME NEW u \in Group(g.colors, x), NEW w \in Adj[u], q[w] = g.colors[x]
               PROVE  g.colors[w] = g.colors[x]
    OBVIOUS
  <2>1. w \in Points
    BY <1>4, Symmetric
  <2> QED
    BY <1>1, <1>2, <2>1
<1>7. Group(q, x) = Group(g.colors, x)
  BY <1>5, <1>6, GroupStays
<1>8. Members(g, g.chain_head[x]) = Group(g.colors, x)
  BY <1>2, SolidStone
<1> QED
  BY <1>3, <1>7, <1>8 DEF q

\* What is taken, by the heads of the neighbours.
LEMMA TakenHeads ==
    ASSUME NEW g, Solid(g), NEW v \in Points, g.colors[v] = Empty, NEW c \in Colors,
           NEW k \in 0..Len(AdjSeq[v])
    PROVE  /\ TakenBy(g, v, c, k) \in SUBSET Points
           /\ \A x \in TakenBy(g, v, c, k) :
                 x # v /\ g.colors[x] = Opp(c) /\ g.chain_head[x] \in MetBy(g, v, k)
           /\ \A w \in Points : g.colors[w] = Opp(c) /\ g.chain_head[w] \in MetBy(g, v, k) =>
                 Dead(Put(g.colors, {v}, c), Opp(c), w) \subseteq TakenBy(g, v, c, k)
<1> DEFINE q == Put(g.colors, {v}, c)
           ns == AdjSeq[v]
           o == Opp(c)
<1>1. \A w \in Points : q[w] = IF w = v THEN c ELSE g.colors[w]
  BY DEF Put
<1>2. o # c /\ o # Empty
  BY Kinds DEF Opp
<1>3. ns \in Seq(Points) /\ k \in 0..Len(ns) /\ \A i \in 1..k : ns[i] \in Points
  <2>1. ns \in Seq(Points) /\ Len(ns) \in Nat
    BY AdjSeqIsAdj
  <2> QED
    BY <2>1
<1>4. TakenBy(g, v, c, k) = Taken(q, o, ns, k)
  BY DEF TakenBy
<1>5. ASSUME NEW w \in Points, g.colors[w] = o
      PROVE  q[w] = o /\ Group(q, w) = Members(g, g.chain_head[w])
  BY <1>5, OpposingGroup
<1> HIDE DEF q, ns, o
<1>6. TakenBy(g, v, c, k) \in SUBSET Points
  BY <1>3, <1>4, TakenSets
<1>7. ASSUME NEW x \in TakenBy(g, v, c, k) PROVE x # v /\ g.colors[x] = o /\ g.chain_head[x] \in MetBy(g, v, k)
  <2>1. PICK i \in 1..k : x \in Dead(q, o, ns[i])
    BY <1>4 DEF Taken
  <2>2. q[ns[i]] = o /\ x \in Group(q, ns[i])
    BY <2>1 DEF Dead
  <2>3. ns[i] \in Points /\ g.colors[ns[i]] = o
    BY <1>1, <1>2, <1>3, <2>2
  <2>4. x \in Members(g, g.chain_head[ns[i]])
    BY <1>5, <2>2, <2>3
  <2>5. x \in Points /\ g.chain_head[x] = g.chain_head[ns[i]] /\ q[x] = o
    BY <2>2, <2>3, <2>4, Groups DEF Members
  <2>6. g.chain_head[ns[i]] \in MetBy(g, v, k)
    BY <1>2, <2>3 DEF MetBy, ns
  <2> QED
    BY <1>1, <1>2, <2>5, <2>6
<1>8. ASSUME NEW w \in Points, g.colors[w] = o, g.chain_head[w] \in MetBy(g, v, k)
      PROVE  Dead(q, o, w) \subseteq TakenBy(g, v, c, k)
  <2>1. PICK i \in 1..k : g.colors[ns[i]] # Empty /\ g.chain_head[ns[i]] = g.chain_head[w]
    BY <1>8 DEF MetBy, ns
  <2>2. g.colors[ns[i]] = o
    <3>1. g.colors[ns[i]] = g.colors[g.chain_head[ns[i]]]
      BY <1>3, <2>1, SolidStone
    <3>2. g.colors[w] = g.colors[g.chain_head[w]]
      BY <1>2, <1>8, SolidStone
    <3> QED
      BY <1>8, <2>1, <3>1, <3>2
  <2>3. Group(q, w) = Group(q, ns[i]) /\ q[w] = o /\ q[ns[i]] = o
    BY <1>3, <1>5, <1>8, <2>1, <2>2
  <2>4. Dead(q, o, w) = Dead(q, o, ns[i])
    BY <2>3 DEF Dead, Liberties
  <2>5. Dead(q, o, ns[i]) \subseteq Taken(q, o, ns, k)
    BY DEF Taken
  <2> QED
    BY <1>4, <2>4, <2>5
<1> QED
  BY <1>6, <1>7, <1>8 DEF q, o

\* An empty point and a stone of the given colour.
FreeFor(g, v, c) == Solid(g) /\ v \in Points /\ g.colors[v] = Empty /\ c \in Colors

LEMMA TakenStones ==
    ASSUME NEW g, NEW v, NEW c, FreeFor(g, v, c), NEW k \in 0..Len(AdjSeq[v])
    PROVE  /\ TakenBy(g, v, c, k) \in SUBSET Points
           /\ \A x \in TakenBy(g, v, c, k) :
                 x # v /\ g.colors[x] = Opp(c) /\ g.chain_head[x] \in MetBy(g, v, k)
<1>1. Solid(g) /\ v \in Points /\ g.colors[v] = Empty /\ c \in Colors
  BY DEF FreeFor
<1> QED
  BY <1>1, TakenHeads

LEMMA TakenWhole ==
    ASSUME NEW g, NEW v, NEW c, FreeFor(g, v, c)
    PROVE  \A w \in Points : g.colors[w] = Opp(c) /\ g.chain_head[w] \in MetAll(g, v) =>
              Dead(Put(g.colors, {v}, c), Opp(c), w) \subseteq TakenBy(g, v, c, Len(AdjSeq[v]))
<1> DEFINE n == Len(AdjSeq[v])
<1>1. Solid(g) /\ v \in Points /\ g.colors[v] = Empty /\ c \in Colors
  BY DEF FreeFor
<1>2. n \in 0..n
  <2>1. n \in Nat
    BY <1>1, AdjSeqIsAdj
  <2> QED
    BY <2>1
<1> HIDE DEF n
<1>3. \A w \in Points : g.colors[w] = Opp(c) /\ g.chain_head[w] \in MetBy(g, v, n) =>
        Dead(Put(g.colors, {v}, c), Opp(c), w) \subseteq TakenBy(g, v, c, n)
  <2>1. n \in 0..Len(AdjSeq[v])
    BY <1>2 DEF n
  <2> QED
    BY <1>1, <2>1, TakenHeads
<1> QED
  BY <1>3 DEF MetAll, n

LEMMA MetColors ==
    ASSUME NEW old, NEW v, NEW c, FreeFor(old, v, c), NEW k \in 0..Len(AdjSeq[v]), NEW s, Met(old, v, c, k, s)
    PROVE  \A x \in Points : s.g.colors[x] =
             IF x \in TakenBy(old, v, c, k) THEN Empty ELSE IF x = v THEN c ELSE old.colors[x]
<1>1. s.g.colors = Put(Put(old.colors, {v}, c), TakenBy(old, v, c, k), Empty)
  BY DEF Met
<1> QED
  BY <1>1 DEF Put

\* The chains the stone has not met are as they were.
LEMMA UnmetChain ==
    ASSUME NEW old, NEW v, NEW c, FreeFor(old, v, c), NEW k \in 0..Len(AdjSeq[v]), NEW s, Met(old, v, c, k, s),
           NEW w \in Points, old.colors[w] # Empty, old.chain_head[w] \notin MetBy(old, v, k)
    PROVE  LET h == old.chain_head[w] IN
             /\ h \in Points /\ h # v /\ h # s.g.chain_head[v] /\ old.colors[h] = old.colors[w]
             /\ s.g.colors[w] = old.colors[w] /\ s.g.chain_head[w] = h
             /\ Members(s.g, h) = Members(old, h) /\ w \in Members(s.g, h)
<1> DEFINE h == old.chain_head[w]
           met == MetBy(old, v, k)
           taken == TakenBy(old, v, c, k)
<1>1. Solid(old) /\ v \in Points /\ old.colors[v] = Empty /\ c \in Colors /\ c # Empty
  BY Kinds DEF FreeFor
<1>2. h \in Points /\ old.colors[h] = old.colors[w] /\ w \in Members(old, h)
  BY <1>1, SolidStone
<1>3. h # v
  BY <1>1, <1>2
<1>4. \A x \in taken : x # v /\ old.chain_head[x] \in met
  BY TakenStones
<1>5. \A x \in Points : s.g.colors[x] = IF x \in taken THEN Empty ELSE IF x = v THEN c ELSE old.colors[x]
  BY MetColors
<1>6. /\ s.g.chain_head[v] \in {v} \cup met
      /\ \A x \in Points \ {v} : s.g.chain_head[x] =
          IF old.colors[x] = c /\ old.chain_head[x] \in met THEN s.g.chain_head[v] ELSE old.chain_head[x]
  BY DEF Met
<1> HIDE DEF h, met, taken
<1>7. h \notin met
  BY DEF h, met
<1>8. h # s.g.chain_head[v]
  BY <1>3, <1>6, <1>7
<1>9. Members(s.g, h) = Members(old, h)
  <2>1. ASSUME NEW x \in Points, s.g.colors[x] # Empty, s.g.chain_head[x] = h
        PROVE  old.colors[x] # Empty /\ old.chain_head[x] = h
    BY <1>5, <1>6, <1>8, <2>1
  <2>2. ASSUME NEW x \in Points, old.colors[x] # Empty, old.chain_head[x] = h
        PROVE  s.g.colors[x] # Empty /\ s.g.chain_head[x] = h
    <3>1. x # v /\ x \notin taken
      BY <1>1, <1>4, <1>7, <2>2
    <3> QED
      BY <1>5, <1>6, <1>7, <2>2, <3>1
  <2> QED
    BY <2>1, <2>2 DEF Members
<1>10. s.g.colors[w] = old.colors[w] /\ s.g.chain_head[w] = h
  <2>1. w # v /\ w \notin taken /\ old.chain_head[w] = h
    BY <1>1, <1>4, <1>7 DEF h
  <2> QED
    BY <1>5, <1>6, <1>7, <2>1
<1> QED
  BY <1>2, <1>3, <1>8, <1>9, <1>10 DEF h

\* Nothing is done at a point without a stone, and at a chain that has been met.
LEMMA MeetNone ==
    ASSUME NEW old, NEW v, NEW c, FreeFor(old, v, c), NEW k \in 1..Len(AdjSeq[v]), NEW s, Met(old, v, c, k - 1, s),
           NEW w, w = AdjSeq[v][k],
           old.colors[w] = Empty \/ old.chain_head[w] \in MetBy(old, v, k - 1)
    PROVE  Meet(v, c, s, w) = s /\ Met(old, v, c, k, s)
<1> DEFINE met == MetBy(old, v, k - 1)
           taken == TakenBy(old, v, c, k - 1)
           h == old.chain_head[w]
<1>1. Solid(old) /\ v \in Points /\ old.colors[v] = Empty /\ c \in Colors /\ c # Empty
      /\ Opp(c) # c /\ Opp(c) # Empty /\ Opp(c) \in Colors
  BY Kinds DEF FreeFor, Opp
<1>2. k \in 0..Len(AdjSeq[v]) /\ k - 1 \in 0..Len(AdjSeq[v]) /\ k > 0 /\ k \in Nat \ {0}
      /\ AdjSeq[v] \in Seq(Points)
  <2>1. Len(AdjSeq[v]) \in Nat /\ AdjSeq[v] \in Seq(Points)
    BY <1>1, AdjSeqIsAdj
  <2> QED
    BY <2>1
<1>3. w \in Points /\ w \in Adj[v] /\ w # v
  <2>1. w \in Adj[v]
    BY <1>1, AdjSeqIsAdj
  <2> QED
    BY <1>1, <2>1, Symmetric
<1>4. \A x \in taken : x # v /\ old.colors[x] = Opp(c) /\ old.chain_head[x] \in met
  BY <1>2, TakenStones
<1>5. \A x \in Points : s.g.colors[x] = IF x \in taken THEN Empty ELSE IF x = v THEN c ELSE old.colors[x]
  BY <1>2, MetColors
<1>6. /\ s.g.chain_head[w] = IF old.colors[w] = c /\ h \in met THEN s.g.chain_head[v] ELSE h
      /\ s.seen = {x \in met : old.colors[x] = Opp(c)}
  BY <1>3 DEF Met
<1>7. Meet(v, c, s, w) = s
  <2>1. CASE old.colors[w] = Empty
    <3>1. s.g.colors[w] = Empty
      BY <1>3, <1>5, <2>1
    <3> QED
      BY <1>1, <3>1 DEF Meet
  <2>2. CASE old.colors[w] = c
    <3>1. h \in met
      BY <1>1, <2>2
    <3>2. s.g.chain_head[w] = s.g.chain_head[v] /\ s.g.colors[w] = c
      BY <1>1, <1>3, <1>4, <1>5, <1>6, <2>2, <3>1
    <3> QED
      BY <1>1, <3>2 DEF Meet
  <2>3. CASE old.colors[w] = Opp(c)
    <3>1. h \in met
      BY <1>1, <2>3
    <3>2. old.colors[h] = Opp(c)
      BY <1>1, <1>3, <2>3, SolidStone
    <3>3. s.g.chain_head[w] = h /\ h \in s.seen
      BY <1>1, <1>6, <2>3, <3>1, <3>2
    <3>4. s.g.colors[w] # c
      BY <1>1, <1>3, <1>5, <2>3
    <3> HIDE DEF h
    <3> QED
      BY <3>3, <3>4 DEF Meet
  <2>4. old.colors[w] \in {Empty, c, Opp(c)}
    <3>1. old.colors \in Stones
      BY <1>1, BoardParts DEF Solid
    <3>2. \A d \in Colors : d = c \/ d = Opp(c)
      BY <1>1 DEF Colors, Opp, Opponent
    <3> QED
      BY <1>3, <3>1, <3>2 DEF Stones
  <2> QED
    BY <2>1, <2>2, <2>3, <2>4
<1>8. MetBy(old, v, k) = met
  <2>1. MetBy(old, v, k) = met \cup IF old.colors[w] # Empty THEN {h} ELSE {}
    BY <1>1, <1>2, MetHeads
  <2> HIDE DEF met
  <2> QED
    BY <2>1 DEF met
<1>9. TakenBy(old, v, c, k) = taken
  <2> DEFINE q == Put(old.colors, {v}, c)
  <2>1. TakenBy(old, v, c, k) = taken \cup Dead(q, Opp(c), w)
    <3>1. Taken(q, Opp(c), AdjSeq[v], k) = Taken(q, Opp(c), AdjSeq[v], k - 1) \cup Dead(q, Opp(c), AdjSeq[v][k])
      <4> HIDE DEF q
      <4> QED
        BY <1>2, TakenNext
    <3>2. TakenBy(old, v, c, k) = Taken(q, Opp(c), AdjSeq[v], k) /\ taken = Taken(q, Opp(c), AdjSeq[v], k - 1)
      BY Zenon DEF TakenBy, q
    <3> QED
      BY <3>1, <3>2
  <2>2. Dead(q, Opp(c), w) \subseteq taken
    <3>1. CASE old.colors[w] = Opp(c)
      <4>1. h \in met
        BY <1>1, <3>1
      <4> QED
        BY <1>1, <1>2, <1>3, <3>1, <4>1, TakenHeads
    <3>2. CASE old.colors[w] # Opp(c)
      <4>1. q[w] = old.colors[w]
        BY <1>3 DEF Put
      <4> QED
        BY <3>2, <4>1 DEF Dead
    <3> QED
      BY <3>1, <3>2
  <2> QED
    BY <2>1, <2>2
<1>10. Met(old, v, c, k, s)
  BY <1>8, <1>9 DEF Met
<1> QED
  BY <1>7, <1>10

\* A chain of the stone's colour that it has not met joins its own.
LEMMA MeetOwn ==
    ASSUME NEW old, NEW v, NEW c, FreeFor(old, v, c), NEW k \in 1..Len(AdjSeq[v]), NEW s, Met(old, v, c, k - 1, s),
           NEW w, w = AdjSeq[v][k], old.colors[w] = c, old.chain_head[w] \notin MetBy(old, v, k - 1)
    PROVE  Met(old, v, c, k, Meet(v, c, s, w))
<1> DEFINE met == MetBy(old, v, k - 1)
           taken == TakenBy(old, v, c, k - 1)
           h == old.chain_head[w]
           cv == s.g.chain_head[v]
           owing == MetAll(old, v) \ met
           e == Eaten(s.g, h)
           m == MergeChains(e, w, v)
           t == Meet(v, c, s, w)
<1>1. Solid(old) /\ v \in Points /\ old.colors[v] = Empty /\ c \in Colors /\ c # Empty
      /\ Opp(c) # c /\ Opp(c) # Empty /\ Opp(c) \in Colors
  BY Kinds DEF FreeFor, Opp
<1>2. k \in 0..Len(AdjSeq[v]) /\ k - 1 \in 0..Len(AdjSeq[v]) /\ k > 0 /\ k \in Nat \ {0}
      /\ AdjSeq[v] \in Seq(Points)
  <2>1. Len(AdjSeq[v]) \in Nat /\ AdjSeq[v] \in Seq(Points)
    BY <1>1, AdjSeqIsAdj
  <2> QED
    BY <2>1
<1>3. w \in Points /\ w \in Adj[v] /\ w # v
  <2>1. w \in Adj[v]
    BY <1>1, AdjSeqIsAdj
  <2> QED
    BY <1>1, <2>1, Symmetric
<1>4. \A x \in taken : x # v /\ old.colors[x] = Opp(c) /\ old.chain_head[x] \in met
  <2> HIDE DEF h, cv, owing, e, m, t
  <2> QED
    BY <1>2, TakenStones
<1>5. \A x \in Points : s.g.colors[x] = IF x \in taken THEN Empty ELSE IF x = v THEN c ELSE old.colors[x]
  BY <1>2, MetColors
<1>6. /\ s \in Meetings /\ s.g \in Boards /\ Linked(s.g) /\ Hashed(s.g) /\ Counted(s.g, owing)
      /\ s.g.colors = Put(Put(old.colors, {v}, c), taken, Empty)
      /\ s.g.ko_loc = old.ko_loc /\ s.g.captures = old.captures /\ cv \in {v} \cup met
      /\ s.seen = {x \in met : old.colors[x] = Opp(c)}
      /\ s.captured = Cardinality(taken) /\ (s.captured = 1 => taken = {s.ko})
  BY DEF Met, Meetings
<1>7. \A x \in Points \ {v} : s.g.chain_head[x] = IF old.colors[x] = c /\ old.chain_head[x] \in met THEN cv ELSE old.chain_head[x]
  BY DEF Met
<1>8. /\ h \in Points /\ h # v /\ h # cv /\ h \notin met
      /\ s.g.colors[w] = c /\ s.g.chain_head[w] = h /\ w \in Members(s.g, h) /\ Members(s.g, h) # {}
  <2>1. w \in Members(s.g, h)
    BY <1>1, <1>2, <1>3, UnmetChain
  <2> QED
    BY <1>1, <1>2, <1>3, <2>1, UnmetChain
<1>9. h \in owing
  <2>1. h \in MetAll(old, v)
    BY <1>1, <1>3, MetAllHeads
  <2> QED
    BY <1>8, <2>1
<1>10. t = [s EXCEPT !.g = m]
  <2>1. s.g.colors[w] = c /\ s.g.chain_head[w] # s.g.chain_head[v]
    BY <1>8
  <2>2. t = [s EXCEPT !.g = MergeChains(Eaten(s.g, s.g.chain_head[w]), w, v)]
    <3> HIDE DEF met, taken, h, cv, owing, e, m
    <3> QED
      BY <1>1, <2>1 DEF Meet
  <2> QED
    BY <1>8, <2>2
<1>11. v \in Points /\ s.g.colors[v] = c /\ cv # NoLoc /\ cv \in Points
  <2>1. v \notin taken
    BY <1>4
  <2>2. met \in SUBSET Points
    BY <1>1, <1>2, MetHeads
  <2> QED
    BY <1>1, <1>5, <1>6, <2>1, <2>2, NoLocIsNoPoint
<1> HIDE DEF met, taken, h, cv, owing, m, t
<1>12. /\ e \in Boards /\ Linked(e) /\ Hashed(e) /\ Counted(e, owing \ {h})
       /\ e.colors = s.g.colors /\ e.chain_head = s.g.chain_head
       /\ e.ko_loc = s.g.ko_loc /\ e.captures = s.g.captures
       /\ \A x : Members(e, x) = Members(s.g, x)
  <2> DEFINE g == s.g
  <2>1. g \in Boards /\ Linked(g) /\ Hashed(g) /\ Counted(g, owing) /\ h \in Points /\ Members(g, h) # {}
    BY <1>6, <1>8
  <2> HIDE DEF g
  <2>2. LET ate == Eaten(g, h) IN
           /\ ate \in Boards /\ Linked(ate) /\ Hashed(ate) /\ Counted(ate, owing \ {h})
           /\ ate.colors = g.colors /\ ate.chain_head = g.chain_head
           /\ ate.ko_loc = g.ko_loc /\ ate.captures = g.captures
           /\ \A x : Members(ate, x) = Members(g, x)
    BY <1>9, <2>1, Eating
  <2> QED
    BY <2>2 DEF g
<1> HIDE DEF e
<1>13. e.colors[w] = c /\ e.colors[v] = c /\ e.chain_head[w] = h /\ e.chain_head[v] = cv /\ h # NoLoc
  BY <1>8, <1>11, <1>12, NoLocIsNoPoint DEF cv
<1>14. PICK l, z \in {h, cv} : l # z /\ Merged(e, m, l, z)
  <2>1. \E l, z \in {e.chain_head[w], e.chain_head[v]} : l # z /\ Merged(e, MergeChains(e, w, v), l, z)
    BY <1>1, <1>3, <1>8, <1>11, <1>12, <1>13, Merging
  <2> QED
    BY <1>13, <2>1 DEF m
<1>15. ListOf(e, h) /\ ListOf(e, cv) /\ e.colors[h] = c /\ e.colors[cv] = c /\ v \in Members(e, cv)
  <2>1. e.colors[w] # Empty /\ e.colors[v] # Empty /\ e.chain_head[w] # NoLoc /\ e.chain_head[v] # NoLoc
    BY <1>1, <1>11, <1>13
  <2>2. ListOf(e, h) /\ e.colors[h] = c
    BY <1>3, <1>12, <1>13, <2>1, StoneOnList
  <2>3. ListOf(e, cv) /\ e.colors[cv] = c /\ v \in Members(e, cv)
    BY <1>11, <1>12, <1>13, <2>1, StoneOnList
  <2> QED
    BY <2>2, <2>3
<1>16. l \in Points /\ z \in Points /\ ListOf(e, l) /\ ListOf(e, z) /\ e.colors[l] = e.colors[z]
  BY <1>8, <1>11, <1>14, <1>15
<1>17. Linked(m) /\ Counted(m, owing \ {h})
  <2>1. cv \notin owing
    <3>1. v \notin MetAll(old, v)
      <4>1. \A x \in MetAll(old, v) : old.colors[x] # Empty
        <5>1. Len(AdjSeq[v]) \in 0..Len(AdjSeq[v])
          BY <1>2
        <5> QED
          BY <1>1, <5>1, MetHeads DEF MetAll
      <4> QED
        BY <1>1, <4>1
    <3> QED
      BY <1>6, <3>1 DEF owing
  <2>2. l \notin owing \ {h} /\ z \notin owing \ {h}
    BY <1>14, <2>1
  <2> QED
    BY <1>12, <1>14, <1>16, <2>2, MergedLists
<1>18. /\ m \in Boards /\ m.colors = s.g.colors /\ m.hash = e.hash
       /\ m.ko_loc = old.ko_loc /\ m.captures = old.captures
       /\ \A x \in Points : m.chain_head[x] = IF x \in Members(s.g, z) THEN l ELSE s.g.chain_head[x]
  BY <1>6, <1>12, <1>14 DEF Merged
<1>19. Hashed(m)
  BY <1>12, <1>18 DEF Hashed
<1>20. MetBy(old, v, k) = met \cup {h}
  <2>1. MetBy(old, v, k) = met \cup IF old.colors[w] # Empty THEN {h} ELSE {}
    BY <1>1, <1>2, MetHeads DEF met, h
  <2> QED
    BY <1>1, <2>1
<1>21. TakenBy(old, v, c, k) = taken
  <2> DEFINE q == Put(old.colors, {v}, c)
  <2>1. TakenBy(old, v, c, k) = taken \cup Dead(q, Opp(c), AdjSeq[v][k])
    <3>1. Taken(q, Opp(c), AdjSeq[v], k) = Taken(q, Opp(c), AdjSeq[v], k - 1) \cup Dead(q, Opp(c), AdjSeq[v][k])
      <4> HIDE DEF q
      <4> QED
        BY <1>2, TakenNext
    <3>2. TakenBy(old, v, c, k) = Taken(q, Opp(c), AdjSeq[v], k) /\ taken = Taken(q, Opp(c), AdjSeq[v], k - 1)
      BY Zenon DEF TakenBy, taken, q
    <3> QED
      BY <3>1, <3>2
  <2>2. q[w] = c
    BY <1>3 DEF Put
  <2>3. Dead(q, Opp(c), w) = {}
    BY <1>1, <2>2 DEF Dead
  <2> QED
    BY <2>1, <2>3
<1>22. m.chain_head[v] = l
  <2>1. CASE z = cv
    BY <1>11, <1>12, <1>15, <1>18, <2>1
  <2>2. CASE z = h
    <3>1. l = cv /\ v \notin Members(s.g, h)
      BY <1>8, <1>14, <2>2 DEF Members, cv
    <3> QED
      BY <1>11, <1>18, <2>2, <3>1 DEF cv
  <2> QED
    BY <1>14, <2>1, <2>2
<1>23. ASSUME NEW x \in Points \ {v}
       PROVE  m.chain_head[x] = IF old.colors[x] = c /\ old.chain_head[x] \in met \cup {h} THEN l ELSE old.chain_head[x]
  <2>0. x \in Members(s.g, z) <=> s.g.colors[x] # Empty /\ s.g.chain_head[x] = z
    BY DEF Members
  <2>1. m.chain_head[x] = IF x \in Members(s.g, z) THEN l ELSE s.g.chain_head[x]
    BY <1>18
  <2>2. s.g.chain_head[x] = IF old.colors[x] = c /\ old.chain_head[x] \in met THEN cv ELSE old.chain_head[x]
    BY <1>7
  <2>3. s.g.colors[x] = IF x \in taken THEN Empty ELSE old.colors[x]
    BY <1>5
  <2>4. x \in taken => old.colors[x] = Opp(c)
    BY <1>4
  <2>5. CASE old.colors[x] = c /\ old.chain_head[x] \in met
    <3>1. s.g.colors[x] # Empty /\ s.g.chain_head[x] = cv
      BY <1>1, <2>2, <2>3, <2>4, <2>5
    <3> QED
      BY <1>14, <2>0, <2>1, <2>5, <3>1
  <2>6. CASE old.colors[x] = c /\ old.chain_head[x] = h
    <3>1. s.g.colors[x] # Empty /\ s.g.chain_head[x] = h
      BY <1>1, <1>8, <2>2, <2>3, <2>4, <2>6
    <3> QED
      BY <1>14, <2>0, <2>1, <2>6, <3>1
  <2>7. CASE ~(old.colors[x] = c /\ old.chain_head[x] \in met \cup {h})
    <3>1. s.g.chain_head[x] = old.chain_head[x]
      BY <2>2, <2>7
    <3>2. x \notin Members(s.g, z)
      <4> SUFFICES ASSUME s.g.colors[x] # Empty, old.chain_head[x] = z PROVE FALSE
        BY <2>0, <3>1
      <4>1. old.colors[x] # Empty
        BY <2>3
      <4>2. old.colors[z] = old.colors[x] /\ old.colors[x] # c
        <5>1. old.colors[z] = old.colors[x]
          BY <1>1, <4>1, SolidStone
        <5>2. old.colors[v] = Empty
          BY <1>1
        <5>3. z # v
          BY <4>1, <5>1, <5>2
        <5>4. z \in met \cup {h}
          BY <1>6, <1>14, <5>3
        <5> QED
          BY <2>7, <5>1, <5>4
      <4>3. s.g.colors[z] = c
        BY <1>12, <1>14, <1>15
      <4>4. z # v
        BY <1>1, <4>1, <4>2
      <4> QED
        BY <1>1, <1>5, <1>16, <4>2, <4>3, <4>4
    <3> QED
      BY <2>1, <2>7, <3>1, <3>2
  <2> QED
    BY <2>5, <2>6, <2>7
<1>24. /\ t.g = m /\ t.seen = s.seen /\ t.captured = s.captured /\ t.ko = s.ko /\ t \in Meetings
  BY <1>6, <1>10, <1>18 DEF Meetings
<1>25. owing \ {h} = MetAll(old, v) \ (met \cup {h})
  BY DEF owing
<1>26. {x \in met \cup {h} : old.colors[x] = Opp(c)} = {x \in met : old.colors[x] = Opp(c)}
  <2>1. old.colors[h] = c
    BY <1>1, <1>3, SolidStone DEF h
  <2> QED
    BY <1>1, <2>1
<1>27. l \in {v} \cup (met \cup {h})
  BY <1>6, <1>14
<1>28. Met(old, v, c, k, t)
  BY <1>6, <1>17, <1>18, <1>19, <1>20, <1>21, <1>22, <1>23, <1>24, <1>25, <1>26, <1>27 DEF Met
<1> QED
  BY <1>28 DEF t

\* An opposing chain that it has not met loses a liberty, and is taken off if that
\* was its last one.
LEMMA MeetOther ==
    ASSUME NEW old, NEW v, NEW c, FreeFor(old, v, c), NEW k \in 1..Len(AdjSeq[v]), NEW s, Met(old, v, c, k - 1, s),
           NEW w, w = AdjSeq[v][k], old.colors[w] = Opp(c), old.chain_head[w] \notin MetBy(old, v, k - 1)
    PROVE  Met(old, v, c, k, Meet(v, c, s, w))
<1> DEFINE met == MetBy(old, v, k - 1)
           taken == TakenBy(old, v, c, k - 1)
           h == old.chain_head[w]
           cv == s.g.chain_head[v]
           owing == MetAll(old, v) \ met
           g == s.g
           M == Members(g, h)
           q == Put(old.colors, {v}, c)
           o == Opp(c)
           e == Eaten(g, h)
           t == Meet(v, c, s, w)
<1>1. Solid(old) /\ v \in Points /\ old.colors[v] = Empty /\ c \in Colors /\ c # Empty
      /\ o # c /\ o # Empty /\ o \in Colors
  BY Kinds DEF FreeFor, Opp
<1>2. k \in 0..Len(AdjSeq[v]) /\ k - 1 \in 0..Len(AdjSeq[v]) /\ k > 0 /\ k \in Nat \ {0}
      /\ AdjSeq[v] \in Seq(Points)
  <2>1. Len(AdjSeq[v]) \in Nat /\ AdjSeq[v] \in Seq(Points)
    BY <1>1, AdjSeqIsAdj
  <2> QED
    BY <2>1
<1>3. w \in Points /\ w \in Adj[v] /\ w # v
  <2>1. w \in Adj[v]
    BY <1>1, AdjSeqIsAdj
  <2> QED
    BY <1>1, <2>1, Symmetric
<1>4. taken \in SUBSET Points /\ \A x \in taken : x # v /\ old.colors[x] = o /\ old.chain_head[x] \in met
  BY <1>2, TakenStones
<1>5. \A x \in Points : g.colors[x] = IF x \in taken THEN Empty ELSE IF x = v THEN c ELSE old.colors[x]
  BY <1>2, MetColors
<1>6. /\ s \in Meetings /\ g \in Boards /\ Linked(g) /\ Hashed(g) /\ Counted(g, owing)
      /\ g.colors = Put(q, taken, Empty)
      /\ g.ko_loc = old.ko_loc /\ g.captures = old.captures /\ cv \in {v} \cup met
      /\ s.seen = {x \in met : old.colors[x] = o}
      /\ s.captured = Cardinality(taken) /\ (s.captured = 1 => taken = {s.ko})
  BY DEF Met, Meetings
<1>7. \A x \in Points \ {v} : g.chain_head[x] = IF old.colors[x] = c /\ old.chain_head[x] \in met THEN cv ELSE old.chain_head[x]
  BY DEF Met
<1>8. /\ h \in Points /\ h # v /\ h # cv /\ h \notin met /\ old.colors[h] = o
      /\ g.colors[w] = o /\ g.chain_head[w] = h /\ w \in M /\ M = Members(old, h)
  <2>1. h \notin met
    OBVIOUS
  <2>2. h \in Points /\ h # v /\ h # cv /\ old.colors[h] = o
    BY <1>1, <1>2, <1>3, UnmetChain
  <2>3. g.colors[w] = o /\ g.chain_head[w] = h /\ w \in M /\ M = Members(old, h)
    BY <1>1, <1>2, <1>3, UnmetChain
  <2> QED
    BY <2>1, <2>2, <2>3
<1>9. h \in owing
  <2>1. h \in MetAll(old, v)
    BY <1>1, <1>3, MetAllHeads
  <2> QED
    BY <1>8, <2>1
<1>10. q[w] = o /\ Group(q, w) = M
  <2>1. q[w] = o /\ Group(q, w) = Members(old, h)
    BY <1>1, <1>3, OpposingGroup
  <2> QED
    BY <1>8, <2>1
<1>11. q \in Stones /\ \A x \in taken : q[x] = o /\ Group(q, x) \subseteq taken
  <2>1. old.colors \in Stones
    BY <1>1, BoardParts DEF Solid
  <2>2. q \in Stones
    BY <1>1, <2>1 DEF Put, Stones
  <2>3. taken = Taken(q, o, AdjSeq[v], k - 1)
    BY DEF TakenBy
  <2>4. \A x \in Taken(q, o, AdjSeq[v], k - 1) : q[x] = o /\ Group(q, x) \subseteq Taken(q, o, AdjSeq[v], k - 1)
    <3> HIDE DEF q, o
    <3> QED
      BY <1>2, TakenSets
  <2> QED
    BY <2>2, <2>3, <2>4
<1>12. M \cap taken = {} /\ w \notin taken
  BY <1>4, <1>8 DEF Members
<1>13. TakenBy(old, v, c, k) = taken \cup Dead(q, o, w)
  <2>1. TakenBy(old, v, c, k) = Taken(q, o, AdjSeq[v], k) /\ taken = Taken(q, o, AdjSeq[v], k - 1)
    BY DEF TakenBy
  <2>2. Taken(q, o, AdjSeq[v], k) = Taken(q, o, AdjSeq[v], k - 1) \cup Dead(q, o, AdjSeq[v][k])
    <3> HIDE DEF q, o
    <3> QED
      BY <1>2, TakenNext
  <2> QED
    BY <2>1, <2>2
<1>14. MetBy(old, v, k) = met \cup {h}
  <2>1. MetBy(old, v, k) = met \cup IF old.colors[w] # Empty THEN {h} ELSE {}
    BY <1>1, <1>2, MetHeads
  <2> QED
    BY <1>1, <2>1
<1>15. owing \ {h} = MetAll(old, v) \ (met \cup {h})
  OBVIOUS
<1>16. s.seen \cup {h} = {x \in met \cup {h} : old.colors[x] = o}
  BY <1>6, <1>8
<1>17. /\ t = IF e.libs[h] = 0
              THEN [g |-> RemoveChain(e, w), seen |-> s.seen \cup {h}, ko |-> w,
                    captured |-> s.captured + Len(Ring(e, w))]
              ELSE [s EXCEPT !.g = e, !.seen = @ \cup {h}]
  <2>1. s.g.colors[w] = Opp(c) /\ s.g.colors[w] # c /\ s.g.chain_head[w] \notin s.seen
    BY <1>1, <1>6, <1>8
  <2>2. s.g.chain_head[w] = h
    BY <1>8
  <2> HIDE DEF h, met, taken, owing, M, q
  <2>3. t = IF Eaten(s.g, s.g.chain_head[w]).libs[s.g.chain_head[w]] = 0
            THEN [g |-> RemoveChain(Eaten(s.g, s.g.chain_head[w]), w), seen |-> s.seen \cup {s.g.chain_head[w]},
                  ko |-> w, captured |-> s.captured + Len(Ring(Eaten(s.g, s.g.chain_head[w]), w))]
            ELSE [s EXCEPT !.g = Eaten(s.g, s.g.chain_head[w]), !.seen = @ \cup {s.g.chain_head[w]}]
    BY <2>1 DEF Meet
  <2> QED
    BY <2>2, <2>3
<1> HIDE DEF met, taken, h, cv, owing, q, o, t
<1>18. g.colors[w] = o /\ Group(g.colors, w) = M /\ Liberties(g.colors, w) = Liberties(q, w)
  <2>1. LET r == Put(q, taken, Empty) IN
          r[w] = o /\ Group(r, w) = Group(q, w) /\ Liberties(r, w) = Liberties(q, w)
    BY <1>1, <1>3, <1>4, <1>10, <1>11, <1>12, Removal
  <2> QED
    BY <1>6, <1>10, <2>1
<1>19. Around(g.colors, M) = Liberties(q, w)
  BY <1>18 DEF Liberties
<1> HIDE DEF M, g
<1>20. /\ e \in Boards /\ Linked(e) /\ Hashed(e) /\ Counted(e, owing \ {h})
       /\ e.colors = g.colors /\ e.chain_head = g.chain_head
       /\ e.ko_loc = g.ko_loc /\ e.captures = g.captures
       /\ Members(e, h) = M
       /\ e.libs[h] = Cardinality(Liberties(q, w))
  <2>1. /\ g \in Boards /\ Linked(g) /\ Hashed(g) /\ Counted(g, owing)
        /\ h \in Points /\ h \in owing /\ Members(g, h) # {}
    BY <1>6, <1>8, <1>9 DEF M
  <2>2. LET ate == Eaten(g, h) IN
           /\ ate \in Boards /\ Linked(ate) /\ Hashed(ate) /\ Counted(ate, owing \ {h})
           /\ ate.colors = g.colors /\ ate.chain_head = g.chain_head
           /\ ate.ko_loc = g.ko_loc /\ ate.captures = g.captures
           /\ \A x : Members(ate, x) = Members(g, x)
           /\ ate.libs[h] = Cardinality(Around(g.colors, Members(g, h)))
    BY <2>1, Eating
  <2> QED
    BY <1>19, <2>2 DEF M, e
<1> HIDE DEF e
<1>21. Liberties(q, w) \in SUBSET Points /\ (e.libs[h] = 0 <=> Liberties(q, w) = {})
  <2>1. Liberties(q, w) \in SUBSET Points
    BY AroundSets DEF Liberties
  <2> QED
    BY <1>20, <2>1, SetSizes
<1>22. CASE e.libs[h] # 0
  <2>1. TakenBy(old, v, c, k) = taken
    BY <1>13, <1>21, <1>22 DEF Dead
  <2>2. t = [s EXCEPT !.g = e, !.seen = @ \cup {h}]
    BY <1>17, <1>22
  <2>3. t.g = e /\ t.seen = s.seen \cup {h} /\ t.captured = s.captured /\ t.ko = s.ko /\ t \in Meetings
    BY <1>6, <1>8, <1>20, <2>2 DEF Meetings
  <2>4. \A x \in Points \ {v} : old.colors[x] = c => old.chain_head[x] # h
    <3> SUFFICES ASSUME NEW x \in Points \ {v}, old.colors[x] = c, old.chain_head[x] = h PROVE FALSE
      OBVIOUS
    <3>1. old.colors[h] = c
      BY <1>1, SolidStone
    <3> QED
      BY <1>1, <1>8, <3>1
  <2>5. \A x \in Points \ {v} : e.chain_head[x] =
          IF old.colors[x] = c /\ old.chain_head[x] \in met \cup {h} THEN e.chain_head[v] ELSE old.chain_head[x]
    BY <1>7, <1>20, <2>4 DEF cv, g
  <2>6. e.chain_head[v] \in {v} \cup (met \cup {h})
    BY <1>6, <1>20 DEF cv, g
  <2>7. e.colors = Put(Put(old.colors, {v}, c), taken, Empty) /\ e.ko_loc = old.ko_loc /\ e.captures = old.captures
    BY <1>6, <1>20 DEF q
  <2>8. Met(old, v, c, k, t)
    BY <1>6, <1>14, <1>15, <1>16, <1>20, <2>1, <2>3, <2>5, <2>6, <2>7 DEF Met, o
  <2> QED
    BY <2>8 DEF t
<1>23. CASE e.libs[h] = 0
  <2> DEFINE m == RemoveChain(e, w)
  <2>1. ListOf(e, h) /\ w \in Members(e, h) /\ e.colors[h] = o
    <3>1. ListOf(e, h)
      BY <1>8, <1>20 DEF Linked
    <3>2. w \in Members(e, h)
      BY <1>8, <1>20
    <3> QED
      BY <1>8, <1>20, <3>1, <3>2 DEF ListOf
  <2>2. Cleared(e, m, M, o)
    BY <1>1, <1>8, <1>20, <2>1, Removing
  <2>3. \A x \in M : \A y \in Adj[x] : e.colors[y] = o => y \in M
    <3> SUFFICES ASSUME NEW x \in M, NEW y \in Adj[x], g.colors[y] = o PROVE y \in M
      BY <1>20
    <3>1. x \in Points
      BY MembersSets DEF M
    <3>2. y \in Points /\ x \in Adj[y]
      BY <3>1, Symmetric
    <3> QED
      BY <1>3, <1>18, <3>2, Groups
  <2>4. Linked(m) /\ Hashed(m) /\ Counted(m, owing \ {h})
    <3>1. e.colors[h] \in Colors
      BY <1>1, <2>1
    <3>2. \A x \in Members(e, h) : \A y \in Adj[x] : e.colors[y] = e.colors[h] => y \in Members(e, h)
      BY <1>20, <2>1, <2>3
    <3>3. Cleared(e, m, Members(e, h), e.colors[h])
      BY <1>20, <2>1, <2>2
    <3> HIDE DEF m
    <3> QED
      BY <1>8, <1>20, <2>1, <3>1, <3>2, <3>3, ClearedLists
  <2> HIDE DEF m
  <2>5. /\ m \in Boards /\ m.colors = Put(e.colors, M, Empty) /\ m.chain_head = e.chain_head
        /\ m.ko_loc = old.ko_loc /\ m.captures = old.captures
    BY <1>6, <1>20, <2>2 DEF Cleared
  <2>6. TakenBy(old, v, c, k) = taken \cup M
    BY <1>10, <1>13, <1>21, <1>23 DEF Dead
  <2>7. m.colors = Put(Put(old.colors, {v}, c), taken \cup M, Empty)
    <3>1. e.colors = Put(q, taken, Empty)
      BY <1>6, <1>20
    <3>2. Put(Put(q, taken, Empty), M, Empty) = Put(q, taken \cup M, Empty)
      BY PutTwice
    <3> QED
      BY <2>5, <3>1, <3>2 DEF q
  <2>8. /\ Ring(e, w) \in Seq(Points) /\ Len(Ring(e, w)) = Cardinality(M) /\ Len(Ring(e, w)) \in Nat \ {0}
    BY <1>8, <1>20, <2>1, RingOfList
  <2>9. t = [g |-> m, seen |-> s.seen \cup {h}, ko |-> w, captured |-> s.captured + Cardinality(M)]
    BY <1>17, <1>23, <2>8 DEF m
  <2>10. M \in SUBSET Points
    BY MembersSets DEF M
  <2>11. Cardinality(taken \cup M) = Cardinality(taken) + Cardinality(M) /\ Cardinality(taken) \in Nat
    <3>1. Cardinality(taken \cup M) = Cardinality(taken) + Cardinality(M)
      BY <1>4, <1>12, <2>10, DisjointSets
    <3>2. Cardinality(taken) \in Nat
      BY <1>4, SetSizes
    <3> QED
      BY <3>1, <3>2
  <2>12. t.g = m /\ t.seen = s.seen \cup {h} /\ t.captured = Cardinality(taken \cup M) /\ t.ko = w /\ t \in Meetings
    <3>1. s.captured + Cardinality(M) = Cardinality(taken \cup M) /\ Cardinality(taken \cup M) \in Nat
      BY <1>6, <2>8, <2>11
    <3>2. s.seen \cup {h} \in SUBSET Points
      BY <1>6, <1>8 DEF Meetings
    <3> QED
      BY <1>3, <2>5, <2>9, <3>1, <3>2 DEF Meetings
  <2>13. t.captured = 1 => taken \cup M = {t.ko}
    <3> SUFFICES ASSUME t.captured = 1 PROVE taken \cup M = {w}
      BY <2>12
    <3>1. Cardinality(taken) = 0 /\ Cardinality(M) = 1
      BY <2>8, <2>11, <2>12
    <3>2. taken = {}
      BY <1>4, <3>1, SetSizes
    <3>3. \E x : M = {x}
      BY <2>10, <3>1, SetSizes
    <3> QED
      BY <1>8, <3>2, <3>3
  <2>14. \A x \in Points \ {v} : old.colors[x] = c => old.chain_head[x] # h
    <3> SUFFICES ASSUME NEW x \in Points \ {v}, old.colors[x] = c, old.chain_head[x] = h PROVE FALSE
      OBVIOUS
    <3>1. old.colors[h] = c
      BY <1>1, SolidStone
    <3> QED
      BY <1>1, <1>8, <3>1
  <2>15. \A x \in Points \ {v} : m.chain_head[x] =
          IF old.colors[x] = c /\ old.chain_head[x] \in met \cup {h} THEN m.chain_head[v] ELSE old.chain_head[x]
    BY <1>7, <1>20, <2>5, <2>14 DEF cv, g
  <2>16. m.chain_head[v] \in {v} \cup (met \cup {h})
    BY <1>6, <1>20, <2>5 DEF cv, g
  <2>17. Met(old, v, c, k, t)
    BY <1>6, <1>14, <1>15, <1>16, <2>4, <2>5, <2>6, <2>7, <2>12, <2>13, <2>15, <2>16 DEF Met, o
  <2> QED
    BY <2>17 DEF t
<1> QED
  BY <1>22, <1>23

LEMMA MeetNext ==
    ASSUME NEW old, NEW v, NEW c, FreeFor(old, v, c), NEW k \in 1..Len(AdjSeq[v]), NEW s, Met(old, v, c, k - 1, s)
    PROVE  Met(old, v, c, k, Meet(v, c, s, AdjSeq[v][k]))
<1> DEFINE w == AdjSeq[v][k]
<1>1. w \in Points
  <2>1. v \in Points
    BY DEF FreeFor
  <2>2. AdjSeq[v] \in Seq(Points)
    BY <2>1, AdjSeqIsAdj
  <2> QED
    BY <2>2
<1>2. old.colors[w] \in {Empty, c, Opp(c)}
  <2>1. old.colors \in Stones /\ c \in Colors
    BY BoardParts DEF FreeFor, Solid
  <2>2. \A d \in Colors : d = c \/ d = Opp(c)
    BY <2>1 DEF Colors, Opp, Opponent
  <2> QED
    BY <1>1, <2>1, <2>2 DEF Stones
<1>3. CASE old.colors[w] = Empty \/ old.chain_head[w] \in MetBy(old, v, k - 1)
  <2> HIDE DEF w
  <2>1. Meet(v, c, s, w) = s /\ Met(old, v, c, k, s)
    BY <1>3, MeetNone DEF w
  <2> QED
    BY <2>1 DEF w
<1>4. CASE old.colors[w] = c /\ old.chain_head[w] \notin MetBy(old, v, k - 1)
  BY <1>4, MeetOwn
<1>5. CASE old.colors[w] = Opp(c) /\ old.chain_head[w] \notin MetBy(old, v, k - 1)
  BY <1>5, MeetOther
<1> QED
  BY <1>2, <1>3, <1>4, <1>5

Before(g, v, c) == [g |-> NewStone(g, v, c), seen |-> {}, captured |-> 0, ko |-> NoLoc]

LEMMA MetNothing ==
    ASSUME NEW old, NEW v, NEW c, FreeFor(old, v, c)
    PROVE  Met(old, v, c, 0, Before(old, v, c))
<1> DEFINE m == NewStone(old, v, c)
           s == Before(old, v, c)
           q == Put(old.colors, {v}, c)
<1>1. Solid(old) /\ v \in Points /\ old.colors[v] = Empty /\ c \in Colors
  BY DEF FreeFor
<1>2. /\ m \in Boards /\ Linked(m) /\ Hashed(m) /\ Counted(m, MetAll(old, v))
      /\ m.colors = q
      /\ \A x \in Points : m.chain_head[x] = IF x = v THEN v ELSE old.chain_head[x]
      /\ m.ko_loc = old.ko_loc /\ m.captures = old.captures
  BY <1>1, StonePut
<1>3. MetBy(old, v, 0) = {}
  BY DEF MetBy
<1>4. TakenBy(old, v, c, 0) = {}
  BY DEF TakenBy, Taken
<1>5. Put(q, {}, Empty) = q
  <2>1. q = [w \in Points |-> q[w]]
    BY DEF Put
  <2> QED
    BY <2>1 DEF Put
<1> HIDE DEF m, q
<1>6. s.g = m /\ s.seen = {} /\ s.captured = 0 /\ s.ko = NoLoc /\ s \in Meetings
  BY <1>2 DEF Before, Meetings, m
<1>7. MetAll(old, v) \ {} = MetAll(old, v) /\ {h \in {} : old.colors[h] = Opp(c)} = {}
  OBVIOUS
<1>8. Cardinality({}) = 0
  BY FS_EmptySet
<1>9. Put(Put(old.colors, {v}, c), {}, Empty) = m.colors
  BY <1>2, <1>5 DEF q
<1>10. \A x \in Points \ {v} : m.chain_head[x] =
          IF old.colors[x] = c /\ old.chain_head[x] \in {} THEN m.chain_head[v] ELSE old.chain_head[x]
  BY <1>1, <1>2
<1>11. m.chain_head[v] \in {v} \cup {}
  BY <1>1, <1>2
<1> HIDE DEF s
<1>12. Met(old, v, c, 0, s)
  BY <1>2, <1>3, <1>4, <1>6, <1>7, <1>8, <1>9, <1>10, <1>11 DEF Met
<1> QED
  BY <1>12 DEF s

AllMet(g, v, c) ==
    LET meet(s, w) == Meet(v, c, s, w) IN InTurn(meet, Before(g, v, c), AdjSeq[v])

LEMMA MetAllOfThem ==
    ASSUME NEW old, NEW v, NEW c, FreeFor(old, v, c)
    PROVE  Met(old, v, c, Len(AdjSeq[v]), AllMet(old, v, c))
<1> DEFINE list == AdjSeq[v]
           n == Len(list)
           s0 == Before(old, v, c)
           Loop(f) == f = [k \in 0..n |-> IF k = 0 THEN s0 ELSE Meet(v, c, f[k - 1], list[k])]
           J == [k \in 0..n |-> {s \in Meetings : Met(old, v, c, k, s)}]
           f == CHOOSE f : Loop(f)
<1>1. n \in Nat /\ v \in Points
  <2>1. v \in Points
    BY DEF FreeFor
  <2> QED
    BY <2>1, AdjSeqIsAdj
<1>2. AllMet(old, v, c) = f[n]
  BY DEF AllMet, InTurn
<1>3. s0 \in J[0]
  <2>0. Met(old, v, c, 0, s0)
    BY MetNothing
  <2> HIDE DEF s0
  <2>1. s0 \in Meetings /\ Met(old, v, c, 0, s0)
    BY <2>0 DEF Met
  <2> QED
    BY <1>1, <2>1
<1>4. ASSUME NEW k \in 1..n, NEW s \in J[k - 1] PROVE Meet(v, c, s, list[k]) \in J[k]
  <2>1. k - 1 \in 0..n /\ k \in 0..n
    BY <1>1
  <2>2. Met(old, v, c, k - 1, s)
    BY <1>4, <2>1
  <2>3. Met(old, v, c, k, Meet(v, c, s, list[k]))
    BY <2>2, MeetNext
  <2>4. Meet(v, c, s, list[k]) \in Meetings
    BY <2>3 DEF Met
  <2> QED
    BY <2>1, <2>3, <2>4
<1>5. J[n] = {s \in Meetings : Met(old, v, c, n, s)}
  BY <1>1
<1> HIDE DEF J, s0, list, n
<1>6. \E h : Loop(h)
  <2> DEFINE U == UNION {J[k] : k \in 0..n}
             step == [x \in (1..n) \X U |-> Meet(v, c, x[2], list[x[1]])]
  <2>1. \A k \in 1..n : \A s \in J[k - 1] : step[<<k, s>>] = Meet(v, c, s, list[k]) /\ step[<<k, s>>] \in J[k]
    <3> TAKE k \in 1..n
    <3> TAKE s \in J[k - 1]
    <3>1. k - 1 \in 0..n
      BY <1>1
    <3>2. <<k, s>> \in (1..n) \X U
      BY <3>1
    <3>3. step[<<k, s>>] = Meet(v, c, s, list[k])
      BY <3>2
    <3> HIDE DEF step
    <3> QED
      BY <1>4, <3>3
  <2> HIDE DEF step, U
  <2>2. PICK h : LoopOf(h, n, s0, step) /\ \A k \in 0..n : h[k] \in J[k]
    <3>1. \A k \in 1..n : \A s \in J[k - 1] : step[<<k, s>>] \in J[k]
      BY <2>1
    <3> QED
      BY <1>1, <1>3, <3>1, Looped
  <2>3. \A k \in 0..n : (IF k = 0 THEN s0 ELSE step[<<k, h[k - 1]>>])
                        = (IF k = 0 THEN s0 ELSE Meet(v, c, h[k - 1], list[k]))
    <3> TAKE k \in 0..n
    <3>1. CASE k # 0
      <4>1. k \in 1..n /\ k - 1 \in 0..n
        BY <1>1, <3>1
      <4> QED
        BY <2>1, <2>2, <4>1
    <3> QED
      BY <3>1
  <2>4. Loop(h)
    <3>1. [k \in 0..n |-> IF k = 0 THEN s0 ELSE step[<<k, h[k - 1]>>]]
          = [k \in 0..n |-> IF k = 0 THEN s0 ELSE Meet(v, c, h[k - 1], list[k])]
      BY <2>3, Zenon
    <3> QED
      BY <2>2, <3>1 DEF LoopOf
  <2> QED
    BY <2>4
<1>7. Loop(f)
  BY <1>6
<1> HIDE DEF f
<1>8. f[0] = s0 /\ \A k \in 1..n : f[k] = Meet(v, c, f[k - 1], list[k])
  <2>1. \A k \in 0..n : f[k] = IF k = 0 THEN s0 ELSE Meet(v, c, f[k - 1], list[k])
    BY <1>7
  <2> QED
    BY <1>1, <2>1
<1>9. f[n] \in J[n]
  <2>1. GoesOn(f, J, n)
    BY <1>4, <1>8 DEF GoesOn
  <2> QED
    BY <1>1, <1>3, <1>8, <2>1, LoopEnds
<1> QED
  BY <1>2, <1>5, <1>9 DEF n, list
----------------------------------------------------------------------------
(* When it has met them all, the lists are the groups again *)

LEMMA TakenIsCaptured ==
    ASSUME NEW g, NEW v \in Points, NEW c
    PROVE  TakenBy(g, v, c, Len(AdjSeq[v])) = Captured(Put(g.colors, {v}, c), v, c)
<1> DEFINE q == Put(g.colors, {v}, c)
<1>1. \A w : w \in Adj[v] <=> \E k \in 1..Len(AdjSeq[v]) : AdjSeq[v][k] = w
  BY AdjSeqIsAdj
<1> HIDE DEF q
<1>2. Captured(q, v, c) = UNION {Dead(q, Opp(c), w) : w \in Adj[v]}
  BY DEF Captured, Dead, Opp
<1>3. Taken(q, Opp(c), AdjSeq[v], Len(AdjSeq[v])) = UNION {Dead(q, Opp(c), w) : w \in Adj[v]}
  BY <1>1 DEF Taken
<1> QED
  BY <1>2, <1>3 DEF TakenBy, q

\* The board m once the stone at v has met all its neighbours.
Settling(old, v, c, m) ==
    /\ m \in Boards /\ Linked(m) /\ Hashed(m) /\ Counted(m, {}) /\ Grouped(m) /\ Listed(m)
    /\ m.colors = LeftBy(old.colors, v, c)
    /\ m.ko_loc = old.ko_loc /\ m.captures = old.captures
    /\ \A x \in Points : m.colors[x] # Empty /\ x \notin Group(m.colors, v) => Liberties(m.colors, x) # {}

LEMMA MeetingsEnd ==
    ASSUME NEW old, NEW v, NEW c, FreeFor(old, v, c), NEW s, Met(old, v, c, Len(AdjSeq[v]), s)
    PROVE  Settling(old, v, c, s.g)
<1> DEFINE n == Len(AdjSeq[v])
           all == MetAll(old, v)
           taken == TakenBy(old, v, c, n)
           m == s.g
           cv == m.chain_head[v]
           V == Members(m, cv)
           p == old.colors
           q == Put(p, {v}, c)
           r == m.colors
           o == Opp(c)
           hd == old.chain_head
<1>1. Solid(old) /\ v \in Points /\ p[v] = Empty /\ c \in Colors /\ c # Empty
      /\ o # c /\ o # Empty /\ o \in Colors
  BY Kinds DEF FreeFor, Opp
<1>2. n \in 0..n /\ MetBy(old, v, n) = all
  <2>1. n \in Nat
    BY <1>1, AdjSeqIsAdj
  <2> QED
    BY <2>1 DEF MetAll
<1>3. taken \in SUBSET Points /\ \A x \in taken : x # v /\ p[x] = o
  BY <1>2, TakenStones
<1>4. \A x \in Points : r[x] = IF x \in taken THEN Empty ELSE IF x = v THEN c ELSE p[x]
  BY <1>2, MetColors
<1>5. /\ m \in Boards /\ Linked(m) /\ Hashed(m) /\ Counted(m, {})
      /\ r = Put(q, taken, Empty)
      /\ m.ko_loc = old.ko_loc /\ m.captures = old.captures /\ cv \in {v} \cup all
  <2>1. all \ all = {}
    OBVIOUS
  <2> QED
    BY <1>2, <2>1 DEF Met, Meetings
<1>6. \A x \in Points \ {v} : m.chain_head[x] = IF p[x] = c /\ hd[x] \in all THEN cv ELSE hd[x]
  BY <1>2 DEF Met
<1>7. \A h : h \in all <=> \E w \in Adj[v] : p[w] # Empty /\ hd[w] = h
  BY <1>1, MetAllHeads
<1>8. \A x \in Points : p[x] # Empty =>
         /\ hd[x] \in Points /\ p[hd[x]] = p[x] /\ hd[x] # v
         /\ \A y \in Points : p[y] # Empty /\ hd[y] = hd[x] <=> y \in Group(p, x)
  <2> TAKE x \in Points
  <2> HAVE p[x] # Empty
  <2>1. hd[x] \in Points /\ p[hd[x]] = p[x]
    BY <1>1, SolidStone
  <2>2. \A y \in Points : p[y] # Empty /\ hd[y] = hd[x] <=> y \in Group(p, x)
    BY <1>1, SolidStone
  <2>3. hd[x] # v
    BY <1>1, <2>1
  <2> QED
    BY <2>1, <2>2, <2>3
<1>9. \A x \in Points : p[x] = o => /\ Group(q, x) = Group(p, x) /\ q[x] = o
                                    /\ (hd[x] \in all => Dead(q, o, x) \subseteq taken)
  <2> TAKE x \in Points
  <2> HAVE p[x] = o
  <2>1. Group(q, x) = Members(old, hd[x]) /\ Group(q, x) = Group(p, x) /\ q[x] = o
    BY <1>1, OpposingGroup
  <2>2. hd[x] \in all => Dead(q, o, x) \subseteq taken
    BY <1>1, TakenWhole
  <2> QED
    BY <2>1, <2>2
<1>10. \A x \in taken : Group(p, x) \subseteq taken
  <2>1. AdjSeq[v] \in Seq(Points) /\ taken = Taken(q, o, AdjSeq[v], n)
    BY <1>1, AdjSeqIsAdj DEF TakenBy
  <2>2. \A x \in Taken(q, o, AdjSeq[v], n) : Group(q, x) \subseteq Taken(q, o, AdjSeq[v], n)
    <3> HIDE DEF q, o
    <3> QED
      BY <1>2, <2>1, TakenSets
  <2> QED
    BY <1>3, <1>9, <2>1, <2>2
<1>11. /\ cv \in Points /\ v \in V /\ r[v] = c /\ \A x \in V : x \in Points /\ r[x] = c
  <2>1. v \notin taken /\ r[v] = c
    BY <1>1, <1>3, <1>4
  <2>2. cv \in Points
    BY <1>1, <1>5, <1>7, <1>8, Symmetric
  <2>3. v \in V
    BY <1>1, <2>1 DEF Members
  <2>4. \A x \in V : r[x] = r[cv]
    <3>1. ListOf(m, cv)
      BY <1>5, <2>2, <2>3 DEF Linked
    <3> QED
      BY <3>1 DEF ListOf
  <2>5. \A x \in V : x \in Points
    BY MembersSets
  <2> QED
    BY <2>1, <2>2, <2>3, <2>4, <2>5
<1>12. \A x \in Points : x \in V <=> x = v \/ (p[x] = c /\ hd[x] \in all)
  <2> TAKE x \in Points
  <2>0. x \in V <=> r[x] # Empty /\ m.chain_head[x] = cv
    BY DEF Members
  <2>1. ASSUME x \in V, x # v PROVE p[x] = c /\ hd[x] \in all
    <3>1. r[x] = c /\ p[x] = c
      BY <1>1, <1>4, <1>11, <2>1
    <3>2. hd[x] # v
      BY <1>1, <1>8, <3>1
    <3> QED
      BY <1>5, <1>6, <2>0, <2>1, <3>1, <3>2
  <2>2. ASSUME p[x] = c, hd[x] \in all, x # v PROVE x \in V
    <3>1. x \notin taken /\ r[x] # Empty
      BY <1>1, <1>3, <1>4, <2>2
    <3> QED
      BY <1>6, <2>0, <2>2, <3>1
  <2> QED
    BY <1>11, <2>1, <2>2
<1> HIDE DEF taken, all, V, cv, q, o, n
<1>13. Connected(V, v)
  <2> SUFFICES ASSUME NEW T \in SUBSET V, v \in T, \A w \in V : \A u \in T : u \in Adj[w] => w \in T,
                      NEW x \in V, x # v
               PROVE  x \in T
    BY <1>11 DEF Connected
  <2>1. x \in Points /\ p[x] = c /\ hd[x] \in all
    BY <1>11, <1>12
  <2>2. PICK w \in Adj[v] : p[w] # Empty /\ hd[w] = hd[x]
    BY <1>7, <2>1
  <2> DEFINE G == Group(p, w)
  <2>3. w \in Points /\ v \in Adj[w]
    BY <1>1, Symmetric
  <2>4. x \in G /\ p[w] = c
    BY <1>1, <1>8, <2>1, <2>2, <2>3
  <2>5. \A y \in G : y \in Points /\ p[y] = c /\ hd[y] = hd[x] /\ y \in V
    <3> TAKE y \in G
    <3>1. y \in Points /\ p[y] = c
      BY <2>3, <2>4, Groups
    <3>2. hd[y] = hd[w]
      BY <1>1, <1>8, <2>3, <2>4, <3>1
    <3> QED
      BY <1>12, <2>1, <2>2, <3>1, <3>2
  <2>6. Connected(G, w)
    BY <2>3, GroupConnected
  <2>7. w \in G
    BY <2>6 DEF Connected
  <2>8. w \in T
    BY <2>3, <2>5, <2>7
  <2>9. T \cap G \in SUBSET G /\ w \in T \cap G /\ \A y \in G : \A u \in T \cap G : u \in Adj[y] => y \in T \cap G
    BY <2>5, <2>7, <2>8
  <2>10. T \cap G = G
    <3> HIDE DEF G
    <3> QED
      BY <2>6, <2>9 DEF Connected
  <2> QED
    BY <2>4, <2>10
<1>14. Group(r, v) = V
  <2>1. \A u \in V : \A w \in Adj[u] : r[w] = r[v] => w \in V
    <3> SUFFICES ASSUME NEW u \in V, NEW w \in Adj[u], r[w] = c PROVE w \in V
      BY <1>11
    <3>1. u \in Points /\ w \in Points /\ u \in Adj[w]
      BY <1>11, Symmetric
    <3>2. CASE w = v
      BY <1>11, <3>2
    <3>3. CASE w # v /\ u = v
      <4>1. p[w] = c
        BY <1>1, <1>4, <3>1, <3>3
      <4>2. hd[w] \in all
        BY <1>1, <1>7, <3>3, <4>1
      <4> QED
        BY <1>12, <3>1, <4>1, <4>2
    <3>4. CASE w # v /\ u # v
      <4>1. p[w] = c /\ p[u] = c /\ hd[u] \in all
        BY <1>1, <1>4, <1>12, <3>1, <3>4
      <4>2. w \in Group(p, u)
        <5>1. u \in Group(p, u)
          BY <3>1, Groups
        <5> QED
          BY <3>1, <4>1, <5>1, Groups
      <4>3. hd[w] = hd[u]
        BY <1>1, <1>8, <3>1, <4>1, <4>2
      <4> QED
        BY <1>12, <3>1, <4>1, <4>3
    <3> QED
      BY <3>2, <3>3, <3>4
  <2>2. V \in SUBSET Points /\ \A w \in V : r[w] = r[v]
    BY <1>11
  <2> QED
    BY <1>1, <1>13, <2>1, <2>2, GroupIs
<1>15. ASSUME NEW x \in Points, r[x] # Empty, x \notin V
       PROVE  /\ x # v /\ p[x] = r[x] /\ x \notin taken /\ ~(p[x] = c /\ hd[x] \in all) /\ m.chain_head[x] = hd[x]
              /\ \A y \in Group(p, x) : y \in Points /\ y # v /\ y \notin taken /\ p[y] = p[x] /\ r[y] = p[y]
                                        /\ hd[y] = hd[x] /\ m.chain_head[y] = hd[x]
  <2>1. /\ x # v /\ p[x] = r[x] /\ x \notin taken /\ ~(p[x] = c /\ hd[x] \in all) /\ m.chain_head[x] = hd[x]
    BY <1>4, <1>6, <1>11, <1>12, <1>15
  <2>2. ASSUME NEW y \in Group(p, x)
        PROVE  y \in Points /\ y # v /\ y \notin taken /\ p[y] = p[x] /\ r[y] = p[y]
               /\ hd[y] = hd[x] /\ m.chain_head[y] = hd[x]
    <3>1. y \in Points /\ p[y] = p[x] /\ Group(p, y) = Group(p, x)
      BY Groups
    <3>2. x \in Group(p, y)
      BY <3>1, Groups
    <3>3. y # v /\ y \notin taken
      BY <1>1, <1>10, <1>15, <2>1, <3>1, <3>2
    <3>4. hd[y] = hd[x]
      BY <1>8, <1>15, <2>1, <3>1
    <3> QED
      BY <1>4, <1>6, <2>1, <3>1, <3>3, <3>4
  <2> QED
    BY <2>1, <2>2
<1>16. ASSUME NEW x \in Points, r[x] # Empty, x \notin V
       PROVE  Group(r, x) = Group(p, x)
  <2>1. \A w \in Group(p, x) : r[w] = p[w]
    BY <1>15, <1>16
  <2>2. \A u \in Group(p, x) : \A w \in Adj[u] : r[w] = p[x] => p[w] = p[x]
    <3> SUFFICES ASSUME NEW u \in Group(p, x), NEW w \in Adj[u], r[w] = p[x] PROVE p[w] = p[x]
      OBVIOUS
    <3>1. u \in Points /\ p[u] = p[x] /\ hd[u] = hd[x] /\ p[x] = r[x]
      BY <1>15, <1>16
    <3>2. w \in Points /\ u \in Adj[w]
      BY <3>1, Symmetric
    <3>3. CASE w = v
      <4>1. p[x] = c
        BY <1>11, <3>3
      <4>2. hd[x] \in all
        BY <1>1, <1>7, <3>1, <3>2, <3>3, <4>1
      <4> QED
        BY <1>15, <1>16, <4>1, <4>2
    <3>4. CASE w # v
      BY <1>4, <1>16, <3>1, <3>2, <3>4
    <3> QED
      BY <3>3, <3>4
  <2> QED
    BY <2>1, <2>2, GroupStays
<1>17. Grouped(m)
  <2> SUFFICES ASSUME NEW h \in Points, NEW x \in Members(m, h) PROVE Members(m, h) = Group(r, x)
    BY DEF Grouped
  <2>1. x \in Points /\ r[x] # Empty /\ m.chain_head[x] = h
    BY DEF Members
  <2>2. CASE h = cv
    <3>1. Members(m, h) = V /\ x \in V
      BY <2>2 DEF V
    <3>2. Group(r, x) = Group(r, v)
      BY <1>1, <1>14, <3>1, Groups
    <3> QED
      BY <1>14, <3>1, <3>2
  <2>3. CASE h # cv
    <3>1. x \notin V
      BY <2>1, <2>3 DEF V, Members
    <3>2. Group(r, x) = Group(p, x)
      BY <1>16, <2>1, <3>1
    <3>3. hd[x] = h /\ p[x] # Empty
      BY <1>15, <2>1, <3>1
    <3>4. ASSUME NEW y \in Points PROVE y \in Members(m, h) <=> y \in Group(p, x)
      <4>1. ASSUME y \in Members(m, h) PROVE y \in Group(p, x)
        <5>1. r[y] # Empty /\ m.chain_head[y] = h
          BY <4>1 DEF Members
        <5>2. y \notin V
          BY <2>3, <5>1 DEF V, Members
        <5>3. hd[y] = h /\ p[y] # Empty
          BY <1>15, <5>1, <5>2
        <5> QED
          BY <1>8, <2>1, <3>3, <5>3
      <4>2. ASSUME y \in Group(p, x) PROVE y \in Members(m, h)
        <5>1. p[y] = p[x] /\ r[y] = p[y] /\ m.chain_head[y] = hd[x]
          BY <1>15, <2>1, <3>1, <4>2
        <5> QED
          BY <3>3, <5>1 DEF Members
      <4> QED
        BY <4>1, <4>2
    <3>5. Members(m, h) \in SUBSET Points /\ Group(p, x) \in SUBSET Points
      BY <2>1, MembersSets, Groups
    <3>6. Members(m, h) = Group(p, x)
      BY <3>4, <3>5
    <3> QED
      BY <3>2, <3>6
  <2> QED
    BY <2>2, <2>3
<1>18. Listed(m)
  <2> SUFFICES ASSUME NEW x \in Points, r[x] # Empty PROVE m.chain_head[x] # NoLoc
    BY DEF Listed
  <2>1. CASE x \in V
    BY <1>11, <2>1, NoLocIsNoPoint DEF V, Members
  <2>2. CASE x \notin V
    <3>1. m.chain_head[x] = hd[x] /\ p[x] # Empty
      BY <1>15, <2>2
    <3> QED
      BY <1>8, <3>1, NoLocIsNoPoint
  <2> QED
    BY <2>1, <2>2
<1>19. ASSUME NEW x \in Points, r[x] # Empty, x \notin V PROVE Liberties(r, x) # {}
  <2> DEFINE G == Group(p, x)
  <2>1. p[x] # Empty /\ Group(r, x) = G
    BY <1>15, <1>16, <1>19
  <2>2. PICK z \in Points : p[z] = Empty /\ Adj[z] \cap G # {}
    <3>1. Settled(p)
      BY <1>1 DEF Solid
    <3>2. Liberties(p, x) # {}
      BY <2>1, <3>1 DEF Settled
    <3> QED
      BY <3>2 DEF Liberties, Around
  <2>3. CASE z # v
    <3>1. r[z] = Empty
      BY <1>4, <2>2, <2>3
    <3>2. z \in Around(r, G)
      BY <2>2, <3>1 DEF Around
    <3> QED
      BY <2>1, <3>2 DEF Liberties
  <2>4. CASE z = v
    <3>1. PICK w \in Adj[v] : w \in G
      BY <2>2, <2>4
    <3>2. w \in Points /\ p[w] = p[x] /\ hd[w] = hd[x] /\ w \notin taken
      BY <1>15, <1>19, <3>1
    <3>3. hd[w] \in all
      BY <1>7, <2>1, <3>2
    <3>4. p[x] # c
      BY <1>15, <1>19, <3>2, <3>3
    <3>5. p[w] = o
      <4>1. p[x] \in Colors
        BY <1>1, <2>1, SolidStone
      <4>2. \A d \in Colors : d = c \/ d = o
        BY <1>1 DEF Colors, Opp, Opponent, o
      <4> QED
        BY <3>2, <3>4, <4>1, <4>2
    <3>6. Liberties(q, w) # {}
      <4> SUFFICES ASSUME Liberties(q, w) = {} PROVE FALSE
        OBVIOUS
      <4>1. Dead(q, o, w) \subseteq taken /\ q[w] = o
        BY <1>9, <3>2, <3>3, <3>5
      <4>2. w \in Group(q, w)
        BY <3>2, Groups
      <4> QED
        BY <3>2, <4>1, <4>2 DEF Dead
    <3>7. Group(q, w) = G
      <4>1. Group(q, w) = Group(p, w)
        BY <1>9, <3>2, <3>5
      <4>2. Group(p, w) = Group(p, x)
        BY <3>1, Groups
      <4> QED
        BY <4>1, <4>2
    <3>8. PICK y \in Points : q[y] = Empty /\ Adj[y] \cap G # {}
      BY <3>6, <3>7 DEF Liberties, Around
    <3>9. r[y] = Empty
      BY <1>5, <3>8 DEF Put
    <3>10. y \in Around(r, G)
      BY <3>8, <3>9 DEF Around
    <3> QED
      BY <2>1, <3>10 DEF Liberties
  <2> QED
    BY <2>3, <2>4
<1>20. r = LeftBy(p, v, c)
  <2>1. taken = Captured(q, v, c)
    BY <1>1, TakenIsCaptured DEF taken, n, q
  <2> QED
    BY <1>5, <2>1 DEF LeftBy, Placed, q
<1>21. \A x \in Points : r[x] # Empty /\ x \notin Group(r, v) => Liberties(r, x) # {}
  BY <1>14, <1>19
<1> QED
  BY <1>5, <1>17, <1>18, <1>20, <1>21 DEF Settling
----------------------------------------------------------------------------
(* Playing a stone *)

\* What the lists of the boards g and m say of the stones is the same.
AlikeChains(g, m) ==
    /\ m.colors = g.colors /\ m.hash = g.hash
    /\ \A x \in Points : g.colors[x] # Empty =>
          /\ m.chain_head[x] = g.chain_head[x] /\ m.next_in_chain[x] = g.next_in_chain[x]
          /\ g.chain_head[x] = x => m.libs[x] = g.libs[x] /\ m.locs[x] = g.locs[x]

LEMMA ChainsAlike ==
    ASSUME NEW g, NEW m, Linked(g), AlikeChains(g, m)
    PROVE  /\ Linked(m)
           /\ \A owing : Counted(g, owing) => Counted(m, owing)
           /\ Grouped(g) => Grouped(m)
           /\ Hashed(g) => Hashed(m)
           /\ Listed(g) => Listed(m)
<1>1. m.colors = g.colors /\ m.hash = g.hash
  BY DEF AlikeChains
<1>2. \A x \in Points : g.colors[x] # Empty =>
        m.chain_head[x] = g.chain_head[x] /\ m.next_in_chain[x] = g.next_in_chain[x]
  BY DEF AlikeChains
<1>3. \A h \in Points : Members(m, h) = Members(g, h)
  BY <1>1, <1>2 DEF Members
<1>4. \A h \in Points : Members(g, h) # {} =>
         /\ ListOf(g, h) /\ m.locs[h] = g.locs[h] /\ m.libs[h] = g.libs[h]
         /\ \A x \in Members(g, h) : m.colors[x] = g.colors[x] /\ m.next_in_chain[x] = g.next_in_chain[x]
  <2> TAKE h \in Points
  <2> HAVE Members(g, h) # {}
  <2>1. ListOf(g, h)
    BY DEF Linked
  <2>2. g.colors[h] # Empty /\ g.chain_head[h] = h
    BY <2>1 DEF ListOf, Members
  <2>3. m.locs[h] = g.locs[h] /\ m.libs[h] = g.libs[h]
    BY <2>2 DEF AlikeChains
  <2>4. \A x \in Members(g, h) : m.colors[x] = g.colors[x] /\ m.next_in_chain[x] = g.next_in_chain[x]
    BY <1>1, <1>2 DEF Members
  <2> QED
    BY <2>1, <2>3, <2>4
<1>5. Linked(m)
  <2> SUFFICES ASSUME NEW h \in Points, Members(m, h) # {} PROVE ListOf(m, h)
    BY DEF Linked
  <2> QED
    BY <1>3, <1>4, ListSame
<1>6. \A owing : Counted(g, owing) => Counted(m, owing)
  BY <1>1, <1>3, <1>4 DEF Counted
<1>7. Grouped(g) => Grouped(m)
  BY <1>1, <1>3 DEF Grouped
<1>8. Hashed(g) => Hashed(m)
  BY <1>1 DEF Hashed
<1>9. Listed(g) => Listed(m)
  BY <1>1, <1>2 DEF Listed
<1> QED
  BY <1>5, <1>6, <1>7, <1>8, <1>9

\* The board once the stone has met its neighbours, with the ko and the prisoners.
Fought(g, v, c) ==
    LET met == AllMet(g, v, c)   m == met.g IN
    [m EXCEPT
       !.ko_loc = IF met.captured = 1 /\ ChainSize(m, v) = 1 /\ NumLiberties(m, v) = 1
                  THEN met.ko ELSE NoLoc,
       !.captures[c] = @ + met.captured]

LEMMA PlayIs ==
    ASSUME NEW g, NEW v, NEW c
    PROVE  PlayMoveAssumeLegal(g, v, c) =
             LET m == AllMet(g, v, c).g IN
             IF NumLiberties(m, v) # 0 THEN Fought(g, v, c)
             ELSE [RemoveChain(Fought(g, v, c), v) EXCEPT !.captures[Opp(c)] = @ + ChainSize(m, v)]
BY DEF PlayMoveAssumeLegal, AllMet, Before, NewStone, Meet, Eaten, Fought, InTurn

\* What the counters of the new stone's chain and the count of stones captured are then.
LEMMA MetCounts ==
    ASSUME NEW old, NEW v, NEW c, FreeFor(old, v, c)
    PROVE  LET s == AllMet(old, v, c)   m == s.g   h == m.chain_head[v]
               put == Placed(old.colors, v, c)   taken == Captured(put, v, c)
               left == LeftBy(old.colors, v, c)   own == Group(left, v)   libs == Around(left, own)
           IN  /\ s \in Meetings /\ Settling(old, v, c, m)
               /\ h \in Points /\ ListOf(m, h) /\ Members(m, h) = own /\ v \in own
               /\ ChainSize(m, v) = Cardinality(own) /\ NumLiberties(m, v) = Cardinality(libs)
               /\ s.captured = Cardinality(taken) /\ (s.captured = 1 => taken = {s.ko})
<1> DEFINE s == AllMet(old, v, c)
           m == s.g
           h == m.chain_head[v]
           put == Placed(old.colors, v, c)
           taken == Captured(put, v, c)
           left == LeftBy(old.colors, v, c)
           own == Group(left, v)
           libs == Around(left, own)
<1>1. Solid(old) /\ v \in Points /\ old.colors[v] = Empty /\ c \in Colors /\ old.colors \in Stones
  BY BoardParts DEF FreeFor, Solid
<1>2. Met(old, v, c, Len(AdjSeq[v]), s)
  BY MetAllOfThem
<1>3. s \in Meetings /\ Settling(old, v, c, m)
  <2> HIDE DEF s
  <2>1. s \in Meetings
    BY <1>2 DEF Met
  <2> QED
    BY <1>2, <2>1, MeetingsEnd
<1>4. TakenBy(old, v, c, Len(AdjSeq[v])) = taken
  BY <1>1, TakenIsCaptured DEF Placed
<1>5. s.captured = Cardinality(taken) /\ (s.captured = 1 => taken = {s.ko})
  <2> HIDE DEF s, taken
  <2> QED
    BY <1>2, <1>4 DEF Met
<1>6. left[v] = c /\ c # Empty
  BY <1>1, MoveMade, Kinds
<1> HIDE DEF s, left, taken
<1>7. m \in Boards /\ Linked(m) /\ Counted(m, {}) /\ Grouped(m) /\ Listed(m) /\ m.colors = left
  BY <1>3 DEF Settling, left
<1>8. m.chain_head[v] # NoLoc /\ m.colors[v] # Empty
  BY <1>1, <1>6, <1>7 DEF Listed
<1>9. h \in Points /\ v \in Members(m, h) /\ ListOf(m, h)
  <2> HIDE DEF m
  <2> QED
    BY <1>1, <1>7, <1>8, StoneOnList
<1>10. Members(m, h) = own
  BY <1>7, <1>9 DEF Grouped
<1>11. ChainSize(m, v) = Cardinality(own)
  BY <1>9, <1>10 DEF ListOf, ChainSize
<1>12. NumLiberties(m, v) = Cardinality(libs)
  <2>1. Members(m, h) # {}
    BY <1>9
  <2>2. m.libs[h] = Cardinality(Around(m.colors, Members(m, h))) + 0
    BY <1>7, <1>9, <2>1 DEF Counted
  <2>3. Cardinality(libs) \in Nat
    BY SetSizes, AroundSets
  <2>4. m.libs[h] = Cardinality(libs) + 0
    BY <1>7, <1>10, <2>2
  <2> HIDE DEF libs, m, h
  <2>5. m.libs[h] = Cardinality(libs)
    BY <2>3, <2>4
  <2> QED
    BY <2>5 DEF NumLiberties, h
<1> QED
  BY <1>3, <1>5, <1>9, <1>10, <1>11, <1>12 DEF s, left, taken

PositionOf(g) == Position(g.colors, g.ko_loc, g.captures)

\* The point the ko forbids has no empty neighbour.
KoKept(g) == g.ko_loc # NoLoc => \A w \in Adj[g.ko_loc] : g.colors[w] # Empty

\* The ko the board finds from its counters is that of the rules.
LEMMA KoOfPlay ==
    ASSUME NEW p \in Stones, NEW v \in Points, NEW c \in Colors, NEW k, NEW n,
           n = Cardinality(Captured(Placed(p, v, c), v, c)), n = 1 => Captured(Placed(p, v, c), v, c) = {k}
    PROVE  LET taken == Captured(Placed(p, v, c), v, c)
               left == LeftBy(p, v, c)   own == Group(left, v)   libs == Around(left, own)
               ko == IF n = 1 /\ Cardinality(own) = 1 /\ Cardinality(libs) = 1 THEN k ELSE NoLoc
           IN  /\ ko = IF Cardinality(taken) = 1 /\ own = {v} /\ libs = taken THEN TheOne(taken) ELSE NoKo
               /\ ko \in Points \cup {NoLoc}
               /\ ko # NoLoc => \A w \in Adj[ko] : left[w] # Empty
<1> DEFINE taken == Captured(Placed(p, v, c), v, c)
           left == LeftBy(p, v, c)
           own == Group(left, v)
           libs == Around(left, own)
           ko == IF n = 1 /\ Cardinality(own) = 1 /\ Cardinality(libs) = 1 THEN k ELSE NoLoc
<1>1. n = 1 => /\ k \in Points /\ k \in Adj[v] /\ left[k] = Empty
               /\ \A w \in Adj[k] : left[w] # Empty
  BY OneTaken
<1>2. left \in Stones /\ v \in own /\ own \in SUBSET Points
  BY MoveMade, Groups
<1>3. n = 1 => taken = {k} /\ TheOne(taken) = k
  BY DEF TheOne
<1>4. n = Cardinality(taken)
  OBVIOUS
<1> HIDE DEF taken, left, own
<1>5. Cardinality(own) = 1 <=> own = {v}
  <2>1. Cardinality(own) = 1 <=> \E x : own = {x}
    BY <1>2, SetSizes
  <2> QED
    BY <1>2, <2>1
<1>6. libs \in SUBSET Points
  BY AroundSets
<1>7. n = 1 /\ own = {v} => k \in libs
  BY <1>1, Symmetric DEF Around
<1> HIDE DEF libs
<1>8. Cardinality(libs) = 1 <=> \E x : libs = {x}
  BY <1>6, SetSizes
<1>9. n = 1 /\ own = {v} => (Cardinality(libs) = 1 <=> libs = taken)
  BY <1>3, <1>7, <1>8
<1> QED
  BY <1>1, <1>3, <1>4, <1>5, <1>9 DEF taken, left, own, libs, NoLoc

\* What a move leads to on a solid board: the position the rules lead to.
Implements(g, s) == Solid(g) /\ KoKept(g) /\ PositionOf(g) = s

LEMMA StoneStands ==
    ASSUME NEW old, NEW v, NEW c, FreeFor(old, v, c),
           Around(LeftBy(old.colors, v, c), Group(LeftBy(old.colors, v, c), v)) # {}
    PROVE  Implements(PlayMoveAssumeLegal(old, v, c), After(PositionOf(old), v, c))
<1> DEFINE s == AllMet(old, v, c)
           m == s.g
           p == old.colors
           put == Placed(p, v, c)
           taken == Captured(put, v, c)
           left == LeftBy(p, v, c)
           own == Group(left, v)
           libs == Around(left, own)
           f == Fought(old, v, c)
<1>1. /\ Solid(old) /\ v \in Points /\ old.colors[v] = Empty /\ c \in Colors /\ p \in Stones
      /\ old.captures \in [Colors -> Int]
  BY BoardParts DEF FreeFor, Solid
<1>2. /\ s \in Meetings /\ Settling(old, v, c, m)
      /\ ChainSize(m, v) = Cardinality(own) /\ NumLiberties(m, v) = Cardinality(libs)
      /\ s.captured = Cardinality(taken) /\ (s.captured = 1 => taken = {s.ko})
  BY MetCounts
<1>3. NumLiberties(m, v) # 0
  <2>1. libs \in SUBSET Points /\ libs # {}
    BY AroundSets
  <2>2. Cardinality(libs) # 0
    BY <2>1, SetSizes
  <2> QED
    BY <1>2, <2>2
<1>4. PlayMoveAssumeLegal(old, v, c) = f
  BY <1>3, PlayIs
<1> DEFINE ko == IF s.captured = 1 /\ Cardinality(own) = 1 /\ Cardinality(libs) = 1 THEN s.ko ELSE NoLoc
<1>5. /\ ko = IF Cardinality(taken) = 1 /\ own = {v} /\ libs = taken THEN TheOne(taken) ELSE NoKo
      /\ ko \in Points \cup {NoLoc}
      /\ ko # NoLoc => \A w \in Adj[ko] : left[w] # Empty
  <2> HIDE DEF s
  <2> QED
    BY <1>1, <1>2, KoOfPlay
<1>6. m \in Boards /\ Linked(m) /\ Hashed(m) /\ Counted(m, {}) /\ Grouped(m) /\ Listed(m)
      /\ m.colors = left /\ m.captures = old.captures
      /\ \A x \in Points : left[x] # Empty /\ x \notin own => Liberties(left, x) # {}
  BY <1>2 DEF Settling
<1>7. f = [m EXCEPT !.ko_loc = ko, !.captures[c] = @ + s.captured]
  BY <1>2 DEF Fought
<1>8. s.captured \in Nat
  <2> HIDE DEF s
  <2> QED
    BY <1>2 DEF Meetings
<1> HIDE DEF f, ko
<1>9. /\ f \in Boards /\ f.colors = left /\ f.ko_loc = ko
      /\ f.captures = [old.captures EXCEPT ![c] = @ + s.captured]
  <2> HIDE DEF m, s, left
  <2>1. [m.captures EXCEPT ![c] = @ + s.captured] \in [Colors -> Int]
    BY <1>1, <1>6, <1>8
  <2> QED
    BY <1>5, <1>6, <1>7, <2>1 DEF Boards
<1>10. AlikeChains(m, f)
  <2> HIDE DEF m, s, left
  <2> QED
    BY <1>6, <1>7 DEF AlikeChains, Boards
<1>11. Linked(f) /\ Counted(f, {}) /\ Grouped(f) /\ Hashed(f) /\ Listed(f)
  <2> HIDE DEF m
  <2> QED
    BY <1>6, <1>10, ChainsAlike
<1>12. Settled(left)
  <2> SUFFICES ASSUME NEW x \in Points, left[x] # Empty PROVE Liberties(left, x) # {}
    BY DEF Settled
  <2>1. CASE x \in own
    <3>1. Group(left, x) = own
      BY <1>1, <2>1, Groups
    <3> QED
      BY <3>1 DEF Liberties
  <2> QED
    BY <1>6, <2>1
<1>13. Solid(f)
  BY <1>9, <1>11, <1>12 DEF Solid
<1>14. KoKept(f)
  BY <1>5, <1>9 DEF KoKept
<1>15. PositionOf(f) = After(PositionOf(old), v, c)
  <2>1. libs # {}
    OBVIOUS
  <2>2. After(PositionOf(old), v, c)
        = Position(left, IF Cardinality(taken) = 1 /\ own = {v} /\ libs = taken THEN TheOne(taken) ELSE NoKo,
                   [old.captures EXCEPT ![c] = @ + Cardinality(taken)])
    BY <2>1 DEF After, PositionOf, Position, LeftBy, Placed
  <2> HIDE DEF s, left, own, libs, taken
  <2> QED
    BY <1>2, <1>5, <1>9, <2>2 DEF PositionOf, Position
<1> QED
  BY <1>4, <1>13, <1>14, <1>15 DEF Implements

\* A chain that is removed leaves a solid board when all others have liberties.
LEMMA ChainGone ==
    ASSUME NEW g \in Boards, Linked(g), Counted(g, {}), Grouped(g), Hashed(g), Listed(g),
           NEW v \in Points, g.colors[v] # Empty,
           \A y \in Points : g.colors[y] # Empty /\ y \notin Group(g.colors, v) => Liberties(g.colors, y) # {}
    PROVE  LET r == RemoveChain(g, v) IN
           /\ Solid(r) /\ r.colors = Put(g.colors, Group(g.colors, v), Empty)
           /\ r.ko_loc = g.ko_loc /\ r.captures = g.captures
<1> DEFINE p == g.colors
           own == Group(p, v)
           h == g.chain_head[v]
           r == RemoveChain(g, v)
           e == Put(p, own, Empty)
<1>1. p \in Stones /\ p[v] \in Colors
  <2>1. p \in Stones
    BY BoardParts
  <2> QED
    BY <2>1 DEF Stones
<1>2. h \in Points /\ v \in Members(g, h) /\ ListOf(g, h) /\ p[h] = p[v]
  <2>1. g.chain_head[v] # NoLoc
    BY DEF Listed
  <2> QED
    BY <2>1, StoneOnList
<1>3. Members(g, h) = own
  BY <1>2 DEF Grouped
<1>4. own \in SUBSET Points /\ \A y \in own : p[y] = p[v] /\ Group(p, y) = own
  BY Groups
<1>5. \A y \in own : \A w \in Adj[y] : p[w] = p[v] => w \in own
  <2> SUFFICES ASSUME NEW y \in own, NEW w \in Adj[y], p[w] = p[v] PROVE w \in own
    OBVIOUS
  <2>1. w \in Points /\ y \in Points /\ y \in Adj[w]
    BY <1>4, Symmetric
  <2> QED
    BY <2>1, Groups
<1> HIDE DEF h, own
<1>6. Cleared(g, r, Members(g, h), p[h])
  <2> HIDE DEF r
  <2>1. r = RemoveChain(g, v)
    BY DEF r
  <2> QED
    BY <1>1, <1>2, <2>1, Removing
<1> HIDE DEF r
<1>7. /\ Members(r, h) = {}
      /\ \A k \in Points \ {h} : Members(r, k) = Members(g, k)
      /\ Linked(r)
      /\ \A owing : Counted(g, owing) => Counted(r, owing)
      /\ Hashed(g) => Hashed(r)
  <2>1. \A y \in Members(g, h) : \A w \in Adj[y] : p[w] = p[h] => w \in Members(g, h)
    BY <1>2, <1>3, <1>5
  <2> QED
    BY <1>1, <1>2, <1>6, <2>1, ClearedLists
<1>8. /\ r \in Boards /\ r.colors = e /\ r.chain_head = g.chain_head
      /\ r.ko_loc = g.ko_loc /\ r.captures = g.captures
  BY <1>3, <1>6 DEF Cleared
<1>9. \A y \in Points : e[y] # Empty =>
         /\ y \notin own /\ e[y] = p[y] /\ Group(e, y) = Group(p, y) /\ Liberties(e, y) # {}
  <2> TAKE y \in Points
  <2> HAVE e[y] # Empty
  <2>1. \A w \in Points : e[w] = IF w \in own THEN Empty ELSE p[w]
    BY DEF Put
  <2>2. y \notin own /\ e[y] = p[y]
    BY <2>1
  <2>3. \A w \in Group(p, y) : w \in Points /\ w \notin own
    <3>1. \A w \in Group(p, y) : w \in Points /\ Group(p, w) = Group(p, y)
      BY Groups
    <3>2. y \in Group(p, y)
      BY Groups
    <3> QED
      BY <1>4, <2>2, <3>1, <3>2
  <2> HIDE DEF e
  <2>4. Group(e, y) = Group(p, y)
    <3>1. \A w \in Group(p, y) : e[w] = p[w]
      BY <2>1, <2>3
    <3>2. \A u \in Group(p, y) : \A w \in Adj[u] : e[w] = p[y] => p[w] = p[y]
      <4> SUFFICES ASSUME NEW u \in Group(p, y), NEW w \in Adj[u], e[w] = p[y] PROVE p[w] = p[y]
        OBVIOUS
      <4>1. w \in Points
        BY <2>3, Symmetric
      <4> QED
        BY <2>1, <2>2, <4>1
    <3> HIDE DEF p
    <3> QED
      BY <3>1, <3>2, GroupStays
  <2>5. Liberties(p, y) \subseteq Liberties(e, y)
    BY <2>1, <2>4 DEF Liberties, Around
  <2>6. Liberties(p, y) # {}
    BY <2>2 DEF own
  <2> QED
    BY <2>2, <2>4, <2>5, <2>6
<1> HIDE DEF e
<1>10. Grouped(r)
  <2> SUFFICES ASSUME NEW k \in Points, NEW y \in Members(r, k) PROVE Members(r, k) = Group(r.colors, y)
    BY DEF Grouped
  <2>1. k # h /\ Members(r, k) = Members(g, k)
    BY <1>7
  <2>2. Members(g, k) = Group(p, y)
    BY <2>1 DEF Grouped
  <2>3. y \in Points /\ e[y] # Empty
    BY <1>8 DEF Members
  <2> QED
    BY <1>8, <1>9, <2>1, <2>2, <2>3
<1>11. Listed(r)
  <2> SUFFICES ASSUME NEW y \in Points, e[y] # Empty PROVE r.chain_head[y] # NoLoc
    BY <1>8 DEF Listed
  <2>1. p[y] # Empty
    BY <1>9
  <2> QED
    BY <1>8, <2>1 DEF Listed
<1>12. Settled(e)
  BY <1>9 DEF Settled
<1>13. Solid(r)
  BY <1>7, <1>8, <1>10, <1>11, <1>12 DEF Solid
<1> QED
  BY <1>8, <1>13 DEF r, e, own

\* A stone without liberties comes off with its chain; it has captured nothing then.
LEMMA StoneFalls ==
    ASSUME NEW old, NEW v, NEW c, FreeFor(old, v, c),
           Around(LeftBy(old.colors, v, c), Group(LeftBy(old.colors, v, c), v)) = {}
    PROVE  Implements(PlayMoveAssumeLegal(old, v, c), After(PositionOf(old), v, c))
<1> DEFINE s == AllMet(old, v, c)
           m == s.g
           p == old.colors
           put == Placed(p, v, c)
           taken == Captured(put, v, c)
           left == LeftBy(p, v, c)
           own == Group(left, v)
           libs == Around(left, own)
           f == Fought(old, v, c)
           h == m.chain_head[v]
           r == RemoveChain(f, v)
           x == [r EXCEPT !.captures[Opp(c)] = @ + ChainSize(m, v)]
<1>1. /\ Solid(old) /\ v \in Points /\ old.colors[v] = Empty /\ c \in Colors /\ p \in Stones
      /\ old.captures \in [Colors -> Int] /\ c # Empty /\ Opp(c) # c /\ Opp(c) \in Colors
  BY BoardParts, Kinds DEF FreeFor, Solid, Opp
<1>2. /\ s \in Meetings /\ Settling(old, v, c, m)
      /\ h \in Points /\ ListOf(m, h) /\ Members(m, h) = own /\ v \in own
      /\ ChainSize(m, v) = Cardinality(own) /\ NumLiberties(m, v) = Cardinality(libs)
      /\ s.captured = Cardinality(taken) /\ (s.captured = 1 => taken = {s.ko})
  BY MetCounts
<1>3. NumLiberties(m, v) = 0
  <2>1. libs = {}
    OBVIOUS
  <2> HIDE DEF libs, s
  <2> QED
    BY <1>2, <2>1, FS_EmptySet
<1>4. PlayMoveAssumeLegal(old, v, c) = x
  <2>1. PlayMoveAssumeLegal(old, v, c) = IF NumLiberties(m, v) # 0 THEN f ELSE x
    BY PlayIs
  <2> HIDE DEF x, f, m
  <2> QED
    BY <1>3, <2>1
<1>5. left \in Stones /\ left[v] = c /\ taken \in SUBSET Points
      /\ \A y \in taken : left[y] = Empty
  <2> HIDE DEF p
  <2> QED
    BY <1>1, MoveMade
<1>6. taken = {}
  <2> SUFFICES ASSUME NEW t \in taken PROVE FALSE
    OBVIOUS
  <2>1. PICK w \in Adj[v] : put[w] = Opponent(c) /\ Liberties(put, w) = {} /\ t \in Group(put, w)
    BY DEF Captured
  <2>2. w \in Points /\ v \in Adj[w]
    BY <1>1, Symmetric
  <2>3. w \in taken
    <3>1. w \in Group(put, w)
      BY <2>2, Groups
    <3> QED
      BY <2>1, <3>1 DEF Captured
  <2>4. left[w] = Empty
    BY <1>5, <2>3
  <2> HIDE DEF left, s
  <2>5. w \in Around(left, own)
    BY <1>2, <2>2, <2>4 DEF Around
  <2> QED
    BY <2>5 DEF left
<1>7. s.captured = 0
  <2> HIDE DEF taken, s
  <2> QED
    BY <1>2, <1>6, FS_EmptySet
<1>8. m \in Boards /\ Linked(m) /\ Hashed(m) /\ Counted(m, {}) /\ Grouped(m) /\ Listed(m)
      /\ m.colors = left /\ m.captures = old.captures
      /\ \A y \in Points : left[y] # Empty /\ y \notin own => Liberties(left, y) # {}
  BY <1>2 DEF Settling
<1>9. f = [m EXCEPT !.ko_loc = NoLoc, !.captures[c] = @ + 0]
  BY <1>7 DEF Fought
<1> HIDE DEF f, m, left, taken, libs
<1>10. f = [m EXCEPT !.ko_loc = NoLoc]
  <2>1. [m.captures EXCEPT ![c] = @ + 0] = m.captures
    BY <1>1, <1>8
  <2> QED
    BY <1>8, <1>9, <2>1 DEF Boards
<1>11. /\ f \in Boards /\ f.colors = left /\ f.ko_loc = NoLoc /\ f.captures = old.captures
       /\ f.chain_head = m.chain_head
  BY <1>8, <1>10 DEF Boards
<1>12. AlikeChains(m, f)
  BY <1>8, <1>10 DEF AlikeChains, Boards
<1>13. Linked(f) /\ Counted(f, {}) /\ Grouped(f) /\ Hashed(f) /\ Listed(f)
  BY <1>8, <1>12, ChainsAlike
<1> DEFINE e == Put(left, own, Empty)
<1>14. Solid(r) /\ r.colors = e /\ r.ko_loc = NoLoc /\ r.captures = old.captures
  <2>1. f.colors[v] # Empty
    BY <1>1, <1>5, <1>11
  <2>2. \A y \in Points : f.colors[y] # Empty /\ y \notin Group(f.colors, v) => Liberties(f.colors, y) # {}
    BY <1>8, <1>11
  <2>3. Solid(r) /\ r.colors = Put(f.colors, Group(f.colors, v), Empty)
        /\ r.ko_loc = f.ko_loc /\ r.captures = f.captures
    BY <1>1, <1>11, <1>13, <2>1, <2>2, ChainGone
  <2> QED
    BY <1>11, <2>3
<1> HIDE DEF h, own, r, e
<1>15. own \in SUBSET Points
  BY <1>1, Groups DEF own
<1>16. Cardinality(own) \in Nat /\ ChainSize(m, v) = Cardinality(own)
  BY <1>2, <1>15, SetSizes DEF own, left, libs
<1> HIDE DEF x
<1>17. /\ x \in Boards /\ x.colors = e /\ x.ko_loc = NoLoc
       /\ x.captures = [old.captures EXCEPT ![Opp(c)] = @ + Cardinality(own)]
       /\ AlikeChains(r, x)
  <2>0. r \in Boards
    BY <1>14 DEF Solid
  <2>1. x = [r EXCEPT !.captures[Opp(c)] = @ + Cardinality(own)]
    BY <1>16 DEF x
  <2>2. [old.captures EXCEPT ![Opp(c)] = @ + Cardinality(own)] \in [Colors -> Int]
    BY <1>1, <1>16
  <2>3. x = [r EXCEPT !.captures = [old.captures EXCEPT ![Opp(c)] = @ + Cardinality(own)]]
    BY <1>14, <2>0, <2>1 DEF Boards
  <2>4. /\ x \in Boards /\ x.colors = r.colors /\ x.ko_loc = r.ko_loc
        /\ x.captures = [old.captures EXCEPT ![Opp(c)] = @ + Cardinality(own)]
    BY <1>14, <2>0, <2>2, <2>3 DEF Boards
  <2>5. AlikeChains(r, x)
    BY <1>14, <2>0, <2>3 DEF AlikeChains, Boards
  <2> QED
    BY <1>14, <2>4, <2>5
<1>18. Linked(x) /\ Counted(x, {}) /\ Grouped(x) /\ Hashed(x) /\ Listed(x)
  BY <1>14, <1>17, ChainsAlike DEF Solid
<1>19. Solid(x) /\ KoKept(x)
  BY <1>14, <1>17, <1>18 DEF Solid, KoKept
<1>20. PositionOf(x) = After(PositionOf(old), v, c)
  <2>1. libs = {}
    BY DEF libs, own, left
  <2>2. After(PositionOf(old), v, c)
        = Position(e, NoKo, [old.captures EXCEPT ![Opp(c)] = @ + Cardinality(own)])
    BY <2>1 DEF After, PositionOf, Position, LeftBy, Placed, left, own, libs, e, Opp
  <2> QED
    BY <1>17, <2>2 DEF PositionOf, Position, NoLoc
<1> QED
  BY <1>4, <1>19, <1>20 DEF Implements

\* A stone on a solid board does what the rules say, and leaves a solid board.
LEMMA PlayImplements ==
    ASSUME NEW old, NEW v, NEW c, FreeFor(old, v, c)
    PROVE  Implements(PlayMoveAssumeLegal(old, v, c), After(PositionOf(old), v, c))
BY StoneStands, StoneFalls
----------------------------------------------------------------------------
(* Legal moves *)

\* The stone at v and its chain would be left without liberties.
Smothered(p, v, c) == Around(LeftBy(p, v, c), Group(LeftBy(p, v, c), v)) = {}

\* An opposing neighbour is captured when the point played at is its last liberty.
LEMMA LastLiberty ==
    ASSUME NEW g, NEW v, NEW c, FreeFor(g, v, c), NEW w \in Adj[v], g.colors[w] = Opp(c)
    PROVE  LET put == Placed(g.colors, v, c) IN
           /\ put[w] = Opp(c) /\ Group(put, w) = Group(g.colors, w)
           /\ Liberties(put, w) = {} <=> NumLiberties(g, w) = 1
           /\ Liberties(put, w) = {} <=> Liberties(g.colors, w) = {v}
<1> DEFINE p == g.colors
           put == Placed(p, v, c)
           L == Liberties(p, w)
<1>1. Solid(g) /\ v \in Points /\ p[v] = Empty /\ c \in Colors /\ c # Empty /\ w \in Points /\ Opp(c) # Empty
  BY Symmetric, Kinds DEF FreeFor, Opp
<1>2. put[w] = Opp(c) /\ Group(put, w) = Group(p, w)
  BY <1>1, OpposingGroup DEF Placed
<1>3. Liberties(put, w) = L \ {v}
  <2> HIDE DEF p
  <2>1. \A x \in Points : put[x] = IF x = v THEN c ELSE p[x]
    BY DEF Placed, Put
  <2> HIDE DEF put
  <2> QED
    BY <1>1, <1>2, <2>1 DEF Liberties, Around
<1>4. v \in L
  BY <1>1, NextToChain
<1>5. L \in SUBSET Points
  BY DEF Liberties, Around
<1>6. NumLiberties(g, w) = Cardinality(L)
  BY <1>1, SolidStone DEF NumLiberties
<1> HIDE DEF L, put
<1>7. Cardinality(L) = 1 <=> \E x : L = {x}
  BY <1>5, SetSizes
<1>8. Liberties(put, w) = {} <=> L = {v}
  BY <1>3, <1>4
<1>9. Cardinality(L) = 1 <=> L = {v}
  BY <1>4, <1>7
<1> QED
  BY <1>2, <1>6, <1>8, <1>9 DEF put, L

\* The counters of the neighbours tell whether a stone would be left without liberties.
LEMMA SmotheredByNeighbours ==
    ASSUME NEW g, NEW v, NEW c, FreeFor(g, v, c)
    PROVE  Smothered(g.colors, v, c) <=> IsSuicide(g, v, c)
<1> DEFINE p == g.colors
           put == Placed(p, v, c)
           taken == Captured(put, v, c)
           left == LeftBy(p, v, c)
           own == Group(left, v)
           libs == Around(left, own)
<1>1. Solid(g) /\ v \in Points /\ p[v] = Empty /\ c \in Colors /\ c # Empty /\ p \in Stones
      /\ Opp(c) \in Colors /\ Opp(c) # c /\ Opp(c) # Empty
  BY BoardParts, Kinds DEF FreeFor, Opp, Solid
<1>2. left \in Stones /\ left[v] = c /\ taken \in SUBSET Points /\ \A x \in taken : left[x] = Empty
  BY <1>1, MoveMade
<1>20. \A x \in taken : put[x] # c
  <2>1. \A x \in taken : put[x] = Opponent(c)
    BY <1>1, MoveMade
  <2>2. Opponent(c) # c
    BY <1>1 DEF Opp
  <2> HIDE DEF taken, put
  <2> QED
    BY <2>1, <2>2
<1>3. \A x \in Points : put[x] = IF x = v THEN c ELSE p[x]
  BY DEF Placed, Put
<1>4. \A x \in Points : left[x] = IF x \in taken THEN Empty ELSE put[x]
  BY DEF LeftBy, Put
<1>5. v \in own /\ own \in SUBSET Points /\ \A x \in own : left[x] = c
  BY <1>1, <1>2, Groups
<1>6. \A w \in Adj[v] : w \in Points /\ v \in Adj[w] /\ w # v
  BY <1>1, Symmetric
<1>7. \A w \in Adj[v] : p[w] # Empty => /\ NumLiberties(g, w) = Cardinality(Liberties(p, w))
                                        /\ NumLiberties(g, w) \in Nat \ {0}
  <2> TAKE w \in Adj[v]
  <2> HAVE p[w] # Empty
  <2> QED
    BY <1>1, <1>6, SolidStone DEF NumLiberties
<1>8. \A w \in Adj[v] : p[w] = Opp(c) /\ NumLiberties(g, w) = 1 => w \in taken
  <2> TAKE w \in Adj[v]
  <2> HAVE p[w] = Opp(c) /\ NumLiberties(g, w) = 1
  <2>1. put[w] = Opp(c) /\ Liberties(put, w) = {}
    BY LastLiberty
  <2>2. w \in Group(put, w)
    BY <1>6, Groups
  <2> QED
    BY <2>1, <2>2 DEF Captured, Opp
<1>9. \A w \in Adj[v] : p[w] = c /\ NumLiberties(g, w) > 1 => libs # {}
  <2> TAKE w \in Adj[v]
  <2> HAVE p[w] = c /\ NumLiberties(g, w) > 1
  <2>1. w \in own /\ w \in Points /\ left[w] = c
    <3>1. w \in Points /\ left[w] = c
      BY <1>1, <1>3, <1>4, <1>6, <1>20
    <3> QED
      BY <1>1, <1>2, <1>5, <1>6, <3>1, Groups
  <2>2. own = Group(left, w)
    BY <1>1, <2>1, Groups
  <2>3. Group(p, w) \subseteq own
    <3>1. \A x \in Points : p[x] = c => left[x] = c
      BY <1>1, <1>3, <1>4, <1>20
    <3>2. \A x \in Points : \A u \in own : p[x] = p[w] /\ u \in Adj[x] => x \in own
      <4> SUFFICES ASSUME NEW x \in Points, NEW u \in own, p[x] = p[w], u \in Adj[x] PROVE x \in own
        OBVIOUS
      <4>1. left[x] = left[w]
        BY <2>1, <3>1
      <4> HIDE DEF left
      <4> QED
        BY <2>1, <2>2, <4>1, Groups
    <3> HIDE DEF own, p
    <3> QED
      BY <1>5, <2>1, <3>2, Groups
  <2>4. PICK x \in Liberties(p, w) : x # v
    <3>1. Liberties(p, w) \in SUBSET Points
      BY DEF Liberties, Around
    <3>2. Cardinality(Liberties(p, w)) # 1
      BY <1>1, <1>7
    <3>3. Cardinality(Liberties(p, w)) = 1 <=> \E x : Liberties(p, w) = {x}
      BY <3>1, SetSizes
    <3>4. v \in Liberties(p, w)
      BY <1>1, NextToChain
    <3> QED
      BY <3>2, <3>3, <3>4
  <2>5. x \in Points /\ p[x] = Empty /\ Adj[x] \cap own # {}
    BY <2>3 DEF Liberties, Around
  <2>6. left[x] = Empty
    BY <1>1, <1>2, <1>3, <1>4, <2>4, <2>5
  <2> HIDE DEF left, own
  <2> QED
    BY <2>5, <2>6 DEF Around
<1>10. \A w \in Adj[v] : left[w] = Empty => libs # {}
  <2> HIDE DEF left, own
  <2> QED
    BY <1>5, <1>6 DEF Around
<1>11. ASSUME libs = {} PROVE IsSuicide(g, v, c)
  <2> SUFFICES ASSUME NEW w \in Adj[v]
               PROVE  \/ p[w] = c /\ NumLiberties(g, w) <= 1
                      \/ p[w] = Opp(c) /\ NumLiberties(g, w) # 1
    BY DEF IsSuicide
  <2>1. w \in Points /\ left[w] # Empty
    BY <1>6, <1>10, <1>11
  <2>2. w \notin taken /\ p[w] # Empty
    BY <1>3, <1>4, <1>6, <2>1
  <2>3. p[w] = c \/ p[w] = Opp(c)
    BY <1>1, <2>1, <2>2 DEF Stones, Colors, Opp, Opponent
  <2>4. p[w] = c => NumLiberties(g, w) <= 1
    BY <1>7, <1>9, <1>11, <2>2
  <2> QED
    BY <1>8, <2>2, <2>3, <2>4
<1>12. ASSUME IsSuicide(g, v, c) PROVE libs = {}
  <2>1. \A w \in Adj[v] : \/ p[w] = c /\ NumLiberties(g, w) = 1
                          \/ p[w] = Opp(c) /\ NumLiberties(g, w) # 1
    <3> TAKE w \in Adj[v]
    <3>1. \/ p[w] = c /\ NumLiberties(g, w) <= 1
          \/ p[w] = Opp(c) /\ NumLiberties(g, w) # 1
      BY <1>12 DEF IsSuicide
    <3> QED
      BY <1>1, <1>7, <3>1
  <2>2. taken = {}
    <3> SUFFICES ASSUME NEW t \in taken PROVE FALSE
      OBVIOUS
    <3>1. PICK w \in Adj[v] : put[w] = Opponent(c) /\ Liberties(put, w) = {}
      BY DEF Captured
    <3>2. p[w] = Opp(c)
      BY <1>3, <1>6, <3>1 DEF Opp
    <3> QED
      BY <1>1, <2>1, <3>1, <3>2, LastLiberty
  <2>3. \A x \in Points : left[x] = IF x = v THEN c ELSE p[x]
    BY <1>3, <1>4, <2>2
  <2> DEFINE C == {v} \cup UNION {Group(p, w) : w \in {w \in Adj[v] : p[w] = c}}
  <2>4. own \subseteq C
    <3>1. C \in SUBSET Points
      BY <1>1, <1>6, Groups
    <3>2. \A x \in Points : \A u \in C : left[x] = c /\ u \in Adj[x] => x \in C
      <4> SUFFICES ASSUME NEW x \in Points, NEW u \in C, left[x] = c, u \in Adj[x], x # v PROVE x \in C
        OBVIOUS
      <4>1. p[x] = c
        BY <2>3
      <4>2. CASE u = v
        <5>1. x \in Adj[v]
          BY <1>1, <4>2, Symmetric
        <5>2. x \in Group(p, x)
          BY Groups
        <5> QED
          BY <4>1, <5>1, <5>2
      <4>3. CASE u # v
        <5>1. PICK w \in Adj[v] : p[w] = c /\ u \in Group(p, w)
          BY <4>3
        <5>2. w \in Points
          BY <1>6
        <5>3. x \in Group(p, w)
          BY <4>1, <5>1, <5>2, Groups
        <5> QED
          BY <5>1, <5>3
      <4> QED
        BY <4>2, <4>3
    <3>3. v \in C
      OBVIOUS
    <3> HIDE DEF C, left
    <3>4. \A x \in Points : \A u \in C : left[x] = left[v] /\ u \in Adj[x] => x \in C
      BY <1>2, <3>2
    <3> QED
      BY <1>1, <3>1, <3>3, <3>4, Groups
  <2> SUFFICES ASSUME NEW x \in libs PROVE FALSE
    OBVIOUS
  <2>5. x \in Points /\ left[x] = Empty
    BY DEF Around
  <2>6. PICK u \in own : u \in Adj[x]
    BY DEF Around
  <2>7. x # v /\ p[x] = Empty
    BY <1>1, <2>3, <2>5
  <2>8. CASE u = v
    BY <1>1, <2>1, <2>5, <2>6, <2>7, <2>8, Symmetric
  <2>9. CASE u # v
    <3>1. PICK w \in Adj[v] : p[w] = c /\ u \in Group(p, w)
      BY <2>4, <2>6, <2>9
    <3>2. x \in Liberties(p, w)
      BY <2>5, <2>6, <2>7, <3>1 DEF Liberties, Around
    <3>3. v \in Liberties(p, w)
      BY <1>1, NextToChain
    <3>4. Liberties(p, w) \in SUBSET Points
      BY DEF Liberties, Around
    <3>5. Cardinality(Liberties(p, w)) = 1
      BY <1>1, <1>7, <2>1, <3>1
    <3>6. \E y : Liberties(p, w) = {y}
      BY <3>4, <3>5, SetSizes
    <3> QED
      BY <2>7, <3>2, <3>3, <3>6
  <2> QED
    BY <2>8, <2>9
<1>13. libs = {} <=> IsSuicide(g, v, c)
  BY <1>11, <1>12
<1> QED
  BY <1>13 DEF Smothered
----------------------------------------------------------------------------
(* The moves the board allows *)

LEMMA LegalByCounters ==
    ASSUME NEW g, Solid(g), NEW v \in Points, NEW c \in Colors, NEW multi \in BOOLEAN
    PROVE  IsLegal(g, v, c, multi) <=> Legal(PositionOf(g), v, c, multi)
<1> DEFINE p == g.colors
           joins == \E w \in Adj[v] : p[w] = c
<1>1. PositionOf(g).stones = p /\ PositionOf(g).ko = g.ko_loc
  BY DEF PositionOf, Position
<1> SUFFICES ASSUME p[v] = Empty
             PROVE  ~IsIllegalSuicide(g, v, c, multi)
                    <=> (After(PositionOf(g), v, c).stones[v] = c \/ (multi /\ joins))
  BY <1>1 DEF IsLegal, Legal
<1>2. FreeFor(g, v, c)
  BY DEF FreeFor
<1>3. Smothered(p, v, c) <=> IsSuicide(g, v, c)
  BY <1>2, SmotheredByNeighbours
<1>4. After(PositionOf(g), v, c).stones[v] = c <=> ~Smothered(p, v, c)
  <2> DEFINE left == LeftBy(p, v, c)
             own == Group(left, v)
  <2>1. After(PositionOf(g), v, c).stones
        = IF Around(left, own) = {} THEN Put(left, own, Empty) ELSE left
    BY <1>1 DEF After, Position, LeftBy, Placed
  <2>2. left[v] = c /\ v \in own /\ c # Empty
    BY MoveMade, Groups, BoardParts, Kinds DEF Solid
  <2>3. Put(left, own, Empty)[v] = Empty
    BY <2>2 DEF Put
  <2> HIDE DEF left, own
  <2> QED
    BY <2>1, <2>2, <2>3 DEF Smothered, left, own
<1>5. c # Opp(c)
  BY Kinds DEF Opp
<1>6. CASE multi = FALSE
  BY <1>3, <1>4, <1>6 DEF IsIllegalSuicide, IsSuicide
<1>7. CASE multi = TRUE /\ joins
  BY <1>5, <1>7 DEF IsIllegalSuicide
<1>8. CASE multi = TRUE /\ ~joins
  <2>1. IsIllegalSuicide(g, v, c, multi) <=> IsSuicide(g, v, c)
    BY <1>8 DEF IsIllegalSuicide, IsSuicide
  <2> QED
    BY <1>3, <1>4, <1>8, <2>1
<1> QED
  BY <1>6, <1>7, <1>8

\* What Forget() drops is not part of the lists.
LEMMA Forgetting ==
    ASSUME NEW g, Solid(g)
    PROVE  /\ Solid(Forget(g)) /\ PositionOf(Forget(g)) = PositionOf(g)
           /\ Forget(g).colors = g.colors /\ Forget(g).ko_loc = g.ko_loc
<1> DEFINE f == Forget(g)
<1>1. g \in Boards
  BY DEF Solid
<1>2. f \in Boards /\ f.colors = g.colors /\ f.ko_loc = g.ko_loc /\ f.captures = g.captures
  <2>1. f.colors = g.colors /\ f.ko_loc = g.ko_loc /\ f.captures = g.captures /\ f.hash = g.hash
    BY <1>1 DEF Forget, Boards
  <2>2. f.chain_head \in [Points -> Points \cup {NoLoc}] /\ f.next_in_chain \in [Points -> Points \cup {NoLoc}]
    BY <1>1 DEF Forget, Boards
  <2>3. f.libs \in [Points -> Int]
    BY <1>1 DEF Forget, Boards
  <2>4. f.locs \in [Points -> Int]
    BY <1>1 DEF Forget, Boards
  <2>5. f = [g EXCEPT !.chain_head = f.chain_head, !.next_in_chain = f.next_in_chain,
                      !.libs = f.libs, !.locs = f.locs]
    BY <1>1 DEF Forget, Boards
  <2> HIDE DEF f
  <2> QED
    BY <1>1, <2>1, <2>2, <2>3, <2>4, <2>5 DEF Boards
<1>3. AlikeChains(g, f)
  <2>1. f.hash = g.hash
    BY <1>1 DEF Forget, Boards
  <2>2. \A x \in Points : g.colors[x] # Empty =>
          f.chain_head[x] = g.chain_head[x] /\ f.next_in_chain[x] = g.next_in_chain[x]
    BY <1>1 DEF Forget, Boards
  <2>3. \A x \in Points : g.colors[x] # Empty /\ g.chain_head[x] = x =>
          f.libs[x] = g.libs[x] /\ f.locs[x] = g.locs[x]
    BY <1>1 DEF Forget, Boards
  <2> HIDE DEF f
  <2> QED
    BY <1>2, <2>1, <2>2, <2>3 DEF AlikeChains
<1> HIDE DEF f
<1>4. Linked(f) /\ Counted(f, {}) /\ Grouped(f) /\ Hashed(f) /\ Listed(f)
  BY <1>3, ChainsAlike DEF Solid
<1>5. Solid(f)
  BY <1>2, <1>4 DEF Solid
<1> QED
  BY <1>2, <1>5 DEF PositionOf, f

\* The ko of a solid board may be cleared.
LEMMA KoCleared ==
    ASSUME NEW g, Solid(g), NEW k \in Points \cup {NoLoc}
    PROVE  LET m == [g EXCEPT !.ko_loc = k] IN
           /\ Solid(m) /\ m.colors = g.colors /\ m.ko_loc = k /\ m.captures = g.captures
<1> DEFINE m == [g EXCEPT !.ko_loc = k]
<1>1. g \in Boards
  BY DEF Solid
<1>2. m \in Boards /\ m.colors = g.colors /\ m.ko_loc = k /\ m.captures = g.captures
  BY <1>1 DEF Boards
<1>3. AlikeChains(g, m)
  BY <1>1 DEF AlikeChains, Boards
<1> HIDE DEF m
<1>4. Linked(m) /\ Counted(m, {}) /\ Grouped(m) /\ Hashed(m) /\ Listed(m)
  BY <1>3, ChainsAlike DEF Solid
<1>5. Solid(m)
  BY <1>2, <1>4 DEF Solid
<1> QED
  BY <1>2, <1>5 DEF m
=============================================================================
