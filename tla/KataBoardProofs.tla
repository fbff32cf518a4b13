--------------------------- MODULE KataBoardProofs ---------------------------
(***************************************************************************)
(* Theorems about KataBoard, for a board of any size: the lists of stones,   *)
(* their sizes, liberties and the hash stay those of the groups on the       *)
(* board, what the board allows and does is what GoGame says, what it says   *)
(* of a move beforehand is what the move does, and what it finds pass-alive  *)
(* cannot be captured.                                                       *)
(***************************************************************************)
EXTENDS BoardProofs

----------------------------------------------------------------------------
(* Setting stones *)

\* The stones of the chain that are played again capture nothing, and are all there in
\* the end but the one at v.
LEMMA SingleRemoved ==
    ASSUME NEW g, Solid(g), NEW v \in Points, g.colors[v] # Empty
    PROVE  LET m == RemoveSingleStone(g, v) IN
           Solid(m) /\ m.colors = Put(g.colors, {v}, Empty) /\ m.captures = g.captures
<1> DEFINE c == g.colors[v]
           p == g.colors
           G == Group(p, v)
           h == g.chain_head[v]
           list == Ring(g, v)
           n == Len(list)
           s0 == RemoveChain(g, v)
           op(s, w) == IF w = v THEN s ELSE PlayMoveAssumeLegal(s, w, c)
           Loop(f) == f = [k \in 0..n |-> IF k = 0 THEN s0 ELSE op(f[k - 1], list[k])]
           Free(k) == {v} \cup {list[j] : j \in k + 1..n}
           J == [k \in 0..n |-> {s \in Boards : /\ Solid(s) /\ s.captures = g.captures
                                              /\ s.colors = Put(p, Free(k), Empty)}]
           f == CHOOSE f : Loop(f)
<1>1. /\ c \in Colors /\ h \in Points /\ ListOf(g, h) /\ v \in Members(g, h)
      /\ Members(g, h) = Group(g.colors, v) /\ g \in Boards
  BY SolidStone DEF Solid
<1>2. /\ list \in Seq(Points) /\ n \in Nat /\ Distinct(list) /\ ToSet(list) = Group(g.colors, v)
      /\ \A w : w \in ToSet(list) <=> \E i \in 1..n : list[i] = w
  <2>1. Circle(list, g.next_in_chain, Members(g, h), v) /\ list \in Seq(Points) /\ ToSet(list) = Members(g, h)
    BY <1>1, RingOfList
  <2>2. Distinct(list)
    BY <2>1 DEF Circle, Path
  <2> HIDE DEF list
  <2> QED
    BY <1>1, <2>1, <2>2, DistinctLength
<1>3. RemoveSingleStone(g, v) = f[n]
  BY DEF RemoveSingleStone, InTurn
<1>4. /\ v \in G /\ p \in Stones /\ Settled(p) /\ g.captures \in [Colors -> Int]
       /\ \A k \in 0..n : v \in Free(k) /\ Free(k) \subseteq G
  <2>1. v \in G
    BY Groups
  <2>2. p \in Stones /\ Settled(p) /\ g.captures \in [Colors -> Int]
    BY BoardParts DEF Solid
  <2>3. \A j \in 1..n : list[j] \in G
    BY <1>2
  <2> HIDE DEF list, n, G
  <2>4. \A k \in 0..n : \A j \in k + 1..n : j \in 1..n
    BY <1>2
  <2> QED
    BY <2>1, <2>2, <2>3, <2>4
<1>5. s0 \in J[0]
  <2>1. Solid(s0) /\ s0.colors = Put(p, G, Empty) /\ s0.captures = g.captures
    <3>1. \A y \in Points : g.colors[y] # Empty => Liberties(g.colors, y) # {}
      BY DEF Solid, Settled
    <3> QED
      BY <3>1, ChainGone DEF Solid
  <2>2. Free(0) = G
    <3>1. \A w \in G : \E j \in 0 + 1..n : list[j] = w
      BY <1>2
    <3>2. \A j \in 0 + 1..n : list[j] \in G
      BY <1>2
    <3> HIDE DEF list, n, G
    <3> QED
      BY <1>4, <3>1, <3>2
  <2>3. s0 \in Boards
    BY <2>1 DEF Solid
  <2> HIDE DEF s0, Free
  <2> QED
    BY <1>2, <2>1, <2>2, <2>3
<1>6. ASSUME NEW k \in 1..n, NEW s \in J[k - 1] PROVE op(s, list[k]) \in J[k]
  <2>1. k - 1 \in 0..n /\ k \in 0..n /\ list[k] \in Points
    BY <1>2
  <2>2. Solid(s) /\ s.captures = g.captures /\ s.colors = Put(p, Free(k - 1), Empty) /\ s \in Boards
    BY <1>6, <2>1
  <2>3. Free(k - 1) = Free(k) \cup {list[k]}
    <3>1. \A j : j \in (k - 1) + 1..n <=> j = k \/ j \in k + 1..n
      BY <1>2, <2>1
    <3> HIDE DEF list, n
    <3> QED
      BY <3>1
  <2>4. CASE list[k] = v
    <3>1. op(s, list[k]) = s /\ Free(k - 1) = Free(k)
      BY <2>3, <2>4
    <3> HIDE DEF Free, op
    <3> QED
      BY <2>1, <2>2, <3>1
  <2>5. CASE list[k] # v
    <3> DEFINE w == list[k]
               m == PlayMoveAssumeLegal(s, w, c)
    <3>1. w \notin Free(k) /\ w \in G
      <4>1. \A j \in k + 1..n : j \in 1..n /\ j # k
        BY <2>1, <1>2
      <4>2. \A j \in k + 1..n : list[j] # list[k]
        BY <1>2, <2>1, <4>1 DEF Distinct
      <4>3. list[k] \in G
        BY <1>2, <2>1
      <4> HIDE DEF list, n, G
      <4> QED
        BY <2>5, <4>2, <4>3
    <3>2. /\ Free(k) \in SUBSET G /\ v \in Free(k) /\ G \in SUBSET Points /\ p[w] = c /\ c # Empty
          /\ Free(k - 1) = Free(k) \cup {w}
      BY <1>1, <1>4, <2>1, <2>3, <3>1, Groups, Kinds
    <3> HIDE DEF Free, G, w
    <3>3. Put(s.colors, {w}, c) = Put(p, Free(k), Empty)
      <4>1. \A x \in Points : Put(s.colors, {w}, c)[x] = Put(p, Free(k), Empty)[x]
        BY <2>2, <3>1, <3>2 DEF Put
      <4> QED
        BY <4>1, Zenon DEF Put
    <3>4. Settled(Put(p, Free(k), Empty))
      BY <1>4, <3>2, PartTaken DEF G
    <3>5. FreeFor(s, w, c)
      <4>1. s.colors[w] = Empty
        BY <2>1, <2>2, <3>2 DEF Put, w
      <4> QED
        BY <1>1, <2>1, <2>2, <4>1 DEF FreeFor, w
    <3>6. Implements(m, After(PositionOf(s), w, c))
      BY <3>5, PlayImplements
    <3>7. PositionOf(s).stones = s.colors /\ PositionOf(s).prisoners = g.captures /\ s.colors \in Stones
      BY <2>2, BoardParts DEF PositionOf, Position
    <3>8. After(PositionOf(s), w, c) = Position(Put(p, Free(k), Empty), NoKo, g.captures)
      BY <1>1, <1>4, <2>1, <3>3, <3>4, <3>7, QuietMove DEF w
    <3> HIDE DEF m
    <3>9. Solid(m) /\ m.colors = Put(p, Free(k), Empty) /\ m.captures = g.captures /\ m \in Boards
      BY <3>6, <3>8 DEF Implements, PositionOf, Position, Solid
    <3>10. op(s, list[k]) = m
      BY <2>5 DEF m, w
    <3> HIDE DEF op
    <3> QED
      BY <2>1, <3>9, <3>10
  <2> QED
    BY <2>4, <2>5
<1>7. J[n] = {s \in Boards : Solid(s) /\ s.captures = g.captures /\ s.colors = Put(p, Free(n), Empty)}
  BY <1>2
<1>8. Free(n) = {v}
  <2>1. n + 1..n = {}
    BY <1>2
  <2> HIDE DEF list, n
  <2> QED
    BY <2>1
<1> HIDE DEF J, s0, list, n, op, Free
<1>9. \E e : Loop(e)
  <2> DEFINE U == UNION {J[k] : k \in 0..n}
             step == [x \in (1..n) \X U |-> op(x[2], list[x[1]])]
  <2>1. \A k \in 1..n : \A s \in J[k - 1] : step[<<k, s>>] = op(s, list[k]) /\ step[<<k, s>>] \in J[k]
    <3> TAKE k \in 1..n
    <3> TAKE s \in J[k - 1]
    <3>1. k - 1 \in 0..n
      BY <1>2
    <3>2. <<k, s>> \in (1..n) \X U
      BY <3>1
    <3>3. step[<<k, s>>] = op(s, list[k])
      BY <3>2
    <3> HIDE DEF step
    <3> QED
      BY <1>6, <3>3
  <2> HIDE DEF step, U
  <2>2. PICK e : LoopOf(e, n, s0, step) /\ \A k \in 0..n : e[k] \in J[k]
    <3>1. \A k \in 1..n : \A s \in J[k - 1] : step[<<k, s>>] \in J[k]
      BY <2>1
    <3> QED
      BY <1>2, <1>5, <3>1, Looped
  <2>3. \A k \in 0..n : (IF k = 0 THEN s0 ELSE step[<<k, e[k - 1]>>])
                        = (IF k = 0 THEN s0 ELSE op(e[k - 1], list[k]))
    <3> TAKE k \in 0..n
    <3>1. CASE k # 0
      <4>1. k \in 1..n /\ k - 1 \in 0..n
        BY <1>2, <3>1
      <4> QED
        BY <2>1, <2>2, <4>1
    <3> QED
      BY <3>1
  <2>4. Loop(e)
    <3>1. [k \in 0..n |-> IF k = 0 THEN s0 ELSE step[<<k, e[k - 1]>>]]
          = [k \in 0..n |-> IF k = 0 THEN s0 ELSE op(e[k - 1], list[k])]
      BY <2>3, Zenon
    <3> QED
      BY <2>2, <3>1 DEF LoopOf
  <2> QED
    BY <2>4
<1>10. Loop(f)
  BY <1>9
<1> HIDE DEF f
<1>11. f[0] = s0 /\ \A k \in 1..n : f[k] = op(f[k - 1], list[k])
  <2>1. \A k \in 0..n : f[k] = IF k = 0 THEN s0 ELSE op(f[k - 1], list[k])
    BY <1>10
  <2> QED
    BY <1>2, <2>1
<1>12. f[n] \in J[n]
  <2>1. GoesOn(f, J, n)
    BY <1>6, <1>11 DEF GoesOn
  <2> QED
    BY <1>2, <1>5, <1>11, <2>1, LoopEnds
<1> QED
  BY <1>3, <1>7, <1>8, <1>12
----------------------------------------------------------------------------

\* Whatever stone is set, the board is solid, and the position is the one the rules give.
LEMMA StoneSet ==
    ASSUME NEW g, Solid(g), NEW v \in Points, NEW c \in Colors \cup {Empty}
    PROVE  LET m == SetStone(g, v, c) IN
           Solid(m) /\ m.ko_loc = NoLoc /\ PositionOf(m) = SetTo(PositionOf(g), v, c)
<1> DEFINE p == g.colors
           s == PositionOf(g)
           free == IF p[v] = Empty THEN g ELSE RemoveSingleStone(g, v)
           refused == IF p[v] = Empty THEN IsIllegalSuicide(g, v, c, TRUE) ELSE IsSuicide(free, v, c)
           played == PlayMoveAssumeLegal(free, v, c)
           set == IF p[v] = c THEN g ELSE IF c = Empty \/ refused THEN free ELSE played
           multi == p[v] = Empty
           bare == Position(Put(p, {v}, Empty), NoKo, g.captures)
           calm == [free EXCEPT !.ko_loc = NoLoc]
<1>1. SetStone(g, v, c) = [set EXCEPT !.ko_loc = NoLoc]
  BY DEF SetStone
<1>2. s.stones = p /\ s.prisoners = g.captures /\ p \in Stones /\ g \in Boards
  BY BoardParts DEF PositionOf, Position, Solid
<1>3. Solid(free) /\ free.colors = Put(p, {v}, Empty) /\ free.captures = g.captures
  <2>1. CASE p[v] = Empty
    <3>1. Put(p, {v}, Empty) = p
      BY <1>2, <2>1 DEF Put, Stones
    <3> QED
      BY <2>1, <3>1
  <2>2. CASE p[v] # Empty
    BY <2>2, SingleRemoved
  <2> QED
    BY <2>1, <2>2
<1>4. SetTo(s, v, c) = CASE p[v] = c -> Passed(s)
                         [] p[v] # c /\ c # Empty /\ Legal(bare, v, c, multi) -> Passed(After(bare, v, c))
                         [] OTHER -> bare
  BY <1>2 DEF SetTo
<1> HIDE DEF free
<1>5. /\ Solid(calm) /\ calm.colors = free.colors /\ calm.captures = g.captures /\ calm.ko_loc = NoLoc
      /\ PositionOf(calm) = bare
  BY <1>3, KoCleared DEF PositionOf, NoLoc
<1>6. ASSUME c # Empty, p[v] # c
      PROVE  refused <=> ~Legal(bare, v, c, multi)
  <2>1. IsLegal(calm, v, c, multi) <=> Legal(bare, v, c, multi)
    BY <1>5, <1>6, LegalByCounters
  <2>2. calm.colors[v] = Empty /\ v # NoLoc
    BY <1>2, <1>3, <1>5, NoLocIsNoPoint DEF Put
  <2>3. IsLegal(calm, v, c, multi) <=> ~IsIllegalSuicide(calm, v, c, multi)
    BY <1>5, <2>2 DEF IsLegal
  <2>4. free \in Boards
    BY <1>3 DEF Solid
  <2>5. calm.chain_head = free.chain_head /\ calm.libs = free.libs /\ calm.colors = free.colors
    BY <2>4 DEF Boards
  <2> HIDE DEF calm
  <2>6. IsIllegalSuicide(calm, v, c, multi) <=> IsIllegalSuicide(free, v, c, multi)
    BY <2>5 DEF IsIllegalSuicide, NumLiberties
  <2>7. CASE p[v] = Empty
    BY <2>1, <2>3, <2>6, <2>7 DEF free
  <2>8. CASE p[v] # Empty
    <3>1. IsIllegalSuicide(free, v, c, FALSE) <=> IsSuicide(free, v, c)
      BY DEF IsIllegalSuicide, IsSuicide
    <3> QED
      BY <2>1, <2>3, <2>6, <2>8, <3>1
  <2> QED
    BY <2>7, <2>8
<1>7. ASSUME c # Empty
      PROVE  Solid(played) /\ Position(played.colors, NoKo, played.captures) = Passed(After(bare, v, c))
  <2>1. FreeFor(free, v, c)
    BY <1>2, <1>3, <1>7 DEF FreeFor, Put
  <2>2. Solid(played) /\ PositionOf(played) = After(PositionOf(free), v, c)
    BY <2>1, PlayImplements DEF Implements
  <2>3. After(PositionOf(free), v, c) = After(bare, v, c)
    <3>1. /\ PositionOf(free).stones = bare.stones /\ PositionOf(free).prisoners = bare.prisoners
      BY <1>3 DEF PositionOf, Position
    <3> HIDE DEF bare
    <3> QED
      BY <3>1 DEF After
  <2> HIDE DEF played, bare
  <2>4. Passed(PositionOf(played)) = Position(played.colors, NoKo, played.captures)
    BY DEF Passed, PositionOf, Position
  <2> QED
    BY <2>2, <2>3, <2>4
<1> HIDE DEF played, refused, bare, calm
<1>8. Solid(set) /\ Position(set.colors, NoKo, set.captures) = SetTo(s, v, c)
  <2>1. CASE p[v] = c
    <3>1. Passed(s) = Position(g.colors, NoKo, g.captures)
      BY DEF Passed, PositionOf, Position
    <3>2. set = g
      BY <2>1
    <3>3. SetTo(s, v, c) = Passed(s)
      BY <1>4, <2>1
    <3> HIDE DEF set, s
    <3> QED
      BY <3>1, <3>2, <3>3
  <2>2. CASE p[v] # c /\ (c = Empty \/ refused)
    <3>1. set = free
      BY <2>2
    <3>2. SetTo(s, v, c) = bare
      BY <1>4, <1>6, <2>2
    <3> QED
      BY <1>3, <3>1, <3>2 DEF bare
  <2>3. CASE p[v] # c /\ c # Empty /\ ~refused
    <3>1. set = played
      BY <2>3
    <3>2. SetTo(s, v, c) = Passed(After(bare, v, c))
      BY <1>4, <1>6, <2>3
    <3> QED
      BY <1>7, <2>3, <3>1, <3>2
  <2> QED
    BY <2>1, <2>2, <2>3
<1> HIDE DEF set
<1> DEFINE m == [set EXCEPT !.ko_loc = NoLoc]
<1>9. Solid(m) /\ m.colors = set.colors /\ m.ko_loc = NoLoc /\ m.captures = set.captures
  BY <1>8, KoCleared
<1> HIDE DEF m, s
<1>10. PositionOf(m) = Position(set.colors, NoKo, set.captures)
  BY <1>9 DEF PositionOf, NoLoc, NoKo
<1> QED
  BY <1>1, <1>8, <1>9, <1>10 DEF m, s
----------------------------------------------------------------------------
(* Regions that are flooded *)

\* As far as the flood has come after k turns: the stones that are done, and todo.
Flood(C, R, v, k, s) ==
    /\ s.done \in Seq(Points) /\ Distinct(s.done) /\ s.todo \in Seq(Points)
    /\ \A i \in 1..Len(s.done) : s.done[i] \in C
    /\ \A i \in 1..Len(s.todo) : s.todo[i] \in R => s.todo[i] \in C
    /\ \A i \in 1..Len(s.done) : \A x \in Adj[s.done[i]] :
          x \in R => Has(s.done, x) \/ Has(s.todo, x)
    /\ IF s.done = <<>> THEN s.todo = <<v>> ELSE s.done[1] = v
    /\ s.todo = <<>> \/ Len(s.todo) + k <= 1 + 4 * Len(s.done)

Visit(R, s) ==
    CASE s.todo = <<>> -> s
      [] s.todo # <<>> /\ Head(s.todo) \in R \ ToSet(s.done) ->
           [done |-> Append(s.done, Head(s.todo)), todo |-> AdjSeq[Head(s.todo)] \o Tail(s.todo)]
      [] OTHER -> [s EXCEPT !.todo = Tail(@)]

Floods == [done : Seq(Points), todo : Seq(Points)]

LEMMA FloodGoesOn ==
    ASSUME NEW R, NEW v \in Points, NEW C, RegionOf(C, R, v), NEW k \in Nat, NEW s \in Floods,
           Flood(C, R, v, k, s)
    PROVE  Visit(R, s) \in Floods /\ Flood(C, R, v, k + 1, Visit(R, s))
<1> DEFINE d == s.done
           t == s.todo
           w == Head(t)
           r == Tail(t)
<1>1. d \in Seq(Points) /\ t \in Seq(Points) /\ Len(d) \in Nat /\ Len(t) \in Nat
  BY DEF Floods
<1>2. /\ Distinct(d)
      /\ \A i \in 1..Len(d) : d[i] \in C
      /\ \A i \in 1..Len(t) : t[i] \in R => t[i] \in C
      /\ \A i \in 1..Len(d) : \A x \in Adj[d[i]] : x \in R => Has(d, x) \/ Has(t, x)
      /\ IF d = <<>> THEN t = <<v>> ELSE d[1] = v
      /\ t = <<>> \/ Len(t) + k <= 1 + 4 * Len(d)
  BY DEF Flood
<1>3. /\ R \in SUBSET Points /\ C \in SUBSET R /\ v \in C
      /\ \A u \in C : \A x \in Adj[u] : x \in R => x \in C
  BY DEF RegionOf, Connected
<1>4. CASE t = <<>>
  <2>1. Visit(R, s) = s
    BY <1>4 DEF Visit
  <2> QED
    BY <1>1, <1>2, <1>4, <2>1 DEF Flood
<1>5. ASSUME t # <<>>
      PROVE  /\ w \in Points /\ r \in Seq(Points) /\ Len(r) = Len(t) - 1 /\ Len(r) \in Nat
             /\ w = t[1] /\ \A i \in 1..Len(r) : i + 1 \in 1..Len(t) /\ r[i] = t[i + 1]
             /\ \A x : Has(t, x) <=> x = w \/ Has(r, x)
             /\ (w \in R => w \in C) /\ \A i \in 1..Len(r) : r[i] \in R => r[i] \in C
  <2>1. /\ w \in Points /\ r \in Seq(Points) /\ Len(r) = Len(t) - 1 /\ Len(t) \in Nat \ {0}
        /\ w = t[1] /\ \A i \in 1..Len(r) : r[i] = t[i + 1]
        /\ \A x : Has(t, x) <=> x = w \/ Has(r, x)
    BY <1>1, <1>5, HeadTail
  <2> HIDE DEF r, w, t
  <2>2. \A i \in 1..Len(r) : i + 1 \in 1..Len(t)
    BY <2>1
  <2>3. 1 \in 1..Len(t) /\ Len(r) \in Nat
    BY <2>1
  <2> QED
    BY <1>2, <2>1, <2>2, <2>3
<1>6. \A x : x \in ToSet(d) <=> Has(d, x)
  BY <1>1 DEF ToSet, Has
<1>7. \A x : Has(d, x) <=> \E i \in 1..Len(d) : d[i] = x
  BY <1>1 DEF Has
<1>8. CASE t # <<>> /\ w \in R \ ToSet(d)
  <2> DEFINE e == Append(d, w)
             u == AdjSeq[w] \o r
             m == [done |-> e, todo |-> u]
  <2>1. Visit(R, s) = m
    BY <1>8 DEF Visit
  <2>2. AdjSeq[w] \in Seq(Points) /\ Len(AdjSeq[w]) \in 0..4 /\ \A x : x \in Adj[w] <=> Has(AdjSeq[w], x)
    <3>1. AdjSeq[w] \in Seq(Points) /\ Len(AdjSeq[w]) \in 0..4
          /\ \A x : x \in Adj[w] <=> \E j \in 1..Len(AdjSeq[w]) : AdjSeq[w][j] = x
      BY <1>5, <1>8, AdjSeqIsAdj
    <3>2. DOMAIN AdjSeq[w] = 1..Len(AdjSeq[w])
      BY <3>1
    <3> QED
      BY <3>1, <3>2 DEF Has
  <2> DEFINE a == AdjSeq[w]
  <2> HIDE DEF a, w, r, t, d
  <2>3. /\ e \in Seq(Points) /\ Len(e) = Len(d) + 1 /\ e[Len(d) + 1] = w
        /\ \A i \in 1..Len(d) : e[i] = d[i]
    BY <1>1, <1>5, <1>8
  <2>4. u \in Seq(Points) /\ Len(u) = Len(a) + Len(r)
    BY <1>5, <1>8, <2>2 DEF a
  <2>5. \A x : Has(u, x) <=> Has(a, x) \/ Has(r, x)
    BY <1>5, <1>8, <2>2, Parts DEF a
  <2>6. \A x : Has(e, x) <=> Has(d, x) \/ x = w
    <3>1. \A x : Has(e, x) <=> \E i \in 1..Len(e) : e[i] = x
      BY <2>3 DEF Has
    <3>2. Len(d) + 1 \in 1..Len(e) /\ \A i \in 1..Len(d) : i \in 1..Len(e)
      BY <1>1, <2>3
    <3>3. \A i \in 1..Len(e) : i \in 1..Len(d) \/ i = Len(d) + 1
      BY <1>1, <2>3
    <3> HIDE DEF e
    <3> QED
      BY <1>7, <2>3, <3>1, <3>2, <3>3
  <2>7. w \in C /\ w \in R /\ ~Has(d, w)
    BY <1>5, <1>6, <1>8
  <2> HIDE DEF e, u
  <2>8. Distinct(e)
    <3>1. \A i \in 1..Len(e) : (i \in 1..Len(d) /\ e[i] = d[i] /\ e[i] # w) \/ (i = Len(d) + 1 /\ e[i] = w)
      BY <1>1, <1>7, <2>3, <2>7
    <3> QED
      BY <1>2, <3>1 DEF Distinct
  <2>9. \A i \in 1..Len(e) : e[i] \in C
    <3>1. \A i \in 1..Len(e) : (i \in 1..Len(d) /\ e[i] = d[i]) \/ e[i] = w
      BY <1>1, <2>3
    <3> QED
      BY <1>2, <2>7, <3>1
  <2>10. \A i \in 1..Len(u) : u[i] \in R => u[i] \in C
    <3> SUFFICES ASSUME NEW i \in 1..Len(u), u[i] \in R PROVE u[i] \in C
      OBVIOUS
    <3>1. Has(u, u[i])
      BY <2>4 DEF Has
    <3>2. CASE Has(a, u[i])
      <4>1. u[i] \in Adj[w]
        BY <2>2, <3>2 DEF a
      <4> QED
        BY <1>3, <2>7, <4>1
    <3>3. CASE Has(r, u[i])
      <4>1. PICK j \in 1..Len(r) : r[j] = u[i]
        BY <1>5, <1>8, <3>3 DEF Has
      <4> QED
        BY <1>5, <1>8, <4>1
    <3> QED
      BY <2>5, <3>1, <3>2, <3>3
  <2>11. \A i \in 1..Len(e) : \A x \in Adj[e[i]] : x \in R => Has(e, x) \/ Has(u, x)
    <3> SUFFICES ASSUME NEW i \in 1..Len(e), NEW x \in Adj[e[i]], x \in R PROVE Has(e, x) \/ Has(u, x)
      OBVIOUS
    <3>1. CASE i \in 1..Len(d)
      <4>1. e[i] = d[i]
        BY <2>3, <3>1
      <4>2. Has(d, x) \/ Has(t, x)
        BY <1>2, <3>1, <4>1
      <4> QED
        BY <1>5, <1>8, <2>5, <2>6, <4>2
    <3>2. CASE i = Len(d) + 1
      <4>1. x \in Adj[w]
        BY <2>3, <3>2
      <4> QED
        BY <2>2, <2>5, <4>1 DEF a
    <3> QED
      BY <1>1, <2>3, <3>1, <3>2
  <2>12. e # <<>> /\ e[1] = v
    <3>1. e # <<>>
      BY <1>1, <2>3
    <3>2. CASE d = <<>>
      <4>1. Len(d) = 0 /\ t = <<v>>
        BY <1>2, <3>2
      <4>2. w = v
        BY <1>5, <1>8, <4>1
      <4> QED
        BY <2>3, <3>1, <4>1, <4>2
    <3>3. CASE d # <<>>
      <4>1. 1 \in 1..Len(d)
        BY <1>1, <3>3
      <4> QED
        BY <1>2, <2>3, <3>1, <3>3, <4>1
    <3> QED
      BY <3>2, <3>3
  <2>13. Len(u) + (k + 1) <= 1 + 4 * Len(e)
    <3>1. Len(t) + k <= 1 + 4 * Len(d)
      BY <1>2, <1>8
    <3>2. Len(a) <= 4 /\ Len(a) \in Nat
      <4>1. Len(a) \in 0..4
        BY <2>2 DEF a
      <4>2. \A y \in 0..4 : y <= 4 /\ y \in Nat
        OBVIOUS
      <4> QED
        BY <4>1, <4>2, Zenon
    <3> QED
      BY <1>1, <1>5, <1>8, <2>3, <2>4, <3>1, <3>2
  <2> QED
    BY <2>1, <2>3, <2>4, <2>8, <2>9, <2>10, <2>11, <2>12, <2>13 DEF Flood, Floods
<1>9. CASE t # <<>> /\ w \notin R \ ToSet(d)
  <2>1. Visit(R, s) = [s EXCEPT !.todo = r]
    BY <1>9 DEF Visit
  <2>2. Visit(R, s) \in Floods /\ Visit(R, s).done = d /\ Visit(R, s).todo = r
    BY <1>5, <1>9, <2>1 DEF Floods
  <2>3. d # <<>>
    <3> SUFFICES ASSUME d = <<>> PROVE FALSE
      OBVIOUS
    <3>1. t = <<v>> /\ Len(d) = 0
      BY <1>2
    <3>2. w = v
      BY <1>5, <1>9, <3>1
    <3>3. v \in R /\ ~Has(d, v)
      BY <1>3, <1>7, <3>1
    <3> QED
      BY <1>6, <1>9, <3>2, <3>3
  <2> HIDE DEF w, r, t, d
  <2>4. \A i \in 1..Len(d) : \A x \in Adj[d[i]] : x \in R => Has(d, x) \/ Has(r, x)
    BY <1>2, <1>5, <1>6, <1>9
  <2>5. Len(r) + (k + 1) <= 1 + 4 * Len(d)
    BY <1>1, <1>2, <1>5, <1>9
  <2> QED
    BY <1>1, <1>2, <1>5, <1>9, <2>2, <2>3, <2>4, <2>5 DEF Flood
<1> QED
  BY <1>4, <1>8, <1>9
----------------------------------------------------------------------------

\* A flood ends with the region, each point of it once, and begins where it started.
FloodOf(list, C, v) ==
    /\ list \in Seq(Points) /\ Distinct(list) /\ ToSet(list) = C
    /\ Len(list) \in Nat \ {0} /\ list[1] = v /\ Cardinality(C) = Len(list)
    /\ \A w : w \in C <=> \E i \in 1..Len(list) : list[i] = w

LEMMA FloodEnds ==
    ASSUME NEW R, NEW v \in Points, NEW C, RegionOf(C, R, v), NEW s \in Floods,
           Flood(C, R, v, 4 * XSize * YSize + 1, s)
    PROVE  FloodOf(s.done, C, v)
<1> DEFINE d == s.done
           t == s.todo
           n == XSize * YSize
<1>1. d \in Seq(Points) /\ t \in Seq(Points) /\ Len(d) \in Nat /\ Len(t) \in Nat /\ n \in Nat
  BY BoardAssumption DEF Floods
<1>2. /\ Distinct(d)
      /\ \A i \in 1..Len(d) : d[i] \in C
      /\ \A i \in 1..Len(d) : \A x \in Adj[d[i]] : x \in R => Has(d, x) \/ Has(t, x)
      /\ IF d = <<>> THEN t = <<v>> ELSE d[1] = v
      /\ t = <<>> \/ Len(t) + (4 * XSize * YSize + 1) <= 1 + 4 * Len(d)
  BY DEF Flood
<1>3. /\ C \in SUBSET R /\ R \in SUBSET Points /\ Connected(C, v) /\ v \in C
  BY DEF RegionOf, Connected
<1> HIDE DEF d, t
<1>4. /\ ToSet(d) \subseteq Points /\ IsFiniteSet(ToSet(d)) /\ Cardinality(ToSet(d)) = Len(d)
      /\ \A w : w \in ToSet(d) <=> \E i \in 1..Len(d) : d[i] = w
  BY <1>1, <1>2, DistinctLength
<1>5. Len(d) <= n
  <2>1. IsFiniteSet(Points) /\ Cardinality(Points) = XSize * YSize
    <3>1. XSize * YSize \in Nat /\ XSize * YSize > 0
      BY BoardAssumption
    <3> QED
      BY <3>1, FS_Interval DEF Points
  <2> QED
    BY <1>4, <2>1, FS_Subset
<1>6. t = <<>>
  <2> SUFFICES ASSUME t # <<>> PROVE FALSE
    OBVIOUS
  <2>1. Len(t) # 0
    BY <1>1
  <2>2. Len(t) + (4 * n + 1) <= 1 + 4 * Len(d)
    <3>1. 4 * XSize * YSize = 4 * n
      BY BoardAssumption
    <3> QED
      BY <1>2, <3>1
  <2> HIDE DEF n
  <2> QED
    BY <1>1, <1>5, <2>1, <2>2
<1>7. d # <<>> /\ d[1] = v /\ Len(d) \in Nat \ {0}
  <2>1. <<>> # <<v>>
    OBVIOUS
  <2> QED
    BY <1>1, <1>2, <1>6, <2>1
<1>8. \A x : ~Has(t, x)
  BY <1>6 DEF Has
<1>9. ToSet(d) = C
  <2>1. v \in ToSet(d) /\ ToSet(d) \in SUBSET C
    <3>1. 1 \in 1..Len(d)
      BY <1>7
    <3> QED
      BY <1>2, <1>4, <1>7, <3>1
  <2>2. \A w \in C : \A u \in ToSet(d) : u \in Adj[w] => w \in ToSet(d)
    <3> SUFFICES ASSUME NEW w \in C, NEW u \in ToSet(d), u \in Adj[w] PROVE w \in ToSet(d)
      OBVIOUS
    <3>1. w \in R /\ w \in Points /\ u \in Points
      BY <1>3, <2>1
    <3>2. w \in Adj[u]
      BY <3>1, Symmetric
    <3>3. PICK i \in 1..Len(d) : d[i] = u
      BY <1>4
    <3>4. Has(d, w)
      BY <1>2, <1>8, <3>1, <3>2, <3>3
    <3> QED
      BY <1>1, <1>4, <3>4 DEF Has
  <2> QED
    BY <1>3, <2>1, <2>2 DEF Connected
<1> QED
  BY <1>1, <1>2, <1>4, <1>7, <1>9 DEF FloodOf, d

LEMMA FloodedIs ==
    ASSUME NEW R, NEW v \in Points, NEW C, RegionOf(C, R, v)
    PROVE  FloodOf(Flooded(R, v), C, v)
<1> DEFINE n == 4 * XSize * YSize + 1
           list == Turns(n)
           s0 == [done |-> <<>>, todo |-> <<v>>]
           op(s, k) == Visit(R, s)
           Loop(f) == f = [k \in 0..n |-> IF k = 0 THEN s0 ELSE op(f[k - 1], list[k])]
           J == [k \in 0..n |-> {s \in Floods : Flood(C, R, v, k, s)}]
           f == CHOOSE f : Loop(f)
<1>1. n \in Nat /\ Len(list) = n
  <2>1. n \in Nat
    BY BoardAssumption
  <2> HIDE DEF n
  <2> QED
    BY <2>1 DEF Turns
<1>2. Flooded(R, v) = f[n].done
  <2>1. Flooded(R, v)
        = (CHOOSE e : e = [k \in 0..Len(list) |-> IF k = 0 THEN s0 ELSE op(e[k - 1], list[k])])[Len(list)].done
    BY DEF Flooded, InTurn, Visit
  <2> HIDE DEF list, n, op, s0
  <2> QED
    BY <1>1, <2>1
<1>3. s0 \in J[0]
  <2>1. s0 \in Floods
    BY DEF Floods
  <2>2. v \in C
    BY DEF RegionOf, Connected
  <2>3. Flood(C, R, v, 0, s0)
    <3>1. <<>> \in Seq(Points) /\ Distinct(<<>>) /\ <<v>> \in Seq(Points) /\ Len(<<>>) = 0
          /\ Len(<<v>>) = 1 /\ <<v>>[1] = v
      BY DEF Distinct
    <3>2. Len(<<v>>) + 0 <= 1 + 4 * Len(<<>>)
      BY <3>1
    <3> QED
      BY <2>2, <3>1, <3>2 DEF Flood
  <2> HIDE DEF s0
  <2> QED
    BY <1>1, <2>1, <2>3
<1>4. ASSUME NEW k \in 1..n, NEW s \in J[k - 1] PROVE op(s, list[k]) \in J[k]
  <2>1. k - 1 \in 0..n /\ k \in 0..n /\ k - 1 \in Nat /\ (k - 1) + 1 = k
    BY <1>1
  <2>2. s \in Floods /\ Flood(C, R, v, k - 1, s)
    BY <1>4, <2>1
  <2>3. Visit(R, s) \in Floods /\ Flood(C, R, v, (k - 1) + 1, Visit(R, s))
    BY <2>1, <2>2, FloodGoesOn
  <2>4. Flood(C, R, v, k, Visit(R, s))
    BY <2>1, <2>3
  <2> HIDE DEF n, list
  <2> QED
    BY <2>1, <2>3, <2>4
<1>5. J[n] = {s \in Floods : Flood(C, R, v, n, s)}
  BY <1>1
<1> HIDE DEF J, s0, list, n, op
<1>6. \E e : Loop(e)
  <2> DEFINE U == UNION {J[k] : k \in 0..n}
             step == [x \in (1..n) \X U |-> op(x[2], list[x[1]])]
  <2>1. \A k \in 1..n : \A s \in J[k - 1] : step[<<k, s>>] = op(s, list[k]) /\ step[<<k, s>>] \in J[k]
    <3> TAKE k \in 1..n
    <3> TAKE s \in J[k - 1]
    <3>1. k - 1 \in 0..n
      BY <1>1
    <3>2. <<k, s>> \in (1..n) \X U
      BY <3>1
    <3>3. step[<<k, s>>] = op(s, list[k])
      BY <3>2
    <3> HIDE DEF step
    <3> QED
      BY <1>4, <3>3
  <2> HIDE DEF step, U
  <2>2. PICK e : LoopOf(e, n, s0, step) /\ \A k \in 0..n : e[k] \in J[k]
    <3>1. \A k \in 1..n : \A s \in J[k - 1] : step[<<k, s>>] \in J[k]
      BY <2>1
    <3> QED
      BY <1>1, <1>3, <3>1, Looped
  <2>3. \A k \in 0..n : (IF k = 0 THEN s0 ELSE step[<<k, e[k - 1]>>])
                        = (IF k = 0 THEN s0 ELSE op(e[k - 1], list[k]))
    <3> TAKE k \in 0..n
    <3>1. CASE k # 0
      <4>1. k \in 1..n /\ k - 1 \in 0..n
        BY <1>1, <3>1
      <4> QED
        BY <2>1, <2>2, <4>1
    <3> QED
      BY <3>1
  <2>4. Loop(e)
    <3>1. [k \in 0..n |-> IF k = 0 THEN s0 ELSE step[<<k, e[k - 1]>>]]
          = [k \in 0..n |-> IF k = 0 THEN s0 ELSE op(e[k - 1], list[k])]
      BY <2>3, Zenon
    <3> QED
      BY <2>2, <3>1 DEF LoopOf
  <2> QED
    BY <2>4
<1>7. Loop(f)
  BY <1>6
<1> HIDE DEF f
<1>8. f[0] = s0 /\ \A k \in 1..n : f[k] = op(f[k - 1], list[k])
  <2>1. \A k \in 0..n : f[k] = IF k = 0 THEN s0 ELSE op(f[k - 1], list[k])
    BY <1>7
  <2> QED
    BY <1>1, <2>1
<1>9. f[n] \in J[n]
  <2>1. GoesOn(f, J, n)
    BY <1>4, <1>8 DEF GoesOn
  <2> QED
    BY <1>1, <1>3, <1>8, <2>1, LoopEnds
<1>10. FloodOf(f[n].done, C, v)
  <2>1. f[n] \in Floods /\ Flood(C, R, v, 4 * XSize * YSize + 1, f[n])
    BY <1>5, <1>9 DEF n
  <2> QED
    BY <2>1, FloodEnds
<1> QED
  BY <1>2, <1>10

\* The points of C have become one list with the head v.
OneList(g, m, C, v) ==
    /\ m \in Boards
    /\ m.colors = g.colors /\ m.hash = g.hash /\ m.ko_loc = g.ko_loc /\ m.captures = g.captures
    /\ m.libs = g.libs
    /\ \A x \in Points : m.chain_head[x] = IF x \in C THEN v ELSE g.chain_head[x]
    /\ Cyclic(m.next_in_chain, C)
    /\ \A x \in Points \ C : m.next_in_chain[x] = g.next_in_chain[x]
    /\ \A x \in Points : m.locs[x] = IF x = v THEN Cardinality(C) ELSE g.locs[x]

LEMMA Chaining ==
    ASSUME NEW g \in Boards, NEW v \in Points, NEW C \in SUBSET Points, NEW list, FloodOf(list, C, v)
    PROVE  OneList(g, Chained(g, list), C, v)
<1> DEFINE n == Len(list)
           prior(w) == CHOOSE u \in Points : \E k \in DOMAIN list :
                          list[k] = w /\ u = list[IF k = 1 THEN Len(list) ELSE k - 1]
           next == [w \in Points |-> IF w \in ToSet(list) THEN prior(w) ELSE g.next_in_chain[w]]
           head == [w \in Points |-> IF \E j \in 1..n : list[j] = w THEN v ELSE g.chain_head[w]]
           m == Chained(g, list)
<1>1. /\ list \in Seq(Points) /\ Distinct(list) /\ ToSet(list) = C /\ n \in Nat \ {0}
      /\ list[1] = v /\ Cardinality(C) = n /\ DOMAIN list = 1..n
      /\ \A w : w \in C <=> \E i \in 1..n : list[i] = w
  BY DEF FloodOf
<1>2. /\ g.chain_head \in [Points -> Points \cup {NoLoc}] /\ g.next_in_chain \in [Points -> Points \cup {NoLoc}]
      /\ g.locs \in [Points -> Int]
  BY BoardParts
<1>3. \A k \in 1..n : next[list[k]] = list[IF k = 1 THEN n ELSE k - 1] /\ next[list[k]] \in Points
  <2> TAKE k \in 1..n
  <2> DEFINE j == IF k = 1 THEN n ELSE k - 1
             w == list[k]
  <2>1. j \in 1..n /\ w \in Points /\ w \in ToSet(list) /\ list[j] \in Points
    BY <1>1
  <2>2. next[w] = prior(w)
    BY <2>1
  <2>3. \A u \in Points : (\E i \in DOMAIN list : list[i] = w /\ u = list[IF i = 1 THEN Len(list) ELSE i - 1]) <=> u = list[j]
    <3> TAKE u \in Points
    <3>1. \A i \in 1..n : list[i] = w => i = k
      BY <1>1 DEF Distinct
    <3> QED
      BY <1>1, <2>1, <3>1
  <2> HIDE DEF w, j
  <2>4. prior(w) = (CHOOSE u \in Points : u = list[j])
    BY <2>3
  <2>5. prior(w) = list[j]
    BY <2>1, <2>4
  <2> HIDE DEF prior, next
  <2> QED
    BY <2>1, <2>2, <2>5 DEF w, j
<1>4. next \in [Points -> Points \cup {NoLoc}]
  <2>1. \A w \in Points : next[w] \in Points \cup {NoLoc}
    <3> TAKE w \in Points
    <3>1. CASE w \in C
      <4>1. PICK i \in 1..n : list[i] = w
        BY <1>1, <3>1
      <4> HIDE DEF next
      <4> QED
        BY <1>3, <4>1
    <3>2. CASE w \notin C
      <4>1. next[w] = g.next_in_chain[w]
        BY <1>1, <3>2
      <4> QED
        BY <1>2, <4>1
    <3> QED
      BY <3>1, <3>2
  <2> QED
    BY <2>1
<1>5. m = [g EXCEPT !.chain_head = head, !.next_in_chain = next, !.locs[v] = n]
  <2>1. Chained(g, list) = [Joining(g, list, Len(list), list[1]) EXCEPT !.next_in_chain = next, !.locs[list[1]] = Len(list)]
    BY <1>1 DEF Chained, Joining, Boards
  <2>2. Joining(g, list, Len(list), list[1]) = [g EXCEPT !.chain_head = head]
    BY <1>1 DEF Joining, Boards
  <2> HIDE DEF next, head
  <2> QED
    BY <1>1, <2>1, <2>2 DEF Boards
<1>6. \A x \in Points : next[x] = IF x \in C THEN next[x] ELSE g.next_in_chain[x]
  BY <1>1
<1>7. head \in [Points -> Points \cup {NoLoc}] /\ \A x \in Points : head[x] = IF x \in C THEN v ELSE g.chain_head[x]
  BY <1>1, <1>2
<1> HIDE DEF next, head
<1>8. Cyclic(next, C)
  <2>1. \A k \in 1..n : next[list[k]] = list[IF k = 1 THEN n ELSE k - 1]
    BY <1>3
  <2> HIDE DEF n
  <2>2. \A k \in 1..Len(list) : next[list[k]] = list[IF k = 1 THEN Len(list) ELSE k - 1]
    BY <2>1 DEF n
  <2>3. Len(list) # 0
    BY <1>1 DEF n
  <2>4. Cyclic(next, ToSet(list))
    BY <1>1, <2>2, <2>3, SequenceCycle
  <2> QED
    BY <1>1, <2>4
<1> HIDE DEF m, n
<1>9. /\ m \in Boards /\ m.colors = g.colors /\ m.hash = g.hash /\ m.ko_loc = g.ko_loc /\ m.captures = g.captures
      /\ m.libs = g.libs /\ m.chain_head = head /\ m.next_in_chain = next
      /\ m.locs = [g.locs EXCEPT ![v] = n]
  <2>1. [g.locs EXCEPT ![v] = n] \in [Points -> Int]
    BY <1>1, <1>2
  <2> QED
    BY <1>4, <1>5, <1>7, <2>1 DEF Boards
<1>10. \A x \in Points : m.locs[x] = IF x = v THEN Cardinality(C) ELSE g.locs[x]
  BY <1>1, <1>2, <1>9
<1> QED
  BY <1>6, <1>7, <1>8, <1>9, <1>10 DEF OneList, m

\* The chain of a stone without a head is built; the others are as they were.
Rebuilt(g, m, v) ==
    /\ m \in Boards /\ Linked(m) /\ Counted(m, {}) /\ Grouped(m)
    /\ m.colors = g.colors /\ m.hash = g.hash /\ m.ko_loc = g.ko_loc /\ m.captures = g.captures
    /\ \A x \in Points : m.chain_head[x] = IF x \in Group(g.colors, v) THEN v ELSE g.chain_head[x]

LEMMA Rebuilding ==
    ASSUME NEW g \in Boards, Linked(g), Counted(g, {}), Grouped(g),
           NEW v \in Points, g.colors[v] # Empty, g.chain_head[v] = NoLoc
    PROVE  Rebuilt(g, RebuildChain(g, v), v)
<1> DEFINE p == g.colors
           C == Group(p, v)
           R == {w \in Points : p[w] = p[v] /\ g.chain_head[w] # v}
           list == Flooded(R, v)
           k == Chained(g, list)
           count == NewLibertiesOf(g, list, v)
           m == RebuildChain(g, v)
<1>1. p \in Stones /\ v # NoLoc /\ p[v] \in Colors
  <2>1. p \in Stones
    BY BoardParts
  <2> QED
    BY <2>1, NoLocIsNoPoint DEF Stones
<1>2. v \in C /\ C \in SUBSET Points /\ \A x \in C : p[x] = p[v] /\ Group(p, x) = C
  BY Groups
<1>3. Members(g, v) = {}
  <2> SUFFICES ASSUME Members(g, v) # {} PROVE FALSE
    OBVIOUS
  <2>1. v \in Members(g, v)
    BY DEF Linked, ListOf
  <2> QED
    BY <1>1, <2>1 DEF Members
<1>4. \A h \in Points : \A x \in Members(g, h) : x \notin C
  <2> SUFFICES ASSUME NEW h \in Points, NEW x \in Members(g, h), x \in C PROVE FALSE
    OBVIOUS
  <2>1. v \in Members(g, h)
    BY <1>2 DEF Grouped
  <2> QED
    BY <2>1, NoLocIsNoPoint DEF Members
<1>5. R = {w \in Points : p[w] = p[v]}
  BY <1>3 DEF Members
<1>6. FloodOf(list, C, v)
  <2>1. RegionOf(C, R, v)
    BY <1>5, GroupRegion
  <2> HIDE DEF C, R
  <2> QED
    BY <2>1, FloodedIs
<1> HIDE DEF C
<1>7. list \in Seq(Points) /\ ToSet(list) = C /\ \A i \in 1..Len(list) : list[i] \in C
  BY <1>6 DEF FloodOf
<1>8. count = Cardinality(Around(p, C))
  <2>1. count = Cardinality(Around(p, ToSet(list)) \ Around(p, Members(g, v)))
    <3> HIDE DEF list
    <3>1. \A i \in 1..Len(list) : p[list[i]] = p[v]
      BY <1>2, <1>7
    <3>2. \A x \in Members(g, v) : p[x] = p[v]
      BY <1>3
    <3> QED
      BY <1>7, <3>1, <3>2, LibertiesJoin
  <2>2. Around(p, {}) = {}
    BY DEF Around
  <2> HIDE DEF list, count
  <2>3. Around(p, C) \ {} = Around(p, C)
    OBVIOUS
  <2> QED
    BY <1>3, <1>7, <2>1, <2>2, <2>3
<1>9. OneList(g, k, C, v)
  <2> HIDE DEF list
  <2> QED
    BY <1>2, <1>6, Chaining
<1>10. m = [k EXCEPT !.libs[v] = count]
  BY DEF RebuildChain
<1>11. count \in Nat
  <2>1. Around(p, C) \in SUBSET Points
    BY AroundSets
  <2> HIDE DEF count
  <2> QED
    BY <1>8, <2>1, SetSizes
<1> HIDE DEF k, count, m, list, R, p
<1>12. /\ m \in Boards /\ m.colors = p /\ m.hash = g.hash /\ m.ko_loc = g.ko_loc /\ m.captures = g.captures
       /\ m.libs = [g.libs EXCEPT ![v] = count]
       /\ m.chain_head = k.chain_head /\ m.next_in_chain = k.next_in_chain /\ m.locs = k.locs
  <2>1. /\ k \in Boards /\ k.colors = p /\ k.hash = g.hash /\ k.ko_loc = g.ko_loc /\ k.captures = g.captures
        /\ k.libs = g.libs
    BY <1>9 DEF OneList, p
  <2>2. [k.libs EXCEPT ![v] = count] \in [Points -> Int]
    BY <1>11, <2>1, BoardParts
  <2> QED
    BY <1>10, <2>1, <2>2 DEF Boards
<1>13. /\ \A x \in Points : m.chain_head[x] = IF x \in C THEN v ELSE g.chain_head[x]
       /\ Cyclic(m.next_in_chain, C)
       /\ \A x \in Points \ C : m.next_in_chain[x] = g.next_in_chain[x]
       /\ \A x \in Points : m.locs[x] = IF x = v THEN Cardinality(C) ELSE g.locs[x]
  BY <1>9, <1>12 DEF OneList
<1>14. \A x \in Points : m.libs[x] = IF x = v THEN count ELSE g.libs[x]
  BY <1>12, BoardParts
<1>15. Members(m, v) = C
  <2>1. \A x \in Points : x \in Members(m, v) <=> p[x] # Empty /\ m.chain_head[x] = v
    BY <1>12 DEF Members
  <2>2. \A x \in Points : p[x] # Empty => g.chain_head[x] # v
    BY <1>3 DEF Members, p
  <2>3. \A x \in C : x \in Points /\ p[x] # Empty
    BY <1>1, <1>2, Kinds
  <2>4. Members(m, v) \in SUBSET Points
    BY MembersSets
  <2>5. \A x \in Points : x \in Members(m, v) <=> x \in C
    BY <1>13, <2>1, <2>2, <2>3
  <2>6. C \in SUBSET Points
    BY <1>2
  <2> QED
    BY <2>4, <2>5, <2>6
<1>16. \A h \in Points \ {v} : Members(m, h) = Members(g, h)
  <2> TAKE h \in Points \ {v}
  <2>1. \A x \in Points : x \in Members(m, h) <=> p[x] # Empty /\ m.chain_head[x] = h
    BY <1>12 DEF Members
  <2>2. \A x \in Points : x \in Members(g, h) <=> p[x] # Empty /\ g.chain_head[x] = h
    BY DEF Members, p
  <2>3. Members(m, h) \in SUBSET Points /\ Members(g, h) \in SUBSET Points
    BY MembersSets
  <2> QED
    BY <1>4, <1>13, <2>1, <2>2, <2>3
<1>17. Linked(m)
  <2> SUFFICES ASSUME NEW h \in Points, Members(m, h) # {} PROVE ListOf(m, h)
    BY DEF Linked
  <2>1. CASE h = v
    BY <1>2, <1>12, <1>13, <1>15, <2>1 DEF ListOf
  <2>2. CASE h # v
    <3>1. Members(m, h) = Members(g, h) /\ ListOf(g, h)
      BY <1>16, <2>2 DEF Linked
    <3>2. m.locs[h] = g.locs[h]
      BY <1>13, <2>2
    <3>3. \A x \in Members(g, h) : m.colors[x] = g.colors[x] /\ m.next_in_chain[x] = g.next_in_chain[x]
      BY <1>4, <1>12, <1>13, MembersSets DEF p
    <3> QED
      BY <3>1, <3>2, <3>3, ListSame
  <2> QED
    BY <2>1, <2>2
<1>18. Counted(m, {})
  <2> SUFFICES ASSUME NEW h \in Points, Members(m, h) # {}
               PROVE  m.libs[h] = Cardinality(Around(p, Members(m, h))) + 0
    BY <1>12 DEF Counted
  <2>1. CASE h = v
    <3>1. m.libs[h] = count
      BY <1>14, <2>1
    <3> QED
      BY <1>8, <1>11, <1>15, <2>1, <3>1
  <2>2. CASE h # v
    <3>1. Members(m, h) = Members(g, h)
      BY <1>16, <2>2
    <3>2. g.libs[h] = Cardinality(Around(p, Members(g, h))) + 0
      BY <3>1 DEF Counted, p
    <3> QED
      BY <1>14, <2>2, <3>1, <3>2
  <2> QED
    BY <2>1, <2>2
<1>19. Grouped(m)
  <2> SUFFICES ASSUME NEW h \in Points, NEW x \in Members(m, h) PROVE Members(m, h) = Group(p, x)
    BY <1>12 DEF Grouped
  <2>1. CASE h = v
    BY <1>2, <1>15, <2>1
  <2>2. CASE h # v
    BY <1>16, <2>2 DEF Grouped, p
  <2> QED
    BY <2>1, <2>2
<1> QED
  BY <1>12, <1>13, <1>17, <1>18, <1>19 DEF Rebuilt, m, C, p
----------------------------------------------------------------------------
(* Chains that are built from the stones alone *)

\* While chains are built on the board g: those that are, and the stones D that are on one.
Building(g, D, m) ==
    /\ m \in Boards /\ Linked(m) /\ Counted(m, {}) /\ Grouped(m)
    /\ m.colors = g.colors /\ m.hash = g.hash /\ m.ko_loc = g.ko_loc /\ m.captures = g.captures
    /\ \A x \in Points : x \in D /\ g.colors[x] # Empty => m.chain_head[x] # NoLoc

LEMMA BuiltNext ==
    ASSUME NEW g, NEW D, NEW m, Building(g, D, m), NEW w \in Points,
           g.colors[w] # Empty, m.chain_head[w] = NoLoc
    PROVE  Building(g, D \cup {w}, RebuildChain(m, w))
<1> DEFINE k == RebuildChain(m, w)
<1>1. /\ m \in Boards /\ Linked(m) /\ Counted(m, {}) /\ Grouped(m)
      /\ m.colors = g.colors /\ m.hash = g.hash /\ m.ko_loc = g.ko_loc /\ m.captures = g.captures
      /\ \A x \in Points : x \in D /\ g.colors[x] # Empty => m.chain_head[x] # NoLoc
  BY DEF Building
<1>2. Rebuilt(m, k, w)
  BY <1>1, Rebuilding
<1> HIDE DEF k
<1>3. w \in Group(m.colors, w) /\ w # NoLoc
  BY Groups, NoLocIsNoPoint
<1>4. /\ k \in Boards /\ Linked(k) /\ Counted(k, {}) /\ Grouped(k)
      /\ k.colors = m.colors /\ k.hash = m.hash /\ k.ko_loc = m.ko_loc /\ k.captures = m.captures
      /\ \A x \in Points : k.chain_head[x] = IF x \in Group(m.colors, w) THEN w ELSE m.chain_head[x]
  BY <1>2 DEF Rebuilt
<1>5. \A x \in Points : x \in D \cup {w} /\ g.colors[x] # Empty => k.chain_head[x] # NoLoc
  BY <1>1, <1>3, <1>4
<1> QED
  BY <1>1, <1>4, <1>5 DEF Building, k

LEMMA BuiltAlready ==
    ASSUME NEW g, NEW D, NEW m, Building(g, D, m), NEW w, g.colors[w] = Empty \/ m.chain_head[w] # NoLoc
    PROVE  Building(g, D \cup {w}, m)
BY DEF Building

\* From the stones alone, all chains are built.
LEMMA Regenerated ==
    ASSUME NEW g \in Boards, Settled(g.colors)
    PROVE  LET m == RegenChainsFromColors(g) IN
           Solid(m) /\ m.colors = g.colors /\ m.ko_loc = g.ko_loc /\ m.captures = g.captures
<1> DEFINE p == g.colors
           n == XSize * YSize
           list == [k \in 1..n |-> k - 1]
           s0 == [g EXCEPT
                    !.hash = {<<v, g.colors[v]>> : v \in {v \in Points : g.colors[v] # Empty}},
                    !.chain_head = [v \in Points |-> IF g.colors[v] = Empty THEN @[v] ELSE NoLoc]]
           op(s, v) == IF s.colors[v] # Empty /\ s.chain_head[v] = NoLoc THEN RebuildChain(s, v) ELSE s
           Loop(f) == f = [k \in 0..n |-> IF k = 0 THEN s0 ELSE op(f[k - 1], list[k])]
           D(k) == {x \in Points : x < k}
           J == [k \in 0..n |-> {s \in Boards : Building(s0, D(k), s)}]
           f == CHOOSE f : Loop(f)
<1>1. n \in Nat /\ Len(list) = n /\ Points = 0..n - 1
  <2>1. n \in Nat
    BY BoardAssumption
  <2>2. Points = 0..n - 1
    BY DEF Points
  <2> HIDE DEF n
  <2> QED
    BY <2>1, <2>2
<1>2. RegenChainsFromColors(g) = f[n]
  <2>1. RegenChainsFromColors(g)
        = (CHOOSE e : e = [k \in 0..Len(list) |-> IF k = 0 THEN s0 ELSE op(e[k - 1], list[k])])[Len(list)]
    BY DEF RegenChainsFromColors, InTurn
  <2> HIDE DEF list, n, op, s0
  <2> QED
    BY <1>1, <2>1
<1> HIDE DEF n
<1>3. /\ s0 \in Boards /\ s0.colors = p /\ s0.hash = Keys(p) /\ s0.ko_loc = g.ko_loc /\ s0.captures = g.captures
      /\ \A x \in Points : p[x] # Empty => s0.chain_head[x] = NoLoc
  <2>1. p \in Stones
    BY BoardParts
  <2>2. Keys(p) \in SUBSET (Points \X Colors)
    BY <2>1 DEF Keys, Stones
  <2>3. s0.hash = Keys(p) /\ s0.colors = p /\ s0.ko_loc = g.ko_loc /\ s0.captures = g.captures
    BY DEF Keys, Boards
  <2>4. s0.chain_head \in [Points -> Points \cup {NoLoc}]
    BY DEF Boards
  <2>5. s0 = [g EXCEPT !.hash = s0.hash, !.chain_head = s0.chain_head]
    BY DEF Boards
  <2>6. \A x \in Points : p[x] # Empty => s0.chain_head[x] = NoLoc
    BY DEF Boards
  <2> HIDE DEF s0
  <2>7. s0 \in Boards
    BY <2>2, <2>3, <2>4, <2>5 DEF Boards
  <2> QED
    BY <2>3, <2>6, <2>7
<1>4. s0 \in J[0]
  <2> HIDE DEF s0
  <2>1. \A h \in Points : Members(s0, h) = {}
    BY <1>3, NoLocIsNoPoint DEF Members
  <2>2. Linked(s0) /\ Counted(s0, {}) /\ Grouped(s0)
    BY <2>1 DEF Linked, Counted, Grouped
  <2>3. D(0) = {}
    BY <1>1
  <2>4. Building(s0, D(0), s0)
    BY <1>3, <2>2, <2>3 DEF Building
  <2> HIDE DEF D
  <2> QED
    BY <1>1, <1>3, <2>4
<1>11. \A k \in 1..n : k - 1 \in 0..n /\ k \in 0..n /\ list[k] = k - 1 /\ k - 1 \in Points
  <2> HIDE DEF s0, J
  <2>1. \A k \in 1..n : k - 1 \in 0..n /\ k \in 0..n /\ k - 1 \in 0..n - 1
    BY <1>1
  <2> QED
    BY <1>1, <2>1
<1>12. \A k \in 1..n : D(k - 1) \cup {k - 1} = D(k)
  <2> SUFFICES ASSUME NEW k \in 1..n PROVE D(k - 1) \cup {k - 1} = D(k)
    OBVIOUS
  <2>1. \A x \in 0..n - 1 : x < k <=> x < k - 1 \/ x = k - 1
    BY <1>1
  <2>2. \A x \in Points : x < k <=> x < k - 1 \/ x = k - 1
    BY <1>1, <2>1
  <2> QED
    BY <1>11, <2>2
<1>13. Points \subseteq D(n)
  <2>1. \A x \in 0..n - 1 : x < n
    BY <1>1
  <2> QED
    BY <1>1, <2>1
<1>5. ASSUME NEW k \in 1..n, NEW s \in J[k - 1] PROVE op(s, list[k]) \in J[k]
  <2> DEFINE w == k - 1
  <2>1. k - 1 \in 0..n /\ k \in 0..n /\ list[k] = w /\ w \in Points /\ D(k - 1) \cup {w} = D(k)
    <3> HIDE DEF D, list, J, s0
    <3> QED
      BY <1>11, <1>12
  <2>2. s \in Boards /\ Building(s0, D(k - 1), s)
    BY <1>5, <2>1
  <2>3. s.colors = s0.colors
    BY <2>2 DEF Building
  <2> HIDE DEF D, s0, w, n, list
  <2>4. CASE s.colors[w] # Empty /\ s.chain_head[w] = NoLoc
    <3>1. op(s, w) = RebuildChain(s, w)
      BY <2>4
    <3>2. Building(s0, D(k), RebuildChain(s, w))
      BY <2>1, <2>2, <2>3, <2>4, BuiltNext
    <3>3. RebuildChain(s, w) \in Boards
      BY <3>2 DEF Building
    <3> HIDE DEF op
    <3> QED
      BY <2>1, <3>1, <3>2, <3>3
  <2>5. CASE ~(s.colors[w] # Empty /\ s.chain_head[w] = NoLoc)
    <3>1. op(s, w) = s
      BY <2>5
    <3>2. Building(s0, D(k), s)
      <4>1. s0.colors[w] = Empty \/ s.chain_head[w] # NoLoc
        BY <2>3, <2>5
      <4>2. Building(s0, D(k - 1) \cup {w}, s)
        BY <2>2, <4>1, BuiltAlready
      <4> QED
        BY <2>1, <4>2
    <3> HIDE DEF op
    <3> QED
      BY <2>1, <2>2, <3>1, <3>2
  <2> QED
    BY <2>4, <2>5
<1>6. J[n] = {s \in Boards : Building(s0, D(n), s)} /\ Points \subseteq D(n)
  <2> HIDE DEF D, s0
  <2>1. n \in 0..n
    BY <1>1
  <2> QED
    BY <1>13, <2>1
<1> HIDE DEF J, s0, list, op, D
<1>7. \E e : Loop(e)
  <2> DEFINE U == UNION {J[k] : k \in 0..n}
             step == [x \in (1..n) \X U |-> op(x[2], list[x[1]])]
  <2>1. \A k \in 1..n : \A s \in J[k - 1] : step[<<k, s>>] = op(s, list[k]) /\ step[<<k, s>>] \in J[k]
    <3> TAKE k \in 1..n
    <3> TAKE s \in J[k - 1]
    <3>1. k - 1 \in 0..n
      BY <1>1
    <3>2. <<k, s>> \in (1..n) \X U
      BY <3>1
    <3>3. step[<<k, s>>] = op(s, list[k])
      BY <3>2
    <3> HIDE DEF step
    <3> QED
      BY <1>5, <3>3
  <2> HIDE DEF step, U
  <2>2. PICK e : LoopOf(e, n, s0, step) /\ \A k \in 0..n : e[k] \in J[k]
    <3>1. \A k \in 1..n : \A s \in J[k - 1] : step[<<k, s>>] \in J[k]
      BY <2>1
    <3> QED
      BY <1>1, <1>4, <3>1, Looped
  <2>3. \A k \in 0..n : (IF k = 0 THEN s0 ELSE step[<<k, e[k - 1]>>])
                        = (IF k = 0 THEN s0 ELSE op(e[k - 1], list[k]))
    <3> TAKE k \in 0..n
    <3>1. CASE k # 0
      <4>1. k \in 1..n /\ k - 1 \in 0..n
        BY <1>1, <3>1
      <4> QED
        BY <2>1, <2>2, <4>1
    <3> QED
      BY <3>1
  <2>4. Loop(e)
    <3>1. [k \in 0..n |-> IF k = 0 THEN s0 ELSE step[<<k, e[k - 1]>>]]
          = [k \in 0..n |-> IF k = 0 THEN s0 ELSE op(e[k - 1], list[k])]
      BY <2>3, Zenon
    <3> QED
      BY <2>2, <3>1 DEF LoopOf
  <2> QED
    BY <2>4
<1>8. Loop(f)
  BY <1>7
<1> HIDE DEF f
<1>9. f[0] = s0 /\ \A k \in 1..n : f[k] = op(f[k - 1], list[k])
  <2>1. \A k \in 0..n : f[k] = IF k = 0 THEN s0 ELSE op(f[k - 1], list[k])
    BY <1>8
  <2> QED
    BY <1>1, <2>1
<1>10. f[n] \in J[n]
  <2>1. GoesOn(f, J, n)
    BY <1>5, <1>9 DEF GoesOn
  <2> QED
    BY <1>1, <1>4, <1>9, <2>1, LoopEnds
<1>20. Building(s0, D(n), f[n])
  BY <1>6, <1>10
<1> DEFINE m == f[n]
<1> HIDE DEF m
<1>21. /\ m \in Boards /\ Linked(m) /\ Counted(m, {}) /\ Grouped(m)
       /\ m.colors = p /\ m.hash = Keys(p) /\ m.ko_loc = g.ko_loc /\ m.captures = g.captures
       /\ \A x \in Points : p[x] # Empty => m.chain_head[x] # NoLoc
  <2>1. Building(s0, D(n), m)
    BY <1>20 DEF m
  <2> HIDE DEF p
  <2> QED
    BY <1>3, <1>6, <2>1 DEF Building
<1>22. Solid(m)
  BY <1>21 DEF Solid, Hashed, Listed
<1> QED
  BY <1>2, <1>21, <1>22 DEF m
----------------------------------------------------------------------------
(* Chains that are put back *)

\* The lists are the groups, whether or not all have liberties.
Chains(g) == g \in Boards /\ Linked(g) /\ Counted(g, {}) /\ Grouped(g) /\ Hashed(g) /\ Listed(g)

\* The chain g that is added where S was empty, with the head v.
Added(g, a, S, v, c) ==
    /\ a \in Boards
    /\ a.colors = Put(g.colors, S, c) /\ a.ko_loc = g.ko_loc /\ a.captures = g.captures
    /\ a.hash = SymDiff(g.hash, {<<w, c>> : w \in S})
    /\ \A x \in Points : a.chain_head[x] = IF x \in S THEN v ELSE g.chain_head[x]
    /\ Cyclic(a.next_in_chain, S)
    /\ \A x \in Points \ S : a.next_in_chain[x] = g.next_in_chain[x]
    /\ \A x \in Points : a.locs[x] = IF x = v THEN Cardinality(S) ELSE g.locs[x]
    /\ \A h \in Points : a.libs[h] = (IF h = v THEN 0 ELSE g.libs[h])
                                     - Cardinality(Touching(a.colors, a.chain_head, S, Opp(c), h))

LEMMA Adding ==
    ASSUME NEW g \in Boards, NEW v \in Points, g.colors[v] = Empty, NEW c \in Colors
    PROVE  Added(g, AddChain(g, v, c), Group(g.colors, v), v, c)
<1> DEFINE p == g.colors
           S == Group(p, v)
           R == {w \in Points : p[w] = Empty}
           list == Flooded(R, v)
           k == Chained(g, list)
           q == Put(p, S, c)
           flip == Flip(k, S, c)
           f == [flip EXCEPT !.colors = Put(@, S, c), !.libs[v] = 0]
           a == AddChain(g, v, c)
           T(h) == Touching(q, k.chain_head, S, Opp(c), h)
           libs == [h \in Points |-> (IF h = v THEN 0 ELSE g.libs[h]) - Cardinality(T(h))]
<1>1. S \in SUBSET Points /\ v \in S /\ p \in Stones
  BY Groups, BoardParts
<1>2. FloodOf(list, S, v)
  <2>1. R = {w \in Points : p[w] = p[v]}
    OBVIOUS
  <2>2. RegionOf(S, R, v)
    BY <2>1, GroupRegion
  <2> HIDE DEF S, R
  <2> QED
    BY <2>2, FloodedIs
<1>3. ToSet(list) = S
  BY <1>2 DEF FloodOf
<1> HIDE DEF S, list
<1>4. OneList(g, k, S, v)
  BY <1>1, <1>2, Chaining
<1>5. a = ChangeSurroundingLiberties(Filled(g, list, v, c), ToSet(list), Opp(c), -1)
  BY DEF AddChain, list
<1>6. a = ChangeSurroundingLiberties(f, S, Opp(c), -1)
  <2>1. Filled(g, list, v, c) = f
    BY <1>3 DEF Filled
  <2> HIDE DEF a, f
  <2> QED
    BY <1>3, <1>5, <2>1
<1> HIDE DEF k, a
<1>7. /\ k \in Boards
      /\ k.colors = p /\ k.hash = g.hash /\ k.ko_loc = g.ko_loc /\ k.captures = g.captures
      /\ k.libs = g.libs
      /\ \A x \in Points : k.chain_head[x] = IF x \in S THEN v ELSE g.chain_head[x]
      /\ Cyclic(k.next_in_chain, S)
      /\ \A x \in Points \ S : k.next_in_chain[x] = g.next_in_chain[x]
      /\ \A x \in Points : k.locs[x] = IF x = v THEN Cardinality(S) ELSE g.locs[x]
  BY <1>4 DEF OneList
<1>8. /\ q \in Stones /\ SymDiff(g.hash, {<<w, c>> : w \in S}) \in SUBSET (Points \X Colors)
  <2>1. q \in Stones
    BY <1>1, PutStones
  <2>2. g.hash \in SUBSET (Points \X Colors) /\ {<<w, c>> : w \in S} \in SUBSET (Points \X Colors)
    BY <1>1, BoardParts
  <2> HIDE DEF q
  <2> QED
    BY <2>1, <2>2 DEF SymDiff
<1>9. flip = [k EXCEPT !.hash = SymDiff(g.hash, {<<w, c>> : w \in S})]
  BY <1>7 DEF Flip, Boards
<1>10. f = [k EXCEPT !.hash = SymDiff(g.hash, {<<w, c>> : w \in S}), !.colors = q, !.libs = [g.libs EXCEPT ![v] = 0]]
  <2> HIDE DEF flip, q
  <2> QED
    BY <1>7, <1>9 DEF Boards, q
<1> HIDE DEF f, flip, q
<1>11. \A h \in Points : T(h) \in SUBSET Points /\ Cardinality(T(h)) \in Nat
  <2> SUFFICES ASSUME NEW h \in Points PROVE T(h) \in SUBSET Points /\ Cardinality(T(h)) \in Nat
    OBVIOUS
  <2>1. T(h) \in SUBSET Points
    BY <1>1 DEF Touching
  <2> HIDE DEF T
  <2> QED
    BY <2>1, SetSizes
<1>12. g.libs \in [Points -> Int]
  BY BoardParts
<1>13. libs \in [Points -> Int]
  <2> HIDE DEF T
  <2>1. \A h \in Points : (IF h = v THEN 0 ELSE g.libs[h]) - Cardinality(T(h)) \in Int
    BY <1>11, <1>12
  <2> QED
    BY <2>1
<1>14. a = [f EXCEPT !.libs = libs]
  <2>1. a = [f EXCEPT !.libs = [h \in Points |-> @[h] + (-1) * Cardinality(Touching(f.colors, f.chain_head, S, Opp(c), h))]]
    BY <1>6 DEF ChangeSurroundingLiberties, Touching
  <2>2. f.colors = q /\ f.chain_head = k.chain_head /\ f.libs = [g.libs EXCEPT ![v] = 0]
    BY <1>7, <1>10 DEF Boards
  <2>3. a = [f EXCEPT !.libs = [h \in Points |-> f.libs[h] + (-1) * Cardinality(T(h))]]
    BY <2>1, <2>2
  <2> HIDE DEF T
  <2>4. \A h \in Points : f.libs[h] + (-1) * Cardinality(T(h))
                          = (IF h = v THEN 0 ELSE g.libs[h]) - Cardinality(T(h))
    BY <1>11, <1>12, <2>2
  <2> QED
    BY <2>3, <2>4
<1> HIDE DEF libs, T
<1>15. /\ a \in Boards /\ a.colors = q /\ a.hash = SymDiff(g.hash, {<<w, c>> : w \in S})
       /\ a.ko_loc = g.ko_loc /\ a.captures = g.captures /\ a.libs = libs
       /\ a.chain_head = k.chain_head /\ a.next_in_chain = k.next_in_chain /\ a.locs = k.locs
  BY <1>7, <1>8, <1>10, <1>13, <1>14 DEF Boards
<1>16. \A h \in Points : a.libs[h] = (IF h = v THEN 0 ELSE g.libs[h])
                                     - Cardinality(Touching(a.colors, a.chain_head, S, Opp(c), h))
  BY <1>15 DEF libs, T
<1> QED
  BY <1>7, <1>15, <1>16 DEF Added, q, S, a

LEMMA ChainAdded ==
    ASSUME NEW g, Chains(g), NEW v \in Points, g.colors[v] = Empty, NEW c \in Colors,
           NEW S, S = Group(g.colors, v), \A x \in S : \A w \in Adj[x] : g.colors[w] # c
    PROVE  LET a == AddChain(g, v, c) IN
           /\ Chains(a) /\ a.colors = Put(g.colors, S, c)
           /\ a.ko_loc = g.ko_loc /\ a.captures = g.captures
           /\ ChainSize(a, v) = Cardinality(S)
<1> DEFINE p == g.colors
           q == Put(p, S, c)
           a == AddChain(g, v, c)
           o == Opp(c)
<1>1. /\ g \in Boards /\ Linked(g) /\ Counted(g, {}) /\ Grouped(g) /\ Hashed(g) /\ Listed(g)
      /\ p \in Stones /\ c # Empty /\ o # c /\ o # Empty
  BY BoardParts, Kinds DEF Chains, Opp
<1>2. Added(g, a, S, v, c)
  BY <1>1, Adding
<1>3. S \in SUBSET Points /\ v \in S /\ \A x \in S : p[x] = Empty /\ Group(p, x) = S
  BY Groups
<1> HIDE DEF a
<1>4. /\ a \in Boards
      /\ a.colors = q /\ a.ko_loc = g.ko_loc /\ a.captures = g.captures
      /\ a.hash = SymDiff(g.hash, {<<w, c>> : w \in S})
      /\ \A x \in Points : a.chain_head[x] = IF x \in S THEN v ELSE g.chain_head[x]
      /\ Cyclic(a.next_in_chain, S)
      /\ \A x \in Points \ S : a.next_in_chain[x] = g.next_in_chain[x]
      /\ \A x \in Points : a.locs[x] = IF x = v THEN Cardinality(S) ELSE g.locs[x]
      /\ \A h \in Points : a.libs[h] = (IF h = v THEN 0 ELSE g.libs[h])
                                       - Cardinality(Touching(q, a.chain_head, S, o, h))
  BY <1>2 DEF Added
<1>5. \A x \in Points : q[x] = IF x \in S THEN c ELSE p[x]
  BY DEF Put
<1> HIDE DEF q, o
<1>6. Members(g, v) = {}
  <2>1. v \notin Members(g, v)
    BY DEF Members
  <2> QED
    BY <1>1, <2>1 DEF Linked, ListOf
<1>7. \A x \in Points : p[x] # Empty => g.chain_head[x] # v
  BY <1>6 DEF Members
<1>8. Members(a, v) = S
  <2>1. \A x \in Points : x \in Members(a, v) <=> q[x] # Empty /\ a.chain_head[x] = v
    BY <1>4 DEF Members
  <2>2. \A x \in Points : x \in Members(a, v) <=> x \in S
    BY <1>1, <1>4, <1>5, <1>7, <2>1
  <2> QED
    BY <1>3, <2>2, MembersSets
<1>9. \A h \in Points \ {v} : Members(a, h) = Members(g, h)
  <2> SUFFICES ASSUME NEW h \in Points \ {v} PROVE Members(a, h) = Members(g, h)
    OBVIOUS
  <2>1. \A x \in Points : x \in Members(a, h) <=> q[x] # Empty /\ a.chain_head[x] = h
    BY <1>4 DEF Members
  <2>2. \A x \in Points : x \in Members(g, h) <=> p[x] # Empty /\ g.chain_head[x] = h
    BY DEF Members
  <2>3. \A x \in Points : x \in Members(a, h) <=> x \in Members(g, h)
    BY <1>3, <1>4, <1>5, <2>1, <2>2
  <2> QED
    BY <2>3, MembersSets
<1>10. \A h \in Points : \A x \in Members(g, h) : x \in Points /\ x \notin S /\ q[x] = p[x] /\ p[x] # Empty
  BY <1>3, <1>5 DEF Members
<1>11. Linked(a)
  <2> SUFFICES ASSUME NEW h \in Points, Members(a, h) # {} PROVE ListOf(a, h)
    BY DEF Linked
  <2>1. CASE h = v
    <3>1. \A x \in S : a.colors[x] = a.colors[v]
      BY <1>3, <1>4, <1>5
    <3> QED
      BY <1>3, <1>4, <1>8, <2>1, <3>1 DEF ListOf
  <2>2. CASE h # v
    <3>1. Members(a, h) = Members(g, h) /\ ListOf(g, h)
      BY <1>1, <1>9, <2>2 DEF Linked
    <3>2. a.locs[h] = g.locs[h]
      BY <1>4, <2>2
    <3>3. \A x \in Members(g, h) : a.colors[x] = g.colors[x] /\ a.next_in_chain[x] = g.next_in_chain[x]
      BY <1>4, <1>10
    <3> QED
      BY <3>1, <3>2, <3>3, ListSame
  <2> QED
    BY <2>1, <2>2
<1>12. Counted(a, {})
  <2> SUFFICES ASSUME NEW h \in Points, Members(a, h) # {}
               PROVE  a.libs[h] = Cardinality(Around(q, Members(a, h))) + 0
    BY <1>4 DEF Counted
  <2> DEFINE T == Touching(q, a.chain_head, S, o, h)
  <2>1. CASE h = v
    <3>1. T = {}
      <4> SUFFICES ASSUME NEW w \in S, NEW u \in Adj[w], q[u] = o, a.chain_head[u] = v PROVE FALSE
        BY <2>1 DEF Touching
      <4>1. u \in Points
        BY <1>3, Symmetric
      <4> QED
        BY <1>1, <1>4, <1>5, <1>7, <4>1
    <3>2. Around(q, S) = {}
      <4> SUFFICES ASSUME NEW x \in Points, q[x] = Empty, NEW u \in Adj[x], u \in S PROVE FALSE
        BY DEF Around
      <4>1. p[x] = Empty /\ x \notin S
        BY <1>1, <1>5
      <4> QED
        BY <4>1, Groups
    <3> HIDE DEF T
    <3>3. Cardinality(T) = 0 /\ Cardinality(Around(q, S)) = 0
      BY <3>1, <3>2, FS_EmptySet
    <3>4. a.libs[h] = 0 - Cardinality(T)
      BY <1>4, <2>1 DEF T
    <3> QED
      BY <1>8, <2>1, <3>3, <3>4
  <2>2. CASE h # v
    <3> DEFINE M == Members(g, h)
               A == Around(p, M)
    <3>1. Members(a, h) = M /\ M # {} /\ ListOf(g, h)
      BY <1>1, <1>9, <2>2 DEF Linked
    <3>2. g.libs[h] = Cardinality(A) + 0
      BY <1>1, <3>1 DEF Counted
    <3>3. \A u \in Points : u \in M <=> p[u] # Empty /\ g.chain_head[u] = h
      BY DEF Members
    <3>4. \A u \in M : p[u] = p[h]
      BY <3>1 DEF ListOf
    <3>5. p[h] = c \/ p[h] = o
      <4>1. h \in M
        BY <3>1 DEF ListOf
      <4>2. p[h] # Empty
        BY <3>3, <4>1
      <4> QED
        BY <1>1, <4>2 DEF Stones, Colors, Opp, Opponent, o
    <3>6. T = A \cap S
      <4> SUFFICES ASSUME NEW w \in S PROVE w \in T <=> w \in A
        BY DEF Touching
      <4>1. w \in Points /\ p[w] = Empty /\ Adj[w] \subseteq Points
        BY <1>3, Symmetric
      <4>2. w \in A <=> \E u \in Adj[w] : u \in M
        BY <4>1 DEF Around
      <4>3. w \in T <=> \E u \in Adj[w] : q[u] = o /\ a.chain_head[u] = h
        BY DEF Touching
      <4> HIDE DEF M, A, T
      <4>4. \A u \in Adj[w] : u \in M => q[u] = o /\ a.chain_head[u] = h
        <5> SUFFICES ASSUME NEW u \in Adj[w], u \in M PROVE q[u] = o /\ a.chain_head[u] = h
          OBVIOUS
        <5>1. u \in Points /\ u \notin S /\ p[u] # c
          BY <1>10, <4>1 DEF M
        <5> QED
          BY <1>4, <1>5, <3>3, <3>4, <3>5, <5>1
      <4>5. \A u \in Adj[w] : q[u] = o /\ a.chain_head[u] = h => u \in M
        <5> SUFFICES ASSUME NEW u \in Adj[w], q[u] = o, a.chain_head[u] = h PROVE u \in M
          OBVIOUS
        <5>1. u \in Points
          BY <4>1
        <5>2. u \notin S
          BY <1>1, <1>5, <5>1
        <5> QED
          BY <1>1, <1>4, <1>5, <3>3, <5>1, <5>2
      <4> QED
        BY <4>2, <4>3, <4>4, <4>5
    <3>7. Around(q, M) = A \ S
      <4> SUFFICES ASSUME NEW x \in Points PROVE x \in Around(q, M) <=> x \in A \ S
        BY AroundSets DEF Around
      <4>1. q[x] = Empty <=> p[x] = Empty /\ x \notin S
        BY <1>1, <1>3, <1>5
      <4> QED
        BY <4>1 DEF Around
    <3>8. A \in SUBSET Points
      BY AroundSets
    <3> HIDE DEF M, A, T
    <3>9. A \cap S \in SUBSET Points /\ A \cap S \subseteq A /\ A \ S = A \ (A \cap S)
      BY <3>8
    <3>10. Cardinality(A \ (A \cap S)) = Cardinality(A) - Cardinality(A \cap S)
      BY <3>8, <3>9, SetSizes
    <3>11. a.libs[h] = g.libs[h] - Cardinality(T)
      BY <1>4, <2>2 DEF T
    <3>12. Cardinality(A) \in Nat /\ Cardinality(A \cap S) \in Nat
      <4>1. Cardinality(A) \in Nat
        BY <3>8, SetSizes
      <4>2. Cardinality(A \cap S) \in Nat
        BY <3>9, SetSizes
      <4> QED
        BY <4>1, <4>2
    <3>13. Cardinality(Around(q, Members(a, h))) = Cardinality(A) - Cardinality(A \cap S)
      <4>1. Around(q, Members(a, h)) = A \ (A \cap S)
        BY <3>1, <3>7, <3>9
      <4> QED
        BY <3>10, <4>1
    <3>14. a.libs[h] = (Cardinality(A) + 0) - Cardinality(A \cap S)
      BY <3>2, <3>6, <3>11
    <3> QED
      BY <3>12, <3>13, <3>14
  <2> QED
    BY <2>1, <2>2
<1>13. Grouped(a)
  <2> SUFFICES ASSUME NEW h \in Points, NEW x \in Members(a, h) PROVE Members(a, h) = Group(q, x)
    BY <1>4 DEF Grouped
  <2>1. CASE h = v
    <3>1. x \in S /\ x \in Points
      BY <1>3, <1>8, <2>1
    <3>2. Connected(S, x)
      <4>1. Connected(Group(p, x), x)
        BY <3>1, GroupConnected
      <4> QED
        BY <1>3, <3>1, <4>1
    <3>3. \A w \in S : q[w] = q[x]
      BY <1>3, <1>5, <3>1
    <3>4. \A u \in S : \A w \in Adj[u] : q[w] = q[x] => w \in S
      <4> SUFFICES ASSUME NEW u \in S, NEW w \in Adj[u], q[w] = q[x], w \notin S PROVE FALSE
        OBVIOUS
      <4>1. w \in Points
        BY <1>3, Symmetric
      <4>2. p[w] = c
        BY <1>3, <1>5, <3>1, <4>1
      <4> QED
        BY <4>2
    <3>5. Group(q, x) = S
      BY <1>3, <3>1, <3>2, <3>3, <3>4, GroupIs
    <3> QED
      BY <1>8, <2>1, <3>5
  <2>2. CASE h # v
    <3>1. x \in Members(g, h) /\ Members(a, h) = Members(g, h)
      BY <1>9, <2>2
    <3>2. Members(g, h) = Group(p, x) /\ x \in Points /\ p[x] # Empty
      BY <1>1, <1>10, <3>1 DEF Grouped
    <3>3. \A w \in Group(p, x) : q[w] = p[w]
      BY <1>10, <3>2
    <3>4. \A u \in Group(p, x) : \A w \in Adj[u] : q[w] = p[x] => p[w] = p[x]
      <4> SUFFICES ASSUME NEW u \in Group(p, x), NEW w \in Adj[u], q[w] = p[x], p[w] # p[x] PROVE FALSE
        OBVIOUS
      <4>1. u \in Points /\ p[u] = p[x]
        BY <3>2, Groups
      <4>2. w \in Points /\ u \in Adj[w]
        BY <4>1, Symmetric
      <4>3. w \in S /\ p[u] = c
        BY <1>5, <4>1, <4>2
      <4> QED
        BY <4>2, <4>3
    <3>5. Group(q, x) = Group(p, x)
      BY <3>2, <3>3, <3>4, GroupStays
    <3> QED
      BY <3>1, <3>2, <3>5
  <2> QED
    BY <2>1, <2>2
<1>14. Hashed(a)
  <2>1. SymDiff(Keys(p), {<<w, c>> : w \in S}) = Keys(Put(p, S, c))
    BY <1>1, <1>3, KeysFilled
  <2> QED
    BY <1>1, <1>4, <2>1 DEF Hashed, q
<1>15. Listed(a)
  <2>1. v # NoLoc
    BY NoLocIsNoPoint
  <2> QED
    BY <1>1, <1>4, <1>5, <2>1 DEF Listed
<1>16. ChainSize(a, v) = Cardinality(S)
  BY <1>3, <1>4 DEF ChainSize
<1> QED
  BY <1>4, <1>11, <1>12, <1>13, <1>14, <1>15, <1>16 DEF Chains, a, q
----------------------------------------------------------------------------
(* The captives of a move are put back *)

Back(g, w, owner) ==
    LET added == AddChain(g, w, owner)
    IN  [added EXCEPT !.captures[Opp(owner)] = @ - ChainSize(added, w)]

\* Stones of colour c that were prisoners of d are on the board again.
Regained(g, m, S, c, d, ko) ==
    /\ Chains(m) /\ m.colors = Put(g.colors, S, c) /\ m.ko_loc = ko
    /\ m.captures = [g.captures EXCEPT ![d] = @ - Cardinality(S)]

LEMMA PutBack ==
    ASSUME NEW g, Chains(g), NEW v \in Points, g.colors[v] = Empty, NEW c \in Colors,
           NEW S, S = Group(g.colors, v), \A x \in S : \A w \in Adj[x] : g.colors[w] # c
    PROVE  Regained(g, Back(g, v, c), S, c, Opp(c), g.ko_loc)
<1> DEFINE a == AddChain(g, v, c)
           m == Back(g, v, c)
<1>1. /\ Chains(a) /\ a.colors = Put(g.colors, S, c)
      /\ a.ko_loc = g.ko_loc /\ a.captures = g.captures
      /\ ChainSize(a, v) = Cardinality(S)
  BY ChainAdded
<1>2. Cardinality(S) \in Nat /\ g.captures \in [Colors -> Int] /\ Opp(c) \in Colors
  <2>1. S \in SUBSET Points
    BY Groups
  <2>2. Cardinality(S) \in Nat
    BY <2>1, SetSizes
  <2> QED
    BY <2>2, BoardParts, Kinds DEF Chains, Opp
<1> HIDE DEF a
<1>3. m = [a EXCEPT !.captures[Opp(c)] = @ - Cardinality(S)]
  BY <1>1 DEF Back, a
<1> HIDE DEF m
<1>4. a \in Boards
  BY <1>1 DEF Chains
<1>5. /\ m \in Boards /\ m.colors = a.colors /\ m.ko_loc = a.ko_loc
      /\ m.captures = [g.captures EXCEPT ![Opp(c)] = @ - Cardinality(S)]
  <2>1. [g.captures EXCEPT ![Opp(c)] = @ - Cardinality(S)] \in [Colors -> Int]
    BY <1>2
  <2> QED
    BY <1>1, <1>3, <1>4, <2>1 DEF Boards
<1>6. AlikeChains(a, m)
  BY <1>3, <1>4 DEF AlikeChains, Boards
<1>7. Linked(m) /\ Counted(m, {}) /\ Grouped(m) /\ Hashed(m) /\ Listed(m)
  BY <1>1, <1>6, ChainsAlike DEF Chains
<1>8. Chains(m)
  BY <1>5, <1>7 DEF Chains
<1> QED
  BY <1>1, <1>5, <1>8 DEF m, Regained

CaptivesOf(g, v, c, D, ko) ==
    LET restore(h, w) == IF w \in D /\ h.colors[w] = Empty THEN Back(h, w, Opp(c)) ELSE h
    IN  InTurn(restore, [g EXCEPT !.ko_loc = ko], AdjSeq[v])

\* The groups of p at the points D are empty on the board, among stones of the other side c.
Surrounded(g, p, D, c) ==
    \A w \in D : /\ p[w] = Opp(c)
                 /\ \A x \in Group(p, w) : /\ g.colors[x] = Empty
                                           /\ \A u \in Adj[x] : u \notin Group(p, w) => g.colors[u] = c

\* The captives that are back after k neighbours.
BackAfter(p, v, D, k) == UNION {Group(p, AdjSeq[v][i]) : i \in {i \in 1..k : AdjSeq[v][i] \in D}}

Returned(g, p, v, c, D, ko, k, h) ==
    /\ Chains(h) /\ h.colors = Put(g.colors, BackAfter(p, v, D, k), Opp(c)) /\ h.ko_loc = ko
    /\ h.captures = [g.captures EXCEPT ![c] = @ - Cardinality(BackAfter(p, v, D, k))]

LEMMA ReturnedNext ==
    ASSUME NEW g, Chains(g), NEW v \in Points, NEW c \in Colors, NEW p, NEW D \in SUBSET Adj[v],
           NEW ko, Surrounded(g, p, D, c), NEW k \in 1..Len(AdjSeq[v]), NEW h,
           Returned(g, p, v, c, D, ko, k - 1, h), NEW w, w = AdjSeq[v][k]
    PROVE  Returned(g, p, v, c, D, ko, k, IF w \in D /\ h.colors[w] = Empty THEN Back(h, w, Opp(c)) ELSE h)
<1> DEFINE o == Opp(c)
           T == BackAfter(p, v, D, k - 1)
           N == BackAfter(p, v, D, k)
           q == g.colors
           r == h.colors
<1>1. o \in Colors /\ o # c /\ o # Empty /\ c # Empty /\ Opp(o) = c
  BY Kinds DEF Opp
<1>2. Len(AdjSeq[v]) \in Nat /\ w \in Adj[v] /\ w \in Points
  BY AdjSeqIsAdj, Symmetric
<1>3. /\ Chains(h) /\ r = Put(q, T, o) /\ h.ko_loc = ko
      /\ h.captures = [g.captures EXCEPT ![c] = @ - Cardinality(T)]
  BY DEF Returned
<1>4. N = T \cup (IF w \in D THEN Group(p, w) ELSE {})
  <2>1. \A i \in 1..k : i \in 1..k - 1 \/ i = k
    BY <1>2
  <2>2. k \in 1..k /\ \A i \in 1..k - 1 : i \in 1..k
    BY <1>2
  <2> QED
    BY <2>1, <2>2 DEF BackAfter
<1>5. \A x \in T : \E u \in D : x \in Group(p, u) /\ Group(p, u) \subseteq T
  BY DEF BackAfter
<1>6. \A u \in D : u \in Points /\ p[u] = o /\ \A x \in Group(p, u) : q[x] = Empty
  BY Symmetric DEF Surrounded
<1>7. T \in SUBSET Points /\ \A x \in T : q[x] = Empty
  BY <1>5, <1>6, Groups
<1>8. \A x \in Points : r[x] = IF x \in T THEN o ELSE q[x]
  BY <1>3 DEF Put
<1> HIDE DEF T, N, o
<1>9. CASE w \notin D
  <2>1. N = T
    BY <1>4, <1>9
  <2> QED
    BY <1>3, <1>9, <2>1 DEF Returned, N, T, o
<1>10. CASE w \in D /\ r[w] # Empty
  <2>1. w \in Group(p, w) /\ q[w] = Empty
    BY <1>2, <1>6, <1>10, Groups
  <2>2. w \in T
    BY <1>2, <1>8, <1>10, <2>1
  <2>3. PICK u \in D : w \in Group(p, u) /\ Group(p, u) \subseteq T
    BY <1>5, <2>2
  <2>4. Group(p, w) = Group(p, u)
    BY <1>6, <2>3, Groups
  <2>5. N = T
    BY <1>4, <1>10, <2>3, <2>4
  <2> QED
    BY <1>3, <1>10, <2>5 DEF Returned, N, T, o
<1>11. CASE w \in D /\ r[w] = Empty
  <2> DEFINE S == Group(p, w)
             m == Back(h, w, o)
  <2>1. S \in SUBSET Points /\ w \in S /\ \A x \in S : p[x] = o /\ Group(p, x) = S
    BY <1>2, <1>6, <1>11, Groups
  <2>2. w \notin T
    BY <1>1, <1>2, <1>8, <1>11
  <2>3. \A x \in S : x \notin T
    <3> SUFFICES ASSUME NEW x \in S, x \in T PROVE FALSE
      OBVIOUS
    <3>1. PICK u \in D : x \in Group(p, u) /\ Group(p, u) \subseteq T
      BY <1>5
    <3>2. Group(p, x) = Group(p, u)
      BY <1>6, <3>1, Groups
    <3> QED
      BY <2>1, <2>2, <3>1, <3>2
  <2>4. \A x \in S : r[x] = Empty /\ \A u \in Adj[x] : u \in Points /\ (u \notin S => r[u] = c)
    <3> SUFFICES ASSUME NEW x \in S
                 PROVE  r[x] = Empty /\ \A u \in Adj[x] : u \in Points /\ (u \notin S => r[u] = c)
      OBVIOUS
    <3>1. x \in Points /\ r[x] = Empty
      BY <1>6, <1>8, <1>11, <2>1, <2>3
    <3>2. \A u \in Adj[x] : u \in Points /\ (u \notin S => q[u] = c)
      BY <1>11, <3>1, Symmetric DEF Surrounded
    <3>3. \A u \in Adj[x] : u \notin S => u \notin T
      BY <1>1, <1>7, <3>2
    <3> QED
      BY <1>8, <3>1, <3>2, <3>3
  <2>5. Group(r, w) = S
    <3>1. Connected(S, w)
      BY <1>2, GroupConnected
    <3>2. \A x \in S : r[x] = r[w]
      BY <1>11, <2>4
    <3>3. \A u \in S : \A x \in Adj[u] : r[x] = r[w] => x \in S
      BY <1>1, <1>11, <2>4
    <3> HIDE DEF S, r
    <3> QED
      BY <1>2, <2>1, <3>1, <3>2, <3>3, GroupIs
  <2> HIDE DEF S
  <2>6. \A x \in S : \A u \in Adj[x] : r[u] # o
    <3> SUFFICES ASSUME NEW x \in S, NEW u \in Adj[x] PROVE r[u] # o
      OBVIOUS
    <3> QED
      BY <1>1, <2>4
  <2>7. /\ Chains(m) /\ m.colors = Put(r, S, o) /\ m.ko_loc = h.ko_loc
        /\ m.captures = [h.captures EXCEPT ![Opp(o)] = @ - Cardinality(S)]
    BY <1>1, <1>2, <1>3, <1>11, <2>5, <2>6, PutBack DEF Regained
  <2>8. N = T \cup S /\ T \cap S = {}
    BY <1>4, <1>11, <2>3 DEF S
  <2>9. Put(r, S, o) = Put(q, N, o)
    BY <1>3, <2>8, PutTwice
  <2>10. m.captures = [g.captures EXCEPT ![c] = @ - Cardinality(N)]
    <3>1. Cardinality(N) = Cardinality(T) + Cardinality(S)
      BY <1>7, <2>1, <2>8, DisjointSets
    <3>2. Cardinality(T) \in Nat
      BY <1>7, SetSizes
    <3>3. Cardinality(S) \in Nat
      BY <2>1, SetSizes
    <3>4. g.captures \in [Colors -> Int]
      BY BoardParts DEF Chains
    <3>5. m.captures = [[g.captures EXCEPT ![c] = @ - Cardinality(T)] EXCEPT ![c] = @ - Cardinality(S)]
      BY <1>1, <1>3, <2>7
    <3> HIDE DEF m
    <3> QED
      BY <3>1, <3>2, <3>3, <3>4, <3>5
  <2> HIDE DEF m
  <2>11. Returned(g, p, v, c, D, ko, k, m)
    BY <1>3, <2>7, <2>9, <2>10 DEF Returned, N, o
  <2> QED
    BY <1>11, <2>11 DEF m, o
<1> QED
  BY <1>9, <1>10, <1>11

LEMMA Captives ==
    ASSUME NEW g, Chains(g), NEW v \in Points, NEW c \in Colors, NEW p, NEW D \in SUBSET Adj[v],
           NEW ko \in Points \cup {NoLoc}, Surrounded(g, p, D, c)
    PROVE  Regained(g, CaptivesOf(g, v, c, D, ko), UNION {Group(p, w) : w \in D}, Opp(c), c, ko)
<1> DEFINE list == AdjSeq[v]
           n == Len(list)
           s0 == [g EXCEPT !.ko_loc = ko]
           op(h, w) == IF w \in D /\ h.colors[w] = Empty THEN Back(h, w, Opp(c)) ELSE h
           Loop(f) == f = [k \in 0..n |-> IF k = 0 THEN s0 ELSE op(f[k - 1], list[k])]
           J == [k \in 0..n |-> {h \in Boards : Returned(g, p, v, c, D, ko, k, h)}]
           f == CHOOSE f : Loop(f)
<1>1. n \in Nat
  BY AdjSeqIsAdj
<1>2. CaptivesOf(g, v, c, D, ko) = f[n]
  BY DEF CaptivesOf, InTurn
<1>3. s0 \in J[0]
  <2>1. g \in Boards
    BY DEF Chains
  <2>2. /\ s0 \in Boards /\ s0.colors = g.colors /\ s0.ko_loc = ko /\ s0.captures = g.captures
    BY <2>1 DEF Boards
  <2>3. AlikeChains(g, s0)
    BY <2>1 DEF AlikeChains, Boards
  <2> HIDE DEF s0
  <2>4. Chains(s0)
    BY <2>2, <2>3, ChainsAlike DEF Chains
  <2>5. BackAfter(p, v, D, 0) = {}
    BY DEF BackAfter
  <2>6. g.colors = Put(g.colors, {}, Opp(c))
    <3>1. g.colors \in Stones
      BY <2>1, BoardParts
    <3> QED
      BY <3>1 DEF Put, Stones
  <2>7. g.captures = [g.captures EXCEPT ![c] = @ - Cardinality({})]
    <3>1. g.captures \in [Colors -> Int] /\ Cardinality({}) = 0
      BY <2>1, BoardParts, FS_EmptySet
    <3> QED
      BY <3>1
  <2>8. Returned(g, p, v, c, D, ko, 0, s0)
    BY <2>2, <2>4, <2>5, <2>6, <2>7 DEF Returned
  <2> HIDE DEF n
  <2> QED
    BY <1>1, <2>2, <2>8
<1>4. ASSUME NEW k \in 1..n, NEW h \in J[k - 1] PROVE op(h, list[k]) \in J[k]
  <2>1. k - 1 \in 0..n /\ k \in 0..n
    BY <1>1
  <2>2. Returned(g, p, v, c, D, ko, k - 1, h)
    BY <1>4, <2>1
  <2>3. Returned(g, p, v, c, D, ko, k, op(h, list[k]))
    BY <2>2, ReturnedNext
  <2> HIDE DEF op
  <2>4. op(h, list[k]) \in Boards
    BY <2>3 DEF Returned, Chains
  <2> HIDE DEF n, list
  <2> QED
    BY <2>1, <2>3, <2>4
<1>5. J[n] = {h \in Boards : Returned(g, p, v, c, D, ko, n, h)}
  BY <1>1
<1>6. BackAfter(p, v, D, n) = UNION {Group(p, w) : w \in D}
  <2>1. \A w : w \in Adj[v] <=> \E i \in 1..n : list[i] = w
    BY AdjSeqIsAdj
  <2>2. {Group(p, list[i]) : i \in {i \in 1..n : list[i] \in D}} = {Group(p, w) : w \in D}
    <3> HIDE DEF list, n
    <3> QED
      BY <2>1
  <2> QED
    BY <2>2 DEF BackAfter
<1> HIDE DEF J, s0, list, n, op
<1>7. \E e : Loop(e)
  <2> DEFINE U == UNION {J[k] : k \in 0..n}
             step == [x \in (1..n) \X U |-> op(x[2], list[x[1]])]
  <2>1. \A k \in 1..n : \A h \in J[k - 1] : step[<<k, h>>] = op(h, list[k]) /\ step[<<k, h>>] \in J[k]
    <3> TAKE k \in 1..n
    <3> TAKE h \in J[k - 1]
    <3>1. k - 1 \in 0..n
      BY <1>1
    <3>2. <<k, h>> \in (1..n) \X U
      BY <3>1
    <3>3. step[<<k, h>>] = op(h, list[k])
      BY <3>2
    <3> HIDE DEF step
    <3> QED
      BY <1>4, <3>3
  <2> HIDE DEF step, U
  <2>2. PICK e : LoopOf(e, n, s0, step) /\ \A k \in 0..n : e[k] \in J[k]
    <3>1. \A k \in 1..n : \A h \in J[k - 1] : step[<<k, h>>] \in J[k]
      BY <2>1
    <3> QED
      BY <1>1, <1>3, <3>1, Looped
  <2>3. \A k \in 0..n : (IF k = 0 THEN s0 ELSE step[<<k, e[k - 1]>>])
                        = (IF k = 0 THEN s0 ELSE op(e[k - 1], list[k]))
    <3> TAKE k \in 0..n
    <3>1. CASE k # 0
      <4>1. k \in 1..n /\ k - 1 \in 0..n
        BY <1>1, <3>1
      <4> QED
        BY <2>1, <2>2, <4>1
    <3> QED
      BY <3>1
  <2>4. Loop(e)
    <3>1. [k \in 0..n |-> IF k = 0 THEN s0 ELSE step[<<k, e[k - 1]>>]]
          = [k \in 0..n |-> IF k = 0 THEN s0 ELSE op(e[k - 1], list[k])]
      BY <2>3, Zenon
    <3> QED
      BY <2>2, <3>1 DEF LoopOf
  <2> QED
    BY <2>4
<1>8. Loop(f)
  BY <1>7
<1> HIDE DEF f
<1>9. f[0] = s0 /\ \A k \in 1..n : f[k] = op(f[k - 1], list[k])
  <2>1. \A k \in 0..n : f[k] = IF k = 0 THEN s0 ELSE op(f[k - 1], list[k])
    BY <1>8
  <2> QED
    BY <1>1, <2>1
<1>10. f[n] \in J[n]
  <2>1. GoesOn(f, J, n)
    BY <1>4, <1>9 DEF GoesOn
  <2> QED
    BY <1>1, <1>3, <1>9, <2>1, LoopEnds
<1>20. Returned(g, p, v, c, D, ko, n, f[n])
  BY <1>5, <1>10
<1> DEFINE m == f[n]
<1> HIDE DEF m
<1>21. /\ Chains(m) /\ m.colors = Put(g.colors, UNION {Group(p, w) : w \in D}, Opp(c)) /\ m.ko_loc = ko
       /\ m.captures = [g.captures EXCEPT ![c] = @ - Cardinality(UNION {Group(p, w) : w \in D})]
  BY <1>6, <1>20 DEF Returned, m
<1> QED
  BY <1>2, <1>21 DEF m, Regained
----------------------------------------------------------------------------
(* The stone of a move is taken off *)

Gone(g, v, c) ==
    ChangeSurroundingLiberties([Flip(g, {v}, g.colors[v]) EXCEPT !.colors[v] = Empty], {v}, Opp(c), 1)

\* The stone at v is off, but still in the list of its chain, whose stones were own and whose
\* head is h; the other chains are as they should be on p.
Detached(g, p, put, own, h, v) ==
    /\ g \in Boards /\ g.colors = p /\ Hashed(g) /\ Listed(g)
    /\ \A k \in Points \ {h} : Members(g, k) # {} =>
          /\ ListOf(g, k) /\ g.libs[k] = Cardinality(Around(p, Members(g, k)))
          /\ \A x \in Members(g, k) : Members(g, k) = Group(p, x)
    /\ h \in own /\ v \in own /\ Cyclic(g.next_in_chain, own)
    /\ g.locs[h] = Cardinality(own) /\ g.libs[h] = Cardinality(Around(put, own))
    /\ \A x \in own : g.chain_head[x] = h
    /\ \A x \in Members(g, h) : x \in own

LEMMA TakenOff ==
    ASSUME NEW f, Chains(f), NEW v \in Points, NEW c \in Colors, NEW p \in Stones, p[v] = Empty,
           f.colors = Placed(p, v, c)
    PROVE  LET put == Placed(p, v, c)   g == Gone(f, v, c) IN
           /\ Detached(g, p, put, Group(put, v), f.chain_head[v], v)
           /\ g.ko_loc = f.ko_loc /\ g.captures = f.captures
<1> DEFINE put == Placed(p, v, c)
           own == Group(put, v)
           h == f.chain_head[v]
           o == Opp(c)
           T(k) == Touching(p, f.chain_head, {v}, o, k)
           flip == Flip(f, {v}, f.colors[v])
           off == [flip EXCEPT !.colors[v] = Empty]
           libs == [k \in Points |-> f.libs[k] + Cardinality(T(k))]
           g == Gone(f, v, c)
<1>1. /\ f \in Boards /\ Linked(f) /\ Counted(f, {}) /\ Grouped(f) /\ Hashed(f) /\ Listed(f)
      /\ c # Empty /\ o # c /\ o # Empty
  BY Kinds DEF Chains, Opp
<1>2. \A x \in Points : put[x] = IF x = v THEN c ELSE p[x]
  BY DEF Placed, Put
<1> HIDE DEF put
<1>3. f.colors = put /\ put[v] = c /\ put[v] # Empty
  BY <1>1, <1>2 DEF put
<1>4. h \in Points /\ v \in Members(f, h) /\ ListOf(f, h)
  <2>1. h # NoLoc
    BY <1>1, <1>3 DEF Listed
  <2> QED
    BY <1>1, <1>3, <2>1, StoneOnList
<1>5. Members(f, h) = own /\ own \in SUBSET Points
  <2>1. Members(f, h) = own
    BY <1>1, <1>3, <1>4 DEF Grouped
  <2> QED
    BY <2>1, MembersSets
<1> HIDE DEF h, own
<1>6. \A k \in Points : T(k) \in SUBSET Points /\ Cardinality(T(k)) \in Nat
  <2> SUFFICES ASSUME NEW k \in Points PROVE T(k) \in SUBSET Points /\ Cardinality(T(k)) \in Nat
    OBVIOUS
  <2>1. T(k) \in SUBSET Points
    BY DEF Touching
  <2> HIDE DEF T
  <2> QED
    BY <2>1, SetSizes
<1>7. f.libs \in [Points -> Int] /\ f.hash \in SUBSET (Points \X Colors)
  BY <1>1, BoardParts
<1>8. libs \in [Points -> Int]
  <2> HIDE DEF T
  <2>1. \A k \in Points : f.libs[k] + Cardinality(T(k)) \in Int
    BY <1>6, <1>7
  <2> QED
    BY <2>1
<1>9. SymDiff(f.hash, {<<w, c>> : w \in {v}}) = Keys(p) /\ Keys(p) \in SUBSET (Points \X Colors)
  <2>1. Put(put, {v}, Empty) = p
    BY <1>2 DEF Put, Stones
  <2>2. \A x \in {v} : put[x] = c
    BY <1>3
  <2>3. SymDiff(Keys(put), {<<w, c>> : w \in {v}}) = Keys(Put(put, {v}, Empty))
    BY <1>1, <2>2, KeysCleared
  <2>4. Keys(p) \in SUBSET (Points \X Colors)
    BY DEF Keys, Stones
  <2> QED
    BY <1>1, <1>3, <2>1, <2>3, <2>4 DEF Hashed
<1>10. flip = [f EXCEPT !.hash = Keys(p)]
  <2>1. flip = [f EXCEPT !.hash = SymDiff(f.hash, {<<w, c>> : w \in {v}})]
    BY <1>1, <1>3 DEF Flip, Boards
  <2> QED
    BY <1>9, <2>1
<1>11. off = [f EXCEPT !.hash = Keys(p), !.colors = p]
  <2>1. [put EXCEPT ![v] = Empty] = p
    <3>1. put = [x \in Points |-> put[x]]
      BY DEF put, Placed, Put
    <3> QED
      BY <1>2, <3>1 DEF Stones
  <2> HIDE DEF flip
  <2> QED
    BY <1>1, <1>3, <1>10, <2>1 DEF Boards
<1>12. g = ChangeSurroundingLiberties(off, {v}, o, 1)
  BY DEF Gone
<1> HIDE DEF off, flip, g
<1>13. g = [off EXCEPT !.libs = libs]
  <2>1. g = [off EXCEPT !.libs = [k \in Points |-> @[k] + 1 * Cardinality(Touching(off.colors, off.chain_head, {v}, o, k))]]
    BY <1>12 DEF ChangeSurroundingLiberties, Touching
  <2>2. off.colors = p /\ off.chain_head = f.chain_head /\ off.libs = f.libs
    BY <1>1, <1>11 DEF Boards
  <2>3. g = [off EXCEPT !.libs = [k \in Points |-> f.libs[k] + 1 * Cardinality(T(k))]]
    BY <2>1, <2>2
  <2> HIDE DEF T
  <2>4. \A k \in Points : f.libs[k] + 1 * Cardinality(T(k)) = f.libs[k] + Cardinality(T(k))
    BY <1>6
  <2> QED
    BY <2>3, <2>4
<1> HIDE DEF libs, T
<1>14. /\ g \in Boards /\ g.colors = p /\ g.hash = Keys(p) /\ g.ko_loc = f.ko_loc /\ g.captures = f.captures
       /\ g.chain_head = f.chain_head /\ g.next_in_chain = f.next_in_chain /\ g.locs = f.locs
       /\ g.libs = libs
  BY <1>1, <1>8, <1>9, <1>11, <1>13 DEF Boards
<1>15. \A k \in Points : g.libs[k] = f.libs[k] + Cardinality(T(k))
  BY <1>14 DEF libs
<1>16. \A k \in Points : \A x : x \in Members(g, k) <=> x \in Members(f, k) /\ x # v
  BY <1>1, <1>2, <1>3, <1>14 DEF Members
<1>17. \A x \in Points : x \in own => f.chain_head[x] = h
  BY <1>5 DEF Members
<1>18. ASSUME NEW k \in Points \ {h}, Members(g, k) # {}
       PROVE  /\ ListOf(g, k) /\ g.libs[k] = Cardinality(Around(p, Members(g, k)))
              /\ \A x \in Members(g, k) : Members(g, k) = Group(p, x)
  <2> DEFINE M == Members(f, k)
             A == Around(put, M)
  <2>1. v \notin M
    BY <1>18 DEF Members, h
  <2>2. Members(g, k) = M /\ M # {} /\ M \in SUBSET Points
    BY <1>16, <1>18, <2>1, MembersSets
  <2>3. ListOf(f, k)
    BY <1>1, <2>2 DEF Linked
  <2>4. \A x \in M : x \in Points /\ p[x] = put[x] /\ put[x] # Empty /\ put[x] = put[k]
    BY <1>2, <1>3, <2>1, <2>3 DEF ListOf, Members
  <2>5. ListOf(g, k)
    <3>1. \A x \in M : g.colors[x] = f.colors[x] /\ g.next_in_chain[x] = f.next_in_chain[x]
      BY <1>3, <1>14, <2>4
    <3>2. g.locs[k] = f.locs[k]
      BY <1>14
    <3> QED
      BY <2>2, <2>3, <3>1, <3>2, ListSame
  <2>6. \A u \in Points : u \in M <=> put[u] # Empty /\ f.chain_head[u] = k
    BY <1>3 DEF Members
  <2>7. put[k] = c \/ put[k] = o
    <3>1. k \in M
      BY <2>3 DEF ListOf
    <3>2. put[k] # Empty /\ put[k] \in Colors \cup {Empty}
      BY <1>2, <2>4, <3>1 DEF Stones
    <3> QED
      BY <1>1, <3>2 DEF Colors, Opp, Opponent, o
  <2>8. T(k) = IF \E u \in Adj[v] : u \in M THEN {v} ELSE {}
    <3>1. v \in T(k) <=> \E u \in Adj[v] : p[u] = o /\ f.chain_head[u] = k
      BY DEF T, Touching
    <3>2. \A u \in Adj[v] : u \in Points /\ u # v /\ v \in Adj[u]
      BY Symmetric
    <3>3. ASSUME NEW u \in Adj[v], u \in M PROVE p[u] = o /\ f.chain_head[u] = k
      <4>1. put[u] # c
        <5> SUFFICES ASSUME put[u] = c PROVE FALSE
          OBVIOUS
        <5>1. v \in Group(put, v)
          BY Groups
        <5>2. u \in own
          BY <1>3, <3>2, <5>1, Groups DEF own
        <5> QED
          BY <1>17, <2>6, <3>2, <3>3, <5>2
      <4> QED
        BY <2>4, <2>6, <2>7, <3>2, <3>3, <4>1
    <3>4. ASSUME NEW u \in Adj[v], p[u] = o, f.chain_head[u] = k PROVE u \in M
      BY <1>1, <1>2, <2>6, <3>2, <3>4
    <3>5. T(k) \subseteq {v}
      BY DEF T, Touching
    <3> QED
      BY <3>1, <3>3, <3>4, <3>5
  <2>9. Around(p, M) = A \cup T(k) /\ A \cap T(k) = {}
    <3>1. \A x \in Points : p[x] = Empty <=> put[x] = Empty \/ x = v
      BY <1>1, <1>2
    <3>2. \A x \in Points : x \in Around(p, M) <=> x \in A \/ (x = v /\ Adj[v] \cap M # {})
      BY <3>1 DEF Around
    <3>3. v \notin A
      BY <1>3 DEF Around
    <3>4. Around(p, M) \in SUBSET Points /\ A \in SUBSET Points
      BY AroundSets
    <3> HIDE DEF M, A
    <3>5. \A x \in Points : x \in Around(p, M) <=> x \in A \cup T(k)
      BY <2>8, <3>2
    <3>6. T(k) \in SUBSET Points
      BY <1>6
    <3> QED
      BY <2>8, <3>3, <3>4, <3>5, <3>6
  <2>10. f.libs[k] = Cardinality(A) + 0
    BY <1>1, <1>3, <2>2 DEF Counted
  <2>11. A \in SUBSET Points /\ T(k) \in SUBSET Points
    BY <1>6, AroundSets
  <2>12. \A x \in M : M = Group(p, x)
    <3> SUFFICES ASSUME NEW x \in M PROVE M = Group(p, x)
      OBVIOUS
    <3>1. M = Group(put, x)
      BY <1>1, <1>3 DEF Grouped
    <3>2. \A w \in Group(put, x) : p[w] = put[w]
      BY <2>4, <3>1
    <3>3. \A u \in Group(put, x) : \A w \in Adj[u] : p[w] = put[x] => put[w] = put[x]
      <4> SUFFICES ASSUME NEW u \in Group(put, x), NEW w \in Adj[u], p[w] = put[x] PROVE put[w] = put[x]
        OBVIOUS
      <4>1. w \in Points
        BY <2>4, <3>1, Symmetric
      <4> QED
        BY <1>2, <2>4, <4>1
    <3>4. Group(p, x) = Group(put, x)
      BY <2>4, <3>2, <3>3, GroupStays
    <3> QED
      BY <3>1, <3>4
  <2> HIDE DEF M, A
  <2>13. Cardinality(Around(p, M)) = Cardinality(A) + Cardinality(T(k))
    BY <2>9, <2>11, DisjointSets
  <2>14. Cardinality(A) \in Nat
    BY <2>11, SetSizes
  <2>15. g.libs[k] = Cardinality(Around(p, M))
    BY <1>15, <2>10, <2>13, <2>14
  <2> QED
    BY <2>2, <2>5, <2>12, <2>15
<1>19. g.libs[h] = Cardinality(Around(put, own))
  <2>1. T(h) = {}
    <3> SUFFICES ASSUME NEW u \in Adj[v], p[u] = o, f.chain_head[u] = h PROVE FALSE
      BY DEF T, Touching
    <3>1. u \in Points /\ u # v
      BY Symmetric
    <3>2. put[u] = o
      BY <1>2, <3>1
    <3>3. u \in Members(f, h)
      BY <1>1, <1>3, <3>1, <3>2 DEF Members
    <3>4. put[u] = c
      BY <1>3, <1>4, <3>3 DEF ListOf
    <3> QED
      BY <1>1, <3>2, <3>4
  <2>2. Cardinality(T(h)) = 0
    BY <2>1, FS_EmptySet
  <2>3. f.libs[h] = Cardinality(Around(put, own)) + 0
    BY <1>1, <1>3, <1>4, <1>5 DEF Counted
  <2>4. Cardinality(Around(put, own)) \in Nat
    BY AroundSets, SetSizes
  <2> QED
    BY <1>4, <1>15, <2>2, <2>3, <2>4
<1>20. Hashed(g) /\ Listed(g)
  <2>1. \A x \in Points : p[x] # Empty => f.chain_head[x] # NoLoc
    BY <1>1, <1>2, <1>3 DEF Listed
  <2> QED
    BY <1>14, <2>1 DEF Hashed, Listed
<1>21. /\ h \in own /\ v \in own /\ Cyclic(g.next_in_chain, own)
       /\ g.locs[h] = Cardinality(own)
       /\ \A x \in own : g.chain_head[x] = h
       /\ \A x \in Members(g, h) : x \in own
  <2>1. h \in own /\ Cyclic(f.next_in_chain, own) /\ f.locs[h] = Cardinality(own)
    BY <1>4, <1>5 DEF ListOf
  <2> QED
    BY <1>4, <1>5, <1>14, <1>16, <1>17, <2>1
<1>22. Detached(g, p, put, own, h, v)
  BY <1>14, <1>18, <1>19, <1>20, <1>21 DEF Detached
<1> QED
  BY <1>14, <1>22 DEF put, own, h, g
----------------------------------------------------------------------------

----------------------------------------------------------------------------
\* What a board is when the stone at v is off its chain.
Parted(g, p, m) ==
    /\ Chains(m) /\ m.colors = p /\ m.ko_loc = g.ko_loc /\ m.captures = g.captures

LEMMA StoneAlone ==
    ASSUME NEW p \in Stones, NEW v \in Points, p[v] = Empty, NEW c \in Colors, NEW g, NEW h,
           NEW own, own = Group(Placed(p, v, c), v), Detached(g, p, Placed(p, v, c), own, h, v), own = {v}
    PROVE  Parted(g, p, g)
<1>1. /\ g \in Boards /\ g.colors = p /\ Hashed(g) /\ Listed(g)
      /\ \A k \in Points \ {h} : Members(g, k) # {} =>
            /\ ListOf(g, k) /\ g.libs[k] = Cardinality(Around(p, Members(g, k)))
            /\ \A x \in Members(g, k) : Members(g, k) = Group(p, x)
      /\ \A x \in Members(g, h) : x \in own
  BY DEF Detached
<1>2. Members(g, h) = {}
  BY <1>1 DEF Members
<1>3. \A k \in Points : Cardinality(Around(p, Members(g, k))) \in Nat
  BY AroundSets, SetSizes
<1>4. Linked(g) /\ Grouped(g)
  BY <1>1, <1>2 DEF Linked, Grouped
<1>5. Counted(g, {})
  BY <1>1, <1>2, <1>3 DEF Counted
<1> QED
  BY <1>1, <1>4, <1>5 DEF Parted, Chains

\* The stone at v ends its chain: the rest is one group, whose list skips v.
LEMMA Unlinked ==
    ASSUME NEW p \in Stones, NEW v \in Points, p[v] = Empty, NEW c \in Colors, NEW g, NEW h,
           NEW own, own = Group(Placed(p, v, c), v), Detached(g, p, Placed(p, v, c), own, h, v), own # {v},
           \A x, y \in own \ {v} : Group(p, x) = Group(p, y)
    PROVE  Parted(g, p, Unlink(g, v))
<1> DEFINE put == Placed(p, v, c)
           left == own \ {v}
           head == NextHead(g, v)
           ring == Ring(g, v)
           n == Len(ring)
           moved == HandedOver(g, v, head)
           before == ring[Len(ring)]
           cut == [moved EXCEPT !.next_in_chain[before] = moved.next_in_chain[v]]
           m == Unlink(g, v)
           New == {w \in Adj[v] : p[w] = Empty /\ Adj[w] \cap (own \ {v}) = {}}
<1>0. m = [cut EXCEPT !.libs[head] = @ - Cardinality(NewLiberties(cut, v, head)) + 1, !.locs[head] = @ - 1]
  BY DEF Unlink, Last
<1>1. /\ g \in Boards /\ g.colors = p /\ Hashed(g) /\ Listed(g)
      /\ \A k \in Points \ {h} : Members(g, k) # {} =>
            /\ ListOf(g, k) /\ g.libs[k] = Cardinality(Around(p, Members(g, k)))
            /\ \A x \in Members(g, k) : Members(g, k) = Group(p, x)
      /\ h \in own /\ v \in own /\ Cyclic(g.next_in_chain, own)
      /\ g.locs[h] = Cardinality(own) /\ g.libs[h] = Cardinality(Around(put, own))
      /\ \A x \in own : g.chain_head[x] = h
      /\ \A x \in Members(g, h) : x \in own
  BY DEF Detached
<1>2. own \in SUBSET Points /\ c # Empty
  BY Groups, Kinds
<1>3. /\ g.chain_head \in [Points -> Points \cup {NoLoc}] /\ g.next_in_chain \in [Points -> Points \cup {NoLoc}]
      /\ g.libs \in [Points -> Int] /\ g.locs \in [Points -> Int]
  BY <1>1, BoardParts
<1>4. Circle(ring, g.next_in_chain, own, v)
  BY <1>1, <1>2, RingWalk
<1> HIDE DEF ring, m
<1>5. /\ ring \in Seq(own) /\ n \in Nat \ {0} /\ ToSet(ring) = own /\ g.next_in_chain[before] = v
  BY <1>4 DEF Circle, Path
<1>6. before \in own
  BY <1>5
<1>7. \A x \in own : g.next_in_chain[x] = v => x = before
  BY <1>1, <1>4, OnlyLastLeadsBack
<1>8. g.next_in_chain[v] \in own /\ g.next_in_chain[v] # v
  <2>1. \A x \in own : g.next_in_chain[x] \in own
    BY <1>1 DEF Cyclic
  <2>2. \A T \in SUBSET own : T # {} /\ (\A x \in T : g.next_in_chain[x] \in T) => T = own
    BY <1>1 DEF Cyclic
  <2>3. {v} \in SUBSET own
    BY <1>1
  <2>4. g.next_in_chain[v] # v
    <3> SUFFICES ASSUME g.next_in_chain[v] = v PROVE FALSE
      OBVIOUS
    <3>1. \A x \in {v} : g.next_in_chain[x] \in {v}
      OBVIOUS
    <3> QED
      BY <2>2, <2>3, <3>1
  <2> QED
    BY <1>1, <2>1, <2>4
<1>9. before # v
  BY <1>5, <1>8
<1>10. head \in left
  BY <1>1, <1>8 DEF NextHead
<1> HIDE DEF n, before
<1>11. /\ moved \in Boards /\ moved.colors = p /\ moved.hash = g.hash /\ moved.ko_loc = g.ko_loc
       /\ moved.captures = g.captures /\ moved.next_in_chain = g.next_in_chain
       /\ \A x \in Points : moved.chain_head[x] = IF x \in own THEN head ELSE g.chain_head[x]
       /\ \A x \in Points : moved.locs[x] = IF x = head THEN Cardinality(own) ELSE g.locs[x]
       /\ \A x \in Points : moved.libs[x] = IF x = head THEN Cardinality(Around(put, own)) ELSE g.libs[x]
  <2>1. CASE g.chain_head[v] # v
    <3>1. moved = g /\ head = g.chain_head[v] /\ head = h
      BY <1>1, <2>1 DEF NextHead, HandedOver
    <3> HIDE DEF moved, head
    <3> QED
      BY <1>1, <3>1
  <2>2. CASE g.chain_head[v] = v
    <3> DEFINE heads == [w \in Points |-> IF w \in own THEN head ELSE g.chain_head[w]]
    <3>1. h = v /\ head = g.next_in_chain[v]
      BY <1>1, <2>2 DEF NextHead
    <3>2. moved = [g EXCEPT !.chain_head = heads, !.libs = [g.libs EXCEPT ![head] = g.libs[v]],
                            !.locs = [g.locs EXCEPT ![head] = g.locs[v]]]
      <4> HIDE DEF head
      <4> QED
        BY <1>1, <1>5, <2>2 DEF Boards, HandedOver, ring
    <3>3. head \in Points
      BY <1>2, <1>10
    <3> HIDE DEF moved, head
    <3>4. heads \in [Points -> Points \cup {NoLoc}]
      BY <1>3, <3>3
    <3>5. [g.libs EXCEPT ![head] = g.libs[v]] \in [Points -> Int] /\ [g.locs EXCEPT ![head] = g.locs[v]] \in [Points -> Int]
      BY <1>3
    <3>6. \A x \in Points : /\ [g.libs EXCEPT ![head] = g.libs[v]][x] = IF x = head THEN g.libs[v] ELSE g.libs[x]
                            /\ [g.locs EXCEPT ![head] = g.locs[v]][x] = IF x = head THEN g.locs[v] ELSE g.locs[x]
      BY <1>3
    <3>7. \A x \in Points : heads[x] = IF x \in own THEN head ELSE g.chain_head[x]
      OBVIOUS
    <3> HIDE DEF heads
    <3>8. /\ moved \in Boards /\ moved.colors = g.colors /\ moved.hash = g.hash /\ moved.ko_loc = g.ko_loc
          /\ moved.captures = g.captures /\ moved.next_in_chain = g.next_in_chain /\ moved.chain_head = heads
          /\ moved.libs = [g.libs EXCEPT ![head] = g.libs[v]] /\ moved.locs = [g.locs EXCEPT ![head] = g.locs[v]]
      BY <1>1, <3>2, <3>4, <3>5 DEF Boards
    <3> QED
      BY <1>1, <3>1, <3>6, <3>7, <3>8
  <2> QED
    BY <2>1, <2>2
<1>12. head \in Points /\ head # v /\ head \in own
  BY <1>2, <1>10
<1> HIDE DEF moved, head
<1>13. /\ cut \in Boards /\ cut.colors = p /\ cut.hash = g.hash /\ cut.ko_loc = g.ko_loc
       /\ cut.captures = g.captures /\ cut.chain_head = moved.chain_head
       /\ cut.libs = moved.libs /\ cut.locs = moved.locs
       /\ cut.next_in_chain = [g.next_in_chain EXCEPT ![before] = g.next_in_chain[v]]
  <2>1. cut = [moved EXCEPT !.next_in_chain = [g.next_in_chain EXCEPT ![before] = g.next_in_chain[v]]]
    BY <1>11 DEF Boards
  <2>2. [g.next_in_chain EXCEPT ![before] = g.next_in_chain[v]] \in [Points -> Points \cup {NoLoc}]
    BY <1>3
  <2> HIDE DEF cut
  <2> QED
    BY <1>11, <2>1, <2>2 DEF Boards
<1> HIDE DEF cut
<1>14. \A x \in Points : cut.chain_head[x] = IF x \in own THEN head ELSE g.chain_head[x]
  BY <1>11, <1>13
<1>15. \A x \in own : x = v \/ p[x] = c
  BY OwnParts
<1>16. \A x \in Points \ own : g.chain_head[x] = head /\ p[x] # Empty => FALSE
  <2> SUFFICES ASSUME NEW x \in Points \ own, g.chain_head[x] = head, p[x] # Empty PROVE FALSE
    OBVIOUS
  <2>1. x \in Members(g, head)
    BY <1>1 DEF Members
  <2>2. head # h
    BY <1>1, <2>1
  <2>3. head \in Members(g, head)
    BY <1>1, <1>12, <2>1, <2>2 DEF ListOf
  <2> QED
    BY <1>1, <1>12, <2>2, <2>3 DEF Members
<1>17. NewLiberties(cut, v, head) = New
  <2>1. p[head] = c
    BY <1>12, <1>15
  <2>2. \A w \in Adj[v] : w \in Points /\ Adj[w] \subseteq Points
    BY Symmetric
  <2>3. \A u \in Points : p[u] = p[head] /\ cut.chain_head[u] = head <=> u \in own \ {v}
    BY <1>2, <1>14, <1>15, <1>16, <2>1
  <2>4. \A w \in Adj[v] : IsLibertyOf(cut, w, head) <=> Adj[w] \cap (own \ {v}) # {}
    <3> SUFFICES ASSUME NEW w \in Adj[v] PROVE IsLibertyOf(cut, w, head) <=> Adj[w] \cap (own \ {v}) # {}
      OBVIOUS
    <3>1. IsLibertyOf(cut, w, head) <=> \E u \in Adj[w] : p[u] = p[head] /\ cut.chain_head[u] = head
      BY <1>13 DEF IsLibertyOf
    <3> QED
      BY <2>2, <2>3, <3>1
  <2> QED
    BY <1>13, <2>4 DEF NewLiberties
<1>18. Cardinality(Around(p, left)) = Cardinality(Around(put, own)) - Cardinality(New) + 1
  BY LibertiesLeft
<1>19. Cardinality(left) = Cardinality(own) - 1
  <2>1. {v} \in SUBSET Points /\ {v} \subseteq own /\ Cardinality({v}) = 1
    BY <1>1, FS_Singleton
  <2> QED
    BY <1>2, <2>1, SetSizes
<1>20. Cardinality(own) \in Nat /\ Cardinality(Around(put, own)) \in Nat /\ Cardinality(New) \in Nat
  <2>1. New \in SUBSET Points
    BY Symmetric
  <2>2. Around(put, own) \in SUBSET Points
    BY AroundSets
  <2> HIDE DEF New, put
  <2> QED
    BY <1>2, <2>1, <2>2, SetSizes
<1> DEFINE fewer == Cardinality(Around(put, own)) - Cardinality(New) + 1
           shorter == Cardinality(own) - 1
<1>21. fewer \in Int /\ shorter \in Int
  BY <1>20
<1> HIDE DEF New
<1>22. /\ m \in Boards /\ m.colors = p /\ m.hash = g.hash /\ m.ko_loc = g.ko_loc /\ m.captures = g.captures
       /\ m.chain_head = cut.chain_head /\ m.next_in_chain = cut.next_in_chain
       /\ m.libs = [cut.libs EXCEPT ![head] = fewer] /\ m.locs = [cut.locs EXCEPT ![head] = shorter]
  <2>1. cut.libs \in [Points -> Int] /\ cut.locs \in [Points -> Int]
    BY <1>13, BoardParts
  <2>2. cut.libs[head] = Cardinality(Around(put, own)) /\ cut.locs[head] = Cardinality(own)
    BY <1>11, <1>12, <1>13
  <2>3. m = [cut EXCEPT !.libs = [cut.libs EXCEPT ![head] = fewer], !.locs = [cut.locs EXCEPT ![head] = shorter]]
    BY <1>0, <1>13, <1>17, <2>2 DEF Boards
  <2> HIDE DEF fewer, shorter
  <2>4. [cut.libs EXCEPT ![head] = fewer] \in [Points -> Int] /\ [cut.locs EXCEPT ![head] = shorter] \in [Points -> Int]
    BY <1>21, <2>1
  <2> QED
    BY <1>13, <2>3, <2>4 DEF Boards
<1> HIDE DEF fewer, shorter
<1>23. /\ \A x \in Points : m.chain_head[x] = IF x \in own THEN head ELSE g.chain_head[x]
       /\ \A x \in Points : m.next_in_chain[x] = IF x = before THEN g.next_in_chain[v] ELSE g.next_in_chain[x]
       /\ \A x \in Points : m.libs[x] = IF x = head THEN fewer ELSE g.libs[x]
       /\ \A x \in Points : m.locs[x] = IF x = head THEN shorter ELSE g.locs[x]
  <2>1. cut.libs \in [Points -> Int] /\ cut.locs \in [Points -> Int]
    BY <1>13, BoardParts
  <2>2. \A x \in Points : cut.libs[x] = IF x = head THEN Cardinality(Around(put, own)) ELSE g.libs[x]
    BY <1>11, <1>13
  <2>3. \A x \in Points : cut.locs[x] = IF x = head THEN Cardinality(own) ELSE g.locs[x]
    BY <1>11, <1>13
  <2>4. \A x \in Points : m.libs[x] = IF x = head THEN fewer ELSE g.libs[x]
    BY <1>22, <2>1, <2>2
  <2>5. \A x \in Points : m.locs[x] = IF x = head THEN shorter ELSE g.locs[x]
    BY <1>22, <2>1, <2>3
  <2>6. \A x \in Points : m.next_in_chain[x] = IF x = before THEN g.next_in_chain[v] ELSE g.next_in_chain[x]
    BY <1>3, <1>13, <1>22
  <2> QED
    BY <1>14, <1>22, <2>4, <2>5, <2>6
<1>24. fewer = Cardinality(Around(p, left)) /\ shorter = Cardinality(left)
  BY <1>18, <1>19 DEF fewer, shorter
<1>25. Members(m, head) = left
  BY <1>2, <1>12, <1>14, <1>15, <1>16, <1>22, <1>23 DEF Members
<1>26. \A x \in left : Group(p, x) = left
  <2> SUFFICES ASSUME NEW x \in left PROVE Group(p, x) = left
    OBVIOUS
  <2>1. Group(p, x) \subseteq left
    BY OwnParts
  <2>2. \A y \in left : y \in Group(p, y)
    BY <1>2, Groups
  <2> QED
    BY <2>1, <2>2
<1>27. Cyclic(m.next_in_chain, left)
  <2>1. \A x \in own \ {v} : m.next_in_chain[x] = IF x = before THEN g.next_in_chain[v] ELSE g.next_in_chain[x]
    BY <1>2, <1>23
  <2>2. g.next_in_chain[before] = v
    BY <1>5 DEF before
  <2> QED
    BY <1>1, <1>6, <1>7, <1>9, <2>1, <2>2, CycleCut
<1>28. ListOf(m, head)
  <2>1. m.locs[head] = Cardinality(left)
    BY <1>12, <1>23, <1>24
  <2>2. \A x \in left : m.colors[x] = c
    BY <1>15, <1>22
  <2> HIDE DEF left
  <2> QED
    BY <1>10, <1>25, <1>27, <2>1, <2>2 DEF ListOf
<1>29. \A k \in Points \ {head} : Members(m, k) # {} => k # h /\ Members(m, k) = Members(g, k)
  <2> SUFFICES ASSUME NEW k \in Points \ {head}, Members(m, k) # {} PROVE k # h /\ Members(m, k) = Members(g, k)
    OBVIOUS
  <2>1. \A x \in Members(m, k) : x \in Points /\ x \notin own /\ p[x] # Empty /\ g.chain_head[x] = k
    BY <1>22, <1>23 DEF Members
  <2>2. k # h
    BY <1>1, <2>1 DEF Members
  <2>3. \A x \in Members(g, k) : x \in Points /\ x \notin own /\ p[x] # Empty /\ g.chain_head[x] = k
    BY <1>1, <2>2 DEF Members
  <2>4. \A x : x \in Members(m, k) <=> x \in Members(g, k)
    BY <1>1, <1>22, <1>23, <2>1, <2>3 DEF Members
  <2> QED
    BY <2>2, <2>4
<1>30. ASSUME NEW k \in Points \ {head}, Members(m, k) # {}
       PROVE  ListOf(m, k) /\ m.libs[k] = Cardinality(Around(p, Members(m, k)))
              /\ \A x \in Members(m, k) : Members(m, k) = Group(p, x)
  <2>1. k # h /\ Members(m, k) = Members(g, k) /\ Members(g, k) # {}
    BY <1>29, <1>30
  <2>2. /\ ListOf(g, k) /\ g.libs[k] = Cardinality(Around(p, Members(g, k)))
        /\ \A x \in Members(g, k) : Members(g, k) = Group(p, x)
    BY <1>1, <2>1
  <2>3. \A x \in Members(g, k) : m.colors[x] = g.colors[x] /\ m.next_in_chain[x] = g.next_in_chain[x]
    <3>1. \A x \in Members(g, k) : x \in Points /\ x # before
      <4>1. \A x \in own : x \notin Members(g, k)
        BY <1>1, <2>1 DEF Members
      <4> QED
        BY <1>6, <4>1 DEF Members
    <3> QED
      BY <1>1, <1>22, <1>23, <3>1
  <2>4. m.locs[k] = g.locs[k] /\ m.libs[k] = g.libs[k]
    BY <1>23
  <2>5. ListOf(m, k)
    BY <2>1, <2>2, <2>3, <2>4, ListSame
  <2> QED
    BY <2>1, <2>2, <2>4, <2>5
<1>31. Linked(m)
  BY <1>28, <1>30 DEF Linked
<1>32. Grouped(m)
  <2>1. \A x \in Members(m, head) : Members(m, head) = Group(p, x)
    BY <1>25, <1>26
  <2> QED
    BY <1>22, <1>30, <2>1 DEF Grouped
<1>33. Counted(m, {})
  <2>1. m.libs[head] = Cardinality(Around(p, Members(m, head)))
    BY <1>12, <1>23, <1>24, <1>25
  <2>2. \A k \in Points : Cardinality(Around(p, Members(m, k))) \in Nat
    BY AroundSets, SetSizes
  <2>3. \A k \in Points : Members(m, k) # {} => m.libs[k] = Cardinality(Around(p, Members(m, k)))
    BY <1>30, <2>1
  <2> QED
    BY <1>22, <2>2, <2>3 DEF Counted
<1>34. Hashed(m) /\ Listed(m)
  BY <1>1, <1>12, <1>22, <1>23, NoLocIsNoPoint DEF Hashed, Listed
<1> QED
  BY <1>22, <1>31, <1>32, <1>33, <1>34 DEF Parted, Chains, m
----------------------------------------------------------------------------
\* The stones of v's list have no head any more.
Loose(g, v) == [g EXCEPT !.chain_head = [w \in Points |-> IF w \in ToSet(Ring(g, v)) THEN NoLoc ELSE @[w]]]

Loosens(g, p, own, m) ==
    /\ Building(m, Points \ own, m)
    /\ m.colors = p /\ m.hash = g.hash /\ m.ko_loc = g.ko_loc /\ m.captures = g.captures

LEMMA Loosened ==
    ASSUME NEW p \in Stones, NEW v \in Points, p[v] = Empty, NEW c \in Colors, NEW g, NEW h,
           NEW own, own = Group(Placed(p, v, c), v), Detached(g, p, Placed(p, v, c), own, h, v)
    PROVE  Loosens(g, p, own, Loose(g, v))
<1> DEFINE put == Placed(p, v, c)
           ring == Ring(g, v)
           heads == [w \in Points |-> IF w \in own THEN NoLoc ELSE g.chain_head[w]]
           m == Loose(g, v)
<1>1. /\ g \in Boards /\ g.colors = p /\ Hashed(g) /\ Listed(g)
      /\ \A k \in Points \ {h} : Members(g, k) # {} =>
            /\ ListOf(g, k) /\ g.libs[k] = Cardinality(Around(p, Members(g, k)))
            /\ \A x \in Members(g, k) : Members(g, k) = Group(p, x)
      /\ h \in own /\ v \in own /\ Cyclic(g.next_in_chain, own)
      /\ \A x \in own : g.chain_head[x] = h
      /\ \A x \in Members(g, h) : x \in own
  BY DEF Detached
<1>2. own \in SUBSET Points
  BY Groups
<1>3. ToSet(ring) = own
  BY <1>1, <1>2, RingWalk DEF Circle
<1>4. g.chain_head \in [Points -> Points \cup {NoLoc}]
  BY <1>1, BoardParts
<1>5. m = [g EXCEPT !.chain_head = heads]
  BY <1>1, <1>3 DEF Boards, Loose
<1>6. heads \in [Points -> Points \cup {NoLoc}] /\ \A x \in Points : heads[x] = IF x \in own THEN NoLoc ELSE g.chain_head[x]
  BY <1>4
<1> HIDE DEF m, heads
<1>7. /\ m \in Boards /\ m.colors = p /\ m.hash = g.hash /\ m.ko_loc = g.ko_loc /\ m.captures = g.captures
      /\ m.chain_head = heads /\ m.next_in_chain = g.next_in_chain /\ m.libs = g.libs /\ m.locs = g.locs
  BY <1>1, <1>5, <1>6 DEF Boards
<1>8. \A k \in Points : Members(m, k) # {} => k # h /\ Members(m, k) = Members(g, k)
  <2> SUFFICES ASSUME NEW k \in Points, Members(m, k) # {} PROVE k # h /\ Members(m, k) = Members(g, k)
    OBVIOUS
  <2>1. \A x \in Members(m, k) : x \in Points /\ x \notin own /\ p[x] # Empty /\ g.chain_head[x] = k
    BY <1>6, <1>7, NoLocIsNoPoint DEF Members
  <2>2. k # h
    BY <1>1, <2>1 DEF Members
  <2>3. \A x \in Members(g, k) : x \in Points /\ x \notin own /\ p[x] # Empty /\ g.chain_head[x] = k
    BY <1>1, <2>2 DEF Members
  <2>4. \A x : x \in Members(m, k) <=> x \in Members(g, k)
    BY <1>1, <1>6, <1>7, <2>1, <2>3 DEF Members
  <2> QED
    BY <2>2, <2>4
<1>9. ASSUME NEW k \in Points, Members(m, k) # {}
      PROVE  ListOf(m, k) /\ m.libs[k] = Cardinality(Around(p, Members(m, k)))
             /\ \A x \in Members(m, k) : Members(m, k) = Group(p, x)
  <2>1. k # h /\ Members(m, k) = Members(g, k) /\ Members(g, k) # {}
    BY <1>8, <1>9
  <2>2. /\ ListOf(g, k) /\ g.libs[k] = Cardinality(Around(p, Members(g, k)))
        /\ \A x \in Members(g, k) : Members(g, k) = Group(p, x)
    BY <1>1, <2>1
  <2>3. \A x \in Members(g, k) : m.colors[x] = g.colors[x] /\ m.next_in_chain[x] = g.next_in_chain[x]
    BY <1>1, <1>7
  <2>4. ListOf(m, k)
    BY <1>7, <2>1, <2>2, <2>3, ListSame
  <2> QED
    BY <1>7, <2>1, <2>2, <2>4
<1>10. Linked(m) /\ Grouped(m)
  BY <1>7, <1>9 DEF Linked, Grouped
<1>11. Counted(m, {})
  <2>1. \A k \in Points : Cardinality(Around(p, Members(m, k))) \in Nat
    BY AroundSets, SetSizes
  <2> QED
    BY <1>7, <1>9, <2>1 DEF Counted
<1>12. \A x \in Points : x \in Points \ own /\ m.colors[x] # Empty => m.chain_head[x] # NoLoc
  BY <1>1, <1>6, <1>7 DEF Listed
<1>13. Building(m, Points \ own, m)
  BY <1>7, <1>10, <1>11, <1>12 DEF Building
<1> QED
  BY <1>7, <1>13 DEF Loosens, m

\* The groups that the stone at v held together are built one by one.
LEMMA PartsRebuilt ==
    ASSUME NEW p \in Stones, NEW v \in Points, p[v] = Empty, NEW c \in Colors, NEW g, NEW h,
           NEW own, own = Group(Placed(p, v, c), v), Detached(g, p, Placed(p, v, c), own, h, v)
    PROVE  Parted(g, p, Rebuild(g, v, c))
<1> DEFINE list == AdjSeq[v]
           n == Len(list)
           s0 == Loose(g, v)
           op(s, w) == IF s.colors[w] = c /\ s.chain_head[w] = NoLoc THEN RebuildChain(s, w) ELSE s
           D(k) == (Points \ own) \cup {w \in Points : p[w] = c /\ \E i \in 1..k : list[i] = w}
           Loop(f) == f = [k \in 0..n |-> IF k = 0 THEN s0 ELSE op(f[k - 1], list[k])]
           J == [k \in 0..n |-> {s \in Boards : Building(s0, D(k), s)}]
           f == CHOOSE f : Loop(f)
<1>1. n \in Nat
  BY AdjSeqIsAdj
<1>2. Rebuild(g, v, c) = f[n]
  BY DEF Rebuild, InTurn, Loose
<1>3. /\ Building(s0, Points \ own, s0)
      /\ s0.colors = p /\ s0.hash = g.hash /\ s0.ko_loc = g.ko_loc /\ s0.captures = g.captures
  <2>1. Loosens(g, p, own, Loose(g, v))
    BY Loosened
  <2> QED
    BY <2>1 DEF Loosens
<1> HIDE DEF s0
<1>4. s0 \in J[0]
  <2>1. D(0) = Points \ own
    OBVIOUS
  <2>2. s0 \in Boards /\ Building(s0, D(0), s0)
    BY <1>3, <2>1 DEF Building
  <2> HIDE DEF D, n
  <2> QED
    BY <1>1, <2>2
<1>5. c # Empty
  BY Kinds
<1>6. ASSUME NEW k \in 1..n, NEW s \in J[k - 1] PROVE op(s, list[k]) \in J[k]
  <2>1. k - 1 \in 0..n /\ k \in 0..n
    BY <1>1
  <2>2. Building(s0, D(k - 1), s)
    BY <1>6, <2>1
  <2> DEFINE w == list[k]
  <2>3. w \in Points
    BY AdjSeqIsAdj
  <2> HIDE DEF J
  <2>4. \A x \in Points : x \in D(k) => x \in D(k - 1) \/ (x = w /\ p[x] = c)
    <3> SUFFICES ASSUME NEW x \in Points, p[x] = c, NEW i \in 1..k, list[i] = x, i \notin 1..k - 1 PROVE x = w
      OBVIOUS
    <3>1. i = k
      BY <1>1
    <3> QED
      BY <3>1
  <2> HIDE DEF D, list, n
  <2>5. s.colors = p
    BY <1>3, <2>2 DEF Building
  <2>6. Building(s0, D(k - 1) \cup {w}, op(s, w)) \/ (p[w] # c /\ Building(s0, D(k - 1), op(s, w)))
    <3> HIDE DEF w
    <3>1. CASE p[w] = c /\ s.chain_head[w] = NoLoc
      <4>1. op(s, w) = RebuildChain(s, w)
        BY <2>5, <3>1
      <4>2. s0.colors[w] # Empty
        BY <1>3, <1>5, <3>1
      <4> QED
        BY <2>2, <2>3, <3>1, <4>1, <4>2, BuiltNext
    <3>2. CASE p[w] = c /\ s.chain_head[w] # NoLoc
      <4>1. op(s, w) = s
        BY <3>2
      <4> QED
        BY <2>2, <3>2, <4>1, BuiltAlready
    <3>3. CASE p[w] # c
      <4>1. op(s, w) = s
        BY <2>5, <3>3
      <4> QED
        BY <2>2, <3>3, <4>1
    <3> QED
      BY <3>1, <3>2, <3>3
  <2> HIDE DEF op
  <2>7. Building(s0, D(k), op(s, w))
    BY <2>4, <2>6 DEF Building
  <2>8. op(s, w) \in Boards
    BY <2>7 DEF Building
  <2> QED
    BY <2>1, <2>7, <2>8 DEF J
<1>7. J[n] = {s \in Boards : Building(s0, D(n), s)}
  BY <1>1
<1>8. \A w \in Adj[v] : p[w] = c => w \in D(n)
  <2>1. \A w : w \in Adj[v] <=> \E i \in 1..n : list[i] = w
    BY AdjSeqIsAdj
  <2> QED
    BY <2>1, Symmetric
<1> HIDE DEF J, list, n, op, D
<1>9. \E e : Loop(e)
  <2> DEFINE U == UNION {J[k] : k \in 0..n}
             step == [x \in (1..n) \X U |-> op(x[2], list[x[1]])]
  <2>1. \A k \in 1..n : \A s \in J[k - 1] : step[<<k, s>>] = op(s, list[k]) /\ step[<<k, s>>] \in J[k]
    <3> TAKE k \in 1..n
    <3> TAKE s \in J[k - 1]
    <3>1. k - 1 \in 0..n
      BY <1>1
    <3>2. <<k, s>> \in (1..n) \X U
      BY <3>1
    <3>3. step[<<k, s>>] = op(s, list[k])
      BY <3>2
    <3> HIDE DEF step
    <3> QED
      BY <1>6, <3>3
  <2> HIDE DEF step, U
  <2>2. PICK e : LoopOf(e, n, s0, step) /\ \A k \in 0..n : e[k] \in J[k]
    <3>1. \A k \in 1..n : \A s \in J[k - 1] : step[<<k, s>>] \in J[k]
      BY <2>1
    <3> QED
      BY <1>1, <1>4, <3>1, Looped
  <2>3. \A k \in 0..n : (IF k = 0 THEN s0 ELSE step[<<k, e[k - 1]>>])
                        = (IF k = 0 THEN s0 ELSE op(e[k - 1], list[k]))
    <3> TAKE k \in 0..n
    <3>1. CASE k # 0
      <4>1. k \in 1..n /\ k - 1 \in 0..n
        BY <1>1, <3>1
      <4> QED
        BY <2>1, <2>2, <4>1
    <3> QED
      BY <3>1
  <2>4. Loop(e)
    <3>1. [k \in 0..n |-> IF k = 0 THEN s0 ELSE step[<<k, e[k - 1]>>]]
          = [k \in 0..n |-> IF k = 0 THEN s0 ELSE op(e[k - 1], list[k])]
      BY <2>3, Zenon
    <3> QED
      BY <2>2, <3>1 DEF LoopOf
  <2> QED
    BY <2>4
<1>10. Loop(f)
  BY <1>9
<1> HIDE DEF f
<1>11. f[0] = s0 /\ \A k \in 1..n : f[k] = op(f[k - 1], list[k])
  <2>1. \A k \in 0..n : f[k] = IF k = 0 THEN s0 ELSE op(f[k - 1], list[k])
    BY <1>10
  <2> QED
    BY <1>1, <2>1
<1>12. f[n] \in J[n]
  <2>1. GoesOn(f, J, n)
    BY <1>6, <1>11 DEF GoesOn
  <2> QED
    BY <1>1, <1>4, <1>11, <2>1, LoopEnds
<1> DEFINE m == f[n]
<1>13. Building(s0, D(n), m)
  BY <1>7, <1>12
<1> HIDE DEF m
<1>14. /\ m \in Boards /\ Linked(m) /\ Counted(m, {}) /\ Grouped(m)
       /\ m.colors = p /\ m.hash = g.hash /\ m.ko_loc = g.ko_loc /\ m.captures = g.captures
       /\ \A x \in Points : x \in D(n) /\ p[x] # Empty => m.chain_head[x] # NoLoc
  BY <1>3, <1>13 DEF Building
<1>15. Listed(m)
  <2> SUFFICES ASSUME NEW x \in Points, p[x] # Empty, m.chain_head[x] = NoLoc PROVE FALSE
    BY <1>14 DEF Listed
  <2>1. x \in own \ {v}
    BY <1>14 DEF D
  <2>2. PICK w \in Adj[v] : w \in Group(p, x) /\ p[w] = c
    BY <2>1, OwnParts
  <2>3. w \in Points /\ m.chain_head[w] # NoLoc
    BY <1>5, <1>8, <1>14, <2>2, Symmetric
  <2>4. m.chain_head[w] \in Points /\ w \in Members(m, m.chain_head[w])
    BY <1>5, <1>14, <2>2, <2>3, StoneOnList
  <2>5. Members(m, m.chain_head[w]) = Group(p, w)
    BY <1>14, <2>4 DEF Grouped
  <2>6. Group(p, w) = Group(p, x) /\ x \in Group(p, x)
    BY <2>2, Groups
  <2>7. x \in Members(m, m.chain_head[w])
    BY <2>5, <2>6
  <2> QED
    BY <2>3, <2>7 DEF Members
<1>16. Hashed(m)
  <2>1. Hashed(g) /\ g.colors = p
    BY DEF Detached
  <2> QED
    BY <1>14, <2>1 DEF Hashed
<1>17. Parted(g, p, m)
  BY <1>14, <1>15, <1>16 DEF Parted, Chains
<1> QED
  BY <1>2, <1>17 DEF m
----------------------------------------------------------------------------
\* What undo() makes of the chain of a stone that is off.
Lifted(g, v, c) ==
    IF ChainSize(g, v) = 1 THEN g
    ELSE IF Cardinality({w \in Adj[v] : g.colors[w] = c}) <= 1 THEN Unlink(g, v)
    ELSE Rebuild(g, v, c)

LEMMA StoneLifted ==
    ASSUME NEW f, Chains(f), NEW v \in Points, NEW c \in Colors, NEW p \in Stones, p[v] = Empty,
           f.colors = Placed(p, v, c)
    PROVE  Parted(f, p, Lifted(Gone(f, v, c), v, c))
<1> DEFINE put == Placed(p, v, c)
           own == Group(put, v)
           h == f.chain_head[v]
           g == Gone(f, v, c)
           N == {w \in Adj[v] : p[w] = c}
<1>1. Detached(g, p, put, own, h, v) /\ g.ko_loc = f.ko_loc /\ g.captures = f.captures
  BY TakenOff
<1> HIDE DEF h, g
<1>2. g.colors = p /\ v \in own /\ g.chain_head[v] = h /\ g.locs[h] = Cardinality(own)
  BY <1>1 DEF Detached
<1>3. own \in SUBSET Points /\ N \in SUBSET Points
  BY Groups, Symmetric
<1>4. ChainSize(g, v) = 1 <=> own = {v}
  <2>1. ChainSize(g, v) = Cardinality(own)
    BY <1>2 DEF ChainSize
  <2> HIDE DEF own
  <2>2. Cardinality(own) = 1 <=> \E x : own = {x}
    BY <1>3, SetSizes
  <2> QED
    BY <1>2, <2>1, <2>2
<1>5. ASSUME Cardinality(N) <= 1, NEW x \in own \ {v}, NEW y \in own \ {v} PROVE Group(p, x) = Group(p, y)
  <2>1. PICK w \in Adj[v] : w \in Group(p, x) /\ p[w] = c
    BY OwnParts
  <2>2. PICK u \in Adj[v] : u \in Group(p, y) /\ p[u] = c
    BY OwnParts
  <2>3. w = u
    <3>1. w \in N /\ u \in N
      BY <2>1, <2>2
    <3> HIDE DEF N
    <3>2. Cardinality(N) \in Nat /\ (Cardinality(N) = 0 <=> N = {}) /\ (Cardinality(N) = 1 <=> \E z : N = {z})
      BY <1>3, SetSizes
    <3>3. Cardinality(N) = 0 \/ Cardinality(N) = 1
      BY <1>5, <3>2
    <3> QED
      BY <3>1, <3>2, <3>3
  <2>4. x \in Points /\ y \in Points
    BY <1>3
  <2>5. Group(p, w) = Group(p, x)
    BY <2>1, <2>4, Groups
  <2>6. Group(p, u) = Group(p, y)
    BY <2>2, <2>4, Groups
  <2> QED
    BY <2>3, <2>5, <2>6
<1> HIDE DEF own, put, N
<1>6. own = Group(Placed(p, v, c), v) /\ Detached(g, p, Placed(p, v, c), own, h, v)
  BY <1>1 DEF own, put
<1>7. Parted(g, p, Lifted(g, v, c))
  <2>1. CASE own = {v}
    <3>1. Lifted(g, v, c) = g
      BY <1>4, <2>1 DEF Lifted
    <3>2. Parted(g, p, g)
      BY <1>6, <2>1, StoneAlone
    <3> QED
      BY <3>1, <3>2
  <2>2. CASE own # {v} /\ Cardinality(N) <= 1
    <3>1. Lifted(g, v, c) = Unlink(g, v)
      BY <1>2, <1>4, <2>2 DEF Lifted, N
    <3>2. \A x, y \in own \ {v} : Group(p, x) = Group(p, y)
      BY <1>5, <2>2
    <3>3. Parted(g, p, Unlink(g, v))
      BY <1>6, <2>2, <3>2, Unlinked
    <3> QED
      BY <3>1, <3>3
  <2>3. CASE own # {v} /\ ~(Cardinality(N) <= 1)
    <3>1. Lifted(g, v, c) = Rebuild(g, v, c)
      BY <1>2, <1>4, <2>3 DEF Lifted, N
    <3>2. Parted(g, p, Rebuild(g, v, c))
      BY <1>6, PartsRebuilt
    <3> QED
      BY <3>1, <3>2
  <2> QED
    BY <2>1, <2>2, <2>3
<1>8. Parted(f, p, Lifted(g, v, c))
  BY <1>1, <1>7 DEF Parted
<1> QED
  BY <1>8 DEF g

LEMMA UndoneIs ==
    ASSUME NEW g, NEW r
    PROVE  Undone(g, r) =
             LET v == r.loc   c == r.pla
                 captives == CaptivesOf(g, v, c, r.capDirs, r.ko_loc)
                 full == IF r.suicided THEN Back(captives, v, c) ELSE captives
             IN  IF v = NoLoc THEN [g EXCEPT !.ko_loc = r.ko_loc] ELSE Lifted(Gone(full, v, c), v, c)
BY DEF Undone, CaptivesOf, Back, Lifted, Gone
----------------------------------------------------------------------------
(* Taking a move back *)

\* The neighbours in whose direction a move captures.
DirsOf(p, v, c) == {w \in Adj[v] : p[w] = Opp(c) /\ Liberties(Placed(p, v, c), w) = {}}

\* The board with all stones of the move and those it captured.
FullBoard(f, p, v, c, ko, pris) ==
    Chains(f) /\ f.colors = Placed(p, v, c) /\ f.ko_loc = ko /\ f.captures = pris

LEMMA DirsTaken ==
    ASSUME NEW p \in Stones, NEW v \in Points, p[v] = Empty, NEW c \in Colors
    PROVE  /\ DirsOf(p, v, c) \in SUBSET Adj[v]
           /\ Captured(Placed(p, v, c), v, c) = UNION {Group(Placed(p, v, c), w) : w \in DirsOf(p, v, c)}
           /\ \A w \in DirsOf(p, v, c) : w \in Captured(Placed(p, v, c), v, c)
<1> DEFINE put == Placed(p, v, c)
           D == DirsOf(p, v, c)
<1>1. \A w \in Points : put[w] = IF w = v THEN c ELSE p[w]
  BY DEF Placed, Put
<1> HIDE DEF put
<1>2. \A w \in Adj[v] : w \in Points /\ w # v
  BY Symmetric
<1>3. D = {w \in Adj[v] : put[w] = Opponent(c) /\ Liberties(put, w) = {}}
  BY <1>1, <1>2 DEF DirsOf, Opp, put
<1>4. Captured(put, v, c) = UNION {Group(put, w) : w \in D}
  BY <1>3 DEF Captured
<1>5. D \in SUBSET Adj[v]
  BY <1>3
<1> HIDE DEF D
<1>6. \A w \in D : w \in Group(put, w)
  BY <1>2, <1>5, Groups
<1>7. \A w \in D : w \in Captured(put, v, c)
  BY <1>4, <1>6
<1> QED
  BY <1>4, <1>5, <1>7 DEF D, put

\* The counts that a move added are taken off again.
LEMMA CountsBack ==
    ASSUME NEW pris \in [Colors -> Int], NEW c \in Colors, NEW n \in Nat
    PROVE  [[pris EXCEPT ![c] = @ + n] EXCEPT ![c] = @ - n] = pris
<1> DEFINE back == [[pris EXCEPT ![c] = @ + n] EXCEPT ![c] = @ - n]
<1>1. back \in [Colors -> Int] /\ \A d \in Colors : back[d] = IF d = c THEN (pris[d] + n) - n ELSE pris[d]
  OBVIOUS
<1>2. \A d \in Colors : back[d] = pris[d]
  BY <1>1
<1> HIDE DEF back
<1>3. back = pris
  BY <1>1, <1>2
<1> QED
  BY <1>3 DEF back

LEMMA CaptivesBack ==
    ASSUME NEW g, Chains(g), NEW v \in Points, NEW c \in Colors, NEW p \in Stones, p[v] = Empty,
           NEW ko \in Points \cup {NoLoc}, NEW pris \in [Colors -> Int],
           g.colors = LeftBy(p, v, c),
           g.captures = [pris EXCEPT ![c] = @ + Cardinality(Captured(Placed(p, v, c), v, c))]
    PROVE  FullBoard(CaptivesOf(g, v, c, DirsOf(p, v, c), ko), p, v, c, ko, pris)
<1> DEFINE put == Placed(p, v, c)
           D == DirsOf(p, v, c)
           taken == Captured(put, v, c)
           left == LeftBy(p, v, c)
           o == Opp(c)
           m == CaptivesOf(g, v, c, D, ko)
<1>1. \A w \in Points : put[w] = IF w = v THEN c ELSE p[w]
  BY DEF Placed, Put
<1>2. D \in SUBSET Adj[v] /\ taken = UNION {Group(put, w) : w \in D}
  BY DirsTaken
<1>3. c # Empty /\ o # c /\ o # Empty /\ \A d \in Colors : d = c \/ d = o
  BY Kinds DEF Opp, Colors, Opponent
<1>4. taken \in SUBSET Points /\ Cardinality(taken) \in Nat
  BY MoveMade
<1>5. \A x \in taken : put[x] = o
  BY MoveMade DEF Opp
<1>6. \A w \in Points : left[w] = IF w \in taken THEN Empty ELSE put[w]
  BY DEF LeftBy, Put
<1>7. put \in Stones
  BY MoveMade
<1>8. \A w \in D : put[w] = o /\ Liberties(put, w) = {} /\ w \in Points
  BY <1>1, Symmetric DEF DirsOf
<1> HIDE DEF put, left, taken, D
<1>9. Surrounded(g, put, D, c)
  <2> SUFFICES ASSUME NEW w \in D
               PROVE  /\ put[w] = o
                      /\ \A x \in Group(put, w) : /\ g.colors[x] = Empty
                                                  /\ \A u \in Adj[x] : u \notin Group(put, w) => g.colors[u] = c
    BY DEF Surrounded
  <2>1. Group(put, w) \subseteq taken /\ Group(put, w) \in SUBSET Points
    BY <1>2, <1>4
  <2>2. ASSUME NEW x \in Group(put, w), NEW u \in Adj[x], u \notin Group(put, w) PROVE left[u] = c
    <3>1. x \in Points /\ u \in Points /\ x \in Adj[u]
      BY <2>1, Symmetric
    <3>2. put[u] # o
      BY <1>8, <2>2, <3>1, Groups
    <3>3. put[u] # Empty
      <4> SUFFICES ASSUME put[u] = Empty PROVE FALSE
        OBVIOUS
      <4>1. u \in Liberties(put, w)
        BY <2>2, <3>1 DEF Liberties, Around
      <4> QED
        BY <1>8, <4>1
    <3>4. put[u] = c
      BY <1>3, <1>7, <3>1, <3>2, <3>3 DEF Stones
    <3> QED
      BY <1>3, <1>5, <1>6, <3>1, <3>4
  <2>3. \A x \in Group(put, w) : left[x] = Empty
    BY <1>6, <2>1
  <2>4. g.colors = left
    BY DEF left
  <2> QED
    BY <1>8, <2>2, <2>3, <2>4
<1>10. /\ Chains(m) /\ m.colors = Put(g.colors, taken, o) /\ m.ko_loc = ko
       /\ m.captures = [g.captures EXCEPT ![c] = @ - Cardinality(taken)]
  <2> HIDE DEF m
  <2>1. Regained(g, CaptivesOf(g, v, c, D, ko), UNION {Group(put, w) : w \in D}, Opp(c), c, ko)
    BY <1>2, <1>9, Captives
  <2> QED
    BY <1>2, <2>1 DEF m, Regained
<1> HIDE DEF m
<1>11. m.colors = put
  <2>1. g.colors = left /\ left \in Stones
    BY MoveMade DEF left
  <2>2. \A w \in Points : Put(left, taken, o)[w] = put[w]
    BY <1>5, <1>6 DEF Put
  <2>3. Put(left, taken, o) \in Stones
    <3>1. o \in Colors
      BY Kinds DEF Opp
    <3> QED
      BY <1>4, <2>1, <3>1, PutStones
  <2> QED
    BY <1>7, <1>10, <2>1, <2>2, <2>3, SameStones
<1>12. m.captures = pris
  <2>1. m.captures = [[pris EXCEPT ![c] = @ + Cardinality(taken)] EXCEPT ![c] = @ - Cardinality(taken)]
    BY <1>10 DEF taken, put
  <2> QED
    BY <1>4, <2>1, CountsBack
<1> QED
  BY <1>10, <1>11, <1>12 DEF FullBoard, m, D, put

LEMMA SuicideBack ==
    ASSUME NEW g, Chains(g), NEW v \in Points, NEW c \in Colors, NEW p \in Stones, p[v] = Empty,
           NEW ko \in Points \cup {NoLoc}, NEW pris \in [Colors -> Int],
           Smothered(p, v, c),
           g.colors = Put(LeftBy(p, v, c), Group(LeftBy(p, v, c), v), Empty),
           g.captures = [pris EXCEPT ![Opp(c)] = @ + Cardinality(Group(LeftBy(p, v, c), v))]
    PROVE  FullBoard(Back(CaptivesOf(g, v, c, DirsOf(p, v, c), ko), v, c), p, v, c, ko, pris)
<1> DEFINE put == Placed(p, v, c)
           D == DirsOf(p, v, c)
           taken == Captured(put, v, c)
           left == LeftBy(p, v, c)
           o == Opp(c)
           own == Group(put, v)
           q == g.colors
           h == CaptivesOf(g, v, c, D, ko)
           m == Back(h, v, c)
<1>1. put \in Stones /\ put[v] = c /\ left \in Stones /\ left[v] = c
  BY MoveMade
<1>2. c # Empty /\ o \in Colors
  BY Kinds DEF Opp
<1>3. \A w \in Points : left[w] = IF w \in taken THEN Empty ELSE put[w]
  BY DEF LeftBy, Put
<1>4. Around(left, Group(left, v)) = {}
  BY DEF Smothered
<1>5. taken = UNION {Group(put, w) : w \in D} /\ D \in SUBSET Adj[v] /\ \A w \in D : w \in taken
  BY DirsTaken
<1>6. q = Put(left, Group(left, v), Empty) /\ g.captures = [pris EXCEPT ![o] = @ + Cardinality(Group(left, v))]
  OBVIOUS
<1> HIDE DEF put, left, taken, D, q
<1>7. D = {}
  <2> SUFFICES ASSUME NEW w \in D PROVE FALSE
    OBVIOUS
  <2>1. w \in Points /\ v \in Adj[w] /\ v \in Group(left, v)
    BY <1>5, Groups, Symmetric
  <2>2. left[w] = Empty
    BY <1>3, <1>5, <2>1
  <2>3. w \in Around(left, Group(left, v))
    BY <1>5, <2>1, <2>2, Symmetric DEF Around
  <2> QED
    BY <1>4, <2>3
<1>8. taken = {}
  BY <1>5, <1>7
<1>9. left = put
  BY <1>1, <1>3, <1>8, SameStones
<1>10. /\ own \in SUBSET Points /\ v \in own /\ (\A w \in own : put[w] = c) /\ Around(put, own) = {}
       /\ \A w \in Points : \A u \in own : put[w] = c /\ u \in Adj[w] => w \in own
  BY <1>1, <1>4, <1>9, Groups
<1>11. Connected(own, v)
  BY GroupConnected
<1>12. g.captures = [pris EXCEPT ![o] = @ + Cardinality(own)] /\ q = Put(put, own, Empty)
  BY <1>6, <1>9
<1> HIDE DEF own
<1>13. \A w \in Points : q[w] = IF w \in own THEN Empty ELSE put[w]
  BY <1>12 DEF Put
<1>14. \A u \in own : \A w \in Adj[u] : w \in Points /\ u \in Adj[w] /\ (w \in own \/ (put[w] # Empty /\ put[w] # c))
  <2> SUFFICES ASSUME NEW u \in own, NEW w \in Adj[u]
               PROVE  w \in Points /\ u \in Adj[w] /\ (w \in own \/ (put[w] # Empty /\ put[w] # c))
    OBVIOUS
  <2>1. u \in Points /\ w \in Points /\ u \in Adj[w]
    BY <1>10, Symmetric
  <2>2. put[w] # Empty
    <3> SUFFICES ASSUME put[w] = Empty PROVE FALSE
      OBVIOUS
    <3>1. w \in Around(put, own)
      BY <2>1 DEF Around
    <3> QED
      BY <1>10, <3>1
  <2> QED
    BY <1>10, <2>1, <2>2
<1>15. Group(q, v) = own
  <2>1. q[v] = Empty /\ \A w \in own : q[w] = q[v]
    BY <1>10, <1>13
  <2>2. \A u \in own : \A w \in Adj[u] : q[w] = q[v] => w \in own
    BY <1>10, <1>13, <1>14
  <2> QED
    BY <1>10, <1>11, <2>1, <2>2, GroupIs
<1>16. \A x \in own : \A w \in Adj[x] : q[w] # c
  BY <1>2, <1>13, <1>14
<1>17. Chains(h) /\ h.colors = q /\ h.ko_loc = ko /\ h.captures = g.captures
  <2> HIDE DEF h
  <2>1. Surrounded(g, put, D, c)
    BY <1>7 DEF Surrounded
  <2>2. Regained(g, CaptivesOf(g, v, c, D, ko), UNION {Group(put, w) : w \in D}, Opp(c), c, ko)
    BY <1>5, <2>1, Captives
  <2>3. UNION {Group(put, w) : w \in D} = {} /\ Cardinality({}) = 0
    BY <1>7, FS_EmptySet
  <2>4. g.colors \in Stones /\ g.captures \in [Colors -> Int]
    BY BoardParts DEF Chains
  <2>5. Put(g.colors, {}, Opp(c)) = g.colors
    BY <2>4 DEF Put, Stones
  <2>6. [g.captures EXCEPT ![c] = @ - 0] = g.captures
    <3>1. \A d \in Colors : [g.captures EXCEPT ![c] = @ - 0][d] = g.captures[d]
      BY <2>4
    <3> QED
      BY <2>4, <3>1
  <2> QED
    BY <2>2, <2>3, <2>5, <2>6 DEF h, q, Regained
<1> HIDE DEF h
<1>18. /\ Chains(m) /\ m.colors = Put(h.colors, own, c) /\ m.ko_loc = h.ko_loc
       /\ m.captures = [h.captures EXCEPT ![o] = @ - Cardinality(own)]
  <2>1. own = Group(h.colors, v) /\ h.colors[v] = Empty /\ \A x \in own : \A w \in Adj[x] : h.colors[w] # c
    BY <1>10, <1>13, <1>15, <1>16, <1>17
  <2>2. Regained(h, Back(h, v, c), own, c, Opp(c), h.ko_loc)
    BY <1>17, <2>1, PutBack
  <2> QED
    BY <2>2 DEF Regained
<1> HIDE DEF m
<1>19. m.colors = put
  <2>1. \A w \in Points : Put(q, own, c)[w] = put[w]
    BY <1>10, <1>13 DEF Put
  <2>2. m.colors \in Stones
    BY <1>18, BoardParts DEF Chains
  <2> QED
    BY <1>1, <1>17, <1>18, <2>1, <2>2, SameStones
<1>20. m.captures = pris
  <2>1. m.captures = [[pris EXCEPT ![o] = @ + Cardinality(own)] EXCEPT ![o] = @ - Cardinality(own)]
    BY <1>12, <1>17, <1>18
  <2>2. Cardinality(own) \in Nat
    BY <1>10, SetSizes
  <2> HIDE DEF o
  <2> QED
    BY <1>2, <2>1, <2>2, CountsBack
<1> QED
  BY <1>17, <1>18, <1>19, <1>20 DEF FullBoard, m, h, D, put
----------------------------------------------------------------------------
\* A position of a game.
Standing(s) ==
    /\ s = Position(s.stones, s.ko, s.prisoners)
    /\ s.stones \in Stones /\ Settled(s.stones)
    /\ s.ko \in Points \cup {NoKo} /\ s.prisoners \in [Colors -> Int]
    /\ s.ko # NoKo => \A w \in Adj[s.ko] : s.stones[w] # Empty

\* The record says how the position s became t.
Recalls(r, s, t) ==
    /\ r.ko_loc = s.ko
    /\ \/ r.loc = NoLoc /\ t = Passed(s)
       \/ /\ r.loc \in Points /\ r.pla \in Colors /\ s.stones[r.loc] = Empty
          /\ t = After(s, r.loc, r.pla)
          /\ r.capDirs = DirsOf(s.stones, r.loc, r.pla)
          /\ r.suicided = Smothered(s.stones, r.loc, r.pla)

\* The stones and prisoners after a move that takes its own group off, and after another.
Fallen(g, s, v, c) ==
    LET left == LeftBy(s.stones, v, c) IN
    /\ g.colors = Put(left, Group(left, v), Empty)
    /\ g.captures = [s.prisoners EXCEPT ![Opp(c)] = @ + Cardinality(Group(left, v))]

Stood(g, s, v, c) ==
    /\ g.colors = LeftBy(s.stones, v, c)
    /\ g.captures = [s.prisoners EXCEPT ![c] = @ + Cardinality(Captured(Placed(s.stones, v, c), v, c))]

LEMMA AfterParts ==
    ASSUME NEW s, NEW v, NEW c, NEW g, PositionOf(g) = After(s, v, c)
    PROVE  IF Smothered(s.stones, v, c) THEN Fallen(g, s, v, c) ELSE Stood(g, s, v, c)
BY DEF PositionOf, Position, After, Smothered, LeftBy, Placed, Opp, Fallen, Stood

LEMMA MoveUndone ==
    ASSUME NEW g, Solid(g), NEW s, Standing(s), NEW r, r.loc # NoLoc, Recalls(r, s, PositionOf(g))
    PROVE  Implements(Undone(g, r), s)
<1> DEFINE v == r.loc
           c == r.pla
           p == s.stones
           D == DirsOf(p, v, c)
           full == IF r.suicided THEN Back(CaptivesOf(g, v, c, D, s.ko), v, c) ELSE CaptivesOf(g, v, c, D, s.ko)
           m == Undone(g, r)
<1>1. /\ v \in Points /\ c \in Colors /\ p \in Stones /\ p[v] = Empty /\ r.ko_loc = s.ko /\ r.capDirs = D
      /\ PositionOf(g) = After(s, v, c) /\ r.suicided = Smothered(p, v, c)
      /\ s.ko \in Points \cup {NoLoc} /\ s.prisoners \in [Colors -> Int]
  BY DEF Recalls, Standing, NoLoc
<1>2. Chains(g)
  BY DEF Solid, Chains
<1> HIDE DEF v, c, p
<1>3. m = Lifted(Gone(full, v, c), v, c)
  <2> HIDE DEF D
  <2>1. m = LET captives == CaptivesOf(g, v, c, D, s.ko)
                all == IF r.suicided THEN Back(captives, v, c) ELSE captives
            IN  Lifted(Gone(all, v, c), v, c)
    BY <1>1, UndoneIs DEF v, c
  <2> QED
    BY <2>1
<1>4. FullBoard(full, p, v, c, s.ko, s.prisoners)
  <2>1. CASE Smothered(p, v, c)
    <3>1. /\ g.colors = Put(LeftBy(p, v, c), Group(LeftBy(p, v, c), v), Empty)
          /\ g.captures = [s.prisoners EXCEPT ![Opp(c)] = @ + Cardinality(Group(LeftBy(p, v, c), v))]
      <4>1. Fallen(g, s, v, c)
        BY <1>1, <2>1, AfterParts DEF p
      <4> QED
        BY <4>1 DEF Fallen, p
    <3>2. FullBoard(Back(CaptivesOf(g, v, c, DirsOf(p, v, c), s.ko), v, c), p, v, c, s.ko, s.prisoners)
      BY <1>1, <1>2, <2>1, <3>1, SuicideBack
    <3>3. full = Back(CaptivesOf(g, v, c, DirsOf(p, v, c), s.ko), v, c)
      BY <1>1, <2>1
    <3> QED
      BY <3>2, <3>3
  <2>2. CASE ~Smothered(p, v, c)
    <3>1. /\ g.colors = LeftBy(p, v, c)
          /\ g.captures = [s.prisoners EXCEPT ![c] = @ + Cardinality(Captured(Placed(p, v, c), v, c))]
      <4>1. Stood(g, s, v, c)
        BY <1>1, <2>2, AfterParts DEF p
      <4> QED
        BY <4>1 DEF Stood, p
    <3>2. FullBoard(CaptivesOf(g, v, c, DirsOf(p, v, c), s.ko), p, v, c, s.ko, s.prisoners)
      BY <1>1, <1>2, <3>1, CaptivesBack
    <3>3. full = CaptivesOf(g, v, c, DirsOf(p, v, c), s.ko)
      BY <1>1, <2>2
    <3> QED
      BY <3>2, <3>3
  <2> QED
    BY <2>1, <2>2
<1> HIDE DEF full, m
<1>5. Chains(full) /\ full.colors = Placed(p, v, c) /\ full.ko_loc = s.ko /\ full.captures = s.prisoners
  BY <1>4 DEF FullBoard
<1>6. Parted(full, p, m)
  BY <1>1, <1>3, <1>5, StoneLifted
<1>7. Chains(m) /\ m.colors = p /\ m.ko_loc = s.ko /\ m.captures = s.prisoners
  BY <1>5, <1>6 DEF Parted
<1>8. Solid(m)
  BY <1>7 DEF Solid, Chains, Standing, p
<1>9. KoKept(m) /\ PositionOf(m) = s
  BY <1>7 DEF KoKept, PositionOf, Standing, p, NoLoc
<1> QED
  BY <1>8, <1>9 DEF Implements, m

LEMMA UndoRestores ==
    ASSUME NEW g, Solid(g), NEW s, Standing(s), NEW r, Recalls(r, s, PositionOf(g))
    PROVE  Implements(Undone(g, r), s)
<1>1. CASE r.loc # NoLoc
  BY <1>1, MoveUndone
<1>2. CASE r.loc = NoLoc
  <2> DEFINE m == [g EXCEPT !.ko_loc = s.ko]
  <2>1. r.ko_loc = s.ko /\ PositionOf(g) = Passed(s) /\ s.ko \in Points \cup {NoLoc}
    BY <1>2, NoLocIsNoPoint DEF Recalls, Standing, NoLoc
  <2>2. Undone(g, r) = m
    BY <1>2, <2>1, UndoneIs
  <2> HIDE DEF m
  <2>3. Solid(m) /\ m.colors = g.colors /\ m.ko_loc = s.ko /\ m.captures = g.captures
    BY <2>1, KoCleared DEF m
  <2>4. g.colors = s.stones /\ g.captures = s.prisoners
    BY <2>1 DEF PositionOf, Passed, Position, Standing
  <2>5. KoKept(m) /\ PositionOf(m) = s
    BY <2>3, <2>4 DEF KoKept, PositionOf, Standing, NoLoc
  <2> QED
    BY <2>2, <2>3, <2>5 DEF Implements
<1> QED
  BY <1>1, <1>2
----------------------------------------------------------------------------
(* The invariant of a board in use *)

StandingPositions ==
    {s \in [stones : Stones, ko : Points \cup {NoKo}, prisoners : [Colors -> Int]] : Standing(s)}

MoveRecords ==
    [loc : Points \cup {NoLoc}, pla : Colors, ko_loc : Points \cup {NoLoc},
     capDirs : SUBSET Points, suicided : BOOLEAN]

\* The position after the first i - 1 of the moves that can be undone.
PositionAt(g, rs, es, i) == IF i = Len(rs) + 1 THEN PositionOf(g) ELSE es[i]

\* The chains of g are those of its stones, and each record leads from a position to the next.
Remembers(g, rs, es) ==
    /\ Solid(g) /\ KoKept(g)
    /\ rs \in Seq(MoveRecords) /\ es \in Seq(StandingPositions) /\ Len(es) = Len(rs)
    /\ \A i \in 1..Len(rs) : Recalls(rs[i], es[i], PositionAt(g, rs, es, i + 1))

KataInv == suicide \in BOOLEAN /\ Remembers(b, records, earlier)

LEMMA ShownStands ==
    ASSUME NEW g, Solid(g), KoKept(g)
    PROVE  PositionOf(g) \in StandingPositions /\ Standing(PositionOf(g))
<1>1. /\ g.colors \in Stones /\ g.ko_loc \in Points \cup {NoLoc} /\ g.captures \in [Colors -> Int]
      /\ Settled(g.colors)
  BY BoardParts DEF Solid
<1>2. /\ PositionOf(g).stones = g.colors /\ PositionOf(g).ko = g.ko_loc /\ PositionOf(g).prisoners = g.captures
      /\ PositionOf(g) = Position(g.colors, g.ko_loc, g.captures)
      /\ PositionOf(g) \in [stones : {g.colors}, ko : {g.ko_loc}, prisoners : {g.captures}]
  BY DEF PositionOf, Position
<1>3. g.ko_loc # NoLoc => \A w \in Adj[g.ko_loc] : g.colors[w] # Empty
  BY DEF KoKept
<1>4. Standing(PositionOf(g))
  BY <1>1, <1>2, <1>3 DEF Standing, NoLoc
<1>5. PositionOf(g) \in [stones : Stones, ko : Points \cup {NoKo}, prisoners : [Colors -> Int]]
  BY <1>1, <1>2 DEF NoLoc
<1> QED
  BY <1>4, <1>5 DEF StandingPositions

LEMMA ForgetsNothing ==
    ASSUME NEW g, NEW s, Implements(g, s)
    PROVE  Implements(Forget(g), s)
<1>1. Solid(g) /\ KoKept(g) /\ PositionOf(g) = s
  BY DEF Implements
<1>2. Solid(Forget(g)) /\ PositionOf(Forget(g)) = PositionOf(g)
      /\ Forget(g).colors = g.colors /\ Forget(g).ko_loc = g.ko_loc
  BY <1>1, Forgetting
<1> QED
  BY <1>1, <1>2 DEF Implements, KoKept

\* A move that is recorded.
LEMMA MoveRemembered ==
    ASSUME NEW g, NEW rs, NEW es, Remembers(g, rs, es), NEW h, NEW t, Implements(h, t),
           NEW r \in MoveRecords, Recalls(r, PositionOf(g), t)
    PROVE  Remembers(h, Append(rs, r), Append(es, PositionOf(g)))
<1> DEFINE rs1 == Append(rs, r)
           es1 == Append(es, PositionOf(g))
<1>1. /\ Solid(g) /\ KoKept(g)
      /\ rs \in Seq(MoveRecords) /\ es \in Seq(StandingPositions) /\ Len(es) = Len(rs)
      /\ \A i \in 1..Len(rs) : Recalls(rs[i], es[i], PositionAt(g, rs, es, i + 1))
  BY DEF Remembers
<1>2. Solid(h) /\ KoKept(h) /\ PositionOf(h) = t
  BY DEF Implements
<1>3. PositionOf(g) \in StandingPositions
  BY <1>1, ShownStands
<1>4. /\ rs1 \in Seq(MoveRecords) /\ Len(rs1) = Len(rs) + 1 /\ rs1[Len(rs) + 1] = r
      /\ \A i \in 1..Len(rs) : rs1[i] = rs[i]
  BY <1>1
<1>5. /\ es1 \in Seq(StandingPositions) /\ Len(es1) = Len(es) + 1 /\ es1[Len(es) + 1] = PositionOf(g)
      /\ \A i \in 1..Len(es) : es1[i] = es[i]
  BY <1>1, <1>3
<1>6. Len(rs) \in Nat
  BY <1>1
<1> HIDE DEF rs1, es1
<1>7. ASSUME NEW i \in 1..Len(rs1) PROVE Recalls(rs1[i], es1[i], PositionAt(h, rs1, es1, i + 1))
  <2>1. CASE i = Len(rs) + 1
    <3>1. PositionAt(h, rs1, es1, i + 1) = t
      BY <1>2, <1>4, <2>1 DEF PositionAt
    <3> QED
      BY <1>1, <1>4, <1>5, <2>1, <3>1
  <2>2. CASE i # Len(rs) + 1
    <3>1. i \in 1..Len(rs) /\ i + 1 \in 1..Len(rs) + 1 /\ i + 1 # Len(rs1) + 1
      BY <1>4, <1>6, <2>2
    <3>2. PositionAt(h, rs1, es1, i + 1) = es1[i + 1]
      BY <3>1 DEF PositionAt
    <3>3. es1[i + 1] = PositionAt(g, rs, es, i + 1)
      <4>1. CASE i = Len(rs)
        BY <1>1, <1>5, <4>1 DEF PositionAt
      <4>2. CASE i # Len(rs)
        <5>1. i + 1 \in 1..Len(es) /\ i + 1 # Len(rs) + 1
          BY <1>1, <1>6, <3>1, <4>2
        <5> QED
          BY <1>5, <5>1 DEF PositionAt
      <4> QED
        BY <4>1, <4>2
    <3>4. rs1[i] = rs[i] /\ es1[i] = es[i]
      BY <1>1, <1>4, <1>5, <3>1
    <3> QED
      BY <1>1, <3>1, <3>2, <3>3, <3>4
  <2> QED
    BY <2>1, <2>2
<1>8. Len(es1) = Len(rs1)
  BY <1>1, <1>4, <1>5
<1> QED
  BY <1>2, <1>4, <1>5, <1>7, <1>8 DEF Remembers, rs1, es1

\* The last move is taken back.
LEMMA MoveForgotten ==
    ASSUME NEW g, NEW rs, NEW es, Remembers(g, rs, es), rs # <<>>, NEW h, Implements(h, es[Len(es)])
    PROVE  Remembers(h, Front(rs), Front(es))
<1> DEFINE n == Len(rs)
           rs1 == Front(rs)
           es1 == Front(es)
<1>1. /\ rs \in Seq(MoveRecords) /\ es \in Seq(StandingPositions) /\ Len(es) = n
      /\ \A i \in 1..n : Recalls(rs[i], es[i], PositionAt(g, rs, es, i + 1))
  BY DEF Remembers
<1>2. Solid(h) /\ KoKept(h) /\ PositionOf(h) = es[n]
  BY <1>1 DEF Implements
<1>3. n \in Nat \ {0}
  BY <1>1
<1>4. rs1 \in Seq(MoveRecords) /\ Len(rs1) = n - 1 /\ \A i \in 1..n - 1 : rs1[i] = rs[i]
  <2>1. rs1 = SubSeq(rs, 1, n - 1) /\ n - 1 \in 0..Len(rs)
    BY <1>3 DEF Front
  <2> HIDE DEF rs1
  <2> QED
    BY <1>1, <2>1, FirstPart
<1>5. es1 \in Seq(StandingPositions) /\ Len(es1) = n - 1 /\ \A i \in 1..n - 1 : es1[i] = es[i]
  <2>1. es1 = SubSeq(es, 1, n - 1) /\ n - 1 \in 0..Len(es)
    BY <1>1, <1>3 DEF Front
  <2> HIDE DEF es1
  <2> QED
    BY <1>1, <2>1, FirstPart
<1> HIDE DEF rs1, es1, n
<1>6. ASSUME NEW i \in 1..n - 1 PROVE Recalls(rs1[i], es1[i], PositionAt(h, rs1, es1, i + 1))
  <2>1. i \in 1..n /\ i + 1 # n + 1 /\ i + 1 \in 1..n
    BY <1>3
  <2>2. PositionAt(g, rs, es, i + 1) = es[i + 1]
    BY <2>1 DEF PositionAt, n
  <2>3. PositionAt(h, rs1, es1, i + 1) = es[i + 1]
    <3>1. CASE i = n - 1
      BY <1>2, <1>3, <1>4, <3>1 DEF PositionAt
    <3>2. CASE i # n - 1
      <4>1. i + 1 \in 1..n - 1 /\ i + 1 # (n - 1) + 1
        BY <1>3, <3>2
      <4> QED
        BY <1>4, <1>5, <4>1 DEF PositionAt
    <3> QED
      BY <3>1, <3>2
  <2> QED
    BY <1>1, <1>4, <1>5, <2>1, <2>2, <2>3
<1> QED
  BY <1>2, <1>4, <1>5, <1>6 DEF Remembers, rs1, es1

LEMMA NothingRemembered ==
    ASSUME NEW g, Solid(g), KoKept(g)
    PROVE  Remembers(g, <<>>, <<>>)
BY DEF Remembers
----------------------------------------------------------------------------
(* The steps of the board in use *)

LEMMA RecordOfMove ==
    ASSUME NEW g, NEW v, NEW c, FreeFor(g, v, c)
    PROVE  /\ Record(g, v, c) \in MoveRecords
           /\ Recalls(Record(g, v, c), PositionOf(g), After(PositionOf(g), v, c))
<1> DEFINE r == Record(g, v, c)
           dirs == {w \in Adj[v] : g.colors[w] = Opp(c) /\ NumLiberties(g, w) = 1}
           p == g.colors
           fell == dirs = {} /\ IsSuicide(g, v, c)
<1>1. Solid(g) /\ v \in Points /\ p[v] = Empty /\ c \in Colors /\ Opp(c) # c
  BY Kinds DEF FreeFor, Opp
<1>2. g.ko_loc \in Points \cup {NoLoc}
  BY <1>1, BoardParts DEF Solid
<1>3. /\ r.loc = v /\ r.pla = c /\ r.ko_loc = g.ko_loc /\ r.capDirs = dirs /\ r.suicided = fell
      /\ r \in [loc : {v}, pla : {c}, ko_loc : {g.ko_loc}, capDirs : {dirs}, suicided : {fell}]
  BY DEF Record
<1>4. dirs = DirsOf(p, v, c)
  <2>1. \A w \in Adj[v] : p[w] = Opp(c) => (Liberties(Placed(p, v, c), w) = {} <=> NumLiberties(g, w) = 1)
    BY LastLiberty
  <2> QED
    BY <2>1 DEF DirsOf
<1>5. fell = Smothered(p, v, c)
  <2>1. IsSuicide(g, v, c) => dirs = {}
    <3> SUFFICES ASSUME IsSuicide(g, v, c), NEW w \in Adj[v], g.colors[w] = Opp(c), NumLiberties(g, w) = 1
                 PROVE  FALSE
      OBVIOUS
    <3> QED
      BY <1>1 DEF IsSuicide
  <2>2. Smothered(p, v, c) <=> IsSuicide(g, v, c)
    BY SmotheredByNeighbours
  <2>3. Smothered(p, v, c) \in BOOLEAN
    BY DEF Smothered
  <2> HIDE DEF dirs
  <2>4. fell \in BOOLEAN
    OBVIOUS
  <2> QED
    BY <2>1, <2>2, <2>3, <2>4
<1>6. dirs \in SUBSET Points /\ fell \in BOOLEAN
  <2>1. dirs \in SUBSET Points
    BY <1>1, Symmetric
  <2> HIDE DEF dirs
  <2> QED
    BY <2>1
<1> HIDE DEF r, dirs, fell
<1>7. r \in MoveRecords
  BY <1>1, <1>2, <1>3, <1>6 DEF MoveRecords
<1>8. PositionOf(g).stones = p /\ PositionOf(g).ko = g.ko_loc
  BY DEF PositionOf, Position
<1>9. Recalls(r, PositionOf(g), After(PositionOf(g), v, c))
  BY <1>1, <1>3, <1>4, <1>5, <1>8 DEF Recalls
<1> QED
  BY <1>7, <1>9 DEF r

LEMMA RecordOfPass ==
    ASSUME NEW g, Solid(g)
    PROVE  /\ RecordPass(g) \in MoveRecords
           /\ Recalls(RecordPass(g), PositionOf(g), Passed(PositionOf(g)))
<1>1. g.ko_loc \in Points \cup {NoLoc} /\ "B" \in Colors
  BY BoardParts, Kinds DEF Solid
<1>2. RecordPass(g) \in MoveRecords
  BY <1>1 DEF RecordPass, MoveRecords
<1>3. PositionOf(g).ko = g.ko_loc
  BY DEF PositionOf, Position
<1> QED
  BY <1>2, <1>3 DEF Recalls, RecordPass

LEMMA PassImplements ==
    ASSUME NEW g, Solid(g)
    PROVE  Implements([g EXCEPT !.ko_loc = NoLoc], Passed(PositionOf(g)))
<1> DEFINE m == [g EXCEPT !.ko_loc = NoLoc]
<1>1. Solid(m) /\ m.colors = g.colors /\ m.ko_loc = NoLoc /\ m.captures = g.captures
  BY KoCleared
<1> HIDE DEF m
<1>2. PositionOf(m) = Passed(PositionOf(g))
  BY <1>1 DEF PositionOf, Passed, Position, NoLoc
<1>3. Implements(m, Passed(PositionOf(g)))
  BY <1>1, <1>2 DEF Implements, KoKept
<1> QED
  BY <1>3 DEF m

LEMMA StepKataInit ==
    KataInit => KataInv /\ Settled(KataShown.stones) /\ KataShown.ko = NoKo /\ earlier = <<>> /\ suicide \in BOOLEAN
<1> SUFFICES ASSUME KataInit
             PROVE  KataInv /\ Settled(KataShown.stones) /\ KataShown.ko = NoKo /\ earlier = <<>> /\ suicide \in BOOLEAN
  OBVIOUS
<1> DEFINE bare(p) == [colors |-> p, chain_head |-> [v \in Points |-> NoLoc],
                       next_in_chain |-> [v \in Points |-> NoLoc],
                       libs |-> [v \in Points |-> 0], locs |-> [v \in Points |-> 0],
                       ko_loc |-> NoLoc, captures |-> [c \in Colors |-> 0], hash |-> {}]
<1>1. PICK p \in [Points -> Colors \cup {Empty}] : Settled(p) /\ b = Forget(RegenChainsFromColors(bare(p)))
  BY DEF KataInit
<1>2. bare(p) \in Boards /\ bare(p).colors = p /\ bare(p).ko_loc = NoLoc
  BY DEF Boards, Stones
<1> HIDE DEF bare
<1>3. Solid(b) /\ b.colors = p /\ b.ko_loc = NoLoc
  BY <1>1, <1>2, Regenerated, Forgetting
<1>4. Remembers(b, <<>>, <<>>)
  BY <1>3, NothingRemembered DEF KoKept
<1>5. records = <<>> /\ earlier = <<>> /\ suicide \in BOOLEAN
  BY DEF KataInit
<1>6. KataShown.stones = p /\ KataShown.ko = NoKo
  BY <1>3 DEF KataShown, Position, NoLoc
<1> QED
  BY <1>1, <1>4, <1>5, <1>6 DEF KataInv

LEMMA StepPlay ==
    ASSUME KataInv, NEW v \in Points, NEW c \in Colors, Play(v, c)
    PROVE  KataInv' /\ Legal(KataShown, v, c, suicide) /\ KataShown' = After(KataShown, v, c)
           /\ earlier' = Append(earlier, KataShown) /\ suicide' = suicide
<1> DEFINE h == Forget(PlayMoveAssumeLegal(b, v, c))
           r == Record(b, v, c)
           t == After(PositionOf(b), v, c)
<1>1. suicide \in BOOLEAN /\ Remembers(b, records, earlier) /\ Solid(b)
  BY DEF KataInv, Remembers
<1>2. /\ IsLegal(b, v, c, suicide) /\ b' = h /\ suicide' = suicide
      /\ records' = Append(records, r) /\ earlier' = Append(earlier, PositionOf(b))
  BY DEF Play, KataRecorded, KataShown, PositionOf
<1>3. FreeFor(b, v, c)
  BY <1>1, <1>2 DEF FreeFor, IsLegal
<1>4. Implements(h, t)
  BY <1>3, PlayImplements, ForgetsNothing
<1>5. r \in MoveRecords /\ Recalls(r, PositionOf(b), t)
  BY <1>3, RecordOfMove
<1>6. Legal(PositionOf(b), v, c, suicide)
  BY <1>1, <1>2, LegalByCounters
<1> HIDE DEF h, r, t
<1>7. Remembers(h, Append(records, r), Append(earlier, PositionOf(b)))
  BY <1>1, <1>4, <1>5, MoveRemembered
<1>8. PositionOf(h) = t
  BY <1>4 DEF Implements
<1>9. KataInv'
  BY <1>1, <1>2, <1>7 DEF KataInv
<1>10. KataShown = PositionOf(b) /\ KataShown' = PositionOf(h)
  BY <1>2 DEF KataShown, PositionOf
<1> QED
  BY <1>2, <1>6, <1>8, <1>9, <1>10 DEF t

LEMMA StepPlayPass ==
    ASSUME KataInv, PlayPass
    PROVE  KataInv' /\ KataShown' = Passed(KataShown) /\ earlier' = Append(earlier, KataShown) /\ suicide' = suicide
<1> DEFINE h == [b EXCEPT !.ko_loc = NoLoc]
           r == RecordPass(b)
           t == Passed(PositionOf(b))
<1>1. suicide \in BOOLEAN /\ Remembers(b, records, earlier) /\ Solid(b)
  BY DEF KataInv, Remembers
<1>2. /\ b' = h /\ suicide' = suicide
      /\ records' = Append(records, r) /\ earlier' = Append(earlier, PositionOf(b))
  BY DEF PlayPass, KataRecorded, KataShown, PositionOf
<1>4. Implements(h, t)
  BY <1>1, PassImplements
<1>5. r \in MoveRecords /\ Recalls(r, PositionOf(b), t)
  BY <1>1, RecordOfPass
<1> HIDE DEF h, r, t
<1>7. Remembers(h, Append(records, r), Append(earlier, PositionOf(b)))
  BY <1>1, <1>4, <1>5, MoveRemembered
<1>8. PositionOf(h) = t
  BY <1>4 DEF Implements
<1>9. KataInv'
  BY <1>1, <1>2, <1>7 DEF KataInv
<1>10. KataShown = PositionOf(b) /\ KataShown' = PositionOf(h)
  BY <1>2 DEF KataShown, PositionOf
<1> QED
  BY <1>2, <1>8, <1>9, <1>10 DEF t

LEMMA StepUndo ==
    ASSUME KataInv, Undo
    PROVE  KataInv' /\ earlier # <<>> /\ KataShown' = earlier[Len(earlier)]
           /\ earlier' = SubSeq(earlier, 1, Len(earlier) - 1) /\ suicide' = suicide
<1> DEFINE r == Last(records)
           h == Forget(Undone(b, r))
           n == Len(records)
           s == earlier[Len(earlier)]
<1>1. /\ suicide \in BOOLEAN /\ Remembers(b, records, earlier) /\ Solid(b) /\ KoKept(b)
      /\ records \in Seq(MoveRecords) /\ earlier \in Seq(StandingPositions) /\ Len(earlier) = n
      /\ \A i \in 1..n : Recalls(records[i], earlier[i], PositionAt(b, records, earlier, i + 1))
  BY DEF KataInv, Remembers
<1>2. records # <<>> /\ b' = h /\ records' = Front(records) /\ earlier' = Front(earlier) /\ suicide' = suicide
  BY DEF Undo
<1>3. n \in Nat \ {0}
  BY <1>1, <1>2
<1>4. r = records[n] /\ s = earlier[n] /\ n \in 1..n
  BY <1>1, <1>3 DEF Last
<1>5. PositionAt(b, records, earlier, n + 1) = PositionOf(b)
  BY DEF PositionAt
<1>6. s \in StandingPositions
  BY <1>1, <1>3, <1>4
<1> HIDE DEF r, n, s
<1>7. Recalls(r, s, PositionOf(b)) /\ Standing(s)
  BY <1>1, <1>4, <1>5, <1>6 DEF StandingPositions
<1>8. Implements(h, s)
  BY <1>1, <1>7, UndoRestores, ForgetsNothing
<1> HIDE DEF h
<1>9. Remembers(h, Front(records), Front(earlier))
  BY <1>1, <1>2, <1>8, MoveForgotten DEF s
<1>10. KataInv'
  BY <1>1, <1>2, <1>9 DEF KataInv
<1>11. KataShown' = PositionOf(h) /\ PositionOf(h) = s
  BY <1>2, <1>8 DEF KataShown, PositionOf, Implements
<1>12. earlier # <<>> /\ Front(earlier) = SubSeq(earlier, 1, Len(earlier) - 1)
  BY <1>1, <1>3 DEF Front
<1> QED
  BY <1>2, <1>10, <1>11, <1>12 DEF s

LEMMA StepSet ==
    ASSUME KataInv, NEW v \in Points, NEW c \in Colors \cup {Empty}, Set(v, c)
    PROVE  KataInv' /\ KataShown' = SetTo(KataShown, v, c) /\ earlier' = <<>> /\ suicide' = suicide
<1> DEFINE m == SetStone(b, v, c)
           h == Forget(m)
<1>1. suicide \in BOOLEAN /\ Remembers(b, records, earlier) /\ Solid(b)
      /\ records \in Seq(MoveRecords) /\ earlier \in Seq(StandingPositions) /\ Len(earlier) = Len(records)
  BY DEF KataInv, Remembers
<1>2. records = <<>> /\ b' = h /\ records' = records /\ earlier' = earlier /\ suicide' = suicide
  BY DEF Set
<1>3. earlier = <<>>
  BY <1>1, <1>2
<1>4. Solid(m) /\ m.ko_loc = NoLoc /\ PositionOf(m) = SetTo(PositionOf(b), v, c)
  BY <1>1, StoneSet
<1> HIDE DEF m
<1>5. Solid(h) /\ h.ko_loc = NoLoc /\ PositionOf(h) = PositionOf(m)
  BY <1>4, Forgetting DEF PositionOf
<1> HIDE DEF h
<1>6. Remembers(h, <<>>, <<>>)
  BY <1>5, NothingRemembered DEF KoKept
<1>7. KataInv'
  BY <1>1, <1>2, <1>3, <1>6 DEF KataInv
<1>8. KataShown' = PositionOf(h) /\ KataShown = PositionOf(b)
  BY <1>2 DEF KataShown, PositionOf
<1> QED
  BY <1>2, <1>3, <1>4, <1>5, <1>7, <1>8
----------------------------------------------------------------------------
\* The rules GoGame goes by are those of the engine's board.
LEMMA SameKataRules ==
    /\ KataGame!Points = Points /\ KataGame!Colors = Colors /\ KataGame!NoKo = NoKo
    /\ \A s : KataGame!Passed(s) = Passed(s)
    /\ \A s, v, c : KataGame!After(s, v, c) = After(s, v, c)
    /\ \A s, v, c, multi : KataGame!Legal(s, v, c, multi) <=> Legal(s, v, c, multi)
    /\ \A p : KataGame!Settled(p) <=> Settled(p)
    /\ KataGame!Empty = Empty /\ \A s, v, c : KataGame!SetTo(s, v, c) = SetTo(s, v, c)
<1>1. /\ KataGame!Points = Points /\ KataGame!Colors = Colors /\ KataGame!NoKo = NoKo /\ KataGame!Empty = Empty
      /\ \A c : KataGame!Opponent(c) = Opponent(c)
      /\ \A st, ko, pr : KataGame!Position(st, ko, pr) = Position(st, ko, pr)
      /\ \A s : KataGame!Passed(s) = Passed(s)
  BY DEF KataGame!Points, Points, KataGame!Colors, Colors, KataGame!NoKo, NoKo, KataGame!Empty, Empty, KataGame!Opponent,
         Opponent, KataGame!Position, Position, KataGame!Passed, Passed
<1>2. \A v, w : KataGame!Distance(v, w) = Distance(v, w)
  BY DEF KataGame!Distance, Distance, KataGame!Row, Row, KataGame!Col, Col
<1>3. KataGame!Adj = Adj
  BY <1>1, <1>2 DEF KataGame!Adj, Adj
<1>4. ASSUME NEW p, NEW v PROVE KataGame!Group(p, v) = Group(p, v)
  BY DEF KataGame!Group, Group, KataGame!Points, Points, KataGame!Adj, Adj, KataGame!Distance, Distance,
         KataGame!Row, Row, KataGame!Col, Col
<1>5. \A p, s, c : KataGame!Put(p, s, c) = Put(p, s, c)
  BY <1>1 DEF KataGame!Put, Put
<1>6. \A p, g : KataGame!Around(p, g) = Around(p, g)
  BY <1>1, <1>3 DEF KataGame!Around, Around
<1>7. \A p, v : KataGame!Liberties(p, v) = Liberties(p, v)
  BY <1>4, <1>6 DEF KataGame!Liberties, Liberties
<1>8. \A p, v, c : KataGame!Captured(p, v, c) = Captured(p, v, c)
  BY <1>1, <1>3, <1>4, <1>7 DEF KataGame!Captured, Captured
<1>9. \A t : KataGame!TheOne(t) = TheOne(t) /\ KataGame!Cardinality(t) = Cardinality(t)
  <2> TAKE t
  <2>1. KataGame!TheOne(t) = TheOne(t)
    BY DEF KataGame!TheOne, TheOne
  <2>2. KataGame!Cardinality(t) = Cardinality(t)
    BY DEF KataGame!Cardinality, Cardinality
  <2> QED
    BY <2>1, <2>2
<1>10. ASSUME NEW s, NEW v, NEW c PROVE KataGame!After(s, v, c) = After(s, v, c)
  <2> DEFINE put == Put(s.stones, {v}, c)
             taken == Captured(put, v, c)
             left == Put(put, taken, Empty)
             own == Group(left, v)
             libs == Around(left, own)
             gput == KataGame!Put(s.stones, {v}, c)
             gtaken == KataGame!Captured(gput, v, c)
             gleft == KataGame!Put(gput, gtaken, KataGame!Empty)
             gown == KataGame!Group(gleft, v)
             glibs == KataGame!Around(gleft, gown)
  <2>1. gput = put
    BY <1>5
  <2>2. gtaken = taken
    BY <1>8, <2>1
  <2>3. gleft = left
    BY <1>1, <1>5, <2>1, <2>2
  <2>4. gown = own
    BY <1>4, <2>3
  <2>5. glibs = libs
    BY <1>6, <2>3, <2>4
  <2>6. KataGame!After(s, v, c) =
          IF glibs = {}
          THEN KataGame!Position(KataGame!Put(gleft, gown, KataGame!Empty), KataGame!NoKo,
                             [s.prisoners EXCEPT ![KataGame!Opponent(c)] = @ + KataGame!Cardinality(gown)])
          ELSE KataGame!Position(gleft,
                             IF KataGame!Cardinality(gtaken) = 1 /\ gown = {v} /\ glibs = gtaken
                             THEN KataGame!TheOne(gtaken) ELSE KataGame!NoKo,
                             [s.prisoners EXCEPT ![c] = @ + KataGame!Cardinality(gtaken)])
    BY DEF KataGame!After
  <2>7. After(s, v, c) =
          IF libs = {}
          THEN Position(Put(left, own, Empty), NoKo,
                        [s.prisoners EXCEPT ![Opponent(c)] = @ + Cardinality(own)])
          ELSE Position(left,
                        IF Cardinality(taken) = 1 /\ own = {v} /\ libs = taken
                        THEN TheOne(taken) ELSE NoKo,
                        [s.prisoners EXCEPT ![c] = @ + Cardinality(taken)])
    BY DEF After
  <2> HIDE DEF put, taken, left, own, libs, gput, gtaken, gleft, gown, glibs
  <2> QED
    BY <1>1, <1>5, <1>9, <2>1, <2>2, <2>3, <2>4, <2>5, <2>6, <2>7
<1>11. \A s, v, c, multi : KataGame!Legal(s, v, c, multi) <=> Legal(s, v, c, multi)
  <2> TAKE s, v, c, multi
  <2>1. KataGame!Legal(s, v, c, multi) <=>
          /\ s.stones[v] = KataGame!Empty /\ v # s.ko
          /\ \/ KataGame!After(s, v, c).stones[v] = c
             \/ multi /\ \E w \in KataGame!Adj[v] : s.stones[w] = c
    BY DEF KataGame!Legal, KataGame!NoKo
  <2>2. Legal(s, v, c, multi) <=>
          /\ s.stones[v] = Empty /\ v # s.ko
          /\ \/ After(s, v, c).stones[v] = c
             \/ multi /\ \E w \in Adj[v] : s.stones[w] = c
    BY DEF Legal
  <2> QED
    BY <1>1, <1>3, <1>10, <2>1, <2>2
<1>12. \A p : KataGame!Settled(p) <=> Settled(p)
  BY <1>1, <1>7 DEF KataGame!Settled, Settled
<1>13. \A s, v, c : KataGame!SetTo(s, v, c) = SetTo(s, v, c)
  <2> TAKE s, v, c
  <2> DEFINE bare == Position(Put(s.stones, {v}, Empty), NoKo, s.prisoners)
             gbare == KataGame!Position(KataGame!Put(s.stones, {v}, KataGame!Empty), KataGame!NoKo, s.prisoners)
             multi == s.stones[v] = Empty
  <2>1. gbare = bare
    BY <1>1, <1>5
  <2>2. KataGame!SetTo(s, v, c) =
          CASE s.stones[v] = c -> KataGame!Passed(s)
            [] s.stones[v] # c /\ c # KataGame!Empty /\ KataGame!Legal(gbare, v, c, s.stones[v] = KataGame!Empty)
                 -> KataGame!Passed(KataGame!After(gbare, v, c))
            [] OTHER -> gbare
    BY DEF KataGame!SetTo
  <2>3. SetTo(s, v, c) =
          CASE s.stones[v] = c -> Passed(s)
            [] s.stones[v] # c /\ c # Empty /\ Legal(bare, v, c, s.stones[v] = Empty) -> Passed(After(bare, v, c))
            [] OTHER -> bare
    BY DEF SetTo
  <2>4. KataGame!Legal(gbare, v, c, s.stones[v] = KataGame!Empty) <=> Legal(bare, v, c, s.stones[v] = Empty)
    BY <1>1, <1>11, <2>1
  <2>5. KataGame!Passed(KataGame!After(gbare, v, c)) = Passed(After(bare, v, c)) /\ KataGame!Passed(s) = Passed(s)
    BY <1>1, <1>10, <2>1
  <2> HIDE DEF bare, gbare
  <2> QED
    BY <1>1, <2>1, <2>2, <2>3, <2>4, <2>5
<1> QED
  BY <1>1, <1>10, <1>11, <1>12, <1>13

LEMMA KataStep == KataInv /\ [KataNext]_kataVars => KataInv' /\ [KataGame!GameNext]_(KataGame!gameVars)
<1> SUFFICES ASSUME KataInv, [KataNext]_kataVars PROVE KataInv' /\ [KataGame!GameNext]_(KataGame!gameVars)
  OBVIOUS
<1>1. ASSUME NEW v \in Points, NEW c \in Colors, Play(v, c) PROVE KataInv' /\ KataGame!Move
  <2>1. /\ KataInv' /\ Legal(KataShown, v, c, suicide) /\ KataShown' = After(KataShown, v, c)
        /\ earlier' = Append(earlier, KataShown) /\ suicide' = suicide
    BY <1>1, StepPlay
  <2> QED
    BY <2>1, SameKataRules DEF KataGame!Move
<1>2. ASSUME PlayPass PROVE KataInv' /\ KataGame!Move
  <2>1. /\ KataInv' /\ KataShown' = Passed(KataShown)
        /\ earlier' = Append(earlier, KataShown) /\ suicide' = suicide
    BY <1>2, StepPlayPass
  <2> QED
    BY <2>1, SameKataRules DEF KataGame!Move
<1>3. ASSUME Undo PROVE KataInv' /\ KataGame!TakeBack(1)
  <2>1. /\ KataInv' /\ earlier # <<>> /\ KataShown' = earlier[Len(earlier)]
        /\ earlier' = SubSeq(earlier, 1, Len(earlier) - 1) /\ suicide' = suicide
    BY <1>3, StepUndo
  <2>2. Len(earlier) \in Nat \ {0}
    BY <2>1 DEF KataInv, Remembers
  <2>3. 1 <= Len(earlier) /\ Len(earlier) + 1 - 1 = Len(earlier)
    BY <2>2
  <2> QED
    BY <2>1, <2>3 DEF KataGame!TakeBack
<1>4. ASSUME NEW v \in Points, NEW c \in Colors \cup {Empty}, Set(v, c) PROVE KataInv' /\ KataGame!SetUp
  <2>1. KataInv' /\ KataShown' = SetTo(KataShown, v, c) /\ earlier' = <<>> /\ suicide' = suicide
    BY <1>4, StepSet
  <2> QED
    BY <2>1, SameKataRules DEF KataGame!SetUp
<1>5. ASSUME UNCHANGED kataVars PROVE KataInv' /\ UNCHANGED KataGame!gameVars
  <2>1. b' = b /\ records' = records /\ earlier' = earlier /\ suicide' = suicide
    BY <1>5 DEF kataVars
  <2>2. KataShown' = KataShown
    BY <2>1 DEF KataShown
  <2>3. KataInv'
    BY <2>1 DEF KataInv
  <2> QED
    BY <2>1, <2>2, <2>3 DEF KataGame!gameVars
<1> QED
  BY <1>1, <1>2, <1>3, <1>4, <1>5 DEF KataNext, KataGame!GameNext

LEMMA ConsistentChains == KataInv => ChainsConsistent
<1> SUFFICES ASSUME KataInv PROVE ChainsConsistent
  OBVIOUS
<1>1. Solid(b) /\ KoKept(b) /\ b \in Boards
  BY DEF KataInv, Remembers, Solid
<1>2. ASSUME NEW v \in Points, b.colors[v] # Empty
      PROVE  LET group == Group(b.colors, v)   head == b.chain_head[v] IN
           /\ ToSet(Ring(b, v)) = group /\ head \in group
           /\ \A w \in group : b.chain_head[w] = head
           /\ b.locs[head] = Cardinality(group)
           /\ b.libs[head] = Cardinality(Liberties(b.colors, v)) /\ b.libs[head] > 0
  <2> DEFINE group == Group(b.colors, v)
             head == b.chain_head[v]
  <2>1. /\ head \in Points /\ ListOf(b, head) /\ b.chain_head[head] = head
        /\ v \in Members(b, head) /\ Members(b, head) = group
        /\ b.libs[head] = Cardinality(Liberties(b.colors, v)) /\ b.libs[head] \in Nat \ {0}
        /\ b.locs[head] = Cardinality(group)
    BY <1>1, <1>2, SolidStone
  <2> HIDE DEF group, head
  <2>2. ToSet(Ring(b, v)) = group
    BY <1>1, <2>1, RingOfList
  <2>3. head \in group /\ \A w \in group : b.chain_head[w] = head
    BY <2>1 DEF ListOf, Members
  <2>4. b.libs[head] > 0
    BY <2>1
  <2> QED
    BY <2>1, <2>2, <2>3, <2>4 DEF group, head
<1>3. b.ko_loc # NoLoc => ImmediateLiberties(b, b.ko_loc) = 0
  <2> SUFFICES ASSUME b.ko_loc # NoLoc PROVE ImmediateLiberties(b, b.ko_loc) = 0
    OBVIOUS
  <2>1. {w \in Adj[b.ko_loc] : b.colors[w] = Empty} = {}
    BY <1>1 DEF KoKept
  <2> QED
    BY <2>1, FS_EmptySet DEF ImmediateLiberties
<1>4. b.hash = {<<v, b.colors[v]>> : v \in {v \in Points : b.colors[v] # Empty}}
  BY <1>1 DEF Solid, Hashed, Keys
<1>5. \A v \in {v \in Points : b.colors[v] # Empty} :
        LET group == Group(b.colors, v)   head == b.chain_head[v] IN
           /\ ToSet(Ring(b, v)) = group /\ head \in group
           /\ \A w \in group : b.chain_head[w] = head
           /\ b.locs[head] = Cardinality(group)
           /\ b.libs[head] = Cardinality(Liberties(b.colors, v)) /\ b.libs[head] > 0
  BY <1>2
<1> QED
  BY <1>3, <1>4, <1>5 DEF ChainsConsistent

----------------------------------------------------------------------------
(* Looking ahead without playing *)

\* What the counters around an empty point say of a stone of c there.
Foreseen(g, v, c, own, taken, left) ==
    /\ {w \in Adj[v] : g.colors[w] = Opp(c) /\ NumLiberties(g, w) = 1} = DirsOf(g.colors, v, c)
    /\ CapturedBy(g, v, c) = taken
    /\ own = {v} \cup JoinedBy(g, v, c) /\ v \notin JoinedBy(g, v, c)
    /\ \A x \in JoinedBy(g, v, c) : g.colors[x] = c
    /\ Group(left, v) = own
    /\ \A w \in Points : g.colors[w] # Empty =>
          /\ ToSet(Ring(g, w)) = Group(g.colors, w)
          /\ NumLiberties(g, w) = Cardinality(Liberties(g.colors, w)) /\ NumLiberties(g, w) \in Nat \ {0}
          /\ ChainSize(g, w) = Cardinality(Group(g.colors, w))

LEMMA CountersAround ==
    ASSUME NEW g, NEW v, NEW c, FreeFor(g, v, c)
    PROVE  Foreseen(g, v, c, Group(Placed(g.colors, v, c), v), Captured(Placed(g.colors, v, c), v, c),
                    LeftBy(g.colors, v, c))
<1> DEFINE p == g.colors
           put == Placed(p, v, c)
           own == Group(put, v)
           taken == Captured(put, v, c)
           left == LeftBy(p, v, c)
           D == DirsOf(p, v, c)
<1>1. /\ Solid(g) /\ g \in Boards /\ v \in Points /\ p[v] = Empty /\ c \in Colors /\ c # Empty
      /\ Opp(c) # c /\ Opp(c) # Empty /\ Opp(c) \in Colors /\ p \in Stones
  BY Kinds, BoardParts DEF FreeFor, Opp, Solid
<1>2. \A w \in Points : p[w] # Empty =>
          /\ ToSet(Ring(g, w)) = Group(p, w)
          /\ NumLiberties(g, w) = Cardinality(Liberties(p, w)) /\ NumLiberties(g, w) \in Nat \ {0}
          /\ ChainSize(g, w) = Cardinality(Group(p, w))
  <2> SUFFICES ASSUME NEW w \in Points, p[w] # Empty
               PROVE  /\ ToSet(Ring(g, w)) = Group(p, w)
                      /\ NumLiberties(g, w) = Cardinality(Liberties(p, w)) /\ NumLiberties(g, w) \in Nat \ {0}
                      /\ ChainSize(g, w) = Cardinality(Group(p, w))
    OBVIOUS
  <2> DEFINE h == g.chain_head[w]
  <2>1. /\ h \in Points /\ ListOf(g, h) /\ w \in Members(g, h) /\ Members(g, h) = Group(p, w)
        /\ g.libs[h] = Cardinality(Liberties(p, w)) /\ g.libs[h] \in Nat \ {0}
        /\ g.locs[h] = Cardinality(Group(p, w))
    BY <1>1, SolidStone
  <2> HIDE DEF h, p
  <2>2. ToSet(Ring(g, w)) = Group(p, w)
    BY <1>1, <2>1, RingOfList
  <2> QED
    BY <2>1, <2>2 DEF NumLiberties, ChainSize, h
<1>3. \A w \in Adj[v] : p[w] = Opp(c) =>
        /\ put[w] = Opp(c) /\ Group(put, w) = Group(p, w)
        /\ Liberties(put, w) = {} <=> NumLiberties(g, w) = 1
  BY LastLiberty
<1>4. \A w \in Adj[v] : w \in Points /\ w # v
  BY <1>1, Symmetric
<1>5. \A w \in Points : put[w] = IF w = v THEN c ELSE p[w]
  BY <1>1, PutStones DEF Placed
<1> HIDE DEF p, put, own, taken, left, D
<1>6. {w \in Adj[v] : p[w] = Opp(c) /\ NumLiberties(g, w) = 1} = D
  BY <1>3 DEF D, DirsOf, put
<1>7. CapturedBy(g, v, c) = taken
  <2>1. CapturedBy(g, v, c) = UNION {ToSet(Ring(g, w)) : w \in D}
    BY <1>6 DEF CapturedBy, p
  <2>2. taken = UNION {Group(put, w) : w \in D}
    BY <1>1, DirsTaken DEF taken, put, D
  <2>3. \A w \in D : ToSet(Ring(g, w)) = Group(put, w)
    BY <1>1, <1>2, <1>3, <1>4, <1>6
  <2>4. {ToSet(Ring(g, w)) : w \in D} = {Group(put, w) : w \in D}
    BY <2>3
  <2> QED
    BY <2>1, <2>2, <2>4
<1>8. JoinedBy(g, v, c) = UNION {Group(p, w) : w \in {w \in Adj[v] : p[w] = c}}
  <2> DEFINE O == {w \in Adj[v] : p[w] = c}
  <2>1. \A w \in O : ToSet(Ring(g, w)) = Group(p, w)
    BY <1>1, <1>2, <1>4
  <2>2. {ToSet(Ring(g, w)) : w \in O} = {Group(p, w) : w \in O}
    BY <2>1
  <2>3. JoinedBy(g, v, c) = UNION {ToSet(Ring(g, w)) : w \in O}
    BY DEF JoinedBy, p
  <2> QED
    BY <2>2, <2>3
<1>9. v \in own /\ own \in SUBSET Points /\ \A x \in own : put[x] = c
  BY <1>1, <1>5, Groups DEF own
<1>10. \A x \in own \ {v} : /\ x \in Points /\ p[x] = c /\ Group(p, x) \subseteq own \ {v}
                           /\ \E w \in Adj[v] : w \in Group(p, x) /\ p[w] = c
  BY <1>1, OwnParts DEF own, put
<1>11. \A w \in Adj[v] : p[w] = c => w \in own \ {v}
  <2> SUFFICES ASSUME NEW w \in Adj[v], p[w] = c PROVE w \in own \ {v}
    OBVIOUS
  <2>1. w \in Points /\ w # v /\ v \in Adj[w] /\ put[w] = put[v]
    BY <1>1, <1>4, <1>5, Symmetric
  <2> QED
    BY <1>1, <1>9, <2>1, Groups DEF own
<1>12. JoinedBy(g, v, c) = own \ {v}
  <2>1. JoinedBy(g, v, c) \subseteq own \ {v}
    BY <1>8, <1>10, <1>11
  <2>2. ASSUME NEW x \in own \ {v} PROVE x \in JoinedBy(g, v, c)
    <3>1. PICK w \in Adj[v] : w \in Group(p, x) /\ p[w] = c
      BY <1>10, <2>2
    <3>2. x \in Points
      BY <1>10, <2>2
    <3>3. x \in Group(p, w)
      BY <3>1, <3>2, Groups
    <3> QED
      BY <1>8, <3>1, <3>3
  <2> QED
    BY <2>1, <2>2
<1>13. Group(left, v) = own
  <2>1. /\ taken \in SUBSET Points /\ \A x \in taken : put[x] = Opponent(c)
    BY <1>1, MoveMade DEF put, taken
  <2>2. \A w \in Points : left[w] = IF w \in taken THEN Empty ELSE put[w]
    BY <2>1, PutStones DEF left, LeftBy, put, taken
  <2>3. \A w \in own : left[w] = put[w]
    BY <1>1, <1>9, <2>1, <2>2 DEF Opp
  <2>4. \A u \in own : \A w \in Adj[u] : left[w] = put[v] => put[w] = put[v]
    <3>1. put[v] = c /\ \A u \in own : \A w \in Adj[u] : w \in Points
      BY <1>9, Symmetric
    <3> QED
      BY <1>1, <2>2, <3>1
  <2> QED
    BY <1>1, <2>3, <2>4, GroupStays DEF own
<1> QED
  BY <1>2, <1>6, <1>7, <1>9, <1>10, <1>12, <1>13 DEF Foreseen, p, put, own, taken, left, D

\* The liberties a stone has once it is played, and what the board says of them then.
LibertiesThen(g, v) == IF g.colors[v] = Empty THEN 0 ELSE NumLiberties(g, v)

LEMMA LibertiesAfter ==
    ASSUME NEW g, NEW v, NEW c, FreeFor(g, v, c)
    PROVE  LibertiesThen(PlayMoveAssumeLegal(g, v, c), v)
             = Cardinality(Around(LeftBy(g.colors, v, c), Group(Placed(g.colors, v, c), v)))
<1> DEFINE p == g.colors
           left == LeftBy(p, v, c)
           own == Group(left, v)
           after == PlayMoveAssumeLegal(g, v, c)
<1>1. v \in Points /\ c \in Colors /\ c # Empty /\ p \in Stones
  BY Kinds, BoardParts DEF FreeFor, Solid
<1>2. own = Group(Placed(p, v, c), v)
  BY CountersAround DEF Foreseen
<1>3. Solid(after) /\ PositionOf(after) = After(PositionOf(g), v, c)
  BY PlayImplements DEF Implements
<1>4. after.colors = IF Around(left, own) = {} THEN Put(left, own, Empty) ELSE left
  <2>1. after.colors = After(PositionOf(g), v, c).stones
    BY <1>3 DEF PositionOf, Position
  <2>2. PositionOf(g).stones = p
    BY DEF PositionOf, Position
  <2> QED
    BY <2>1, <2>2 DEF After, Position, LeftBy, Placed
<1>5. v \in own /\ own \in SUBSET Points /\ left[v] = c
  BY <1>1, MoveMade, Groups
<1> HIDE DEF after, p
<1>6. CASE Around(left, own) = {}
  <2>1. after.colors[v] = Empty
    BY <1>1, <1>4, <1>5, <1>6, PutStones
  <2> QED
    BY <1>2, <1>6, <2>1, FS_EmptySet DEF LibertiesThen, after, p
<1>7. CASE Around(left, own) # {}
  <2>1. after.colors = left /\ after.colors[v] # Empty
    BY <1>1, <1>4, <1>5, <1>7
  <2>2. after.libs[after.chain_head[v]] = Cardinality(Liberties(after.colors, v))
    BY <1>1, <1>3, <2>1, SolidStone
  <2>3. Liberties(after.colors, v) = Around(left, own)
    BY <2>1 DEF Liberties
  <2> QED
    BY <1>2, <2>1, <2>2, <2>3 DEF LibertiesThen, NumLiberties, after, p
<1> QED
  BY <1>6, <1>7

\* What getNumLibertiesAfterPlay() counts are the liberties of the new stone's group.
LEMMA LibertiesForeseen ==
    ASSUME NEW g, NEW v, NEW c, FreeFor(g, v, c), NEW max \in Nat
    PROVE  NumLibertiesAfterPlay(g, v, c, max)
             = LET n == LibertiesThen(PlayMoveAssumeLegal(g, v, c), v) IN IF n < max THEN n ELSE max
<1> DEFINE p == g.colors
           put == Placed(p, v, c)
           own == Group(put, v)
           taken == Captured(put, v, c)
           left == LeftBy(p, v, c)
           joined == JoinedBy(g, v, c)
           caps == CapturedBy(g, v, c)
           counted == {w \in Adj[v] : p[w] = Empty \/ w \in caps}
                      \cup {w \in Points \ {v} : (p[w] = Empty \/ w \in caps) /\ Adj[w] \cap joined # {}}
<1>1. v \in Points /\ c \in Colors /\ c # Empty /\ p \in Stones
  BY Kinds, BoardParts DEF FreeFor, Solid
<1>2. caps = taken /\ own = {v} \cup joined
  BY CountersAround DEF Foreseen
<1>3. \A w \in Points : left[w] = Empty <=> w # v /\ (p[w] = Empty \/ w \in taken)
  <2>1. /\ taken \in SUBSET Points /\ left[v] = c
    BY <1>1, MoveMade
  <2>2. \A w \in Points : left[w] = IF w \in taken THEN Empty ELSE put[w]
    BY <2>1, PutStones DEF left, LeftBy, put, taken
  <2>3. \A w \in Points : put[w] = IF w = v THEN c ELSE p[w]
    BY <1>1, PutStones DEF Placed
  <2> HIDE DEF put, taken, left, p
  <2> QED
    BY <1>1, <2>1, <2>2, <2>3
<1>4. \A w : w \in Adj[v] <=> w \in Points /\ w # v /\ v \in Adj[w]
  BY <1>1, Symmetric
<1> HIDE DEF p, put, own, taken, left, joined, caps
<1>5. counted = Around(left, own)
  BY <1>2, <1>3, <1>4 DEF Around
<1>6. NumLibertiesAfterPlay(g, v, c, max) = LET n == Cardinality(counted) IN IF n < max THEN n ELSE max
  BY DEF NumLibertiesAfterPlay, counted, caps, joined, p
<1>7. LibertiesThen(PlayMoveAssumeLegal(g, v, c), v) = Cardinality(Around(left, own))
  BY LibertiesAfter DEF left, own, p, put
<1> HIDE DEF counted
<1> QED
  BY <1>5, <1>6, <1>7

\* getKoCaptureLoc() foresees the ko.
LEMMA KoForeseen ==
    ASSUME NEW g, NEW v, NEW c, FreeFor(g, v, c)
    PROVE  KoCaptureLoc(g, v, c) = PlayMoveAssumeLegal(g, v, c).ko_loc
<1> DEFINE p == g.colors
           put == Placed(p, v, c)
           own == Group(put, v)
           taken == Captured(put, v, c)
           left == LeftBy(p, v, c)
           joined == JoinedBy(g, v, c)
           libs == Around(left, own)
           D == DirsOf(p, v, c)
           alone == /\ \A w \in Adj[v] : p[w] = Opp(c)
                    /\ Cardinality(D) = 1 /\ \A w \in D : ChainSize(g, w) = 1
           single == Cardinality(taken) = 1 /\ own = {v} /\ libs = taken
<1>1. /\ v \in Points /\ p[v] = Empty /\ c \in Colors /\ c # Empty
      /\ Opp(c) # c /\ Opp(c) # Empty /\ Opp(c) \in Colors /\ p \in Stones
  BY Kinds, BoardParts DEF FreeFor, Opp, Solid
<1>2. /\ {w \in Adj[v] : p[w] = Opp(c) /\ NumLiberties(g, w) = 1} = D
      /\ own = {v} \cup joined /\ Group(left, v) = own
      /\ \A w \in Points : p[w] # Empty => ChainSize(g, w) = Cardinality(Group(p, w))
  BY CountersAround DEF Foreseen
<1>3. \A w \in Adj[v] : w \in Points /\ w # v /\ v \in Adj[w]
  BY <1>1, Symmetric
<1>4. /\ D \in SUBSET Adj[v] /\ taken = UNION {Group(put, w) : w \in D} /\ \A w \in D : w \in taken
  BY <1>1, DirsTaken
<1>5. /\ taken \in SUBSET Points /\ v \notin taken /\ \A x \in taken : put[x] = Opp(c)
  <2> HIDE DEF p, put, taken
  <2>1. /\ taken \in SUBSET Points /\ put[v] = c /\ \A x \in taken : put[x] = Opponent(c)
    BY <1>1, MoveMade DEF put, taken
  <2> QED
    BY <1>1, <2>1 DEF Opp
<1>6. /\ \A w \in Points : put[w] = IF w = v THEN c ELSE p[w]
      /\ \A w \in Points : left[w] = IF w \in taken THEN Empty ELSE put[w]
  <2>1. \A w \in Points : put[w] = IF w = v THEN c ELSE p[w]
    BY <1>1, PutStones DEF Placed
  <2>2. \A w \in Points : left[w] = IF w \in taken THEN Empty ELSE put[w]
    BY <1>5, PutStones DEF LeftBy
  <2> QED
    BY <2>1, <2>2
<1>7. \A w \in D : /\ w \in Points /\ p[w] = Opp(c) /\ Group(put, w) = Group(p, w) /\ w \in Group(p, w)
                   /\ ChainSize(g, w) = Cardinality(Group(p, w)) /\ Group(p, w) \in SUBSET Points
  <2> SUFFICES ASSUME NEW w \in D
               PROVE  /\ w \in Points /\ p[w] = Opp(c) /\ Group(put, w) = Group(p, w) /\ w \in Group(p, w)
                      /\ ChainSize(g, w) = Cardinality(Group(p, w)) /\ Group(p, w) \in SUBSET Points
    OBVIOUS
  <2>1. w \in Adj[v] /\ w \in Points /\ p[w] = Opp(c)
    BY <1>3, <1>4 DEF D, DirsOf
  <2>2. Group(put, w) = Group(p, w)
    BY <2>1, LastLiberty
  <2>3. w \in Group(p, w) /\ Group(p, w) \in SUBSET Points
    BY <2>1, Groups
  <2> QED
    BY <1>1, <1>2, <2>1, <2>2, <2>3
<1>8. /\ Cardinality(D) = 1 <=> \E x : D = {x}
      /\ Cardinality(taken) = 1 <=> \E x : taken = {x}
      /\ \A w \in D : Cardinality(Group(p, w)) = 1 <=> \E x : Group(p, w) = {x}
  <2>1. D \in SUBSET Points
    BY <1>3, <1>4
  <2>2. Cardinality(D) = 1 <=> \E x : D = {x}
    BY <2>1, SetSizes
  <2>3. Cardinality(taken) = 1 <=> \E x : taken = {x}
    BY <1>5, SetSizes
  <2>4. \A w \in D : Cardinality(Group(p, w)) = 1 <=> \E x : Group(p, w) = {x}
    BY <1>7, SetSizes
  <2> QED
    BY <2>2, <2>3, <2>4
<1>9. \A x : x \in libs <=> x \in Points /\ left[x] = Empty /\ Adj[x] \cap own # {}
  BY DEF Around
<1>10. joined # {} => \E w \in Adj[v] : p[w] = c
  BY DEF JoinedBy
<1>11. \A w \in Adj[v] : p[w] = c => w \in own
  <2> SUFFICES ASSUME NEW w \in Adj[v], p[w] = c PROVE w \in own
    OBVIOUS
  <2>1. w \in Points /\ w # v /\ v \in Adj[w] /\ put[w] = put[v]
    BY <1>1, <1>3, <1>6
  <2>2. v \in own
    BY <1>1, Groups
  <2> QED
    BY <1>1, <2>1, <2>2, Groups
<1>12. \A w \in Points : p[w] \in {Empty, c, Opp(c)}
  BY <1>1 DEF Stones, Colors, Opp, Opponent
<1> HIDE DEF p, put, own, taken, left, joined, libs, D
<1>13. ASSUME alone PROVE single /\ D = taken
  <2>1. PICK t : D = {t}
    BY <1>8, <1>13
  <2>2. Group(p, t) = {t}
    BY <1>7, <1>8, <1>13, <2>1
  <2>3. taken = {t}
    BY <1>4, <1>7, <2>1, <2>2
  <2>4. own = {v}
    BY <1>1, <1>2, <1>10, <1>13
  <2>5. \A x : x \in libs <=> x \in taken
    <3>1. ASSUME NEW x, x \in libs PROVE x \in taken
      <4>1. x \in Points /\ left[x] = Empty /\ v \in Adj[x]
        BY <1>9, <2>4, <3>1
      <4>2. x \in Adj[v]
        BY <1>1, <4>1, Symmetric
      <4> QED
        BY <1>1, <1>3, <1>6, <1>13, <4>1, <4>2
    <3>2. ASSUME NEW x, x \in taken PROVE x \in libs
      <4>1. x \in Adj[v] /\ x \in Points /\ v \in Adj[x] /\ left[x] = Empty
        BY <1>3, <1>4, <1>6, <2>1, <2>3, <3>2
      <4> QED
        BY <1>9, <2>4, <4>1
    <3> QED
      BY <3>1, <3>2
  <2>6. libs = taken
    <3>1. libs \in SUBSET Points
      BY AroundSets DEF libs
    <3> QED
      BY <1>5, <2>5, <3>1
  <2> QED
    BY <1>8, <2>1, <2>3, <2>4, <2>6
<1>14. ASSUME single PROVE alone
  <2>1. PICK t : taken = {t}
    BY <1>8, <1>14
  <2>2. D = {t}
    BY <1>4, <2>1
  <2>3. Group(p, t) = {t}
    BY <1>4, <1>7, <2>1, <2>2
  <2>4. ChainSize(g, t) = 1
    BY <1>7, <1>8, <2>2, <2>3
  <2>5. ASSUME NEW w \in Adj[v] PROVE p[w] = Opp(c)
    <3>1. p[w] # c
      BY <1>3, <1>11, <1>14, <2>5
    <3>2. p[w] # Empty
      <4> SUFFICES ASSUME p[w] = Empty PROVE FALSE
        OBVIOUS
      <4>1. left[w] = Empty /\ w \in Points /\ v \in Adj[w] /\ put[w] = Empty
        BY <1>3, <1>6, <2>5
      <4>2. w \in taken
        BY <1>9, <1>14, <4>1
      <4> QED
        BY <1>1, <1>5, <4>1, <4>2
    <3> QED
      BY <1>3, <1>12, <3>1, <3>2
  <2> QED
    BY <1>8, <2>2, <2>4, <2>5
<1>15. KoCaptureLoc(g, v, c) = IF alone THEN TheOne(D) ELSE NoLoc
  BY <1>1, <1>2 DEF KoCaptureLoc, p
<1>16. PlayMoveAssumeLegal(g, v, c).ko_loc = IF single THEN TheOne(taken) ELSE NoLoc
  <2>1. PositionOf(PlayMoveAssumeLegal(g, v, c)) = After(PositionOf(g), v, c)
    BY PlayImplements DEF Implements
  <2>2. PlayMoveAssumeLegal(g, v, c).ko_loc = After(PositionOf(g), v, c).ko
    BY <2>1 DEF PositionOf, Position
  <2>3. PositionOf(g).stones = p
    BY DEF PositionOf, Position, p
  <2>4. After(PositionOf(g), v, c).ko = IF libs = {} THEN NoKo ELSE IF single THEN TheOne(taken) ELSE NoKo
    BY <1>2, <2>3 DEF After, Position, libs, own, left, put, taken, LeftBy, Placed
  <2>5. single => libs # {}
    BY <1>8
  <2> HIDE DEF single
  <2> QED
    BY <2>2, <2>4, <2>5 DEF NoLoc
<1> HIDE DEF alone, single
<1> QED
  BY <1>13, <1>14, <1>15, <1>16

\* getPosHashAfterMove() foresees the hash.
LEMMA HashForeseen ==
    ASSUME NEW g, NEW v, NEW c, FreeFor(g, v, c)
    PROVE  HashAfterMove(g, v, c) = PlayMoveAssumeLegal(g, v, c).hash
<1> DEFINE p == g.colors
           put == Placed(p, v, c)
           own == Group(put, v)
           taken == Captured(put, v, c)
           left == LeftBy(p, v, c)
           joined == JoinedBy(g, v, c)
           D == DirsOf(p, v, c)
           after == PlayMoveAssumeLegal(g, v, c)
           keys(S, d) == {<<w, d>> : w \in S}
           lost == UNION {ToSet(Ring(g, w)) : w \in {w \in Adj[v] : p[w] = c /\ NumLiberties(g, w) = 1}}
<1>1. /\ v \in Points /\ p[v] = Empty /\ c \in Colors /\ c # Empty
      /\ Opp(c) # c /\ Opp(c) # Empty /\ Opp(c) \in Colors /\ p \in Stones /\ Solid(g)
  BY Kinds, BoardParts DEF FreeFor, Opp, Solid
<1>2. /\ {w \in Adj[v] : p[w] = Opp(c) /\ NumLiberties(g, w) = 1} = D
      /\ CapturedBy(g, v, c) = taken
      /\ own = {v} \cup joined /\ Group(left, v) = own
      /\ \A x \in joined : p[x] = c
      /\ \A w \in Points : p[w] # Empty => NumLiberties(g, w) \in Nat \ {0}
  BY CountersAround DEF Foreseen
<1>3. \A w \in Adj[v] : w \in Points
  BY <1>1, Symmetric
<1>4. taken = UNION {Group(put, w) : w \in D}
  BY <1>1, DirsTaken
<1>5. /\ taken \in SUBSET Points /\ v \notin taken /\ \A x \in taken : put[x] = Opp(c)
  <2> HIDE DEF p, put, taken
  <2>1. /\ taken \in SUBSET Points /\ put[v] = c /\ \A x \in taken : put[x] = Opponent(c)
    BY <1>1, MoveMade DEF put, taken
  <2> QED
    BY <1>1, <2>1 DEF Opp
<1>6. own \in SUBSET Points /\ v \in own /\ joined \subseteq own
  BY <1>1, <1>2, Groups
<1>7. Around(left, own) = {} <=> IsSuicide(g, v, c)
  BY <1>2, SmotheredByNeighbours DEF Smothered
<1>8. after.colors = (IF Around(left, own) = {} THEN Put(left, own, Empty) ELSE left) /\ after.hash = Keys(after.colors)
  <2>1. Solid(after) /\ PositionOf(after) = After(PositionOf(g), v, c)
    BY PlayImplements DEF Implements
  <2>2. after.colors = After(PositionOf(g), v, c).stones
    BY <2>1 DEF PositionOf, Position
  <2>3. PositionOf(g).stones = p
    BY DEF PositionOf, Position
  <2>4. after.colors = IF Around(left, own) = {} THEN Put(left, own, Empty) ELSE left
    BY <1>2, <2>2, <2>3 DEF After, Position, LeftBy, Placed
  <2> QED
    BY <2>1, <2>4 DEF Solid, Hashed
<1>9. g.hash = Keys(p)
  BY <1>1 DEF Solid, Hashed
<1>10. HashAfterMove(g, v, c) = IF IsSuicide(g, v, c) THEN SymDiff(g.hash, keys(lost, c))
                               ELSE SymDiff(g.hash, keys({v}, c) \cup keys(taken, Opp(c)))
  <2> HIDE DEF taken
  <2> QED
    BY <1>2 DEF HashAfterMove, IsSuicide
<1>11. \A w \in Points : put[w] = IF w = v THEN c ELSE p[w]
  BY <1>1, PutStones DEF Placed
<1>12. \A w \in Points : left[w] = IF w \in taken THEN Empty ELSE put[w]
  BY <1>5, PutStones DEF LeftBy
<1>13. CASE IsSuicide(g, v, c)
  <2>1. D = {}
    <3> SUFFICES ASSUME NEW w \in D PROVE FALSE
      OBVIOUS
    <3>1. w \in Adj[v] /\ p[w] = Opp(c) /\ NumLiberties(g, w) = 1
      BY <1>2
    <3> QED
      BY <1>1, <1>13, <3>1 DEF IsSuicide
  <2>2. taken = {}
    BY <1>4, <2>1
  <2>3. lost = joined
    <3>1. \A w \in Adj[v] : p[w] = c => NumLiberties(g, w) = 1
      <4> SUFFICES ASSUME NEW w \in Adj[v], p[w] = c PROVE NumLiberties(g, w) = 1
        OBVIOUS
      <4>1. NumLiberties(g, w) \in Nat \ {0}
        BY <1>1, <1>2, <1>3
      <4>2. NumLiberties(g, w) <= 1
        BY <1>1, <1>13 DEF IsSuicide
      <4> QED
        BY <4>1, <4>2
    <3>2. {w \in Adj[v] : p[w] = c /\ NumLiberties(g, w) = 1} = {w \in Adj[v] : p[w] = c}
      BY <3>1
    <3> QED
      BY <3>2 DEF JoinedBy
  <2> HIDE DEF p, put, own, taken, left, joined, lost, D
  <2>4. Put(left, own, Empty) = Put(p, joined, Empty)
    <3>1. \A w \in Points : (IF w \in own THEN Empty ELSE left[w]) = (IF w \in joined THEN Empty ELSE p[w])
      BY <1>1, <1>2, <1>11, <1>12, <2>2
    <3> QED
      BY <3>1, Zenon DEF Put
  <2>5. SymDiff(Keys(p), keys(joined, c)) = Keys(Put(p, joined, Empty))
    <3>1. joined \in SUBSET Points
      BY <1>6
    <3> QED
      BY <1>1, <1>2, <3>1, KeysCleared
  <2> HIDE DEF keys, after
  <2>6. HashAfterMove(g, v, c) = Keys(Put(p, joined, Empty))
    BY <1>9, <1>10, <1>13, <2>3, <2>5
  <2>7. after.hash = Keys(Put(p, joined, Empty))
    BY <1>7, <1>8, <1>13, <2>4
  <2> QED
    BY <2>6, <2>7 DEF after
<1>14. CASE ~IsSuicide(g, v, c)
  <2> DEFINE one == keys({v}, c)
             eaten == keys(taken, Opp(c))
  <2>1. SymDiff(Keys(p), one) = Keys(put)
    <3>1. {v} \in SUBSET Points /\ \A x \in {v} : p[x] = Empty
      BY <1>1
    <3> HIDE DEF p
    <3>2. SymDiff(Keys(p), {<<w, c>> : w \in {v}}) = Keys(Put(p, {v}, c))
      BY <1>1, <3>1, KeysFilled
    <3> QED
      BY <3>2 DEF Placed
  <2>2. SymDiff(Keys(put), eaten) = Keys(left)
    <3> HIDE DEF taken, put
    <3>1. SymDiff(Keys(put), {<<w, Opp(c)>> : w \in taken}) = Keys(Put(put, taken, Empty))
      BY <1>1, <1>5, KeysCleared
    <3> QED
      BY <3>1 DEF LeftBy, put, taken
  <2>3. one \cap eaten = {}
    BY <1>5
  <2> HIDE DEF one, eaten, put, taken, left, p, own, after
  <2>4. \A A, B, C : B \cap C = {} => SymDiff(A, B \cup C) = SymDiff(SymDiff(A, B), C)
    BY DEF SymDiff
  <2>5. SymDiff(Keys(p), one \cup eaten) = Keys(left)
    BY <2>1, <2>2, <2>3, <2>4
  <2>6. HashAfterMove(g, v, c) = Keys(left)
    BY <1>9, <1>10, <1>14, <2>5 DEF one, eaten
  <2>7. after.hash = Keys(left)
    BY <1>7, <1>8, <1>14
  <2> QED
    BY <2>6, <2>7 DEF after
<1> QED
  BY <1>13, <1>14

LEMMA NeighboursDistinct ==
    ASSUME NEW v \in Points
    PROVE  Distinct(AdjSeq[v])
<1> DEFINE a == Near(Row(v) > 0, v - XSize)
           c == Near(Col(v) > 0, v - 1)
           d == Near(Col(v) < XSize - 1, v + 1)
           e == Near(Row(v) < YSize - 1, v + XSize)
<1>1. AdjSeq[v] = ((a \o c) \o d) \o e
  BY DEF AdjSeq, Near
<1>2. /\ a \in Seq(Points) /\ \A x : Has(a, x) <=> Row(v) > 0 /\ x = v - XSize
      /\ c \in Seq(Points) /\ \A x : Has(c, x) <=> Col(v) > 0 /\ x = v - 1
      /\ d \in Seq(Points) /\ \A x : Has(d, x) <=> Col(v) < XSize - 1 /\ x = v + 1
      /\ e \in Seq(Points) /\ \A x : Has(e, x) <=> Row(v) < YSize - 1 /\ x = v + XSize
  <2>1. /\ (Row(v) > 0) \in BOOLEAN /\ (Row(v) < YSize - 1) \in BOOLEAN
        /\ (Col(v) > 0) \in BOOLEAN /\ (Col(v) < XSize - 1) \in BOOLEAN
    OBVIOUS
  <2>2. /\ Row(v) > 0 => v - XSize \in Points
        /\ Row(v) < YSize - 1 => v + XSize \in Points
        /\ Col(v) > 0 => v - 1 \in Points
        /\ Col(v) < XSize - 1 => v + 1 \in Points
    BY AdjacentPoints
  <2> QED
    BY <2>1, <2>2, NearPoints
<1>3. Distinct(a) /\ Distinct(c) /\ Distinct(d) /\ Distinct(e)
  <2>1. \A there, w : Distinct(Near(there, w))
    <3> SUFFICES ASSUME NEW there, NEW w, NEW i \in 1..Len(Near(there, w)), NEW j \in 1..Len(Near(there, w)) PROVE i = j
      BY DEF Distinct
    <3>1. Len(Near(there, w)) = 0 \/ Len(Near(there, w)) = 1
      BY DEF Near
    <3> QED
      BY <3>1
  <2> QED
    BY <2>1
<1>4. v \in Int /\ XSize \in Nat \ {0} /\ Col(v) \in 0..XSize - 1
  BY Coordinates, BoardAssumption DEF Points
<1> HIDE DEF a, c, d, e
<1>5. /\ \A x : ~(Has(a, x) /\ Has(c, x)) /\ ~(Has(a, x) /\ Has(d, x)) /\ ~(Has(a, x) /\ Has(e, x))
      /\ \A x : ~(Has(c, x) /\ Has(d, x)) /\ ~(Has(c, x) /\ Has(e, x)) /\ ~(Has(d, x) /\ Has(e, x))
  BY <1>2, <1>4
<1> DEFINE ac == a \o c
<1>6. ac \in Seq(Points) /\ Distinct(ac) /\ \A x : Has(ac, x) <=> Has(a, x) \/ Has(c, x)
  BY <1>2, <1>3, <1>5, DistinctParts, Parts, ConcatProperties
<1> HIDE DEF ac
<1> DEFINE acd == ac \o d
<1>7. acd \in Seq(Points) /\ Distinct(acd) /\ \A x : Has(acd, x) <=> Has(ac, x) \/ Has(d, x)
  <2>1. \A x : ~(Has(ac, x) /\ Has(d, x))
    BY <1>5, <1>6
  <2> QED
    BY <1>2, <1>3, <1>6, <2>1, DistinctParts, Parts, ConcatProperties
<1> HIDE DEF acd
<1>8. Distinct(acd \o e)
  <2>1. \A x : ~(Has(acd, x) /\ Has(e, x))
    BY <1>5, <1>6, <1>7
  <2> QED
    BY <1>2, <1>3, <1>7, <2>1, DistinctParts
<1> QED
  BY <1>1, <1>8 DEF ac, acd

\* The first k neighbours of v, those that a stone of c captures, and c's own.
Reached(v, k)      == {AdjSeq[v][i] : i \in 1..k}
Atari(g, v, c, k)  == {w \in Reached(v, k) : g.colors[w] = Opp(c) /\ NumLiberties(g, w) = 1}
Allied(g, v, c, k) == {w \in Reached(v, k) : g.colors[w] = c}

\* The other liberties of c's own.
Beyond(g, v, S) == UNION {Liberties(g.colors, w) \ {v} : w \in S}
ChainsOf(g, S)  == UNION {Group(g.colors, w) : w \in S}

Tallies == [caps : Nat, stones : Nat, sum : Nat, most : Nat]

Tallied(g, v, c, k, s) ==
    /\ s \in Tallies
    /\ s.caps <= Cardinality(Atari(g, v, c, k))
    /\ Cardinality(ChainsOf(g, Atari(g, v, c, k))) <= s.stones
    /\ Cardinality(Beyond(g, v, Allied(g, v, c, k))) <= s.sum
    /\ s.most = 0 \/ \E w \in Allied(g, v, c, k) : s.most = NumLiberties(g, w) - 1

\* A turn of the loop of getBoundNumLibertiesAfterPlay().
Tally(g, c, s, w) ==
    LET conn == NumLiberties(g, w) - 1 IN
    CASE g.colors[w] = Opp(c) /\ NumLiberties(g, w) = 1 ->
           [s EXCEPT !.caps = @ + 1, !.stones = @ + ChainSize(g, w)]
      [] g.colors[w] = c -> [s EXCEPT !.sum = @ + conn, !.most = IF conn > @ THEN conn ELSE @]
      [] OTHER -> s

LEMMA ReachedNext ==
    ASSUME NEW g, NEW v \in Points, NEW c, NEW k \in 1..Len(AdjSeq[v]), NEW w, w = AdjSeq[v][k]
    PROVE  /\ Reached(v, k) = Reached(v, k - 1) \cup {w} /\ w \notin Reached(v, k - 1)
           /\ w \in Points /\ Reached(v, k - 1) \in SUBSET Points
<1> DEFINE list == AdjSeq[v]
<1>1. list \in Seq(Points) /\ Len(list) \in Nat
  BY AdjSeqIsAdj
<1>2. \A i, j \in 1..Len(list) : list[i] = list[j] => i = j
  BY NeighboursDistinct DEF Distinct
<1> HIDE DEF list
<1>3. 1..k = 1..k - 1 \cup {k} /\ k \notin 1..k - 1 /\ 1..k \subseteq 1..Len(list) /\ k \in 1..Len(list)
  BY <1>1 DEF list
<1>4. \A i \in 1..Len(list) : list[i] \in Points
  BY <1>1
<1>5. w = list[k]
  BY DEF list
<1>6. Reached(v, k) = {list[i] : i \in 1..k} /\ Reached(v, k - 1) = {list[i] : i \in 1..k - 1}
  BY DEF Reached, list
<1>7. w \notin Reached(v, k - 1)
  BY <1>2, <1>3, <1>5, <1>6
<1>8. Reached(v, k - 1) \in SUBSET Points /\ w \in Points
  BY <1>3, <1>4, <1>5, <1>6
<1>9. Reached(v, k) = Reached(v, k - 1) \cup {w}
  BY <1>3, <1>5, <1>6
<1> QED
  BY <1>7, <1>8, <1>9

LEMMA TallyNext ==
    ASSUME NEW g, NEW v, NEW c, FreeFor(g, v, c), NEW k \in 1..Len(AdjSeq[v]), NEW s, Tallied(g, v, c, k - 1, s)
    PROVE  Tallied(g, v, c, k, Tally(g, c, s, AdjSeq[v][k]))
<1> DEFINE p == g.colors
           w == AdjSeq[v][k]
           A == Atari(g, v, c, k - 1)
           B == Allied(g, v, c, k - 1)
           n == NumLiberties(g, w)
           z == ChainSize(g, w)
           t == Tally(g, c, s, w)
<1>1. v \in Points /\ p[v] = Empty /\ c \in Colors /\ c # Empty /\ Opp(c) # c /\ Opp(c) # Empty
  BY Kinds DEF FreeFor, Opp
<1>2. /\ Reached(v, k) = Reached(v, k - 1) \cup {w} /\ w \notin Reached(v, k - 1)
      /\ w \in Points /\ Reached(v, k - 1) \in SUBSET Points
  BY <1>1, ReachedNext
<1>3. w \in Adj[v]
  BY <1>1, AdjSeqIsAdj
<1>4. p[w] # Empty =>
        /\ n = Cardinality(Liberties(p, w)) /\ n \in Nat \ {0}
        /\ z = Cardinality(Group(p, w))
  <2> HIDE DEF w
  <2> QED
    BY <1>2, CountersAround DEF Foreseen
<1>5. /\ s.caps \in Nat /\ s.stones \in Nat /\ s.sum \in Nat /\ s.most \in Nat
      /\ s.caps <= Cardinality(A) /\ Cardinality(ChainsOf(g, A)) <= s.stones
      /\ Cardinality(Beyond(g, v, B)) <= s.sum
      /\ s.most = 0 \/ \E u \in B : s.most = NumLiberties(g, u) - 1
      /\ s \in Tallies
  BY DEF Tallied, Tallies
<1>6. A \in SUBSET Points /\ B \in SUBSET Points /\ w \notin A /\ w \notin B
  BY <1>2 DEF Atari, Allied
<1>7. ChainsOf(g, A) \in SUBSET Points /\ Beyond(g, v, B) \in SUBSET Points
  <2>1. \A u \in Points : Group(p, u) \in SUBSET Points
    BY Groups
  <2>2. \A u : Liberties(p, u) \in SUBSET Points
    BY DEF Liberties, Around
  <2> QED
    BY <1>6, <2>1, <2>2 DEF ChainsOf, Beyond
<1>8. /\ Atari(g, v, c, k) = A \cup {u \in {w} : p[u] = Opp(c) /\ n = 1}
      /\ Allied(g, v, c, k) = B \cup {u \in {w} : p[u] = c}
  BY <1>2 DEF Atari, Allied
<1> HIDE DEF w, A, B
<1>9. CASE p[w] = Opp(c) /\ n = 1
  <2>1. t = [s EXCEPT !.caps = @ + 1, !.stones = @ + z]
    BY <1>1, <1>9 DEF Tally
  <2>2. Atari(g, v, c, k) = A \cup {w} /\ Allied(g, v, c, k) = B
    BY <1>1, <1>8, <1>9
  <2>3. Cardinality(A \cup {w}) = Cardinality(A) + 1 /\ Cardinality(A) \in Nat
    <3>1. {w} \in SUBSET Points /\ Cardinality({w}) = 1
      BY <1>2, FS_Singleton
    <3>2. A \cap {w} = {}
      BY <1>6
    <3>3. Cardinality(A \cup {w}) = Cardinality(A) + Cardinality({w})
      BY <1>6, <3>1, <3>2, DisjointSets
    <3>4. Cardinality(A) \in Nat
      BY <1>6, SetSizes
    <3> QED
      BY <3>1, <3>3, <3>4
  <2>4. Cardinality(ChainsOf(g, A \cup {w})) <= s.stones + z /\ z \in Nat
    <3>1. ChainsOf(g, A \cup {w}) = ChainsOf(g, A) \cup Group(p, w)
      BY DEF ChainsOf
    <3>2. Group(p, w) \in SUBSET Points
      BY <1>2, Groups
    <3>3. Cardinality(ChainsOf(g, A) \cup Group(p, w)) <= Cardinality(ChainsOf(g, A)) + Cardinality(Group(p, w))
      BY <1>7, <3>2, UnionSize
    <3>4. z = Cardinality(Group(p, w)) /\ z \in Nat /\ Cardinality(ChainsOf(g, A)) \in Nat
          /\ Cardinality(ChainsOf(g, A) \cup Group(p, w)) \in Nat
      BY <1>1, <1>4, <1>7, <1>9, <3>2, UnionSize
    <3> DEFINE x == Cardinality(ChainsOf(g, A))
               y == Cardinality(ChainsOf(g, A) \cup Group(p, w))
    <3>5. x \in Nat /\ y \in Nat /\ z \in Nat /\ x <= s.stones /\ y <= x + z /\ y = Cardinality(ChainsOf(g, A \cup {w}))
      BY <1>5, <3>1, <3>3, <3>4
    <3> HIDE DEF x, y, z
    <3> QED
      BY <1>5, <3>5
  <2>5. t \in Tallies /\ t.caps = s.caps + 1 /\ t.stones = s.stones + z /\ t.sum = s.sum /\ t.most = s.most
    <3>1. s.caps + 1 \in Nat /\ s.stones + z \in Nat
      BY <1>5, <2>4
    <3> HIDE DEF t, z
    <3> QED
      BY <1>5, <2>1, <3>1 DEF Tallies
  <2> HIDE DEF t, z
  <2>6. t.caps <= Cardinality(A \cup {w})
    BY <1>5, <2>3, <2>5
  <2> QED
    BY <1>5, <2>2, <2>4, <2>5, <2>6 DEF Tallied, t, w
<1>10. CASE p[w] = c
  <2>1. t = [s EXCEPT !.sum = @ + (n - 1), !.most = IF n - 1 > @ THEN n - 1 ELSE @]
    BY <1>1, <1>10 DEF Tally
  <2>2. Atari(g, v, c, k) = A /\ Allied(g, v, c, k) = B \cup {w}
    BY <1>1, <1>8, <1>10
  <2>3. n = Cardinality(Liberties(p, w)) /\ n \in Nat \ {0}
    BY <1>1, <1>4, <1>10
  <2>4. Cardinality(Beyond(g, v, B \cup {w})) <= s.sum + (n - 1)
    <3>1. Beyond(g, v, B \cup {w}) = Beyond(g, v, B) \cup (Liberties(p, w) \ {v})
      BY DEF Beyond
    <3>2. Liberties(p, w) \in SUBSET Points
      BY DEF Liberties, Around
    <3>3. Cardinality(Liberties(p, w) \ {v}) = n - 1
      <4>1. v \in Liberties(p, w)
        BY <1>1, <1>3, NextToChain
      <4>2. {v} \in SUBSET Points /\ Cardinality({v}) = 1
        BY <1>1, FS_Singleton
      <4>3. Cardinality(Liberties(p, w) \ {v}) = Cardinality(Liberties(p, w)) - Cardinality({v})
        BY <3>2, <4>1, <4>2, SetSizes
      <4> QED
        BY <2>3, <4>2, <4>3
    <3>4. Liberties(p, w) \ {v} \in SUBSET Points
      BY <3>2
    <3>5. Cardinality(Beyond(g, v, B) \cup (Liberties(p, w) \ {v})) <= Cardinality(Beyond(g, v, B)) + Cardinality(Liberties(p, w) \ {v})
          /\ Cardinality(Beyond(g, v, B)) \in Nat /\ Cardinality(Beyond(g, v, B) \cup (Liberties(p, w) \ {v})) \in Nat
      BY <1>7, <3>4, UnionSize
    <3> DEFINE x == Cardinality(Beyond(g, v, B))
               y == Cardinality(Beyond(g, v, B) \cup (Liberties(p, w) \ {v}))
               u == Cardinality(Liberties(p, w) \ {v})
    <3>6. x \in Nat /\ y \in Nat /\ y <= x + u /\ x <= s.sum
      BY <1>5, <3>5
    <3>7. y = Cardinality(Beyond(g, v, B \cup {w}))
      BY <3>1
    <3>8. u = n - 1
      BY <3>3
    <3> HIDE DEF x, y, n, u
    <3> QED
      BY <1>5, <2>3, <3>6, <3>7, <3>8
  <2>5. /\ t \in Tallies /\ t.caps = s.caps /\ t.stones = s.stones /\ t.sum = s.sum + (n - 1)
        /\ t.most = IF n - 1 > s.most THEN n - 1 ELSE s.most
    <3> HIDE DEF n, t
    <3>1. n - 1 \in Nat /\ s.sum + (n - 1) \in Nat
      BY <1>5, <2>3
    <3> DEFINE e == n - 1
    <3>2. /\ t = [s EXCEPT !.sum = @ + e, !.most = IF e > @ THEN e ELSE @]
          /\ e \in Nat /\ s.sum + e \in Nat
      BY <2>1, <3>1
    <3> HIDE DEF e
    <3>3. /\ t \in Tallies /\ t.caps = s.caps /\ t.stones = s.stones /\ t.sum = s.sum + e
          /\ t.most = IF e > s.most THEN e ELSE s.most
      BY <1>5, <3>2 DEF Tallies
    <3> QED
      BY <3>3 DEF e
  <2> HIDE DEF t
  <2>6. t.most = 0 \/ \E u \in B \cup {w} : t.most = NumLiberties(g, u) - 1
    <3>1. CASE n - 1 > s.most
      <4>1. t.most = n - 1
        BY <2>5, <3>1
      <4> QED
        BY <4>1
    <3>2. CASE ~(n - 1 > s.most)
      <4>1. t.most = s.most
        BY <2>5, <3>2
      <4> QED
        BY <1>5, <4>1
    <3> QED
      BY <3>1, <3>2
  <2> HIDE DEF n
  <2> QED
    BY <1>5, <2>2, <2>4, <2>5, <2>6 DEF Tallied, t, w
<1>11. CASE ~(p[w] = Opp(c) /\ n = 1) /\ p[w] # c
  <2>1. t = s
    BY <1>11 DEF Tally
  <2>2. Atari(g, v, c, k) = A /\ Allied(g, v, c, k) = B
    BY <1>8, <1>11
  <2> HIDE DEF t
  <2> QED
    BY <1>5, <2>1, <2>2 DEF Tallied, t, w
<1> QED
  BY <1>9, <1>10, <1>11

TallyOf(g, v, c) ==
    LET count(s, w) == Tally(g, c, s, w)
    IN  InTurn(count, [caps |-> 0, stones |-> 0, sum |-> 0, most |-> 0], AdjSeq[v])

LEMMA TalliedAll ==
    ASSUME NEW g, NEW v, NEW c, FreeFor(g, v, c)
    PROVE  Tallied(g, v, c, Len(AdjSeq[v]), TallyOf(g, v, c))
<1> DEFINE list == AdjSeq[v]
           n == Len(list)
           s0 == [caps |-> 0, stones |-> 0, sum |-> 0, most |-> 0]
           op(s, w) == Tally(g, c, s, w)
           Loop(f) == f = [k \in 0..n |-> IF k = 0 THEN s0 ELSE op(f[k - 1], list[k])]
           J == [k \in 0..n |-> {s \in Tallies : Tallied(g, v, c, k, s)}]
           f == CHOOSE e : Loop(e)
<1>1. n \in Nat
  BY AdjSeqIsAdj DEF FreeFor
<1>2. TallyOf(g, v, c) = f[n]
  BY DEF TallyOf, InTurn
<1>3. s0 \in J[0]
  <2>1. Reached(v, 0) = {}
    BY DEF Reached
  <2>2. ChainsOf(g, Atari(g, v, c, 0)) = {} /\ Beyond(g, v, Allied(g, v, c, 0)) = {} /\ Atari(g, v, c, 0) = {}
    BY <2>1 DEF ChainsOf, Beyond, Atari, Allied
  <2>3. s0 \in Tallies /\ Tallied(g, v, c, 0, s0)
    BY <2>2, FS_EmptySet DEF Tallied, Tallies
  <2> HIDE DEF n, s0
  <2> QED
    BY <1>1, <2>3
<1>4. ASSUME NEW k \in 1..n, NEW s \in J[k - 1] PROVE op(s, list[k]) \in J[k]
  <2>1. k - 1 \in 0..n /\ k \in 0..n
    BY <1>1
  <2>2. Tallied(g, v, c, k - 1, s)
    BY <1>4, <2>1
  <2>3. Tallied(g, v, c, k, op(s, list[k]))
    BY <2>2, TallyNext
  <2> HIDE DEF op, list, n
  <2>4. op(s, list[k]) \in Tallies
    BY <2>3 DEF Tallied
  <2> QED
    BY <2>1, <2>3, <2>4
<1>5. J[n] = {s \in Tallies : Tallied(g, v, c, n, s)}
  BY <1>1
<1> HIDE DEF J, list, n, op, s0
<1>6. \E e : Loop(e)
  <2> DEFINE U == UNION {J[k] : k \in 0..n}
             step == [x \in (1..n) \X U |-> op(x[2], list[x[1]])]
  <2>1. \A k \in 1..n : \A s \in J[k - 1] : step[<<k, s>>] = op(s, list[k]) /\ step[<<k, s>>] \in J[k]
    <3> TAKE k \in 1..n
    <3> TAKE s \in J[k - 1]
    <3>1. k - 1 \in 0..n
      BY <1>1
    <3>2. <<k, s>> \in (1..n) \X U
      BY <3>1
    <3>3. step[<<k, s>>] = op(s, list[k])
      BY <3>2
    <3> HIDE DEF step
    <3> QED
      BY <1>4, <3>3
  <2> HIDE DEF step, U
  <2>2. PICK e : LoopOf(e, n, s0, step) /\ \A k \in 0..n : e[k] \in J[k]
    <3>1. \A k \in 1..n : \A s \in J[k - 1] : step[<<k, s>>] \in J[k]
      BY <2>1
    <3> QED
      BY <1>1, <1>3, <3>1, Looped
  <2>3. \A k \in 0..n : (IF k = 0 THEN s0 ELSE step[<<k, e[k - 1]>>])
                        = (IF k = 0 THEN s0 ELSE op(e[k - 1], list[k]))
    <3> TAKE k \in 0..n
    <3>1. CASE k # 0
      <4>1. k \in 1..n /\ k - 1 \in 0..n
        BY <1>1, <3>1
      <4> QED
        BY <2>1, <2>2, <4>1
    <3> QED
      BY <3>1
  <2>4. Loop(e)
    <3>1. [k \in 0..n |-> IF k = 0 THEN s0 ELSE step[<<k, e[k - 1]>>]]
          = [k \in 0..n |-> IF k = 0 THEN s0 ELSE op(e[k - 1], list[k])]
      BY <2>3, Zenon
    <3> QED
      BY <2>2, <3>1 DEF LoopOf
  <2> QED
    BY <2>4
<1>7. Loop(f)
  BY <1>6
<1> HIDE DEF f
<1>8. f[0] = s0 /\ \A k \in 1..n : f[k] = op(f[k - 1], list[k])
  <2>1. \A k \in 0..n : f[k] = IF k = 0 THEN s0 ELSE op(f[k - 1], list[k])
    BY <1>7
  <2> QED
    BY <1>1, <2>1
<1>9. f[n] \in J[n]
  <2>1. GoesOn(f, J, n)
    BY <1>4, <1>8 DEF GoesOn
  <2> QED
    BY <1>1, <1>3, <1>8, <2>1, LoopEnds
<1>10. Tallied(g, v, c, n, f[n])
  BY <1>5, <1>9
<1> QED
  BY <1>2, <1>10 DEF n, list, s0

\* What lies between the bounds: what the stone is next to, what it captures, and what
\* the chains it joins have; and each of these by itself is part of it.
Between(g, v, c, libs) ==
    LET D == DirsOf(g.colors, v, c)
        O == {w \in Adj[v] : g.colors[w] = c}
        near == {w \in Adj[v] : g.colors[w] = Empty}
    IN  /\ libs \subseteq near \cup (ChainsOf(g, D) \cup Beyond(g, v, O))
        /\ D \cap near = {} /\ D \cup near \subseteq libs
        /\ \A w \in O : LET rest == Liberties(g.colors, w) \ {v} IN D \cap rest = {} /\ D \cup rest \subseteq libs

LEMMA LibertiesBetween ==
    ASSUME NEW g, NEW v, NEW c, FreeFor(g, v, c)
    PROVE  Between(g, v, c, Around(LeftBy(g.colors, v, c), Group(Placed(g.colors, v, c), v)))
<1> DEFINE p == g.colors
           put == Placed(p, v, c)
           own == Group(put, v)
           taken == Captured(put, v, c)
           left == LeftBy(p, v, c)
           joined == JoinedBy(g, v, c)
           libs == Around(left, own)
           D == DirsOf(p, v, c)
           O == {w \in Adj[v] : p[w] = c}
           near == {w \in Adj[v] : p[w] = Empty}
<1>1. /\ v \in Points /\ p[v] = Empty /\ c \in Colors /\ c # Empty
      /\ Opp(c) # c /\ Opp(c) # Empty /\ p \in Stones
  BY Kinds, BoardParts DEF FreeFor, Opp, Solid
<1>2. /\ own = {v} \cup joined
      /\ \A w \in Points : p[w] # Empty => ToSet(Ring(g, w)) = Group(p, w)
  BY CountersAround DEF Foreseen
<1>3. \A w \in Adj[v] : w \in Points /\ w # v /\ v \in Adj[w]
  BY <1>1, Symmetric
<1>4. /\ D \in SUBSET Adj[v] /\ taken = UNION {Group(put, w) : w \in D} /\ \A w \in D : w \in taken
  BY <1>1, DirsTaken
<1>5. \A w \in D : p[w] = Opp(c) /\ Group(put, w) = Group(p, w)
  <2>1. \A w \in D : w \in Adj[v] /\ p[w] = Opp(c)
    BY DEF DirsOf
  <2> QED
    BY <2>1, LastLiberty
<1>6. taken = ChainsOf(g, D)
  <2>1. {Group(put, w) : w \in D} = {Group(p, w) : w \in D}
    BY <1>5
  <2> QED
    BY <1>4, <2>1 DEF ChainsOf
<1>7. joined = ChainsOf(g, O)
  <2>1. {ToSet(Ring(g, w)) : w \in O} = {Group(p, w) : w \in O}
    BY <1>1, <1>2, <1>3
  <2>2. joined = UNION {ToSet(Ring(g, w)) : w \in O}
    BY DEF JoinedBy
  <2> HIDE DEF O
  <2> QED
    BY <2>1, <2>2 DEF ChainsOf
<1>8. \A w \in Points : left[w] = Empty <=> w # v /\ (p[w] = Empty \/ w \in taken)
  <2> HIDE DEF p, put, taken
  <2>1. taken \in SUBSET Points /\ left[v] = c
    BY <1>1, MoveMade DEF put, taken, p
  <2>2. \A w \in Points : left[w] = IF w \in taken THEN Empty ELSE put[w]
    BY <2>1, PutStones DEF left, LeftBy, put, taken
  <2>3. \A w \in Points : put[w] = IF w = v THEN c ELSE p[w]
    BY <1>1, PutStones DEF Placed, put
  <2> HIDE DEF left
  <2> QED
    BY <1>1, <2>1, <2>2, <2>3
<1> HIDE DEF p, put, own, taken, left, joined, D
<1>9. \A x : x \in libs <=> x \in Points /\ left[x] = Empty /\ Adj[x] \cap own # {}
  BY DEF Around
<1>10. \A w : \A x : x \in Liberties(p, w) <=> x \in Points /\ p[x] = Empty /\ Adj[x] \cap Group(p, w) # {}
  BY DEF Liberties, Around
<1>11. \A x : x \in Beyond(g, v, O) <=> \E w \in O : x \in Liberties(p, w) \ {v}
  BY DEF Beyond, p
<1>12. \A x : x \in joined <=> \E w \in O : x \in Group(p, w)
  BY <1>7 DEF ChainsOf, p
<1> HIDE DEF libs, O
<1>13. ASSUME NEW x \in libs PROVE x \in near \cup (taken \cup Beyond(g, v, O))
  <2>1. x \in Points /\ x # v /\ (p[x] = Empty \/ x \in taken) /\ Adj[x] \cap own # {}
    BY <1>8, <1>9, <1>13
  <2> SUFFICES ASSUME p[x] = Empty, x \notin near PROVE x \in Beyond(g, v, O)
    BY <2>1
  <2>2. v \notin Adj[x]
    BY <1>1, <2>1, Symmetric
  <2>3. PICK y \in Adj[x] : y \in joined
    BY <1>2, <2>1, <2>2
  <2>4. PICK w \in O : y \in Group(p, w)
    BY <1>12, <2>3
  <2>5. x \in Liberties(p, w)
    BY <1>10, <2>1, <2>3, <2>4
  <2> QED
    BY <1>11, <2>1, <2>4, <2>5
<1>14. D \cup near \subseteq libs
  <2>1. \A x \in D \cup near : x \in Adj[v] /\ (p[x] = Empty \/ x \in taken)
    BY <1>4
  <2>2. v \in own
    BY <1>2
  <2> HIDE DEF near
  <2> QED
    BY <1>3, <1>8, <1>9, <2>1, <2>2
<1>15. D \cap near = {}
  BY <1>1, <1>5
<1>16. ASSUME NEW w \in O PROVE LET rest == Liberties(p, w) \ {v} IN D \cap rest = {} /\ D \cup rest \subseteq libs
  <2> DEFINE rest == Liberties(p, w) \ {v}
  <2>1. \A x \in rest : x \in Points /\ p[x] = Empty /\ x # v /\ Adj[x] \cap Group(p, w) # {}
    BY <1>10
  <2>2. D \cap rest = {}
    BY <1>1, <1>5, <2>1
  <2>3. Group(p, w) \subseteq own
    BY <1>2, <1>12, <1>16
  <2>4. rest \subseteq libs
    BY <1>8, <1>9, <2>1, <2>3
  <2> HIDE DEF rest, near
  <2>5. D \cup rest \subseteq libs
    BY <1>14, <2>4
  <2> QED
    BY <2>2, <2>5 DEF rest
<1>17. libs \subseteq near \cup (ChainsOf(g, D) \cup Beyond(g, v, O))
  BY <1>6, <1>13
<1> QED
  BY <1>14, <1>15, <1>16, <1>17 DEF Between, libs, O, D, p, put, own, left

LEMMA BoundForeseen ==
    ASSUME NEW g, NEW v, NEW c, FreeFor(g, v, c)
    PROVE  LET n == LibertiesThen(PlayMoveAssumeLegal(g, v, c), v)
               bound == BoundNumLibertiesAfterPlay(g, v, c)
           IN  bound.lower <= n /\ n <= bound.upper
<1> DEFINE p == g.colors
           libs == Around(LeftBy(p, v, c), Group(Placed(p, v, c), v))
           n == LibertiesThen(PlayMoveAssumeLegal(g, v, c), v)
           D == DirsOf(p, v, c)
           O == {w \in Adj[v] : p[w] = c}
           near == {w \in Adj[v] : p[w] = Empty}
           all == TallyOf(g, v, c)
           bound == BoundNumLibertiesAfterPlay(g, v, c)
           B == Beyond(g, v, O)
           C == ChainsOf(g, D)
           i == Cardinality(near)
<1>1. v \in Points /\ p[v] = Empty /\ c \in Colors /\ c # Empty
  BY Kinds DEF FreeFor
<1>2. Reached(v, Len(AdjSeq[v])) = Adj[v] /\ \A w \in Adj[v] : w \in Points
  <2>1. \A w : w \in Adj[v] <=> \E k \in 1..Len(AdjSeq[v]) : AdjSeq[v][k] = w
    BY <1>1, AdjSeqIsAdj
  <2> QED
    BY <1>1, <2>1, Symmetric DEF Reached
<1>3. Atari(g, v, c, Len(AdjSeq[v])) = D /\ Allied(g, v, c, Len(AdjSeq[v])) = O
  <2>1. {w \in Adj[v] : p[w] = Opp(c) /\ NumLiberties(g, w) = 1} = D
    BY CountersAround DEF Foreseen
  <2> QED
    BY <1>2, <2>1 DEF Atari, Allied
<1>4. /\ all \in Tallies /\ all.caps <= Cardinality(D) /\ Cardinality(C) <= all.stones
      /\ Cardinality(B) <= all.sum
      /\ all.most = 0 \/ \E w \in O : all.most = NumLiberties(g, w) - 1
  <2> HIDE DEF D, O, all
  <2>1. Tallied(g, v, c, Len(AdjSeq[v]), all)
    BY TalliedAll DEF all
  <2> QED
    BY <1>3, <2>1 DEF Tallied
<1>5. bound = [lower |-> all.caps + (IF all.most > i THEN all.most ELSE i), upper |-> i + all.stones + all.sum]
  BY DEF BoundNumLibertiesAfterPlay, TallyOf, Tally, InTurn, ImmediateLiberties
<1>6. n = Cardinality(libs)
  BY LibertiesAfter
<1>7. /\ libs \subseteq near \cup (C \cup B)
      /\ D \cap near = {} /\ D \cup near \subseteq libs
      /\ \A w \in O : D \cap (Liberties(p, w) \ {v}) = {} /\ D \cup (Liberties(p, w) \ {v}) \subseteq libs
  BY LibertiesBetween DEF Between
<1>8. /\ libs \in SUBSET Points /\ near \in SUBSET Points /\ D \in SUBSET Points
      /\ C \in SUBSET Points /\ B \in SUBSET Points
  <2>1. libs \in SUBSET Points /\ near \in SUBSET Points
    BY <1>2 DEF Around
  <2>2. D \in SUBSET Points
    BY <1>2 DEF DirsOf
  <2>3. \A w \in Points : Group(p, w) \in SUBSET Points
    BY Groups
  <2>4. \A w : Liberties(p, w) \in SUBSET Points
    BY DEF Liberties, Around
  <2> HIDE DEF D
  <2>5. C \in SUBSET Points
    BY <2>2, <2>3 DEF ChainsOf
  <2>6. B \in SUBSET Points
    BY <2>4 DEF Beyond
  <2> QED
    BY <2>1, <2>2, <2>5, <2>6
<1>9. \A w \in O : NumLiberties(g, w) - 1 = Cardinality(Liberties(p, w) \ {v})
  <2> SUFFICES ASSUME NEW w \in O PROVE NumLiberties(g, w) - 1 = Cardinality(Liberties(p, w) \ {v})
    OBVIOUS
  <2>1. w \in Adj[v] /\ w \in Points /\ p[w] = c
    BY <1>2
  <2>2. NumLiberties(g, w) = Cardinality(Liberties(p, w))
    BY <1>1, <2>1, CountersAround DEF Foreseen
  <2>3. v \in Liberties(p, w)
    BY <1>1, <2>1, NextToChain
  <2>4. Liberties(p, w) \in SUBSET Points
    BY DEF Liberties, Around
  <2>5. {v} \in SUBSET Points /\ Cardinality({v}) = 1
    BY <1>1, FS_Singleton
  <2>6. Cardinality(Liberties(p, w) \ {v}) = Cardinality(Liberties(p, w)) - Cardinality({v})
    BY <2>3, <2>4, <2>5, SetSizes
  <2> QED
    BY <2>2, <2>5, <2>6
<1> HIDE DEF p, libs, n, D, O, near, all, B, C
<1>10. /\ Cardinality(libs) \in Nat /\ i \in Nat /\ Cardinality(D) \in Nat /\ Cardinality(C) \in Nat /\ Cardinality(B) \in Nat
  BY <1>8, SetSizes
<1>11. Cardinality(libs) <= i + Cardinality(C) + Cardinality(B)
  <2>1. C \cup B \in SUBSET Points /\ near \cup (C \cup B) \in SUBSET Points
    BY <1>8
  <2>2. Cardinality(libs) <= Cardinality(near \cup (C \cup B))
    BY <1>7, <2>1, Fewer
  <2>3. Cardinality(near \cup (C \cup B)) <= i + Cardinality(C \cup B)
    BY <1>8, <2>1, UnionSize
  <2>4. Cardinality(C \cup B) <= Cardinality(C) + Cardinality(B)
    BY <1>8, UnionSize
  <2>5. Cardinality(C \cup B) \in Nat /\ Cardinality(near \cup (C \cup B)) \in Nat
    BY <2>1, SetSizes
  <2> QED
    BY <1>10, <2>2, <2>3, <2>4, <2>5
<1>12. ASSUME NEW R \in SUBSET Points, D \cap R = {}, D \cup R \subseteq libs
       PROVE  Cardinality(D) + Cardinality(R) <= Cardinality(libs)
  <2>1. Cardinality(D \cup R) = Cardinality(D) + Cardinality(R)
    BY <1>8, <1>12, DisjointSets
  <2>2. Cardinality(D \cup R) <= Cardinality(libs)
    BY <1>8, <1>12, Fewer
  <2> QED
    BY <2>1, <2>2
<1>13. /\ Cardinality(D) + i <= Cardinality(libs)
       /\ all.most = 0 \/ Cardinality(D) + all.most <= Cardinality(libs)
  <2>1. Cardinality(D) + i <= Cardinality(libs)
    BY <1>7, <1>8, <1>12
  <2>2. ASSUME NEW w \in O, all.most = NumLiberties(g, w) - 1 PROVE Cardinality(D) + all.most <= Cardinality(libs)
    <3>1. Liberties(p, w) \ {v} \in SUBSET Points
      BY DEF Liberties, Around
    <3>2. Cardinality(D) + Cardinality(Liberties(p, w) \ {v}) <= Cardinality(libs)
      BY <1>7, <1>12, <3>1
    <3> QED
      BY <1>9, <2>2, <3>2
  <2> QED
    BY <1>4, <2>1, <2>2
<1>14. /\ all.caps \in Nat /\ all.stones \in Nat /\ all.sum \in Nat /\ all.most \in Nat
  BY <1>4 DEF Tallies
<1>15. bound.lower = all.caps + (IF all.most > i THEN all.most ELSE i) /\ bound.upper = i + all.stones + all.sum
  BY <1>5
<1> HIDE DEF bound, i
<1> DEFINE x == Cardinality(libs)
           y == Cardinality(D)
           z == Cardinality(C)
           u == Cardinality(B)
<1>16. /\ x \in Nat /\ y \in Nat /\ z \in Nat /\ u \in Nat /\ i \in Nat /\ n = x
       /\ x <= i + z + u /\ y + i <= x /\ (all.most = 0 \/ y + all.most <= x)
       /\ all.caps <= y /\ z <= all.stones /\ u <= all.sum
  BY <1>4, <1>6, <1>10, <1>11, <1>13
<1> HIDE DEF x, y, z, u
<1>17. n <= bound.upper
  BY <1>14, <1>15, <1>16
<1>18. bound.lower <= n
  BY <1>14, <1>15, <1>16
<1> QED
  BY <1>17, <1>18 DEF n, bound

LEMMA LookingAhead == KataInv => LookaheadExact
<1> SUFFICES ASSUME KataInv, NEW v \in Points, NEW c \in Colors, IsLegal(b, v, c, suicide)
             PROVE  LET after == PlayMoveAssumeLegal(b, v, c)
                        libs  == IF after.colors[v] = Empty THEN 0 ELSE NumLiberties(after, v)
                        bound == BoundNumLibertiesAfterPlay(b, v, c)
                    IN  /\ \A max \in 1..4 : NumLibertiesAfterPlay(b, v, c, max) = IF libs < max THEN libs ELSE max
                        /\ bound.lower <= libs /\ libs <= bound.upper
                        /\ KoCaptureLoc(b, v, c) = after.ko_loc
                        /\ HashAfterMove(b, v, c) = after.hash
  BY DEF LookaheadExact
<1>1. FreeFor(b, v, c)
  BY DEF KataInv, Remembers, FreeFor, IsLegal
<1> DEFINE after == PlayMoveAssumeLegal(b, v, c)
           libs == LibertiesThen(after, v)
<1>2. \A max \in 1..4 : NumLibertiesAfterPlay(b, v, c, max) = IF libs < max THEN libs ELSE max
  BY <1>1, LibertiesForeseen
<1>3. LET bound == BoundNumLibertiesAfterPlay(b, v, c) IN bound.lower <= libs /\ libs <= bound.upper
  BY <1>1, BoundForeseen
<1>4. KoCaptureLoc(b, v, c) = after.ko_loc /\ HashAfterMove(b, v, c) = after.hash
  BY <1>1, KoForeseen, HashForeseen
<1> HIDE DEF after
<1> QED
  BY <1>2, <1>3, <1>4 DEF LibertiesThen, after

----------------------------------------------------------------------------
(* Stones that cannot be captured, and the territory they hold (Benson) *)

\* The chains that keep two vital regions when only those in alive are left.
KeptAlive(g, c, multi, alive) ==
    {h \in alive :
       Cardinality({R \in Regions(g, c) : Vital(g, R, h, multi) /\ Whole(g, c, R, alive)}) >= 2}

LEMMA AliveIsKept ==
    ASSUME NEW g, NEW c, NEW multi, Heads(g, c) \in SUBSET Points, Regions(g, c) \in SUBSET SUBSET Points
    PROVE  LET A == AliveHeads(g, c, multi) IN A \in SUBSET Heads(g, c) /\ KeptAlive(g, c, multi, A) = A
<1> DEFINE K(a) == KeptAlive(g, c, multi, a)
           keep == [a \in SUBSET Points |-> K(a)]
           end == [a \in SUBSET Points |-> Kept(keep, a)]
           Sifted(f) == f = [a \in SUBSET Points |-> IF K(a) = a THEN a ELSE f[K(a)]]
<1>1. AliveHeads(g, c, multi) = (CHOOSE f : Sifted(f))[Heads(g, c)]
  BY DEF AliveHeads, KeptAlive
<1>2. \A a : K(a) \in SUBSET a
  BY DEF KeptAlive
<1>3. ASSUME NEW a \in SUBSET Points, NEW d \in SUBSET Points, a \subseteq d PROVE K(a) \subseteq K(d)
  <2> SUFFICES ASSUME NEW h \in K(a) PROVE h \in K(d)
    OBVIOUS
  <2> DEFINE V(s) == {R \in Regions(g, c) : Vital(g, R, h, multi) /\ Whole(g, c, R, s)}
  <2>1. h \in a /\ Cardinality(V(a)) >= 2
    BY DEF KeptAlive
  <2>2. V(a) \subseteq V(d)
    BY <1>3 DEF Whole
  <2>3. IsFiniteSet(V(d))
    <3>1. IsFiniteSet(SUBSET Points)
      BY PointsFinite, FS_SUBSET
    <3>2. V(d) \subseteq SUBSET Points
      OBVIOUS
    <3> QED
      BY <3>1, <3>2, FS_Subset
  <2> HIDE DEF V
  <2>4. Cardinality(V(a)) <= Cardinality(V(d)) /\ IsFiniteSet(V(a))
    BY <2>2, <2>3, FS_Subset
  <2>5. Cardinality(V(a)) \in Nat /\ Cardinality(V(d)) \in Nat
    BY <2>3, <2>4, FS_CardinalityType
  <2>6. h \in d /\ Cardinality(V(d)) >= 2
    BY <1>3, <2>1, <2>4, <2>5
  <2> QED
    BY <2>6 DEF KeptAlive, V
<1> HIDE DEF K
<1>4. Shrinks(keep)
  BY <1>2, <1>3 DEF Shrinks
<1>5. \A a \in SUBSET Points : keep[a] = K(a)
  OBVIOUS
<1>6. Sifted(end)
  <2>1. \A a \in SUBSET Points : end[a] = IF K(a) = a THEN a ELSE end[K(a)]
    <3> TAKE a \in SUBSET Points
    <3>1. K(a) \in SUBSET Points
      BY <1>2
    <3> HIDE DEF keep
    <3>2. end[a] = Kept(keep, a) /\ end[K(a)] = Kept(keep, keep[a])
      BY <1>5, <3>1
    <3> HIDE DEF end
    <3> QED
      BY <1>4, <1>5, <3>2, KeptParts
  <2>2. end = [a \in SUBSET Points |-> end[a]]
    OBVIOUS
  <2> HIDE DEF end, keep
  <2>3. [a \in SUBSET Points |-> end[a]] = [a \in SUBSET Points |-> IF K(a) = a THEN a ELSE end[K(a)]]
    BY <2>1, Zenon
  <2> QED
    BY <2>2, <2>3
<1> DEFINE f == CHOOSE f : Sifted(f)
<1> HIDE DEF end
<1>7. Sifted(f)
  BY <1>6
<1> HIDE DEF f, keep
<1>8. Shrunk(keep, f)
  BY <1>5, <1>7 DEF Shrunk
<1>9. f[Heads(g, c)] = Kept(keep, Heads(g, c))
  BY <1>4, <1>8, Shrinking
<1>10. Kept(keep, Heads(g, c)) \in SUBSET Heads(g, c)
       /\ keep[Kept(keep, Heads(g, c))] = Kept(keep, Heads(g, c))
  BY <1>4, KeptParts
<1>11. K(Kept(keep, Heads(g, c))) = Kept(keep, Heads(g, c))
  BY <1>5, <1>10
<1> QED
  BY <1>1, <1>9, <1>10, <1>11 DEF f, K

\* The regions and heads of a board.
LEMMA RegionsAndHeads ==
    ASSUME NEW g, Solid(g), NEW c \in Colors
    PROVE  /\ Regions(g, c) \in SUBSET SUBSET Points
           /\ \A R \in Regions(g, c) : \E v \in Points : g.colors[v] = Empty /\ R = Without(g.colors, c, v)
           /\ Heads(g, c) \in SUBSET Points
           /\ \A x \in Points : g.colors[x] = c => g.chain_head[x] \in Heads(g, c)
<1>1. \A R \in Regions(g, c) : \E v \in Points : g.colors[v] = Empty /\ R = Without(g.colors, c, v)
  BY DEF Regions, Region, Without
<1>2. c # Empty
  BY Kinds
<1>3. \A R \in Regions(g, c) : R \in SUBSET Points
  BY <1>1, <1>2, Withouts
<1>4. \A x \in Points : g.colors[x] = c => g.chain_head[x] \in Heads(g, c)
  BY DEF Heads
<1>5. \A x \in Points : g.colors[x] = c => g.chain_head[x] \in Points
  BY <1>2, SolidStone
<1>6. Heads(g, c) \in SUBSET Points
  BY <1>5 DEF Heads
<1> QED
  BY <1>1, <1>3, <1>4, <1>6

\* Two regions of a set that counts at least two.
LEMMA TwoOf ==
    ASSUME NEW V, Cardinality(V) >= 2
    PROVE  \E R, Q \in V : R # Q
<1>1. V # {}
  BY FS_EmptySet
<1>2. PICK R \in V : TRUE
  BY <1>1
<1>3. V # {R}
  BY FS_Singleton
<1> QED
  BY <1>2, <1>3

\* A wall of a whole region is alive.
LEMMA WallsAlive ==
    ASSUME NEW g, Solid(g), NEW c \in Colors, NEW multi, NEW R \in SUBSET Points,
           Whole(g, c, R, AliveHeads(g, c, multi)), NEW y \in R, NEW w \in Adj[y], g.colors[w] = c
    PROVE  w \in PassAlive(g, c, multi)
<1>1. w \in Points /\ c # Empty
  BY Kinds, Symmetric
<1> DEFINE h == g.chain_head[w]
<1>2. h \in Heads(g, c) /\ g.colors[h] = c
  BY <1>1, RegionsAndHeads, SolidStone
<1>3. Borders(g, R, h)
  BY <1>2 DEF Borders, IsLibertyOf
<1>4. h \in AliveHeads(g, c, multi)
  BY <1>2, <1>3 DEF Whole
<1> QED
  BY <1>1, <1>4 DEF PassAlive

\* The chains the board finds alive are secure.
LEMMA AliveSecure ==
    ASSUME NEW g, Solid(g), NEW c \in Colors, NEW multi \in BOOLEAN
    PROVE  Secure(g.colors, PassAlive(g, c, multi), c, multi)
<1> DEFINE p == g.colors
           A == AliveHeads(g, c, multi)
           S == PassAlive(g, c, multi)
<1>1. /\ Regions(g, c) \in SUBSET SUBSET Points /\ Heads(g, c) \in SUBSET Points
      /\ \A R \in Regions(g, c) : \E v \in Points : p[v] = Empty /\ R = Without(p, c, v)
  BY RegionsAndHeads
<1>2. A \in SUBSET Heads(g, c) /\ KeptAlive(g, c, multi, A) = A
  BY <1>1, AliveIsKept
<1>3. S = {x \in Points : p[x] = c /\ g.chain_head[x] \in A}
  BY DEF PassAlive
<1>4. c # Empty
  BY Kinds
<1>5. \A R \in Regions(g, c) : Whole(g, c, R, A) => \A y \in R : \A w \in Adj[y] : p[w] = c => w \in S
  BY <1>1, WallsAlive
<1> HIDE DEF A, S, p
<1>6. ASSUME NEW x \in S PROVE Group(p, x) \subseteq S
  <2>1. x \in Points /\ p[x] = c /\ g.chain_head[x] \in A
    BY <1>3
  <2>2. \A y \in Group(p, x) : y \in Points /\ p[y] = c
    BY <2>1, Groups
  <2>3. \A y \in Group(p, x) : g.chain_head[y] = g.chain_head[x]
    BY <1>4, <2>1, <2>2, SolidStone DEF p
  <2> QED
    BY <1>3, <2>1, <2>2, <2>3
<1>7. ASSUME NEW x \in S PROVE \E R, Q : Eye(p, S, c, multi, x, R) /\ Eye(p, S, c, multi, x, Q) /\ R \cap Q = {}
  <2> DEFINE h == g.chain_head[x]
             V == {R \in Regions(g, c) : Vital(g, R, h, multi) /\ Whole(g, c, R, A)}
  <2>1. x \in Points /\ p[x] = c /\ h \in A
    BY <1>3
  <2>2. Cardinality(V) >= 2
    BY <1>2, <2>1 DEF KeptAlive
  <2> HIDE DEF V
  <2>3. PICK R, Q \in V : R # Q
    BY <2>2, TwoOf
  <2>4. R \cap Q = {}
    <3> SUFFICES ASSUME NEW z \in R, z \in Q PROVE FALSE
      OBVIOUS
    <3>1. R \in Regions(g, c) /\ Q \in Regions(g, c)
      BY DEF V
    <3>2. R = Without(p, c, z) /\ Q = Without(p, c, z)
      BY <1>1, <1>4, <3>1, Withouts
    <3> QED
      BY <2>3, <3>2
  <2>5. ASSUME NEW E \in V PROVE Eye(p, S, c, multi, x, E)
    <3>1. E \in Regions(g, c) /\ Vital(g, E, h, multi) /\ Whole(g, c, E, A)
      BY DEF V
    <3>2. PICK v \in Points : p[v] = Empty /\ E = Without(p, c, v)
      BY <1>1, <3>1
    <3>3. /\ v \in E /\ E \in SUBSET Points /\ \A w \in E : p[w] # c
          /\ \A u \in E : \A w \in Adj[u] : p[w] # c => w \in E
      BY <1>4, <3>2, Withouts
    <3>4. \A y \in E : \A w \in Adj[y] : w \in E \/ w \in S
      BY <1>5, <3>1, <3>3
    <3>5. ASSUME NEW y \in E, multi \/ p[y] = Empty PROVE Adj[y] \cap Group(p, x) # {}
      <4>1. IsLibertyOf(g, y, h)
        BY <3>1, <3>5 DEF Vital, p
      <4>2. g.colors[h] = c
        BY <1>4, <2>1, SolidStone DEF p
      <4>3. PICK w \in Adj[y] : p[w] = c /\ g.chain_head[w] = h
        BY <4>1, <4>2 DEF IsLibertyOf, p
      <4>4. w \in Points /\ y \in Points
        BY <3>3, Symmetric
      <4>5. w \in Group(p, x)
        BY <1>4, <2>1, <4>3, <4>4, SolidStone DEF p
      <4> QED
        BY <4>5
    <3> QED
      BY <3>2, <3>3, <3>4, <3>5 DEF Eye
  <2> QED
    BY <2>3, <2>4, <2>5
<1>8. S \in SUBSET Points
  BY <1>3
<1>9. Secure(p, S, c, multi)
  BY <1>3, <1>6, <1>7, <1>8 DEF Secure
<1> QED
  BY <1>9 DEF p, S

LEMMA TerritoryHeld ==
    ASSUME NEW g, Solid(g), NEW c \in Colors, NEW multi \in BOOLEAN, NEW x \in Territory(g, c, multi)
    PROVE  /\ \E R : x \in R /\ Hold(g.colors, PassAlive(g, c, multi), c, R)
           /\ \E v \in Points : g.colors[v] # Empty
<1> DEFINE p == g.colors
           A == AliveHeads(g, c, multi)
           S == PassAlive(g, c, multi)
           inside(R) == {v \in R : \A w \in Adj[v] : p[w] # c}
<1>1. PICK R \in Regions(g, c) : x \in R /\ Heads(g, c) # {} /\ Cardinality(inside(R)) <= 1 /\ Whole(g, c, R, A)
  BY DEF Territory
<1>2. PICK v \in Points : p[v] = Empty /\ R = Without(p, c, v)
  BY RegionsAndHeads
<1>3. R \in SUBSET Points
  BY RegionsAndHeads
<1>4. \A y \in R : \A w \in Adj[y] : p[w] = c => w \in S
  BY <1>1, <1>3, WallsAlive
<1>5. \A y, z \in inside(R) : y = z
  <2> DEFINE I == inside(R)
  <2>1. I \in SUBSET Points /\ Cardinality(I) <= 1
    BY <1>1, <1>3
  <2> HIDE DEF I
  <2>4. Cardinality(I) \in Nat
    BY <2>1, SetSizes
  <2>2. Cardinality(I) = 0 \/ Cardinality(I) = 1
    BY <2>1, <2>4
  <2>3. I = {} \/ \E t : I = {t}
    BY <2>1, <2>2, SetSizes
  <2> QED
    BY <2>3 DEF I
<1>6. \A y, z \in R : (\A w \in Adj[y] \cup Adj[z] : p[w] # c) => y = z
  BY <1>5
<1> HIDE DEF S, inside, p
<1>7. Hold(p, S, c, R)
  BY <1>2, <1>4, <1>6 DEF Hold
<1>8. \E u \in Points : p[u] # Empty
  BY <1>1, Kinds DEF Heads, p
<1> QED
  BY <1>1, <1>7, <1>8 DEF p, S

LEMMA TerritoriesApart ==
    ASSUME NEW g, Solid(g), NEW multi \in BOOLEAN
    PROVE  Territory(g, "B", multi) \cap Territory(g, "W", multi) = {}
<1> SUFFICES ASSUME NEW x \in Territory(g, "B", multi), x \in Territory(g, "W", multi) PROVE FALSE
  OBVIOUS
<1> DEFINE p == g.colors
           S == PassAlive(g, "B", multi)
           T == PassAlive(g, "W", multi)
<1>1. "B" \in Colors /\ "W" \in Colors /\ Opponent("B") = "W" /\ p \in Stones
  BY Kinds, BoardParts DEF Opponent, Solid
<1>2. PICK R : x \in R /\ Hold(p, S, "B", R)
  BY <1>1, TerritoryHeld
<1>3. PICK Q : x \in Q /\ Hold(p, T, "W", Q)
  BY <1>1, TerritoryHeld
<1>4. \E v \in Points : p[v] # Empty
  BY <1>1, TerritoryHeld
<1>5. Secure(p, S, "B", multi) /\ Secure(p, T, "W", multi)
  BY <1>1, AliveSecure
<1> HIDE DEF p, S, T
<1>6. R \cap Q = {}
  BY <1>1, <1>2, <1>3, <1>4, <1>5, HeldApart
<1> QED
  BY <1>2, <1>3, <1>6

\* The stones a side was found to have alive when it last moved are still secure.
KataSafe ==
    /\ safe \in [Colors -> SUBSET Points]
    /\ \A c \in Colors : Secure(b.colors, safe[c], c, suicide)

\* Found anew.
LEMMA SafeAnew ==
    ASSUME KataInv', safe' = [c \in Colors |-> PassAlive(b', c, suicide')]
    PROVE  KataSafe'
<1>1. Solid(b') /\ suicide' \in BOOLEAN
  BY DEF KataInv, Remembers
<1>2. \A c \in Colors : Secure(b'.colors, PassAlive(b', c, suicide'), c, suicide')
  BY <1>1, AliveSecure
<1>3. \A c \in Colors : PassAlive(b', c, suicide') \in SUBSET Points
  BY <1>2 DEF Secure
<1>4. safe' \in [Colors -> SUBSET Points] /\ \A c \in Colors : safe'[c] = PassAlive(b', c, suicide')
  BY <1>3
<1>5. \A c \in Colors : Secure(b'.colors, safe'[c], c, suicide')
  BY <1>2, <1>4
<1> QED
  BY <1>4, <1>5 DEF KataSafe

LEMMA SafeInit == KataInit => KataSafe
<1> SUFFICES ASSUME KataInit PROVE KataSafe
  OBVIOUS
<1>1. Solid(b) /\ suicide \in BOOLEAN
  BY StepKataInit DEF KataInv, Remembers
<1>2. \A c \in Colors : Secure(b.colors, PassAlive(b, c, suicide), c, suicide)
  BY <1>1, AliveSecure
<1>3. \A c \in Colors : PassAlive(b, c, suicide) \in SUBSET Points
  BY <1>2 DEF Secure
<1>4. safe = [c \in Colors |-> PassAlive(b, c, suicide)]
  BY DEF KataInit
<1>5. safe \in [Colors -> SUBSET Points] /\ \A c \in Colors : safe[c] = PassAlive(b, c, suicide)
  BY <1>3, <1>4
<1>6. \A c \in Colors : Secure(b.colors, safe[c], c, suicide)
  BY <1>2, <1>5
<1> QED
  BY <1>5, <1>6 DEF KataSafe

LEMMA SafePlay ==
    ASSUME KataInv, KataSafe, NEW v \in Points, NEW c \in Colors, Play(v, c)
    PROVE  KataSafe'
<1>1. /\ KataInv' /\ Legal(KataShown, v, c, suicide) /\ KataShown' = After(KataShown, v, c)
      /\ suicide' = suicide
  BY StepPlay
<1>2. Solid(b) /\ Solid(b') /\ suicide \in BOOLEAN
  BY <1>1 DEF KataInv, Remembers
<1>3. KataShown.stones = b.colors /\ KataShown'.stones = b'.colors
  BY DEF KataShown, Position
<1>4. b.colors \in Stones
  BY <1>2, BoardParts DEF Solid
<1>5. safe' = [safe EXCEPT ![c] = PassAlive(b', c, suicide)]
  BY DEF Play
<1>6. Secure(b'.colors, PassAlive(b', c, suicide), c, suicide)
  BY <1>2, AliveSecure
<1>7. PassAlive(b', c, suicide) \in SUBSET Points
  BY <1>6 DEF Secure
<1>8. safe' \in [Colors -> SUBSET Points]
  BY <1>5, <1>7 DEF KataSafe
<1>9. safe'[c] = PassAlive(b', c, suicide) /\ \A d \in Colors : d # c => safe'[d] = safe[d]
  BY <1>5 DEF KataSafe
<1>10. ASSUME NEW d \in Colors, d # c PROVE Secure(b'.colors, safe[d], d, suicide)
  <2>1. c = Opponent(d)
    BY <1>10 DEF Colors, Opponent
  <2>2. Secure(KataShown.stones, safe[d], d, suicide)
    BY <1>3 DEF KataSafe
  <2>3. KataShown.stones \in Stones /\ Legal(KataShown, v, Opponent(d), suicide)
    BY <1>1, <1>3, <1>4, <2>1
  <2> DEFINE s == KataShown
  <2> HIDE DEF s
  <2>4. Secure(After(s, v, Opponent(d)).stones, safe[d], d, suicide)
    BY <1>2, <2>2, <2>3, SecureStays DEF s
  <2> QED
    BY <1>1, <1>3, <2>1, <2>4 DEF s
<1>11. \A d \in Colors : Secure(b'.colors, safe'[d], d, suicide')
  BY <1>1, <1>6, <1>9, <1>10
<1> QED
  BY <1>8, <1>11 DEF KataSafe

LEMMA SafeStep == KataInv /\ KataSafe /\ [KataNext]_kataVars => KataSafe'
<1> SUFFICES ASSUME KataInv, KataSafe, [KataNext]_kataVars PROVE KataSafe'
  OBVIOUS
<1>1. KataInv'
  BY KataStep
<1>2. ASSUME NEW v \in Points, NEW c \in Colors, Play(v, c) PROVE KataSafe'
  BY <1>2, SafePlay
<1>3. CASE PlayPass
  <2>1. safe' = safe /\ suicide' = suicide /\ b'.colors = b.colors
    <3>1. b' = [b EXCEPT !.ko_loc = NoLoc] /\ safe' = safe /\ suicide' = suicide
      BY <1>3 DEF PlayPass, KataRecorded
    <3>2. Solid(b)
      BY DEF KataInv, Remembers
    <3> QED
      BY <3>1, <3>2, KoCleared
  <2> QED
    BY <2>1 DEF KataSafe
<1>4. CASE Undo
  <2>1. safe' = [c \in Colors |-> PassAlive(b', c, suicide')]
    BY <1>4 DEF Undo
  <2> QED
    BY <1>1, <2>1, SafeAnew
<1>5. ASSUME NEW v \in Points, NEW c \in Colors \cup {Empty}, Set(v, c) PROVE KataSafe'
  <2>1. safe' = [d \in Colors |-> PassAlive(b', d, suicide')]
    BY <1>5 DEF Set
  <2> QED
    BY <1>1, <2>1, SafeAnew
<1>6. CASE UNCHANGED kataVars
  BY <1>6 DEF kataVars, KataSafe
<1> QED
  BY <1>2, <1>3, <1>4, <1>5, <1>6 DEF KataNext

LEMMA SafeStays == KataInv /\ KataSafe => PassAliveStays
<1> SUFFICES ASSUME KataInv, KataSafe PROVE PassAliveStays
  OBVIOUS
<1>1. Solid(b) /\ suicide \in BOOLEAN
  BY DEF KataInv, Remembers
<1>2. \A c \in Colors : \A v \in safe[c] : b.colors[v] = c
  BY DEF KataSafe, Secure
<1>3. Territory(b, "B", suicide) \cap Territory(b, "W", suicide) = {}
  BY <1>1, TerritoriesApart
<1> QED
  BY <1>2, <1>3 DEF PassAliveStays
----------------------------------------------------------------------------
(* Types *)

\* Only a head has counters.
Tidy(g) == \A v \in Points : g.colors[v] = Empty \/ g.chain_head[v] # v => g.libs[v] = 0 /\ g.locs[v] = 0

Prisoners == [Colors -> Nat]

\* What the types need besides the chains: they hold of every position that may return.
KataCounts ==
    /\ Tidy(b) /\ b.captures \in Prisoners /\ Len(records) <= MaxRecords
    /\ \A i \in 1..Len(earlier) : earlier[i].prisoners \in Prisoners

LEMMA ForgetTidies == ASSUME NEW g, Solid(g) PROVE Tidy(Forget(g))
<1> DEFINE f == Forget(g)
           head(v) == g.colors[v] # Empty /\ g.chain_head[v] = v
<1>1. g \in Boards
  BY DEF Solid
<1>2. /\ f.colors = g.colors
      /\ f.chain_head = [v \in Points |-> IF g.colors[v] = Empty THEN NoLoc ELSE g.chain_head[v]]
      /\ f.libs = [v \in Points |-> IF head(v) THEN g.libs[v] ELSE 0]
      /\ f.locs = [v \in Points |-> IF head(v) THEN g.locs[v] ELSE 0]
  BY <1>1 DEF Forget, Boards
<1> HIDE DEF f
<1> QED
  BY <1>2 DEF Tidy, f

LEMMA TidyCounters == ASSUME NEW g, Solid(g), Tidy(g) PROVE g.libs \in [Points -> Nat] /\ g.locs \in [Points -> Nat]
<1>1. g.libs \in [Points -> Int] /\ g.locs \in [Points -> Int]
  BY BoardParts DEF Solid
<1>2. ASSUME NEW v \in Points PROVE g.libs[v] \in Nat /\ g.locs[v] \in Nat
  <2>1. CASE g.colors[v] = Empty \/ g.chain_head[v] # v
    BY <2>1 DEF Tidy
  <2>2. CASE g.colors[v] # Empty /\ g.chain_head[v] = v
    <3>1. g.libs[v] \in Nat /\ g.locs[v] = Cardinality(Group(g.colors, v))
      BY <2>2, SolidStone
    <3>2. Cardinality(Group(g.colors, v)) \in Nat
      BY Groups, PointsFinite, FS_Subset, FS_CardinalityType
    <3> QED
      BY <3>1, <3>2
  <2> QED
    BY <2>1, <2>2
<1> QED
  BY <1>1, <1>2

LEMMA PrisonersAfter ==
    ASSUME NEW s, s.prisoners \in Prisoners, NEW v \in Points, NEW c \in Colors
    PROVE  After(s, v, c).prisoners \in Prisoners
<1> DEFINE put == Put(s.stones, {v}, c)
           taken == Captured(put, v, c)
           left == Put(put, taken, Empty)
           own == Group(left, v)
<1>1. \A S \in SUBSET Points : Cardinality(S) \in Nat
  BY PointsFinite, FS_Subset, FS_CardinalityType
<1>2. Cardinality(taken) \in Nat
  <2>1. \A w \in Adj[v] : Group(put, w) \in SUBSET Points
    BY Groups DEF Adj
  <2> HIDE DEF put
  <2>2. taken \in SUBSET Points
    BY <2>1 DEF Captured
  <2> QED
    BY <1>1, <2>2
<1>3. Cardinality(own) \in Nat
  BY <1>1, Groups
<1> HIDE DEF put, taken, left, own
<1>4. Opponent(c) \in Colors
  BY DEF Opponent, Colors
<1>5. \/ After(s, v, c).prisoners = [s.prisoners EXCEPT ![Opponent(c)] = @ + Cardinality(own)]
      \/ After(s, v, c).prisoners = [s.prisoners EXCEPT ![c] = @ + Cardinality(taken)]
  BY DEF After, Position, put, taken, left, own
<1> QED
  BY <1>2, <1>3, <1>4, <1>5 DEF Prisoners

LEMMA PrisonersSet ==
    ASSUME NEW s, s.prisoners \in Prisoners, NEW v \in Points, NEW c \in Colors \cup {Empty}
    PROVE  SetTo(s, v, c).prisoners \in Prisoners
<1> DEFINE bare == Position(Put(s.stones, {v}, Empty), NoKo, s.prisoners)
<1>1. bare.prisoners = s.prisoners
  BY DEF Position
<1> HIDE DEF bare
<1>2. SetTo(s, v, c) \in {Passed(s), bare} \/ (c \in Colors /\ SetTo(s, v, c) = Passed(After(bare, v, c)))
  BY DEF SetTo, bare
<1>3. \A t : Passed(t).prisoners = t.prisoners
  BY DEF Passed
<1> QED
  BY <1>1, <1>2, <1>3, PrisonersAfter

LEMMA CountsInit == KataInit => KataCounts
<1> SUFFICES ASSUME KataInit PROVE KataCounts
  OBVIOUS
<1> DEFINE bare(p) == [colors |-> p, chain_head |-> [v \in Points |-> NoLoc],
                       next_in_chain |-> [v \in Points |-> NoLoc],
                       libs |-> [v \in Points |-> 0], locs |-> [v \in Points |-> 0],
                       ko_loc |-> NoLoc, captures |-> [c \in Colors |-> 0], hash |-> {}]
           m(p) == RegenChainsFromColors(bare(p))
<1>1. PICK p \in [Points -> Colors \cup {Empty}] : Settled(p) /\ b = Forget(m(p))
  BY DEF KataInit
<1>2. bare(p) \in Boards /\ bare(p).colors = p /\ bare(p).captures = [c \in Colors |-> 0]
  BY DEF Boards, Stones
<1> HIDE DEF bare
<1>3. Solid(m(p)) /\ m(p).captures = [c \in Colors |-> 0]
  BY <1>1, <1>2, Regenerated
<1> HIDE DEF m
<1>4. Tidy(b) /\ b.captures = [c \in Colors |-> 0]
  BY <1>1, <1>3, ForgetTidies, Forgetting DEF PositionOf, Position
<1>5. records = <<>> /\ earlier = <<>>
  BY DEF KataInit
<1> QED
  BY <1>4, <1>5, KataBoundsAssumption DEF KataCounts, Prisoners

LEMMA CountsStep == KataInv /\ KataCounts /\ [KataNext]_kataVars => KataCounts'
<1> SUFFICES ASSUME KataInv, KataCounts, [KataNext]_kataVars PROVE KataCounts'
  OBVIOUS
<1>1. /\ Remembers(b, records, earlier) /\ Solid(b) /\ Len(earlier) = Len(records)
      /\ earlier \in Seq(StandingPositions) /\ records \in Seq(MoveRecords) /\ Len(records) \in Nat
  BY DEF KataInv, Remembers
<1>2. b.captures = KataShown.prisoners /\ b'.captures = KataShown'.prisoners
  BY DEF KataShown, Position
<1>3. ASSUME KataRecorded(records'[Len(records')]), Tidy(b'), b'.captures \in Prisoners PROVE KataCounts'
  <2>1. Len(records) < MaxRecords /\ earlier' = Append(earlier, KataShown) /\ Len(records') = Len(records) + 1
    BY <1>1, <1>3 DEF KataRecorded
  <2>2. KataShown.prisoners \in Prisoners
    BY <1>2 DEF KataCounts
  <2>3. ASSUME NEW i \in 1..Len(earlier') PROVE earlier'[i].prisoners \in Prisoners
    BY <1>1, <2>1, <2>2, <2>3 DEF KataCounts
  <2> QED
    BY <1>1, <1>3, <2>1, <2>3, KataBoundsAssumption DEF KataCounts
<1>4. ASSUME NEW v \in Points, NEW c \in Colors, Play(v, c) PROVE KataCounts'
  <2> DEFINE m == PlayMoveAssumeLegal(b, v, c)
             r == Record(b, v, c)
  <2>1. b' = Forget(m) /\ KataRecorded(r) /\ IsLegal(b, v, c, suicide) /\ KataShown' = After(KataShown, v, c)
    BY <1>4, StepPlay DEF Play
  <2>2. FreeFor(b, v, c)
    BY <1>1, <2>1 DEF FreeFor, IsLegal
  <2>3. Solid(m)
    BY <2>2, PlayImplements DEF Implements
  <2>4. b'.captures \in Prisoners
    BY <1>2, <2>1, PrisonersAfter DEF KataCounts
  <2> HIDE DEF m, r
  <2>5. records'[Len(records')] = r
    BY <1>1, <2>1 DEF KataRecorded
  <2> QED
    BY <1>3, <2>1, <2>3, <2>4, <2>5, ForgetTidies
<1>5. CASE PlayPass
  <2>1. b' = [b EXCEPT !.ko_loc = NoLoc] /\ KataRecorded(RecordPass(b))
    BY <1>5 DEF PlayPass
  <2>2. /\ b'.colors = b.colors /\ b'.chain_head = b.chain_head /\ b'.libs = b.libs /\ b'.locs = b.locs
        /\ b'.captures = b.captures
    BY <1>1, <2>1 DEF Solid, Boards
  <2>3. Tidy(b') /\ b'.captures \in Prisoners
    BY <2>2 DEF KataCounts, Tidy
  <2>4. records'[Len(records')] = RecordPass(b)
    BY <1>1, <2>1 DEF KataRecorded
  <2> QED
    BY <1>3, <2>1, <2>3, <2>4
<1>6. CASE Undo
  <2> DEFINE m == Undone(b, Last(records))
             n == Len(records)
  <2>1. records # <<>> /\ b' = Forget(m) /\ records' = Front(records)
    BY <1>6 DEF Undo
  <2>2. KataShown' = earlier[n] /\ earlier' = SubSeq(earlier, 1, n - 1) /\ n \in 1..n
    BY <1>1, <1>6, <2>1, StepUndo
  <2>3. Solid(m)
    <3> DEFINE r == Last(records)
               s == earlier[n]
    <3>1. r = records[n]
      BY <1>1, <2>1 DEF Last
    <3>2. s \in StandingPositions /\ Recalls(records[n], s, PositionAt(b, records, earlier, n + 1))
      BY <1>1, <2>2 DEF Remembers
    <3>3. PositionAt(b, records, earlier, n + 1) = PositionOf(b)
      BY DEF PositionAt
    <3> HIDE DEF r, s, n, m
    <3>4. Recalls(r, s, PositionOf(b)) /\ Standing(s)
      BY <3>1, <3>2, <3>3 DEF StandingPositions
    <3> QED
      BY <1>1, <3>4, UndoRestores DEF Implements, m, r
  <2> HIDE DEF m
  <2>4. Tidy(b') /\ b'.captures \in Prisoners
    BY <1>1, <1>2, <2>1, <2>2, <2>3, ForgetTidies DEF KataCounts
  <2>5. Len(records') <= MaxRecords
    BY <1>1, <2>1, <2>2, KataBoundsAssumption DEF Front, KataCounts
  <2>6. \A i \in 1..Len(earlier') : earlier'[i].prisoners \in Prisoners
    BY <1>1, <2>2 DEF KataCounts
  <2> QED
    BY <2>4, <2>5, <2>6 DEF KataCounts
<1>7. ASSUME NEW v \in Points, NEW c \in Colors \cup {Empty}, Set(v, c) PROVE KataCounts'
  <2>1. b' = Forget(SetStone(b, v, c)) /\ records' = records /\ earlier' = earlier
    BY <1>7 DEF Set
  <2>2. Tidy(b')
    BY <1>1, <2>1, StoneSet, ForgetTidies
  <2>3. b'.captures \in Prisoners
    BY <1>2, <1>7, StepSet, PrisonersSet DEF KataCounts
  <2> QED
    BY <2>1, <2>2, <2>3 DEF KataCounts
<1>8. CASE UNCHANGED kataVars
  BY <1>8 DEF kataVars, KataCounts, Tidy
<1> QED
  BY <1>4, <1>5, <1>6, <1>7, <1>8 DEF KataNext

----------------------------------------------------------------------------
(* Theorems *)

\* Whatever is played, taken back and set, on a board of any size: the lists, sizes,
\* liberties and the hash are those of the stones, and every record tells how the
\* position it belongs to became the next.
THEOREM KataInvariance == KataSpec => []KataInv
<1>1. KataInit => KataInv
  BY StepKataInit
<1>2. KataInv /\ [KataNext]_kataVars => KataInv'
  BY KataStep
<1> QED
  BY <1>1, <1>2, PTL DEF KataSpec

\* The lists point at points or nowhere, counters and prisoners are never negative, and
\* no more moves are recorded than the bound allows.
THEOREM KataTypeCorrectness == KataSpec => []KataTypeOK
<1>1. KataInit => KataInv /\ KataSafe /\ KataCounts
  BY StepKataInit, SafeInit, CountsInit
<1>2. KataInv /\ KataSafe /\ KataCounts /\ [KataNext]_kataVars => KataInv' /\ KataSafe' /\ KataCounts'
  BY KataStep, SafeStep, CountsStep
<1>3. KataInv /\ KataSafe /\ KataCounts => KataTypeOK
  <2> SUFFICES ASSUME KataInv, KataSafe, KataCounts PROVE KataTypeOK
    OBVIOUS
  <2>1. Solid(b) /\ b \in Boards /\ Len(earlier) = Len(records) /\ suicide \in BOOLEAN
    BY DEF KataInv, Remembers, Solid
  <2>2. b.libs \in [Points -> Nat] /\ b.locs \in [Points -> Nat]
    BY <2>1, TidyCounters DEF KataCounts
  <2>3. safe \in [Colors -> SUBSET Points]
    BY DEF KataSafe
  <2> QED
    BY <2>1, <2>2, <2>3, BoardParts DEF KataTypeOK, KataCounts, Prisoners, Stones
<1> QED
  BY <1>1, <1>2, <1>3, PTL DEF KataSpec

\* checkConsistency() never fails.
THEOREM ChainsAlwaysConsistent == KataSpec => []ChainsConsistent
BY KataInvariance, ConsistentChains, PTL

\* isLegal(), which looks at the counters of four neighbours, allows exactly the moves
\* that the rules allow.
THEOREM KataLegalEverywhere == KataSpec => []KataLegalByTheRules
<1>1. KataInv => KataLegalByTheRules
  <2> SUFFICES ASSUME KataInv, NEW v \in Points, NEW c \in Colors
               PROVE  IsLegal(b, v, c, suicide) <=> Legal(KataShown, v, c, suicide)
    BY DEF KataLegalByTheRules
  <2>1. Solid(b) /\ suicide \in BOOLEAN /\ KataShown = PositionOf(b)
    BY DEF KataInv, Remembers, KataShown, PositionOf
  <2> QED
    BY <2>1, LegalByCounters
<1> QED
  BY <1>1, KataInvariance, PTL

\* What the search is told of a move without playing it is what playing it brings.
THEOREM LookaheadAlwaysExact == KataSpec => []LookaheadExact
BY KataInvariance, LookingAhead, PTL

\* Stones that Benson's algorithm finds alive stay on the board as long as their side
\* only passes, whatever the other side plays, and no point is the territory of both.
THEOREM PassAliveForGood == KataSpec => []PassAliveStays
<1>1. KataInit => KataInv /\ KataSafe
  BY StepKataInit, SafeInit
<1>2. KataInv /\ KataSafe /\ [KataNext]_kataVars => KataInv' /\ KataSafe'
  BY KataStep, SafeStep
<1>3. KataInv /\ KataSafe => PassAliveStays
  BY SafeStays
<1> QED
  BY <1>1, <1>2, <1>3, PTL DEF KataSpec

\* The engine's board implements the game of GoGame: captures, suicide, ko and prisoners
\* follow the rules, undo() restores the position before the move, and setStone() gives
\* the position that setting a point gives by the rules.
THEOREM KataBoardImplemented == KataSpec => KataGameSpec
<1>1. KataInit => KataGame!GameInit
  BY StepKataInit, SameKataRules DEF KataGame!GameInit
<1>2. KataInv /\ [KataNext]_kataVars => [KataGame!GameNext]_(KataGame!gameVars)
  BY KataStep
<1> QED
  BY <1>1, <1>2, KataInvariance, PTL DEF KataSpec, KataGameSpec, KataGame!GameSpec

=============================================================================
