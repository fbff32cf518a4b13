------------------------------ MODULE KataBoard ------------------------------
(***************************************************************************)
(* The board of the engine (game/board.cpp): it does not look for groups but *)
(* keeps them, as circular lists of stones that share a head, with their     *)
(* size and number of liberties kept up to date by every stone that is       *)
(* played, captured, taken back or set.  The walls around the array are left *)
(* out: no function modelled here does anything in their direction.          *)
(***************************************************************************)
EXTENDS GoRules, SequencesExt, FiniteSetsExt

CONSTANTS
    MaxRecords,    \* bound: moves that can be taken back
    MaxPrisoners   \* bound: prisoners of a side when stones are set

ASSUME KataBoundsAssumption == MaxRecords \in Nat /\ MaxPrisoners \in Nat

VARIABLES
    b,        \* the board: [colors, chain_head, next_in_chain, libs, locs, ko_loc, captures, hash]
    records,  \* the MoveRecords of the moves that can be undone, oldest first
    suicide,  \* isMultiStoneSuicideLegal, a rule of the game
    earlier,     \* history: the positions before those moves
    safe      \* history: each side's pass-alive stones when it last moved

kataVars == <<b, records, suicide, earlier, safe>>

NoLoc  == NoKo
Opp(c) == Opponent(c)

\* The neighbours of a point in the order ADJ0..ADJ3: up, left, right, down.
AdjSeq ==
    [v \in Points |->
        LET near(there, w) == IF there THEN <<w>> ELSE <<>> IN
          near(Row(v) > 0, v - XSize) \o near(Col(v) > 0, v - 1)
          \o near(Col(v) < XSize - 1, v + 1) \o near(Row(v) < YSize - 1, v + XSize)]

\* The steps of a loop, from s, for the members of a sequence in turn (FoldLeft, but
\* only prefixes of the sequence are looked at).
InTurn(step(_, _), s, list) ==
    LET after[k \in 0..Len(list)] == IF k = 0 THEN s ELSE step(after[k - 1], list[k])
    IN  after[Len(list)]

\* As many turns as a walk through the points can take.
Turns(n) == [k \in 1..n |-> k]

\* The chain of the stone at v as its list is walked, from v until it comes back.
Ring(g, v) ==
    LET walk(s, k) == LET next == g.next_in_chain[Last(s)] IN
                      IF next = v THEN s ELSE Append(s, next)
    IN  InTurn(walk, <<v>>, Turns(XSize * YSize))

ChainSize(g, v)    == g.locs[g.chain_head[v]]
NumLiberties(g, v) == g.libs[g.chain_head[v]]

ImmediateLiberties(g, v) == Cardinality({w \in Adj[v] : g.colors[w] = Empty})

\* Is the empty point v next to the chain of this head?
IsLibertyOf(g, v, head) ==
    \E w \in Adj[v] : g.colors[w] = g.colors[head] /\ g.chain_head[w] = head

\* Mutant of NewLiberties: liberties the chain already has are counted again.
NewLibertiesTwice(g, v, head) == {w \in Adj[v] : g.colors[w] = Empty}

\* The empty points next to v that are not liberties of head's chain yet.
NewLiberties(g, v, head) == {w \in Adj[v] : g.colors[w] = Empty /\ ~IsLibertyOf(g, w, head)}

\* The first k stones of a list have joined head's chain.
Joining(g, list, k, head) ==
    [g EXCEPT !.chain_head = [w \in Points |-> IF \E j \in 1..k : list[j] = w THEN head ELSE @[w]]]

\* What is counted while the stones of a list join head's chain one after the other.
NewLibertiesOf(g, list, head) ==
    Cardinality({kw \in (1..Len(list)) \X Points :
                   kw[2] \in NewLiberties(Joining(g, list, kw[1] - 1, head), list[kw[1]], head)})

\* pos_hash ^= ZOBRIST_BOARD_HASH[w][c] for w in S: the hash is the set of its keys.
Flip(g, S, c) == [g EXCEPT !.hash = SymDiff(@, {<<w, c>> : w \in S})]

\* For stones that are put or taken off one after the other: a chain of colour c
\* next to one gains or loses a liberty, whatever number of its stones touch it.
ChangeSurroundingLiberties(g, S, c, delta) ==
    [g EXCEPT !.libs = [h \in Points |->
        @[h] + delta * Cardinality({w \in S : \E u \in Adj[w] : g.colors[u] = c /\ g.chain_head[u] = h})]]

----------------------------------------------------------------------------
(* Playing a stone *)

\* The list of the chain s is spliced into that of l, behind its head.
Spliced(g, ring, l, s) ==
    [Joining(g, ring, Len(ring), l) EXCEPT
       !.libs[l] = @ + NewLibertiesOf(g, ring, l),
       !.locs[l] = @ + g.locs[s],
       !.next_in_chain[ring[Len(ring)]] = g.next_in_chain[l],
       !.next_in_chain[l] = s]

\* The smaller chain joins the larger one, stone by stone.
MergeChains(g, v1, v2) ==
    LET h1 == g.chain_head[v1]   h2 == g.chain_head[v2]
        larger  == IF g.locs[h1] < g.locs[h2] THEN h2 ELSE h1
        smaller == IF larger = h1 THEN h2 ELSE h1
    IN  Spliced(g, Ring(g, smaller), larger, smaller)

RemoveChain(g, v) ==
    LET c == g.colors[v]   S == ToSet(Ring(g, v)) IN
    ChangeSurroundingLiberties([Flip(g, S, c) EXCEPT !.colors = Put(@, S, Empty)], S, Opp(c), 1)

\* The new stone is a chain of its own, then meets its neighbours one by one.
PlayMoveAssumeLegal(g, v, c) ==
    LET put == [Flip(g, {v}, c) EXCEPT !.colors[v] = c, !.locs[v] = 1, !.libs[v] = ImmediateLiberties(g, v),
                         !.chain_head[v] = v, !.next_in_chain[v] = v]
        meet(s, w) ==
          LET h == s.g.chain_head[w]   eaten == [s.g EXCEPT !.libs[h] = @ - 1] IN
          CASE s.g.colors[w] = c /\ h # s.g.chain_head[v] ->
                 [s EXCEPT !.g = MergeChains(eaten, w, v)]
            [] s.g.colors[w] = Opp(c) /\ h \notin s.seen ->
                 IF eaten.libs[h] = 0
                 THEN [g |-> RemoveChain(eaten, w), seen |-> s.seen \cup {h}, ko |-> w,
                       captured |-> s.captured + Len(Ring(eaten, w))]
                 ELSE [s EXCEPT !.g = eaten, !.seen = @ \cup {h}]
            [] OTHER -> s
        met == InTurn(meet, [g |-> put, seen |-> {}, captured |-> 0, ko |-> NoLoc], AdjSeq[v])
        m   == met.g
        fought == [m EXCEPT
          !.ko_loc = IF met.captured = 1 /\ ChainSize(m, v) = 1 /\ NumLiberties(m, v) = 1
                     THEN met.ko ELSE NoLoc,
          !.captures[c] = @ + met.captured]
    IN  IF NumLiberties(m, v) # 0 THEN fought
        ELSE [RemoveChain(fought, v) EXCEPT !.captures[Opp(c)] = @ + ChainSize(m, v)]

IsSuicide(g, v, c) ==
    \A w \in Adj[v] :
        \/ g.colors[w] = c /\ NumLiberties(g, w) <= 1
        \/ g.colors[w] = Opp(c) /\ NumLiberties(g, w) # 1

\* Mutant of IsIllegalSuicide: the liberty the stone itself takes is not counted.
IsIllegalSuicideLate(g, v, c, multi) ==
    \A w \in Adj[v] :
        \/ g.colors[w] = c /\ ~multi /\ NumLiberties(g, w) < 1
        \/ g.colors[w] = Opp(c) /\ NumLiberties(g, w) # 1

IsIllegalSuicide(g, v, c, multi) ==
    \A w \in Adj[v] :
        \/ g.colors[w] = c /\ ~multi /\ NumLiberties(g, w) <= 1
        \/ g.colors[w] = Opp(c) /\ NumLiberties(g, w) # 1

IsLegal(g, v, c, multi) ==
    g.colors[v] = Empty /\ v # g.ko_loc /\ ~IsIllegalSuicide(g, v, c, multi)

----------------------------------------------------------------------------
(* Taking a move back *)

\* Mutant of Record: the ko is not recorded.
RecordPlain(g, v, c) ==
    LET dirs == {w \in Adj[v] : g.colors[w] = Opp(c) /\ NumLiberties(g, w) = 1} IN
    [loc |-> v, pla |-> c, ko_loc |-> NoLoc, capDirs |-> dirs,
     suicided |-> dirs = {} /\ IsSuicide(g, v, c)]

\* capDirs is the set of neighbours in whose direction stones are captured.
Record(g, v, c) ==
    LET dirs == {w \in Adj[v] : g.colors[w] = Opp(c) /\ NumLiberties(g, w) = 1} IN
    [loc |-> v, pla |-> c, ko_loc |-> g.ko_loc, capDirs |-> dirs,
     suicided |-> dirs = {} /\ IsSuicide(g, v, c)]

RecordPass(g) == [loc |-> NoLoc, pla |-> "B", ko_loc |-> g.ko_loc, capDirs |-> {}, suicided |-> FALSE]

\* The points of R that are connected to v, in the order a recursion meets them that
\* goes on from each to its neighbours in turn; what it has yet to look at is in todo.
Flooded(R, v) ==
    LET visit(s, k) ==
          CASE s.todo = <<>> -> s
            [] s.todo # <<>> /\ Head(s.todo) \in R \ ToSet(s.done) ->
                 [done |-> Append(s.done, Head(s.todo)), todo |-> AdjSeq[Head(s.todo)] \o Tail(s.todo)]
            [] OTHER -> [s EXCEPT !.todo = Tail(@)]
    IN  InTurn(visit, [done |-> <<>>, todo |-> <<v>>], Turns(4 * XSize * YSize + 1)).done

\* The flooded stones become one chain, each linked to the one before it.
Chained(g, list) ==
    LET prior(w) == CHOOSE u \in Points : \E k \in DOMAIN list :
                       list[k] = w /\ u = list[IF k = 1 THEN Len(list) ELSE k - 1]
    IN  [Joining(g, list, Len(list), list[1]) EXCEPT
           !.next_in_chain = [w \in Points |-> IF w \in ToSet(list) THEN prior(w) ELSE @[w]],
           !.locs[list[1]] = Len(list)]

\* The points of a list are filled with a chain that has no liberty yet.
Filled(g, list, v, c) ==
    [Flip(Chained(g, list), ToSet(list), c) EXCEPT !.colors = Put(@, ToSet(list), c), !.libs[v] = 0]

\* Stones fill the empty region around v.
AddChain(g, v, c) ==
    LET list == Flooded({w \in Points : g.colors[w] = Empty}, v)
    IN  ChangeSurroundingLiberties(Filled(g, list, v, c), ToSet(list), Opp(c), -1)

\* The same for stones that are on the board and whose heads are invalid.
RebuildChain(g, v) ==
    LET list == Flooded({w \in Points : g.colors[w] = g.colors[v] /\ g.chain_head[w] # v}, v)
    IN  [Chained(g, list) EXCEPT !.libs[v] = NewLibertiesOf(g, list, v)]

\* The head of v's chain without v, and the chain under it.
NextHead(g, v) == IF g.chain_head[v] = v THEN g.next_in_chain[v] ELSE g.chain_head[v]

HandedOver(g, v, head) ==
    IF g.chain_head[v] # v THEN g
    ELSE [g EXCEPT !.chain_head = [w \in Points |-> IF w \in ToSet(Ring(g, v)) THEN head ELSE @[w]],
                   !.libs[head] = g.libs[v], !.locs[head] = g.locs[v]]

\* The stone at v leaves a chain it ends: the chain stays in one piece.
Unlink(g, v) ==
    LET head  == NextHead(g, v)
        moved == HandedOver(g, v, head)
        cut   == [moved EXCEPT !.next_in_chain[Last(Ring(g, v))] = moved.next_in_chain[v]]
    IN  [cut EXCEPT !.libs[head] = @ - Cardinality(NewLiberties(cut, v, head)) + 1, !.locs[head] = @ - 1]

\* The stone at v may have held several chains together.
Rebuild(g, v, c) ==
    LET ring == Ring(g, v)
        loose == [g EXCEPT !.chain_head = [w \in Points |-> IF w \in ToSet(ring) THEN NoLoc ELSE @[w]]]
        build(h, w) == IF h.colors[w] = c /\ h.chain_head[w] = NoLoc THEN RebuildChain(h, w) ELSE h
    IN  InTurn(build, loose, AdjSeq[v])

\* Board::undo().
Undone(g, r) ==
    LET v == r.loc   c == r.pla
        back(h, w, owner) ==
          LET added == AddChain(h, w, owner)
          IN  [added EXCEPT !.captures[Opp(owner)] = @ - ChainSize(added, w)]
        restore(h, w) == IF w \in r.capDirs /\ h.colors[w] = Empty THEN back(h, w, Opp(c)) ELSE h
        captives == InTurn(restore, [g EXCEPT !.ko_loc = r.ko_loc], AdjSeq[v])
        full == IF r.suicided THEN back(captives, v, c) ELSE captives
        gone == ChangeSurroundingLiberties(
                  [Flip(full, {v}, full.colors[v]) EXCEPT !.colors[v] = Empty], {v}, Opp(c), 1)
    IN  IF v = NoLoc THEN [g EXCEPT !.ko_loc = r.ko_loc]
        ELSE IF ChainSize(gone, v) = 1 THEN gone
        ELSE IF Cardinality({w \in Adj[v] : gone.colors[w] = c}) <= 1 THEN Unlink(gone, v)
        ELSE Rebuild(gone, v, c)

----------------------------------------------------------------------------
(* Setting stones *)

\* All heads are forgotten, and every chain is built from its first stone.
RegenChainsFromColors(g) ==
    LET loose == [g EXCEPT
                    !.hash = {<<v, g.colors[v]>> : v \in {v \in Points : g.colors[v] # Empty}},
                    !.chain_head = [v \in Points |-> IF g.colors[v] = Empty THEN @[v] ELSE NoLoc]]
        build(h, v) == IF h.colors[v] # Empty /\ h.chain_head[v] = NoLoc THEN RebuildChain(h, v) ELSE h
    IN  InTurn(build, loose, [k \in 1..XSize * YSize |-> k - 1])

\* The rest of the chain is played again, in the order of its list.
RemoveSingleStone(g, v) ==
    LET play(h, w) == IF w = v THEN h ELSE PlayMoveAssumeLegal(h, w, g.colors[v])
    IN  InTurn(play, RemoveChain(g, v), Ring(g, v))

SetStone(g, v, c) ==
    LET free == IF g.colors[v] = Empty THEN g ELSE RemoveSingleStone(g, v)
        refused == IF g.colors[v] = Empty THEN IsIllegalSuicide(g, v, c, TRUE) ELSE IsSuicide(free, v, c)
        set == IF g.colors[v] = c THEN g
               ELSE IF c = Empty \/ refused THEN free ELSE PlayMoveAssumeLegal(free, v, c)
    IN  [set EXCEPT !.ko_loc = NoLoc]

----------------------------------------------------------------------------
(* Looking ahead without playing *)

\* The opposing stones c captures with a stone at v, and c's stones it joins.
CapturedBy(g, v, c) ==
    UNION {ToSet(Ring(g, w)) : w \in {w \in Adj[v] : g.colors[w] = Opp(c) /\ NumLiberties(g, w) = 1}}

JoinedBy(g, v, c) ==
    UNION {ToSet(Ring(g, w)) : w \in {w \in Adj[v] : g.colors[w] = c}}

\* Mutant of NumLibertiesAfterPlay: the points of a captured chain are liberties only
\* where it stands next to the new stone.
NumLibertiesAfterPlayNear(g, v, c, max) ==
    LET n == Cardinality(
          {w \in Adj[v] : g.colors[w] = Empty \/ w \in CapturedBy(g, v, c)}
          \cup {w \in Points \ {v} : g.colors[w] = Empty /\ Adj[w] \cap JoinedBy(g, v, c) # {}})
    IN  IF n < max THEN n ELSE max

\* Counted up to max.  A captured neighbour counts where it stands, the other
\* points of its chain where they are next to a stone that is joined.
NumLibertiesAfterPlay(g, v, c, max) ==
    LET caps == CapturedBy(g, v, c)
        n == Cardinality(
          {w \in Adj[v] : g.colors[w] = Empty \/ w \in caps}
          \cup {w \in Points \ {v} : (g.colors[w] = Empty \/ w \in caps)
                                    /\ Adj[w] \cap JoinedBy(g, v, c) # {}})
    IN  IF n < max THEN n ELSE max

\* getBoundNumLibertiesAfterPlay(): a lower and an upper bound, from the counters of
\* the neighbours in turn.
BoundNumLibertiesAfterPlay(g, v, c) ==
    LET immediate == ImmediateLiberties(g, v)
        count(s, w) ==
          LET conn == NumLiberties(g, w) - 1 IN
          CASE g.colors[w] = Opp(c) /\ NumLiberties(g, w) = 1 ->
                 [s EXCEPT !.caps = @ + 1, !.stones = @ + ChainSize(g, w)]
            [] g.colors[w] = c -> [s EXCEPT !.sum = @ + conn, !.most = IF conn > @ THEN conn ELSE @]
            [] OTHER -> s
        all == InTurn(count, [caps |-> 0, stones |-> 0, sum |-> 0, most |-> 0], AdjSeq[v])
    IN  [lower |-> all.caps + IF all.most > immediate THEN all.most ELSE immediate,
         upper |-> immediate + all.stones + all.sum]

KoCaptureLoc(g, v, c) ==
    LET capturable == {w \in Adj[v] : g.colors[w] = Opp(c) /\ NumLiberties(g, w) = 1} IN
    IF /\ g.colors[v] = Empty /\ \A w \in Adj[v] : g.colors[w] = Opp(c)
       /\ Cardinality(capturable) = 1
       /\ \A w \in capturable : ChainSize(g, w) = 1
    THEN TheOne(capturable) ELSE NoLoc

\* getPosHashAfterMove().
HashAfterMove(g, v, c) ==
    LET caps == CapturedBy(g, v, c)
        lost == UNION {ToSet(Ring(g, w)) : w \in {w \in Adj[v] : g.colors[w] = c /\ NumLiberties(g, w) = 1}}
        keys(S, d) == {<<w, d>> : w \in S}
        dead == \A w \in Adj[v] :
                   \/ g.colors[w] = c /\ NumLiberties(g, w) <= 1
                   \/ g.colors[w] = Opp(c) /\ NumLiberties(g, w) # 1
    IN  IF dead THEN SymDiff(g.hash, keys(lost, c))
        ELSE SymDiff(g.hash, keys({v}, c) \cup keys(caps, Opp(c)))

----------------------------------------------------------------------------
(* calculateAreaForPla(): the chains of c that cannot be captured even when c *)
(* always passes (Benson), and the territory they hold *)

\* The largest region without stones of c around an empty point.
Region(g, c, v) ==
    LET kind == [w \in Points |-> g.colors[w] = c] IN Group(kind, v)

Regions(g, c) == {Region(g, c, v) : v \in {v \in Points : g.colors[v] = Empty}}

Heads(g, c) == {g.chain_head[v] : v \in {v \in Points : g.colors[v] = c}}

\* Mutant of Vital: a region is vital for every chain it touches.
VitalTouching(g, R, head, multi) == \E v \in R : IsLibertyOf(g, v, head)

\* The region is vital for a chain all its points are next to; where suicide is
\* not allowed, all its empty points.
Vital(g, R, head, multi) ==
    \A v \in R : (multi \/ g.colors[v] = Empty) => IsLibertyOf(g, v, head)

Borders(g, R, head) == \E v \in R : IsLibertyOf(g, v, head)

\* No chain around it has been killed.
Whole(g, c, R, alive) == \A h \in Heads(g, c) \ alive : ~Borders(g, R, h)

AliveHeads(g, c, multi) ==
    LET regions == Regions(g, c)
        left[alive \in SUBSET Points] ==
          LET kept == {h \in alive :
                  Cardinality({R \in regions : Vital(g, R, h, multi) /\ Whole(g, c, R, alive)}) >= 2}
          IN  IF kept = alive THEN alive ELSE left[kept]
    IN  left[Heads(g, c)]

PassAlive(g, c, multi) ==
    LET alive == AliveHeads(g, c, multi)
    IN  {v \in Points : g.colors[v] = c /\ g.chain_head[v] \in alive}

\* Regions too small for the other side to live in.
Territory(g, c, multi) ==
    LET alive == AliveHeads(g, c, multi)
        inside(R) == {v \in R : \A w \in Adj[v] : g.colors[w] # c}
    IN  UNION {R \in Regions(g, c) :
                 Heads(g, c) # {} /\ Cardinality(inside(R)) <= 1 /\ Whole(g, c, R, alive)}

----------------------------------------------------------------------------
(* A board in use: set up, played on, and taken back move by move *)

\* What is left behind at a point without a stone, or at one that is no head, is
\* never read again: reading it here is an error of the model.
Forget(g) ==
    LET head(v) == g.colors[v] # Empty /\ g.chain_head[v] = v IN
    [g EXCEPT !.chain_head = [v \in Points |-> IF g.colors[v] = Empty THEN NoLoc ELSE @[v]],
              !.next_in_chain = [v \in Points |-> IF g.colors[v] = Empty THEN NoLoc ELSE @[v]],
              !.libs = [v \in Points |-> IF head(v) THEN @[v] ELSE 0],
              !.locs = [v \in Points |-> IF head(v) THEN @[v] ELSE 0]]

KataShown == Position(b.colors, b.ko_loc, b.captures)

\* setStonesTolerant() on an empty board: any stones, none without liberties.
KataInit ==
    /\ \E p \in [Points -> Colors \cup {Empty}] :
          /\ Settled(p)
          /\ b = Forget(RegenChainsFromColors(
                   [colors |-> p, chain_head |-> [v \in Points |-> NoLoc],
                    next_in_chain |-> [v \in Points |-> NoLoc],
                    libs |-> [v \in Points |-> 0], locs |-> [v \in Points |-> 0],
                    ko_loc |-> NoLoc, captures |-> [c \in Colors |-> 0], hash |-> {}]))
    /\ records = <<>> /\ earlier = <<>>
    /\ suicide \in BOOLEAN
    /\ safe = [c \in Colors |-> PassAlive(b, c, suicide)]

KataRecorded(r) ==
    /\ Len(records) < MaxRecords
    /\ records' = Append(records, r) /\ earlier' = Append(earlier, KataShown)
    /\ UNCHANGED suicide

Play(v, c) ==
    /\ IsLegal(b, v, c, suicide)
    /\ KataRecorded(Record(b, v, c))
    /\ b' = Forget(PlayMoveAssumeLegal(b, v, c))
    /\ safe' = [safe EXCEPT ![c] = PassAlive(b', c, suicide)]

PlayPass ==
    /\ KataRecorded(RecordPass(b))
    /\ b' = [b EXCEPT !.ko_loc = NoLoc]
    /\ UNCHANGED safe

Undo ==
    /\ records # <<>>
    /\ b' = Forget(Undone(b, Last(records)))
    /\ records' = Front(records) /\ earlier' = Front(earlier)
    /\ safe' = [c \in Colors |-> PassAlive(b', c, suicide)]
    /\ UNCHANGED suicide

Set(v, c) ==
    /\ records = <<>> /\ \A d \in Colors : b.captures[d] <= MaxPrisoners
    /\ b' = Forget(SetStone(b, v, c))
    /\ UNCHANGED <<records, earlier>>
    /\ safe' = [d \in Colors |-> PassAlive(b', d, suicide)]
    /\ UNCHANGED suicide

KataNext ==
    \/ \E v \in Points, c \in Colors : Play(v, c)
    \/ PlayPass \/ Undo
    \/ \E v \in Points, c \in Colors \cup {Empty} : Set(v, c)

KataSpec == KataInit /\ [][KataNext]_kataVars

----------------------------------------------------------------------------

KataTypeOK ==
    /\ b.colors \in [Points -> Colors \cup {Empty}]
    /\ b.chain_head \in [Points -> Points \cup {NoLoc}]
    /\ b.next_in_chain \in [Points -> Points \cup {NoLoc}]
    /\ b.libs \in [Points -> Nat] /\ b.locs \in [Points -> Nat]
    /\ b.ko_loc \in Points \cup {NoLoc} /\ b.captures \in [Colors -> Nat]
    /\ b.hash \subseteq Points \X Colors
    /\ Len(records) <= MaxRecords /\ Len(earlier) = Len(records)
    /\ suicide \in BOOLEAN /\ safe \in [Colors -> SUBSET Points]

\* Board::checkConsistency(): every group is one list with one head, whose size
\* and liberties are those of the group; a ko point has no empty neighbour; the
\* hash is that of the stones.  It holds whatever order chains were merged,
\* captured, split and put back in.
ChainsConsistent ==
    /\ \A v \in {v \in Points : b.colors[v] # Empty} :
         LET group == Group(b.colors, v)   head == b.chain_head[v] IN
           /\ ToSet(Ring(b, v)) = group /\ head \in group
           /\ \A w \in group : b.chain_head[w] = head
           /\ b.locs[head] = Cardinality(group)
           /\ b.libs[head] = Cardinality(Liberties(b.colors, v)) /\ b.libs[head] > 0
    /\ b.ko_loc # NoLoc => ImmediateLiberties(b, b.ko_loc) = 0
    /\ b.hash = {<<v, b.colors[v]>> : v \in {v \in Points : b.colors[v] # Empty}}

\* isLegal() looks at the counters of the neighbours only, and allows exactly
\* the moves the rules allow.
KataLegalByTheRules ==
    \A v \in Points, c \in Colors :
        IsLegal(b, v, c, suicide) <=> Legal(KataShown, v, c, suicide)

\* What the search learns of a move without playing it is what playing it brings:
\* its liberties, their bounds, the ko and the hash.
LookaheadExact ==
    \A v \in Points, c \in Colors :
        IsLegal(b, v, c, suicide) =>
            LET after == PlayMoveAssumeLegal(b, v, c)
                libs  == IF after.colors[v] = Empty THEN 0 ELSE NumLiberties(after, v)
                bound == BoundNumLibertiesAfterPlay(b, v, c)
            IN  /\ \A max \in 1..4 : NumLibertiesAfterPlay(b, v, c, max) = IF libs < max THEN libs ELSE max
                /\ bound.lower <= libs /\ libs <= bound.upper
                /\ KoCaptureLoc(b, v, c) = after.ko_loc
                /\ HashAfterMove(b, v, c) = after.hash

\* Stones found pass-alive stay on the board as long as their side only passes,
\* whatever the other side plays, and no point is the territory of both.
PassAliveStays ==
    /\ \A c \in Colors : \A v \in safe[c] : b.colors[v] = c
    /\ Territory(b, "B", suicide) \cap Territory(b, "W", suicide) = {}

\* The chains play the game of GoGame.tla: captures, ko and prisoners are the
\* referee's, undo() restores the position before the move, and setStone() gives
\* the position that setting a point gives by the rules.
KataGame == INSTANCE GoGame WITH position <- KataShown, past <- earlier

KataGameSpec == KataGame!GameSpec
=============================================================================
