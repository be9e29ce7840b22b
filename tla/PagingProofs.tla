---------------------------- MODULE PagingProofs ----------------------------
(***************************************************************************)
(* Proofs about the page tables: the shape they have, what adding a table, *)
(* dividing a 2 MiB leaf and writing an entry do to the translations, and  *)
(* what the address spaces then share, for every number of frames, set of  *)
(* mapped addresses and number of address spaces.                          *)
(***************************************************************************)
EXTENDS Paging, TLAPS

\* A leaf that names no prover is tried with SMT, then with Zenon, for at most 20 seconds each.
USE SMTT(20), ZenonT(20)

Index == {0, 1}
Entries == [kind : {"none", "table", "big", "page"}, to : Int, cache : Cache]

\* An entry of a table of level l, 4 being the top tables and 1 the ones that
\* map pages; lv is the level of every frame, 0 when it is no table.
GoodEntry(e, l, lv) ==
    /\ e.kind \in CASE l \in {3, 4} -> {"none", "table"}
                    [] l = 2        -> {"none", "table", "big"}
                    [] l = 1        -> {"none", "page"}
    /\ e.kind = "none" => e = None
    /\ e.kind = "table" => e = Table(e.to) /\ e.to \in Frames /\ lv[e.to] = l - 1

\* The tables make a tree below each top table: a table below the third level
\* has one parent entry, one of the third level has the same index in all of
\* its parents.
OneParent(tb, lv) ==
    \A f, g \in Frames : \A n, k \in Index :
        /\ lv[f] \in {2, 3, 4} /\ lv[g] = lv[f]
        /\ tb[f][n].kind = "table" /\ tb[g][k].kind = "table" /\ tb[f][n].to = tb[g][k].to
        => n = k /\ (lv[f] # 4 => f = g)

Levelled(tb, fr, lv) ==
    /\ tb \in [Frames -> [Index -> Entries]] /\ fr \subseteq Frames
    /\ lv \in [Frames -> 0..4]
    /\ \A f \in fr : lv[f] = 0
    /\ \A f \in Frames, n \in Index : lv[f] # 0 => GoodEntry(tb[f][n], lv[f], lv)
    /\ OneParent(tb, lv)

\* The top tables, in a state where their set is S, share the low tree.
Tops(tb, lv, S) ==
    /\ S \subseteq Frames
    /\ \A s \in S : lv[s] = 4 /\ tb[s][0] = Table(1)

-----------------------------------------------------------------------------
LEMMA Indices ==
    /\ \A v \in VA : v[1] \in Index /\ v[2] \in Index /\ v[3] \in Index /\ v[4] \in Index
    /\ \A v, w \in VA : v[1] = w[1] /\ v[2] = w[2] /\ v[3] = w[3] /\ v[4] = w[4] => v = w
    /\ \A v \in VA : Same(v) \in Int
BY DEF VA, Index, Same

\* pmm_alloc takes a free frame.
LEMMA PickIsFree ==
    ASSUME NEW fr, fr # {}
    PROVE  Pick(fr) \in fr
BY Zenon DEF Pick

LEMMA EntryTypes ==
    /\ None \in Entries /\ \A f \in Frames : Table(f) \in Entries
    /\ \A p \in Int, c \in Cache : Page(p, c) \in Entries
    /\ None.kind = "none" /\ \A f : Table(f).kind = "table" /\ Table(f).to = f
    /\ \A p, c : Page(p, c).kind = "page" /\ Page(p, c).to = p /\ Page(p, c).cache = c
    /\ ZeroTable \in [Index -> Entries] /\ \A n \in Index : ZeroTable[n] = None
BY TablesAssumption DEF None, Table, Page, Entries, Cache, ZeroTable, Index, Frames

\* A table entry that is filled with a new and empty table.
Linked(tb, f, n, t) == [tb EXCEPT ![t] = ZeroTable, ![f][n] = Table(t)]

\* The tables tn differ from tb in table t, and in entry n of table f.
Links(tn, tb, f, n, t) ==
    /\ tn \in [Frames -> [Index -> Entries]]
    /\ tn[f][n] = Table(t)
    /\ \A g \in Frames, k \in Index : g # t /\ ~(g = f /\ k = n) => tn[g][k] = tb[g][k]

LEMMA LinkedIs ==
    ASSUME NEW tb \in [Frames -> [Index -> Entries]], NEW f \in Frames, NEW n \in Index,
           NEW t \in Frames, t # f
    PROVE  /\ Links(Linked(tb, f, n, t), tb, f, n, t)
           /\ \A k \in Index : Linked(tb, f, n, t)[t][k] = None
BY EntryTypes DEF Linked, Links

\* A new table below an entry that led to none keeps the tables a tree.
LEMMA LinksLevels ==
    ASSUME NEW tb, NEW fr, NEW lv, Levelled(tb, fr, lv),
           NEW f \in Frames, NEW n \in Index, NEW t \in fr, lv[f] \in {2, 3, 4},
           NEW tn, Links(tn, tb, f, n, t),
           \A k \in Index : tn[t][k].kind # "table" /\ GoodEntry(tn[t][k], lv[f] - 1, lv)
    PROVE  Levelled(tn, fr \ {t}, [lv EXCEPT ![t] = lv[f] - 1])
<1> DEFINE ln == [lv EXCEPT ![t] = lv[f] - 1]
<1>1. /\ tb \in [Frames -> [Index -> Entries]] /\ fr \subseteq Frames /\ t \in Frames
      /\ lv \in [Frames -> 0..4] /\ lv[t] = 0 /\ t # f
  BY DEF Levelled
<1>2. /\ tn \in [Frames -> [Index -> Entries]]
      /\ tn[f][n] = Table(t)
      /\ \A g \in Frames, k \in Index : g # t /\ ~(g = f /\ k = n) => tn[g][k] = tb[g][k]
  BY Zenon DEF Links
<1>3. /\ ln \in [Frames -> 0..4] /\ ln[t] = lv[f] - 1 /\ ln[t] \in {1, 2, 3}
      /\ \A g \in Frames : g # t => ln[g] = lv[g]
  BY <1>1
<1> HIDE DEF ln
<1>4. \A g \in fr \ {t} : ln[g] = 0
  BY <1>1, <1>3, Zenon DEF Levelled
<1>5. ASSUME NEW g \in Frames, NEW k \in Index, ln[g] # 0
      PROVE  GoodEntry(tn[g][k], ln[g], ln)
  <2>1. CASE g = t
    BY <1>3, <2>1, Zenon DEF GoodEntry
  <2>2. CASE g = f /\ k = n
    BY <1>1, <1>2, <1>3, <2>2, EntryTypes DEF GoodEntry
  <2>3. CASE g # t /\ ~(g = f /\ k = n)
    <3>1. tn[g][k] = tb[g][k] /\ ln[g] = lv[g] /\ lv[g] \in 1..4
      BY <1>1, <1>2, <1>3, <1>5, <2>3
    <3>2. GoodEntry(tb[g][k], lv[g], lv)
      BY <3>1 DEF Levelled
    <3>3. tb[g][k].kind = "table" => tb[g][k].to # t
      <4>1. tb[g][k].kind = "table" => lv[g] \in {2, 3, 4}
        BY <3>1, <3>2 DEF GoodEntry
      <4> QED
        BY <1>1, <3>2, <4>1 DEF GoodEntry
    <3> QED
      BY <1>3, <3>1, <3>2, <3>3 DEF GoodEntry
  <2> QED
    BY <2>1, <2>2, <2>3, Zenon
<1>6. OneParent(tn, ln)
  <2> SUFFICES ASSUME NEW g \in Frames, NEW h \in Frames, NEW j \in Index, NEW k \in Index,
                      ln[g] \in {2, 3, 4}, ln[h] = ln[g],
                      tn[g][j].kind = "table", tn[h][k].kind = "table", tn[g][j].to = tn[h][k].to
               PROVE  j = k /\ (ln[g] # 4 => g = h)
    BY DEF OneParent
  <2>1. g # t /\ h # t
    BY <1>2, EntryTypes
  <2>2. \A x \in Frames, y \in Index : x # t /\ tn[x][y].kind = "table" /\ tn[x][y].to = t /\ ln[x] # 0
            => x = f /\ y = n
    <3> SUFFICES ASSUME NEW x \in Frames, NEW y \in Index, x # t, tn[x][y].kind = "table",
                        tn[x][y].to = t, ln[x] # 0, ~(x = f /\ y = n)
                 PROVE  FALSE
      BY Zenon
    <3>1. tb[x][y].kind = "table" /\ tb[x][y].to = t /\ lv[x] \in 1..4
      BY <1>1, <1>2, <1>3
    <3>2. GoodEntry(tb[x][y], lv[x], lv)
      BY <3>1 DEF Levelled
    <3> QED
      BY <1>1, <3>1, <3>2 DEF GoodEntry
  <2>3. CASE (g = f /\ j = n) \/ (h = f /\ k = n)
    BY <1>2, <1>3, <2>1, <2>2, <2>3, EntryTypes
  <2>4. CASE ~(g = f /\ j = n) /\ ~(h = f /\ k = n)
    <3>1. tn[g][j] = tb[g][j] /\ tn[h][k] = tb[h][k] /\ ln[g] = lv[g] /\ ln[h] = lv[h]
      BY <1>2, <1>3, <2>1, <2>4, Zenon
    <3> QED
      BY <3>1 DEF Levelled, OneParent
  <2> QED
    BY <2>3, <2>4, Zenon
<1> QED
  BY <1>1, <1>2, <1>3, <1>4, <1>5, <1>6, Zenon DEF Levelled, ln

\* Where the walk of v from top table s ends, by what it meets.
Ends(tb, s, v) ==
    /\ tb[s][v[1]] = None => Translate(tb, s, v) = None
    /\ \A p : tb[s][v[1]] = Table(p) /\ tb[p][v[2]] = None => Translate(tb, s, v) = None

Leads(tb, s, v, p, d) == tb[s][v[1]] = Table(p) /\ tb[p][v[2]] = Table(d)

LEMMA WalkEnds ==
    ASSUME NEW tb, NEW s, NEW v
    PROVE  Ends(tb, s, v)
<1>1. None.kind = "none" /\ \A q : Table(q).to = q
  BY EntryTypes, Zenon
<1> QED
  BY <1>1, Zenon DEF Ends, Translate, At

LEMMA WalkLeads ==
    ASSUME NEW tb, NEW s, NEW v, NEW p, NEW d, Leads(tb, s, v, p, d)
    PROVE  Translate(tb, s, v) = Leaf(tb, v, Table(d))
BY EntryTypes DEF Leads, Translate, At

LEMMA LeafIs ==
    ASSUME NEW tb, NEW v, NEW d
    PROVE  /\ tb[d][v[3]] = None => Leaf(tb, v, Table(d)) = None
           /\ \A q : tb[d][v[3]] = Table(q) => Leaf(tb, v, Table(d)) = tb[q][v[4]]
           /\ tb[d][v[3]].kind = "big" =>
                Leaf(tb, v, Table(d)) = Page(tb[d][v[3]].to + v[4], tb[d][v[3]].cache)
<1> DEFINE x == tb[d][v[3]]
<1>1. Table(d).to = d /\ None.kind = "none" /\ \A q : Table(q).kind = "table" /\ Table(q).to = q
  BY EntryTypes, Zenon
<1>2. Leaf(tb, v, Table(d)) = CASE x.kind = "table" -> tb[x.to][v[4]]
                                [] x.kind = "big"   -> Page(x.to + v[4], x.cache)
                                [] OTHER            -> None
  BY <1>1, Zenon DEF Leaf, At
<1> HIDE DEF x
<1>3. x = None => Leaf(tb, v, Table(d)) = None
  BY <1>1, <1>2, Zenon
<1>4. ASSUME NEW q, x = Table(q) PROVE Leaf(tb, v, Table(d)) = tb[q][v[4]]
  BY <1>1, <1>2, <1>4, Zenon
<1>5. x.kind = "big" => Leaf(tb, v, Table(d)) = Page(x.to + v[4], x.cache)
  BY <1>2, Zenon
<1> QED
  BY <1>3, <1>4, <1>5, Zenon DEF x

\* What an entry of each level may be.
LEMMA EntryKinds ==
    ASSUME NEW tb, NEW fr, NEW lv, Levelled(tb, fr, lv), NEW f \in Frames, NEW n \in Index,
           lv[f] \in {2, 3, 4}
    PROVE  \/ tb[f][n] = None
           \/ lv[f] = 2 /\ tb[f][n].kind = "big"
           \/ \E g \in Frames : lv[g] = lv[f] - 1 /\ tb[f][n] = Table(g)
<1>1. GoodEntry(tb[f][n], lv[f], lv)
  BY DEF Levelled
<1> QED
  BY <1>1 DEF GoodEntry

\* The ways a walk can go.
LEMMA WalkKinds ==
    ASSUME NEW tb, NEW fr, NEW lv, Levelled(tb, fr, lv), NEW s \in Frames, lv[s] = 4,
           NEW v \in VA
    PROVE  \/ tb[s][v[1]] = None
           \/ \E p \in Frames : lv[p] = 3 /\ tb[s][v[1]] = Table(p) /\ tb[p][v[2]] = None
           \/ \E p, d \in Frames : lv[p] = 3 /\ lv[d] = 2 /\ Leads(tb, s, v, p, d)
<1>1. v[1] \in Index /\ v[2] \in Index
  BY Indices, Zenon
<1>2. tb[s][v[1]] = None \/ \E p \in Frames : lv[p] = 3 /\ tb[s][v[1]] = Table(p)
  BY <1>1, EntryKinds
<1>3. ASSUME NEW p \in Frames, lv[p] = 3
      PROVE  tb[p][v[2]] = None \/ \E d \in Frames : lv[d] = 2 /\ tb[p][v[2]] = Table(d)
  BY <1>1, <1>3, EntryKinds
<1> QED
  BY <1>2, <1>3, Zenon DEF Leads

\* The tables tn are those of tb in use, and empty tables where tb has none.
Extends(tn, tb, lv) ==
    \A g \in Frames, k \in Index : lv[g] # 0 =>
        \/ tn[g][k] = tb[g][k]
        \/ /\ lv[g] # 1 /\ tb[g][k] = None
           /\ \E t : tn[g][k] = Table(t) /\ \A j \in Index : tn[t][j] = None

\* An empty table where there was none maps nothing.
LEMMA ExtendsWalk ==
    ASSUME NEW tb, NEW fr, NEW lv, Levelled(tb, fr, lv), NEW tn, Extends(tn, tb, lv),
           NEW s \in Frames, lv[s] = 4, NEW v \in VA
    PROVE  Translate(tn, s, v) = Translate(tb, s, v)
<1>1. v[1] \in Index /\ v[2] \in Index /\ v[3] \in Index /\ v[4] \in Index
  BY Indices, Zenon
<1>2. Ends(tn, s, v) /\ Ends(tb, s, v)
  BY WalkEnds, Zenon
<1>3. ASSUME NEW g \in Frames, NEW k \in Index, lv[g] # 0
      PROVE  \/ tn[g][k] = tb[g][k]
             \/ /\ lv[g] # 1 /\ tb[g][k] = None
                /\ \E t : tn[g][k] = Table(t) /\ \A j \in Index : tn[t][j] = None
  BY <1>3, Zenon DEF Extends
<1>4. CASE tb[s][v[1]] = None
  BY <1>1, <1>2, <1>3, <1>4 DEF Ends
<1>5. ASSUME NEW p \in Frames, lv[p] = 3, tb[s][v[1]] = Table(p)
      PROVE  tn[s][v[1]] = Table(p)
  BY <1>1, <1>3, <1>5, EntryTypes
<1>6. ASSUME NEW p \in Frames, lv[p] = 3, tb[s][v[1]] = Table(p), tb[p][v[2]] = None
      PROVE  Translate(tn, s, v) = Translate(tb, s, v)
  <2>1. tn[s][v[1]] = Table(p)
    BY <1>5, <1>6, Zenon
  <2>2. Translate(tb, s, v) = None
    BY <1>2, <1>6, Zenon DEF Ends
  <2>3. CASE tn[p][v[2]] = None
    BY <1>2, <2>1, <2>2, <2>3, Zenon DEF Ends
  <2>4. CASE tn[p][v[2]] # None
    <3>1. PICK t : tn[p][v[2]] = Table(t) /\ \A j \in Index : tn[t][j] = None
      BY <1>1, <1>3, <1>6, <2>4
    <3>2. Translate(tn, s, v) = Leaf(tn, v, Table(t))
      BY <2>1, <3>1, WalkLeads DEF Leads
    <3>3. Leaf(tn, v, Table(t)) = None
      BY <1>1, <3>1, LeafIs
    <3> QED
      BY <2>2, <3>2, <3>3, Zenon
  <2> QED
    BY <2>3, <2>4, Zenon
<1>7. ASSUME NEW p \in Frames, NEW d \in Frames, lv[p] = 3, lv[d] = 2, Leads(tb, s, v, p, d)
      PROVE  Translate(tn, s, v) = Translate(tb, s, v)
  <2>1. tn[s][v[1]] = Table(p)
    BY <1>5, <1>7, Zenon DEF Leads
  <2>2. tn[p][v[2]] = Table(d)
    BY <1>1, <1>3, <1>7, EntryTypes DEF Leads
  <2>3. /\ Translate(tn, s, v) = Leaf(tn, v, Table(d))
        /\ Translate(tb, s, v) = Leaf(tb, v, Table(d))
    BY <1>7, <2>1, <2>2, WalkLeads DEF Leads
  <2>4. CASE tb[d][v[3]] = None
    <3>1. Leaf(tb, v, Table(d)) = None
      BY <2>4, LeafIs, Zenon
    <3>2. CASE tn[d][v[3]] = None
      BY <2>3, <3>1, <3>2, LeafIs
    <3>3. CASE tn[d][v[3]] # None
      <4>1. PICK t : tn[d][v[3]] = Table(t) /\ \A j \in Index : tn[t][j] = None
        BY <1>1, <1>3, <1>7, <2>4, <3>3
      <4>2. Leaf(tn, v, Table(d)) = None
        BY <1>1, <4>1, LeafIs
      <4> QED
        BY <2>3, <3>1, <4>2, Zenon
    <3> QED
      BY <3>2, <3>3, Zenon
  <2>5. CASE tb[d][v[3]] # None
    <3>1. tn[d][v[3]] = tb[d][v[3]]
      BY <1>1, <1>3, <1>7, <2>5
    <3>2. CASE tb[d][v[3]].kind = "big"
      BY <2>3, <3>1, <3>2, LeafIs
    <3>3. ASSUME NEW q \in Frames, lv[q] = 1, tb[d][v[3]] = Table(q)
          PROVE  Leaf(tn, v, Table(d)) = Leaf(tb, v, Table(d))
      <4>1. tn[q][v[4]] = tb[q][v[4]]
        BY <1>1, <1>3, <3>3
      <4> QED
        BY <3>1, <3>3, <4>1, LeafIs
    <3>4. tb[d][v[3]].kind = "big" \/ \E q \in Frames : lv[q] = 1 /\ tb[d][v[3]] = Table(q)
      BY <1>1, <1>7, <2>5, EntryKinds
    <3> QED
      BY <2>3, <3>2, <3>3, <3>4, Zenon
  <2> QED
    BY <2>4, <2>5, Zenon
<1> QED
  BY <1>4, <1>6, <1>7, WalkKinds

\* A new and empty table below an entry that led nowhere.
LEMMA LinkedWalk ==
    ASSUME NEW tb, NEW fr, NEW lv, Levelled(tb, fr, lv),
           NEW f \in Frames, NEW n \in Index, NEW t \in fr,
           lv[f] \in {2, 3, 4}, tb[f][n].kind = "none",
           NEW s \in Frames, lv[s] = 4, NEW v \in VA
    PROVE  Translate(Linked(tb, f, n, t), s, v) = Translate(tb, s, v)
<1> DEFINE tn == Linked(tb, f, n, t)
<1>1. tb \in [Frames -> [Index -> Entries]] /\ t \in Frames /\ lv[t] = 0 /\ t # f
  BY DEF Levelled
<1>2. Links(tn, tb, f, n, t) /\ \A k \in Index : tn[t][k] = None
  BY <1>1, LinkedIs
<1>3. tb[f][n] = None
  BY EntryKinds, EntryTypes
<1> HIDE DEF tn
<1>4. Extends(tn, tb, lv)
  BY <1>1, <1>2, <1>3 DEF Extends, Links
<1> QED
  BY <1>4, ExtendsWalk DEF tn

\* Tables whose two upper levels are those of tb: the walks part below them.
SameUpper(tn, tb, lv) ==
    \A g \in Frames, k \in Index : lv[g] \in {3, 4} => tn[g][k] = tb[g][k]

LEMMA UpperWalk ==
    ASSUME NEW tb, NEW fr, NEW lv, Levelled(tb, fr, lv), NEW tn, SameUpper(tn, tb, lv),
           NEW s \in Frames, lv[s] = 4, NEW v \in VA
    PROVE  \/ Translate(tn, s, v) = Translate(tb, s, v)
           \/ \E p, d \in Frames : /\ lv[d] = 2 /\ Leads(tb, s, v, p, d)
                                    /\ Translate(tn, s, v) = Leaf(tn, v, Table(d))
                                    /\ Translate(tb, s, v) = Leaf(tb, v, Table(d))
<1>1. v[1] \in Index /\ v[2] \in Index
  BY Indices, Zenon
<1>2. Ends(tn, s, v) /\ Ends(tb, s, v)
  BY WalkEnds, Zenon
<1>3. tn[s][v[1]] = tb[s][v[1]]
  BY <1>1, Zenon DEF SameUpper
<1>4. \A p \in Frames : lv[p] = 3 => tn[p][v[2]] = tb[p][v[2]]
  BY <1>1, Zenon DEF SameUpper
<1>5. CASE tb[s][v[1]] = None
  BY <1>2, <1>3, <1>5, Zenon DEF Ends
<1>6. ASSUME NEW p \in Frames, lv[p] = 3, tb[s][v[1]] = Table(p), tb[p][v[2]] = None
      PROVE  Translate(tn, s, v) = Translate(tb, s, v)
  BY <1>2, <1>3, <1>4, <1>6, Zenon DEF Ends
<1>7. ASSUME NEW p \in Frames, NEW d \in Frames, lv[p] = 3, Leads(tb, s, v, p, d)
      PROVE  /\ Translate(tn, s, v) = Leaf(tn, v, Table(d))
             /\ Translate(tb, s, v) = Leaf(tb, v, Table(d))
  <2>1. Leads(tn, s, v, p, d)
    BY <1>3, <1>4, <1>7, Zenon DEF Leads
  <2> QED
    BY <1>7, <2>1, WalkLeads, Zenon
<1> QED
  BY <1>5, <1>6, <1>7, WalkKinds

-----------------------------------------------------------------------------
\* A 2 MiB leaf that is replaced by a table of its pages.
Divided(tb, f, n, t, c) ==
    [tb EXCEPT ![f][n] = Table(t), ![t] = [d \in {0, 1} |-> Page(tb[f][n].to + d, c)]]

LEMMA DividedIs ==
    ASSUME NEW tb \in [Frames -> [Index -> Entries]], NEW f \in Frames, NEW n \in Index,
           NEW t \in Frames, t # f, NEW c \in Cache
    PROVE  /\ Links(Divided(tb, f, n, t, c), tb, f, n, t)
           /\ \A k \in Index : Divided(tb, f, n, t, c)[t][k] = Page(tb[f][n].to + k, c)
<1> DEFINE pt == [d \in {0, 1} |-> Page(tb[f][n].to + d, c)]
<1>1. tb[f][n].to \in Int
  BY Zenon DEF Entries
<1>2. pt \in [Index -> Entries] /\ \A k \in Index : pt[k] = Page(tb[f][n].to + k, c)
  BY <1>1, EntryTypes DEF Index
<1>3. Divided(tb, f, n, t, c) = [tb EXCEPT ![f][n] = Table(t), ![t] = pt]
  BY Zenon DEF Divided
<1>4. Table(t) \in Entries
  BY EntryTypes, Zenon
<1> HIDE DEF pt
<1>5. Divided(tb, f, n, t, c)
        = [g \in Frames |-> IF g = t THEN pt
                           ELSE IF g = f THEN [tb[f] EXCEPT ![n] = Table(t)] ELSE tb[g]]
  BY <1>3, Zenon
<1>6. [tb[f] EXCEPT ![n] = Table(t)] \in [Index -> Entries]
  BY <1>4, Zenon
<1>7. \A k \in Index : [tb[f] EXCEPT ![n] = Table(t)][k] = IF k = n THEN Table(t) ELSE tb[f][k]
  BY Zenon
<1> QED
  BY <1>2, <1>5, <1>6, <1>7 DEF Links

\* The translation new in place of old goes to the same place, and is cached
\* as before unless it is now uncached.
Kept(new, old) ==
    new.kind = old.kind /\ new.to = old.to /\ (new.cache # old.cache => new.cache = "uc")

\* The pages of a divided leaf go where the leaf went.
LEMMA DividedWalk ==
    ASSUME NEW tb, NEW fr, NEW lv, Levelled(tb, fr, lv),
           NEW f \in Frames, NEW n \in Index, NEW t \in fr, lv[f] = 2,
           tb[f][n].kind = "big", NEW c \in {"uc", tb[f][n].cache},
           NEW s \in Frames, lv[s] = 4, NEW v \in VA
    PROVE  Kept(Translate(Divided(tb, f, n, t, c), s, v), Translate(tb, s, v))
<1> DEFINE tn == Divided(tb, f, n, t, c)
<1>1. tb \in [Frames -> [Index -> Entries]] /\ t \in Frames /\ lv[t] = 0 /\ t # f
  BY DEF Levelled
<1>2. c \in Cache
  BY <1>1, Zenon DEF Cache, Entries
<1>3. Links(tn, tb, f, n, t) /\ \A k \in Index : tn[t][k] = Page(tb[f][n].to + k, c)
  BY <1>1, <1>2, DividedIs
<1>4. v[1] \in Index /\ v[2] \in Index /\ v[3] \in Index /\ v[4] \in Index
  BY Indices, Zenon
<1> HIDE DEF tn
<1>5. \A g \in Frames, k \in Index : lv[g] # 0 /\ ~(g = f /\ k = n) => tn[g][k] = tb[g][k]
  BY <1>1, <1>3, Zenon DEF Links
<1>6. SameUpper(tn, tb, lv)
  BY <1>5 DEF SameUpper
<1>7. ASSUME Translate(tn, s, v) = Translate(tb, s, v)
      PROVE  Kept(Translate(tn, s, v), Translate(tb, s, v))
  BY <1>7, Zenon DEF Kept
<1>8. ASSUME NEW d \in Frames, lv[d] = 2
      PROVE  Kept(Leaf(tn, v, Table(d)), Leaf(tb, v, Table(d)))
  <2>1. CASE d = f /\ v[3] = n
    <3>1. Leaf(tb, v, Table(d)) = Page(tb[f][n].to + v[4], tb[f][n].cache)
      BY <2>1, LeafIs
    <3>2. tn[d][v[3]] = Table(t) /\ tn[t][v[4]] = Page(tb[f][n].to + v[4], c)
      BY <1>3, <1>4, <2>1, Zenon DEF Links
    <3>3. Leaf(tn, v, Table(d)) = Page(tb[f][n].to + v[4], c)
      BY <3>2, LeafIs
    <3>4. Kept(Page(tb[f][n].to + v[4], c), Page(tb[f][n].to + v[4], tb[f][n].cache))
      BY EntryTypes DEF Kept
    <3> QED
      BY <3>1, <3>3, <3>4, Zenon
  <2>2. CASE ~(d = f /\ v[3] = n)
    <3>1. tn[d][v[3]] = tb[d][v[3]]
      BY <1>4, <1>5, <1>8, <2>2
    <3>2. ASSUME NEW q \in Frames, lv[q] = 1, tb[d][v[3]] = Table(q)
          PROVE  Leaf(tn, v, Table(d)) = Leaf(tb, v, Table(d))
      <4>1. tn[q][v[4]] = tb[q][v[4]]
        BY <1>4, <1>5, <3>2
      <4> QED
        BY <3>1, <3>2, <4>1, LeafIs
    <3>3. \/ tb[d][v[3]] = None \/ tb[d][v[3]].kind = "big"
          \/ \E q \in Frames : lv[q] = 1 /\ tb[d][v[3]] = Table(q)
      BY <1>4, <1>8, EntryKinds
    <3>4. Leaf(tn, v, Table(d)) = Leaf(tb, v, Table(d))
      BY <3>1, <3>2, <3>3, LeafIs
    <3> QED
      BY <3>4, Zenon DEF Kept
  <2> QED
    BY <2>1, <2>2, Zenon
<1>9. Kept(Translate(tn, s, v), Translate(tb, s, v))
  BY <1>6, <1>7, <1>8, UpperWalk
<1> QED
  BY <1>9, Zenon DEF tn

-----------------------------------------------------------------------------
\* The walk of v from top table s leads through p and d to the page table q.
Path(tb, s, v, p, d, q) ==
    /\ p \in Frames /\ d \in Frames /\ q \in Frames
    /\ tb[s][v[1]] = Table(p) /\ tb[p][v[2]] = Table(d) /\ tb[d][v[3]] = Table(q)

Written(tb, q, n, e) == [tb EXCEPT ![q][n] = e]

Writes(tn, tb, q, n, e) ==
    /\ tn \in [Frames -> [Index -> Entries]]
    /\ tn[q][n] = e
    /\ \A g \in Frames, k \in Index : ~(g = q /\ k = n) => tn[g][k] = tb[g][k]

LEMMA WrittenIs ==
    ASSUME NEW tb \in [Frames -> [Index -> Entries]], NEW q \in Frames, NEW n \in Index,
           NEW e \in Entries
    PROVE  Writes(Written(tb, q, n, e), tb, q, n, e)
BY Zenon DEF Written, Writes

LEMMA WrittenLevels ==
    ASSUME NEW tb, NEW fr, NEW lv, Levelled(tb, fr, lv),
           NEW q \in Frames, lv[q] = 1, NEW n \in Index, NEW e \in Entries, e.kind = "page"
    PROVE  Levelled(Written(tb, q, n, e), fr, lv)
<1> DEFINE tn == Written(tb, q, n, e)
<1>1. tb \in [Frames -> [Index -> Entries]] /\ lv \in [Frames -> 0..4]
  BY Zenon DEF Levelled
<1>a. Writes(tn, tb, q, n, e)
  BY <1>1, WrittenIs, Zenon
<1>2. /\ tn \in [Frames -> [Index -> Entries]]
      /\ tn[q][n] = e
      /\ \A g \in Frames, k \in Index : ~(g = q /\ k = n) => tn[g][k] = tb[g][k]
  BY <1>a, Zenon DEF Writes
<1> HIDE DEF tn
<1>3. ASSUME NEW g \in Frames, NEW k \in Index, lv[g] # 0
      PROVE  GoodEntry(tn[g][k], lv[g], lv)
  <2>1. CASE g = q /\ k = n
    BY <1>2, <2>1 DEF GoodEntry
  <2>2. CASE ~(g = q /\ k = n)
    BY <1>2, <1>3, <2>2, Zenon DEF Levelled
  <2> QED
    BY <2>1, <2>2, Zenon
<1>4. OneParent(tn, lv)
  <2> SUFFICES ASSUME NEW g \in Frames, NEW h \in Frames, NEW j \in Index, NEW k \in Index,
                      lv[g] \in {2, 3, 4}, lv[h] = lv[g],
                      tn[g][j].kind = "table", tn[h][k].kind = "table", tn[g][j].to = tn[h][k].to
               PROVE  j = k /\ (lv[g] # 4 => g = h)
    BY DEF OneParent
  <2>1. tn[g][j] = tb[g][j] /\ tn[h][k] = tb[h][k]
    BY <1>2, Zenon
  <2> QED
    BY <2>1 DEF Levelled, OneParent
<1> QED
  BY <1>2, <1>3, <1>4, Zenon DEF Levelled, tn

\* Two walks that reach the same entry of a page table are of one address.
LEMMA OneAddress ==
    ASSUME NEW tb, NEW fr, NEW lv, Levelled(tb, fr, lv),
           NEW s \in Frames, lv[s] = 4, NEW u \in Frames, lv[u] = 4, NEW v \in VA, NEW w \in VA,
           NEW p, NEW d, NEW q, Path(tb, s, v, p, d, q),
           NEW a, NEW b, Path(tb, u, w, a, b, q), v[4] = w[4]
    PROVE  v = w
<1>1. /\ v[1] \in Index /\ v[2] \in Index /\ v[3] \in Index
      /\ w[1] \in Index /\ w[2] \in Index /\ w[3] \in Index
  BY Indices, Zenon
<1>2. p \in Frames /\ d \in Frames /\ a \in Frames /\ b \in Frames
  BY Zenon DEF Path
<1>3. /\ tb[s][v[1]].kind = "table" /\ tb[s][v[1]].to = p
      /\ tb[p][v[2]].kind = "table" /\ tb[p][v[2]].to = d
      /\ tb[d][v[3]].kind = "table" /\ tb[d][v[3]].to = q
      /\ tb[u][w[1]].kind = "table" /\ tb[u][w[1]].to = a
      /\ tb[a][w[2]].kind = "table" /\ tb[a][w[2]].to = b
      /\ tb[b][w[3]].kind = "table" /\ tb[b][w[3]].to = q
  BY EntryTypes DEF Path
<1>4. \A g \in Frames, k \in Index :
         lv[g] # 0 /\ tb[g][k].kind = "table" => lv[tb[g][k].to] = lv[g] - 1
  BY Zenon DEF Levelled, GoodEntry
<1>5. lv[p] = 3 /\ lv[a] = 3
  BY <1>1, <1>3, <1>4
<1>6. lv[d] = 2 /\ lv[b] = 2
  BY <1>1, <1>2, <1>3, <1>4, <1>5
<1>7. OneParent(tb, lv)
  BY Zenon DEF Levelled
<1>8. v[3] = w[3] /\ d = b
  BY <1>1, <1>2, <1>3, <1>6, <1>7 DEF OneParent
<1>9. v[2] = w[2] /\ p = a
  BY <1>1, <1>2, <1>3, <1>5, <1>7, <1>8 DEF OneParent
<1>10. v[1] = w[1]
  BY <1>1, <1>3, <1>7, <1>9 DEF OneParent
<1> QED
  BY <1>8, <1>9, <1>10, Indices, Zenon

\* Writing the entry of one address leaves the translation of the others.
LEMMA WrittenWalk ==
    ASSUME NEW tb, NEW fr, NEW lv, Levelled(tb, fr, lv),
           NEW u \in Frames, lv[u] = 4, NEW w \in VA,
           NEW a, NEW b, NEW q, Path(tb, u, w, a, b, q), lv[q] = 1,
           NEW x \in Entries, x.kind = "page"
    PROVE  /\ Translate(Written(tb, q, w[4], x), u, w) = x
           /\ \A s \in Frames, v \in VA : lv[s] = 4 /\ v # w =>
                Translate(Written(tb, q, w[4], x), s, v) = Translate(tb, s, v)
<1> DEFINE tn == Written(tb, q, w[4], x)
<1>1. /\ tb \in [Frames -> [Index -> Entries]] /\ q \in Frames
      /\ \A i \in 1..4 : w[i] \in Index
  BY Indices DEF Levelled, Path
<1>a. Writes(tn, tb, q, w[4], x)
  BY <1>1, WrittenIs
<1>2. /\ tn[q][w[4]] = x
      /\ \A g \in Frames, k \in Index : ~(g = q /\ k = w[4]) => tn[g][k] = tb[g][k]
  BY <1>a, Zenon DEF Writes
<1>3. \A g \in Frames, k \in Index : lv[g] # 0 => GoodEntry(tb[g][k], lv[g], lv)
  BY Zenon DEF Levelled
<1> HIDE DEF tn
<1>4. Translate(tn, u, w) = x
  <2>1. /\ a \in Frames /\ b \in Frames
        /\ tb[u][w[1]] = Table(a) /\ tb[a][w[2]] = Table(b) /\ tb[b][w[3]] = Table(q)
    BY Zenon DEF Path
  <2>2. lv[a] = 3
    <3>1. GoodEntry(Table(a), 4, lv)
      BY <1>1, <1>3, <2>1
    <3> QED
      BY <3>1, EntryTypes DEF GoodEntry
  <2>3. lv[b] = 2
    <3>1. GoodEntry(Table(b), 3, lv)
      BY <1>1, <1>3, <2>1, <2>2
    <3> QED
      BY <3>1, EntryTypes DEF GoodEntry
  <2>4. tn[u][w[1]] = Table(a) /\ tn[a][w[2]] = Table(b) /\ tn[b][w[3]] = Table(q)
    BY <1>1, <1>2, <2>1, <2>2, <2>3
  <2>5. Translate(tn, u, w) = Leaf(tn, w, Table(b))
    BY <2>4, WalkLeads DEF Leads
  <2>6. Leaf(tn, w, Table(b)) = tn[q][w[4]]
    BY <2>4, LeafIs
  <2> QED
    BY <1>2, <2>5, <2>6, Zenon
<1>5. ASSUME NEW s \in Frames, NEW v \in VA, lv[s] = 4, v # w
      PROVE  Translate(tn, s, v) = Translate(tb, s, v)
  <2>1. v[1] \in Index /\ v[2] \in Index /\ v[3] \in Index /\ v[4] \in Index
    BY Indices, Zenon
  <2>2. SameUpper(tn, tb, lv)
    BY <1>2 DEF SameUpper
  <2>3. ASSUME NEW p \in Frames, NEW d \in Frames, lv[d] = 2, Leads(tb, s, v, p, d)
        PROVE  Leaf(tn, v, Table(d)) = Leaf(tb, v, Table(d))
    <3>1. tn[d][v[3]] = tb[d][v[3]]
      BY <1>2, <2>1, <2>3
    <3>2. ASSUME NEW h \in Frames, lv[h] = 1, tb[d][v[3]] = Table(h)
          PROVE  Leaf(tn, v, Table(d)) = Leaf(tb, v, Table(d))
      <4>1. Path(tb, s, v, p, d, h)
        BY <2>3, <3>2, Zenon DEF Path, Leads
      <4>2. ~(h = q /\ v[4] = w[4])
        <5> SUFFICES ASSUME h = q, v[4] = w[4] PROVE v = w
          BY <1>5, Zenon
        <5>1. Path(tb, s, v, p, d, q)
          BY <4>1, Zenon
        <5> QED
          BY <1>5, <5>1, OneAddress
      <4>3. tn[h][v[4]] = tb[h][v[4]]
        BY <1>2, <2>1, <4>2, Zenon
      <4> QED
        <5>1. tn[d][v[3]] = Table(h) /\ tb[d][v[3]] = Table(h)
          BY <3>1, <3>2, Zenon
        <5>2. Leaf(tn, v, Table(d)) = tn[h][v[4]]
          BY <5>1, LeafIs
        <5>3. Leaf(tb, v, Table(d)) = tb[h][v[4]]
          BY <5>1, LeafIs
        <5> QED
          BY <4>3, <5>2, <5>3, Zenon
    <3>3. \/ tb[d][v[3]] = None \/ tb[d][v[3]].kind = "big"
          \/ \E h \in Frames : lv[h] = 1 /\ tb[d][v[3]] = Table(h)
      BY <2>1, <2>3, EntryKinds
    <3>4. CASE tb[d][v[3]] = None
      <4>1. Leaf(tn, v, Table(d)) = None
        BY <3>1, <3>4, LeafIs, Zenon
      <4>2. Leaf(tb, v, Table(d)) = None
        BY <3>4, LeafIs, Zenon
      <4> QED
        BY <4>1, <4>2, Zenon
    <3>5. CASE tb[d][v[3]].kind = "big"
      <4> DEFINE P(z) == Page(z.to + v[4], z.cache)
      <4>1. Leaf(tn, v, Table(d)) = P(tn[d][v[3]])
        BY <3>1, <3>5, LeafIs
      <4>2. Leaf(tb, v, Table(d)) = P(tb[d][v[3]])
        BY <3>5, LeafIs
      <4> QED
        BY <3>1, <4>1, <4>2, Zenon
    <3> QED
      BY <3>2, <3>3, <3>4, <3>5, Zenon
  <2> QED
    BY <1>5, <2>2, <2>3, UpperWalk
<1> QED
  BY <1>4, <1>5, Zenon DEF tn

-----------------------------------------------------------------------------
(* What the address spaces share and map                                   *)

Apart ==
    \A s, u \in spaces :
        s # u /\ tab[s][1].kind = "table" /\ tab[s][1] = tab[u][1] => family[s] = family[u]

TablesInv ==
    /\ \E lv : Levelled(tab, free, lv) /\ Tops(tab, lv, spaces)
    /\ cur \in spaces /\ DOMAIN family = Frames
    /\ Apart

-----------------------------------------------------------------------------
(* The steps of paging_map_page                                            *)

Sane(m, lv) ==
    /\ m \in [tab : [Frames -> [Index -> Entries]], free : SUBSET Frames, ok : BOOLEAN]
    /\ Levelled(m.tab, m.free, lv) /\ Tops(m.tab, lv, spaces)
    /\ ~m.ok => m.free = {}

\* What a step that makes tables, from m to mn, leaves as it was.
Grown(m, lv, mn, ln) ==
    /\ \A g \in Frames : lv[g] # 0 => ln[g] = lv[g]
    /\ \A g \in Frames, k \in Index :
          lv[g] # 0 /\ m.tab[g][k].kind = "table" => mn.tab[g][k] = m.tab[g][k]
    /\ \A s \in spaces, v \in VA : Kept(Translate(mn.tab, s, v), Translate(m.tab, s, v))
    /\ \A s, u \in spaces :
          s # u /\ mn.tab[s][1].kind = "table" /\ mn.tab[s][1] = mn.tab[u][1]
          => m.tab[s][1] = mn.tab[s][1] /\ m.tab[u][1] = mn.tab[u][1]

LEMMA GrownSame ==
    ASSUME NEW m, NEW mn, NEW lv, mn.tab = m.tab
    PROVE  Grown(m, lv, mn, lv)
BY Zenon DEF Grown, Kept

LEMMA GrownTwice ==
    ASSUME NEW m, NEW lv, NEW m1, NEW l1, NEW m2, NEW l2,
           Tops(m.tab, lv, spaces), Grown(m, lv, m1, l1), Grown(m1, l1, m2, l2)
    PROVE  Grown(m, lv, m2, l2)
<1>1. \A g \in Frames : lv[g] # 0 => l2[g] = lv[g]
  BY Zenon DEF Grown
<1>2. \A g \in Frames, k \in Index :
          lv[g] # 0 /\ m.tab[g][k].kind = "table" => m2.tab[g][k] = m.tab[g][k]
  BY DEF Grown
<1>3. \A s \in spaces, v \in VA : Kept(Translate(m2.tab, s, v), Translate(m.tab, s, v))
  <2> TAKE s \in spaces, v \in VA
  <2>1. /\ Kept(Translate(m1.tab, s, v), Translate(m.tab, s, v))
        /\ Kept(Translate(m2.tab, s, v), Translate(m1.tab, s, v))
    BY Zenon DEF Grown
  <2> QED
    BY <2>1, Zenon DEF Kept
<1>4. \A s, u \in spaces :
          s # u /\ m2.tab[s][1].kind = "table" /\ m2.tab[s][1] = m2.tab[u][1]
          => m.tab[s][1] = m2.tab[s][1] /\ m.tab[u][1] = m2.tab[u][1]
  <2> SUFFICES ASSUME NEW s \in spaces, NEW u \in spaces, s # u,
                      m2.tab[s][1].kind = "table", m2.tab[s][1] = m2.tab[u][1]
               PROVE  m.tab[s][1] = m2.tab[s][1] /\ m.tab[u][1] = m2.tab[u][1]
    BY Zenon
  <2>1. m1.tab[s][1] = m2.tab[s][1] /\ m1.tab[u][1] = m2.tab[u][1]
    BY DEF Grown
  <2>2. m1.tab[s][1].kind = "table" /\ m1.tab[s][1] = m1.tab[u][1]
    BY <2>1, Zenon
  <2>3. m.tab[s][1] = m1.tab[s][1] /\ m.tab[u][1] = m1.tab[u][1]
    BY <2>2, Zenon DEF Grown
  <2> QED
    BY <2>1, <2>3, Zenon
<1> QED
  BY <1>1, <1>2, <1>3, <1>4, Zenon DEF Grown

\* What Ensure and Split have in common: a frame becomes a table below an entry.
LEMMA LinkGrows ==
    ASSUME NEW m, NEW lv, Sane(m, lv), NEW f \in Frames, NEW n \in Index, NEW t \in m.free,
           lv[f] \in {2, 3, 4}, m.tab[f][n].kind # "table",
           NEW tn, Links(tn, m.tab, f, n, t),
           \A k \in Index : tn[t][k].kind # "table" /\ GoodEntry(tn[t][k], lv[f] - 1, lv),
           \A s \in Frames, v \in VA : lv[s] = 4 => Kept(Translate(tn, s, v), Translate(m.tab, s, v)),
           NEW mn, mn = [ok |-> TRUE, free |-> m.free \ {t}, tab |-> tn]
    PROVE  LET ln == [lv EXCEPT ![t] = lv[f] - 1]
           IN  Sane(mn, ln) /\ Grown(m, lv, mn, ln)
<1> DEFINE ln == [lv EXCEPT ![t] = lv[f] - 1]
<1>1. /\ m.tab \in [Frames -> [Index -> Entries]] /\ m.free \subseteq Frames
      /\ lv \in [Frames -> 0..4] /\ lv[t] = 0 /\ t \in Frames /\ t # f
      /\ Levelled(m.tab, m.free, lv)
  BY DEF Sane, Levelled
<1>2. Levelled(tn, m.free \ {t}, ln)
  BY <1>1, LinksLevels, Zenon
<1>3. /\ tn \in [Frames -> [Index -> Entries]] /\ tn[f][n] = Table(t)
      /\ \A g \in Frames, k \in Index : g # t /\ ~(g = f /\ k = n) => tn[g][k] = m.tab[g][k]
  BY Zenon DEF Links
<1>4. mn.tab = tn /\ mn.free = m.free \ {t} /\ mn.ok = TRUE
  BY Zenon
<1>5. \A g \in Frames : lv[g] # 0 => ln[g] = lv[g] /\ g # t
  BY <1>1, Zenon
<1>6. mn \in [tab : [Frames -> [Index -> Entries]], free : SUBSET Frames, ok : BOOLEAN]
  BY <1>1, <1>3, Zenon
<1>7. spaces \subseteq Frames /\ \A s \in spaces : lv[s] = 4 /\ m.tab[s][0] = Table(1)
  BY Zenon DEF Sane, Tops
<1> HIDE DEF ln
<1>8. \A g \in Frames, k \in Index :
          lv[g] # 0 /\ m.tab[g][k].kind = "table" => tn[g][k] = m.tab[g][k]
  BY <1>3, <1>5
<1>9. Tops(tn, ln, spaces)
  <2>1. \A s \in spaces : tn[s][0] = Table(1)
    <3> TAKE s \in spaces
    <3>1. m.tab[s][0].kind = "table"
      BY <1>7, EntryTypes
    <3> QED
      BY <1>7, <1>8, <3>1 DEF Index
  <2> QED
    BY <1>5, <1>7, <2>1 DEF Tops
<1>10. \A s, u \in spaces :
          s # u /\ tn[s][1].kind = "table" /\ tn[s][1] = tn[u][1]
          => m.tab[s][1] = tn[s][1] /\ m.tab[u][1] = tn[u][1]
  <2> SUFFICES ASSUME NEW s \in spaces, NEW u \in spaces, s # u,
                      tn[s][1].kind = "table", tn[s][1] = tn[u][1]
               PROVE  m.tab[s][1] = tn[s][1] /\ m.tab[u][1] = tn[u][1]
    BY Zenon
  <2>1. s \in Frames /\ u \in Frames /\ s # t /\ u # t /\ lv[s] = 4 /\ lv[u] = 4
    BY <1>5, <1>7
  <2>2. \A x \in Frames : x # t /\ lv[x] = 4 /\ ~(x = f /\ 1 = n) => tn[x][1] # Table(t)
    <3> SUFFICES ASSUME NEW x \in Frames, x # t, lv[x] = 4, ~(x = f /\ 1 = n), tn[x][1] = Table(t)
                 PROVE  FALSE
      BY Zenon
    <3>1. m.tab[x][1] = Table(t)
      BY <1>3, Zenon DEF Index
    <3>2. GoodEntry(Table(t), 4, lv)
      BY <1>1, <3>1 DEF Levelled, Index
    <3> QED
      BY <1>1, <3>2, EntryTypes DEF GoodEntry
  <2>3. ~(s = f /\ 1 = n) /\ ~(u = f /\ 1 = n)
    BY <1>3, <2>1, <2>2
  <2> QED
    BY <1>3, <2>1, <2>3, Zenon DEF Index
<1>11. Sane(mn, ln)
  BY <1>2, <1>4, <1>6, <1>9, Zenon DEF Sane
<1>12. \A s \in spaces, v \in VA : Kept(Translate(tn, s, v), Translate(m.tab, s, v))
  BY <1>7, Zenon
<1>13. Grown(m, lv, mn, ln)
  BY <1>4, <1>5, <1>8, <1>10, <1>12, ZenonT(30) DEF Grown
<1> QED
  BY <1>11, <1>13, Zenon DEF ln

LEMMA EnsureGrows ==
    ASSUME NEW m, NEW lv, Sane(m, lv), NEW f \in Frames, NEW n \in Index, lv[f] \in {2, 3, 4}
    PROVE  \E ln : /\ Sane(Ensure(m, f, n), ln) /\ Grown(m, lv, Ensure(m, f, n), ln)
                   /\ Ensure(m, f, n).ok => Ensure(m, f, n).tab[f][n].kind # "none"
<1> DEFINE mn == Ensure(m, f, n)
<1>1. CASE ~m.ok \/ m.tab[f][n].kind # "none"
  <2>1. mn = m
    BY <1>1, Zenon DEF Ensure, At
  <2>2. Grown(m, lv, m, lv)
    BY GrownSame, Zenon
  <2> QED
    BY <1>1, <2>1, <2>2, Zenon
<1>2. CASE m.ok /\ m.tab[f][n].kind = "none" /\ m.free = {}
  <2>1. mn = [m EXCEPT !.ok = FALSE]
    BY <1>2, Zenon DEF Ensure, At
  <2>2. mn.ok = FALSE /\ mn.tab = m.tab /\ mn.free = m.free
        /\ mn \in [tab : [Frames -> [Index -> Entries]], free : SUBSET Frames, ok : BOOLEAN]
    BY <2>1, Zenon DEF Sane
  <2> HIDE DEF mn
  <2>3. Sane(mn, lv)
    BY <1>2, <2>2, Zenon DEF Sane
  <2>4. Grown(m, lv, mn, lv)
    BY <2>2, GrownSame, Zenon
  <2> QED
    BY <2>2, <2>3, <2>4, Zenon DEF mn
<1>3. CASE m.ok /\ m.tab[f][n].kind = "none" /\ m.free # {}
  <2> DEFINE t == Pick(m.free)
             tn == Linked(m.tab, f, n, t)
             ln == [lv EXCEPT ![t] = lv[f] - 1]
  <2>1. mn = [ok |-> TRUE, free |-> m.free \ {t}, tab |-> tn]
    BY <1>3, Zenon DEF Ensure, At, Linked
  <2>2. m.free \subseteq Frames /\ m.tab \in [Frames -> [Index -> Entries]]
        /\ Levelled(m.tab, m.free, lv)
    BY Zenon DEF Sane, Levelled
  <2>3. t \in m.free
    BY <1>3, <2>2, PickIsFree, Zenon
  <2> HIDE DEF t
  <2>4. t \in Frames /\ t # f /\ lv \in [Frames -> 0..4]
    BY <2>2, <2>3 DEF Levelled
  <2>5. Links(tn, m.tab, f, n, t) /\ \A k \in Index : tn[t][k] = None
    BY <2>2, <2>4, LinkedIs
  <2>6. \A s \in Frames, v \in VA : lv[s] = 4 => Translate(tn, s, v) = Translate(m.tab, s, v)
    BY <1>3, <2>2, <2>3, LinkedWalk
  <2> HIDE DEF tn, mn
  <2>7. \A s \in Frames, v \in VA : lv[s] = 4 => Kept(Translate(tn, s, v), Translate(m.tab, s, v))
    BY <2>6, Zenon DEF Kept
  <2>8. \A k \in Index : tn[t][k].kind # "table" /\ GoodEntry(tn[t][k], lv[f] - 1, lv)
    <3>1. lv[f] - 1 \in {1, 2, 3}
      OBVIOUS
    <3>2. \A l \in {1, 2, 3} : GoodEntry(None, l, lv)
      BY EntryTypes, Zenon DEF GoodEntry
    <3> QED
      BY <2>5, <3>1, <3>2, EntryTypes, Zenon
  <2>9. m.tab[f][n].kind # "table"
    BY <1>3, Zenon
  <2>10. Sane(mn, ln) /\ Grown(m, lv, mn, ln)
    BY <2>1, <2>3, <2>5, <2>7, <2>8, <2>9, LinkGrows, Zenon
  <2>11. mn.tab[f][n].kind # "none"
    BY <2>1, <2>5, EntryTypes, Zenon DEF Links
  <2> QED
    BY <2>10, <2>11, Zenon DEF mn
<1>4. m.ok \in BOOLEAN
  BY Zenon DEF Sane
<1> QED
  BY <1>1, <1>2, <1>3, Zenon

LEMMA SplitGrows ==
    ASSUME NEW m, NEW lv, Sane(m, lv), NEW f \in Frames, NEW n \in Index, lv[f] = 2,
           NEW cache \in Cache
    PROVE  \E ln : /\ Sane(Split(m, f, n, cache), ln) /\ Grown(m, lv, Split(m, f, n, cache), ln)
                   /\ Split(m, f, n, cache).ok /\ m.tab[f][n].kind # "none"
                      => Split(m, f, n, cache).tab[f][n].kind = "table"
<1> DEFINE mn == Split(m, f, n, cache)
<1>0. /\ m.free \subseteq Frames /\ m.tab \in [Frames -> [Index -> Entries]]
      /\ Levelled(m.tab, m.free, lv) /\ GoodEntry(m.tab[f][n], 2, lv)
  BY DEF Sane, Levelled
<1>1. CASE ~m.ok \/ m.tab[f][n].kind # "big"
  <2>1. mn = m
    BY <1>1, Zenon DEF Split, At
  <2>2. Grown(m, lv, m, lv)
    BY GrownSame, Zenon
  <2>3. m.ok /\ m.tab[f][n].kind # "none" => m.tab[f][n].kind = "table"
    BY <1>0, <1>1 DEF GoodEntry
  <2> QED
    BY <2>1, <2>2, <2>3, Zenon
<1>2. CASE m.ok /\ m.tab[f][n].kind = "big" /\ m.free = {}
  <2>1. mn = [m EXCEPT !.ok = FALSE]
    BY <1>2, Zenon DEF Split, At
  <2>2. mn.ok = FALSE /\ mn.tab = m.tab /\ mn.free = m.free
        /\ mn \in [tab : [Frames -> [Index -> Entries]], free : SUBSET Frames, ok : BOOLEAN]
    BY <2>1, Zenon DEF Sane
  <2> HIDE DEF mn
  <2>3. Sane(mn, lv)
    BY <1>2, <2>2, Zenon DEF Sane
  <2>4. Grown(m, lv, mn, lv)
    BY <2>2, GrownSame, Zenon
  <2> QED
    BY <2>2, <2>3, <2>4, Zenon DEF mn
<1>3. CASE m.ok /\ m.tab[f][n].kind = "big" /\ m.free # {}
  <2> DEFINE t == Pick(m.free)
             c == IF cache = "uc" THEN cache ELSE m.tab[f][n].cache
             tn == Divided(m.tab, f, n, t, c)
             ln == [lv EXCEPT ![t] = lv[f] - 1]
  <2>1. mn = [ok |-> TRUE, free |-> m.free \ {t}, tab |-> tn]
    BY <1>3, Zenon DEF Split, At, Divided
  <2>2. c \in Cache /\ c \in {"uc", m.tab[f][n].cache}
    BY <1>0, Zenon DEF Cache, Entries
  <2>3. t \in m.free
    BY <1>0, <1>3, PickIsFree, Zenon
  <2> HIDE DEF t, c
  <2>4. t \in Frames /\ t # f /\ lv \in [Frames -> 0..4]
    BY <1>0, <2>3 DEF Levelled
  <2>5. Links(tn, m.tab, f, n, t) /\ \A k \in Index : tn[t][k] = Page(m.tab[f][n].to + k, c)
    BY <1>0, <2>2, <2>4, DividedIs
  <2>6. \A s \in Frames, v \in VA : lv[s] = 4 => Kept(Translate(tn, s, v), Translate(m.tab, s, v))
    BY <1>0, <1>3, <2>2, <2>3, DividedWalk, Zenon
  <2> HIDE DEF tn, mn
  <2>7. \A k \in Index : tn[t][k].kind # "table" /\ GoodEntry(tn[t][k], lv[f] - 1, lv)
    <3>1. \A k \in Index : tn[t][k].kind = "page"
      BY <2>5, EntryTypes
    <3> QED
      BY <3>1 DEF GoodEntry
  <2>8. m.tab[f][n].kind # "table"
    BY <1>3, Zenon
  <2>9. lv[f] \in {2, 3, 4}
    BY Zenon
  <2>10. Sane(mn, ln) /\ Grown(m, lv, mn, ln)
    BY <2>1, <2>3, <2>5, <2>6, <2>7, <2>8, <2>9, LinkGrows, Zenon
  <2>11. mn.tab[f][n].kind = "table"
    BY <2>1, <2>5, EntryTypes DEF Links
  <2> QED
    BY <2>10, <2>11, Zenon DEF mn
<1>4. m.ok \in BOOLEAN
  BY Zenon DEF Sane
<1> QED
  BY <1>1, <1>2, <1>3, Zenon

\* Without memory for a table, nothing is done on the rest of the way down.
LEMMA StuckIsStuck ==
    ASSUME NEW m, ~m.ok, NEW f, NEW n, NEW c
    PROVE  Ensure(m, f, n) = m /\ Split(m, f, n, c) = m
<1>1. Ensure(m, f, n) = m
  BY Zenon DEF Ensure
<1>2. Split(m, f, n, c) = m
  BY Zenon DEF Split
<1> QED
  BY <1>1, <1>2, Zenon

\* A table above the page tables keeps its level ...
LEMMA LevelKept ==
    \A m, lv, mn, ln, g, j :
      Grown(m, lv, mn, ln) /\ g \in Frames /\ lv[g] = j /\ j \in {2, 3, 4} => ln[g] = j
<1> TAKE m, lv, mn, ln, g, j
<1> HAVE Grown(m, lv, mn, ln) /\ g \in Frames /\ lv[g] = j /\ j \in {2, 3, 4}
<1>1. \A h \in Frames : lv[h] # 0 => ln[h] = lv[h]
  BY Zenon DEF Grown
<1> QED
  BY <1>1

\* ... and the tables below it.
HasTable(m, lv, g, k, x) ==
    g \in Frames /\ k \in Index /\ lv[g] \in {2, 3, 4} /\ m.tab[g][k] = Table(x)

LEMMA TableKept ==
    \A m, lv, mn, ln, g, k, x :
      Grown(m, lv, mn, ln) /\ HasTable(m, lv, g, k, x) => HasTable(mn, ln, g, k, x)
<1> TAKE m, lv, mn, ln, g, k, x
<1> HAVE Grown(m, lv, mn, ln) /\ HasTable(m, lv, g, k, x)
<1>1. lv[g] # 0 /\ m.tab[g][k].kind = "table" /\ g \in Frames /\ k \in Index
  BY DEF Table, HasTable
<1>2. mn.tab[g][k] = m.tab[g][k] /\ ln[g] = lv[g]
  BY <1>1, Zenon DEF Grown
<1> QED
  BY <1>2, Zenon DEF HasTable

\* The entry for the next table, and the table it leads to.
TableThere(m, lv, f, n) ==
    /\ Sane(m, lv) /\ f \in Frames /\ n \in Index /\ lv[f] \in {2, 3, 4}
    /\ m.tab[f][n].kind # "none" /\ (lv[f] = 2 => m.tab[f][n].kind = "table")

Below(m, lv, f, n, g) == m.tab[f][n] = Table(g) /\ g \in Frames /\ lv[g] = lv[f] - 1

\* An entry that is present, and is no 2 MiB leaf, leads to the next level.
LEMMA NextTable ==
    ASSUME NEW m, NEW lv, NEW f, NEW n, TableThere(m, lv, f, n)
    PROVE  Below(m, lv, f, n, m.tab[f][n].to)
<1>1. /\ Sane(m, lv) /\ f \in Frames /\ n \in Index /\ lv[f] \in {2, 3, 4}
      /\ m.tab[f][n].kind # "none" /\ (lv[f] = 2 => m.tab[f][n].kind = "table")
  BY Zenon DEF TableThere
<1>2. Levelled(m.tab, m.free, lv)
  BY <1>1, Zenon DEF Sane
<1>3. \E g \in Frames : m.tab[f][n] = Table(g) /\ lv[g] = lv[f] - 1
  <2>1. m.tab[f][n] # None /\ (lv[f] = 2 => m.tab[f][n].kind # "big")
    BY <1>1, EntryTypes, Zenon
  <2>2. \/ m.tab[f][n] = None
        \/ lv[f] = 2 /\ m.tab[f][n].kind = "big"
        \/ \E g \in Frames : lv[g] = lv[f] - 1 /\ m.tab[f][n] = Table(g)
    BY <1>1, <1>2, EntryKinds
  <2> QED
    BY <2>1, <2>2, Zenon
<1>4. m.tab[f][n] = Table(m.tab[f][n].to)
  BY <1>3, EntryTypes, Zenon
<1> QED
  BY <1>3, <1>4, EntryTypes DEF Below

\* The way down of paging_map_page: m3 is the memory before the page is
\* entered; when no table was missing the walk of w reaches its page table.
Descends(m, lv, m3, l3, w) ==
    /\ Sane(m3, l3) /\ Grown(m, lv, m3, l3)
    /\ m3.ok => \E p, d, q : Path(m3.tab, cur, w, p, d, q) /\ l3[q] = 1

\* The tables that paging_map_page comes by.
Route(m, w, c, m1, pdpt, m2, pd, mb, m3) ==
    /\ m1 = Ensure(m, cur, w[1]) /\ pdpt = m1.tab[cur][w[1]].to
    /\ m2 = Ensure(m1, pdpt, w[2]) /\ pd = m2.tab[pdpt][w[2]].to
    /\ mb = Ensure(m2, pd, w[3]) /\ m3 = Split(mb, pd, w[3], c)

Reached(m3, w, pdpt, pd) ==
    m3.ok => /\ m3.tab[cur][w[1]] = Table(pdpt) /\ m3.tab[pdpt][w[2]] = Table(pd)
             /\ m3.tab[pd][w[3]] = Table(m3.tab[pd][w[3]].to)

LEMMA Descent ==
    ASSUME NEW m, NEW lv, Sane(m, lv), cur \in spaces, NEW w \in VA, NEW c \in Cache,
           NEW m1, NEW pdpt, NEW m2, NEW pd, NEW mb, NEW m3,
           Route(m, w, c, m1, pdpt, m2, pd, mb, m3)
    PROVE  (\E l3 : Descends(m, lv, m3, l3, w)) /\ Reached(m3, w, pdpt, pd)
<1>a. m1 = Ensure(m, cur, w[1]) /\ pdpt = m1.tab[cur][w[1]].to
  BY Zenon DEF Route
<1>b. m2 = Ensure(m1, pdpt, w[2]) /\ pd = m2.tab[pdpt][w[2]].to
  BY Zenon DEF Route
<1>c. mb = Ensure(m2, pd, w[3]) /\ m3 = Split(mb, pd, w[3], c)
  BY Zenon DEF Route
<1>1. w[1] \in Index /\ w[2] \in Index /\ w[3] \in Index
  BY Indices, Zenon
<1>2. cur \in Frames /\ lv[cur] = 4 /\ Tops(m.tab, lv, spaces)
  BY Zenon DEF Sane, Tops
<1>3. PICK l1 : Sane(m1, l1) /\ Grown(m, lv, m1, l1) /\ (m1.ok => m1.tab[cur][w[1]].kind # "none")
  BY <1>a, <1>1, <1>2, EnsureGrows, Zenon
<1>4. CASE ~m1.ok
  <2>1. m2 = m1
    BY <1>b, <1>4, StuckIsStuck, Zenon
  <2>2. mb = m1
    BY <1>c, <1>4, <2>1, StuckIsStuck, Zenon
  <2>3. m3 = m1
    BY <1>c, <1>4, <2>2, StuckIsStuck
  <2>4. Descends(m, lv, m3, l1, w)
    BY <1>3, <1>4, <2>3, Zenon DEF Descends
  <2> QED
    BY <1>4, <2>3, <2>4, Zenon DEF Reached
<1>5. CASE m1.ok
  <2>1. l1[cur] = 4
    BY <1>2, <1>3, LevelKept, Zenon
  <2>2. pdpt \in Frames /\ l1[pdpt] = 3 /\ m1.tab[cur][w[1]] = Table(pdpt)
    <3>1. l1[cur] # 2 /\ l1[cur] \in {2, 3, 4}
      BY <2>1
    <3>2. TableThere(m1, l1, cur, w[1])
      BY <1>1, <1>2, <1>3, <1>5, <3>1, Zenon DEF TableThere
    <3>3. Below(m1, l1, cur, w[1], pdpt)
      BY <1>a, <3>2, NextTable, Zenon
    <3> QED
      BY <2>1, <3>3 DEF Below
  <2>3. PICK l2 : Sane(m2, l2) /\ Grown(m1, l1, m2, l2) /\ (m2.ok => m2.tab[pdpt][w[2]].kind # "none")
    BY <1>b, <1>1, <1>3, <2>2, EnsureGrows, Zenon
  <2>4. Grown(m, lv, m2, l2)
    BY <1>2, <1>3, <2>3, GrownTwice, Zenon
  <2>5. m2.tab[cur][w[1]] = Table(pdpt) /\ l2[cur] = 4 /\ l2[pdpt] = 3
    <3>1. m2.tab[cur][w[1]] = Table(pdpt)
      <4>1. HasTable(m1, l1, cur, w[1], pdpt)
        BY <1>1, <1>2, <2>1, <2>2, Zenon DEF HasTable
      <4>2. HasTable(m2, l2, cur, w[1], pdpt)
        BY <2>3, <4>1, TableKept, Zenon
      <4> QED
        BY <4>2, Zenon DEF HasTable
    <3>2. l2[cur] = 4
      BY <1>2, <2>1, <2>3, LevelKept, Zenon
    <3>3. l2[pdpt] = 3
      BY <2>2, <2>3, LevelKept, Zenon
    <3> QED
      BY <3>1, <3>2, <3>3, Zenon
  <2>6. CASE ~m2.ok
    <3>1. mb = m2
      BY <1>c, <2>6, StuckIsStuck, Zenon
    <3>2. m3 = m2
      BY <1>c, <2>6, <3>1, StuckIsStuck
    <3>3. Descends(m, lv, m3, l2, w)
      BY <2>3, <2>4, <2>6, <3>2, Zenon DEF Descends
    <3> QED
      BY <2>6, <3>2, <3>3, Zenon DEF Reached
  <2>7. CASE m2.ok
    <3>1. pd \in Frames /\ l2[pd] = 2 /\ m2.tab[pdpt][w[2]] = Table(pd)
      <4>1. l2[pdpt] # 2 /\ l2[pdpt] \in {2, 3, 4}
        BY <2>5
      <4>2. TableThere(m2, l2, pdpt, w[2])
        BY <1>1, <2>2, <2>3, <2>7, <4>1, Zenon DEF TableThere
      <4>3. Below(m2, l2, pdpt, w[2], pd)
        BY <1>b, <4>2, NextTable, Zenon
      <4> QED
        BY <2>5, <4>3 DEF Below
    <3>2. PICK lb : Sane(mb, lb) /\ Grown(m2, l2, mb, lb) /\ (mb.ok => mb.tab[pd][w[3]].kind # "none")
      BY <1>c, <1>1, <2>3, <3>1, EnsureGrows, Zenon
    <3>3. lb[pd] = 2
      BY <3>1, <3>2, LevelKept, ZenonT(30)
    <3>4. PICK l3 : /\ Sane(m3, l3) /\ Grown(mb, lb, m3, l3)
                    /\ m3.ok /\ mb.tab[pd][w[3]].kind # "none" => m3.tab[pd][w[3]].kind = "table"
      <4>1. pd \in Frames /\ w[3] \in Index /\ Sane(mb, lb) /\ lb[pd] = 2
        BY <1>1, <3>1, <3>2, <3>3, Zenon
      <4>2. m3 = Split(mb, pd, w[3], c)
        BY <1>c, Zenon
      <4> QED
        BY <4>1, <4>2, SplitGrows
    <3>5. Tops(m2.tab, l2, spaces) /\ Tops(mb.tab, lb, spaces)
      BY <2>3, <3>2, Zenon DEF Sane
    <3>6. Grown(m2, l2, m3, l3)
      BY <3>2, <3>4, <3>5, GrownTwice, Zenon
    <3>7. Grown(m, lv, m3, l3)
      BY <1>2, <2>4, <3>6, GrownTwice, Zenon
    <3>8. /\ m3.tab[cur][w[1]] = Table(pdpt) /\ m3.tab[pdpt][w[2]] = Table(pd) /\ l3[pd] = 2
      <4>1. m3.tab[cur][w[1]] = Table(pdpt)
        <5>1. HasTable(m2, l2, cur, w[1], pdpt)
          BY <1>1, <1>2, <2>5, Zenon DEF HasTable
        <5>2. HasTable(m3, l3, cur, w[1], pdpt)
          BY <3>6, <5>1, TableKept, Zenon
        <5> QED
          BY <5>2, Zenon DEF HasTable
      <4>2. m3.tab[pdpt][w[2]] = Table(pd)
        <5>1. HasTable(m2, l2, pdpt, w[2], pd)
          BY <1>1, <2>2, <2>5, <3>1, Zenon DEF HasTable
        <5>2. HasTable(m3, l3, pdpt, w[2], pd)
          BY <3>6, <5>1, TableKept, Zenon
        <5> QED
          BY <5>2, Zenon DEF HasTable
      <4>3. l3[pd] = 2
        BY <3>1, <3>6, LevelKept, Zenon
      <4> QED
        BY <4>1, <4>2, <4>3, Zenon
    <3>9. CASE m3.ok
      <4>1. mb.ok
        <5> SUFFICES ASSUME ~mb.ok PROVE FALSE
          BY Zenon
        <5>1. m3 = mb
          BY <1>c, StuckIsStuck
        <5> QED
          BY <3>9, <5>1, Zenon
      <4>2. m3.tab[pd][w[3]].kind = "table"
        BY <3>2, <3>4, <3>9, <4>1, Zenon
      <4> DEFINE q == m3.tab[pd][w[3]].to
      <4>3. q \in Frames /\ l3[q] = 1 /\ m3.tab[pd][w[3]] = Table(q)
        <5>1. m3.tab[pd][w[3]].kind # "none" /\ l3[pd] \in {2, 3, 4}
          BY <3>8, <4>2, Zenon
        <5>2. TableThere(m3, l3, pd, w[3])
          BY <1>1, <3>1, <3>4, <4>2, <5>1, Zenon DEF TableThere
        <5>3. Below(m3, l3, pd, w[3], q)
          BY <5>2, NextTable, Zenon
        <5> QED
          BY <3>8, <5>3 DEF Below
      <4>4. Path(m3.tab, cur, w, pdpt, pd, q)
        BY <2>2, <3>1, <3>8, <4>3, Zenon DEF Path
      <4>5. Descends(m, lv, m3, l3, w)
        BY <3>4, <3>7, <4>3, <4>4, Zenon DEF Descends
      <4> QED
        BY <3>8, <4>3, <4>5, Zenon DEF Reached
    <3>10. CASE ~m3.ok
      <4>1. Descends(m, lv, m3, l3, w)
        BY <3>4, <3>7, <3>10, Zenon DEF Descends
      <4> QED
        BY <3>10, <4>1, Zenon DEF Reached
    <3> QED
      BY <3>9, <3>10, Zenon
  <2> QED
    BY <2>6, <2>7, Zenon
<1> QED
  BY <1>4, <1>5, Zenon

\* What paging_map_page does to the memory m when it maps w to the leaf e.
Maps(m, mn, w, e) ==
    /\ \E ln : Levelled(mn.tab, mn.free, ln) /\ Tops(mn.tab, ln, spaces)
    /\ \A s \in spaces, v \in VA :
          v # w => Kept(Translate(mn.tab, s, v), Translate(m.tab, s, v))
    /\ \A s, u \in spaces :
          s # u /\ mn.tab[s][1].kind = "table" /\ mn.tab[s][1] = mn.tab[u][1]
          => m.tab[s][1] = mn.tab[s][1] /\ m.tab[u][1] = mn.tab[u][1]
    /\ mn.free # {} => Translate(mn.tab, cur, w) = e

\* Its last step: the page is entered in the table reached.
Entered(m3, pd, w, e) ==
    IF m3.ok THEN [m3 EXCEPT !.tab[m3.tab[pd][w[3]].to][w[4]] = e] ELSE m3

LEMMA MapPageIs ==
    ASSUME NEW m, NEW w, NEW p, NEW c
    PROVE  \E m1, pdpt, m2, pd, mb, m3 :
              /\ Route(m, w, c, m1, pdpt, m2, pd, mb, m3)
              /\ paging_map_page(m, w, p, c) = Entered(m3, pd, w, Page(p, c))
<1> DEFINE m1   == Ensure(m, cur, w[1])
           pdpt == m1.tab[cur][w[1]].to
           m2   == Ensure(m1, pdpt, w[2])
           pd   == m2.tab[pdpt][w[2]].to
           mb   == Ensure(m2, pd, w[3])
           m3   == Split(mb, pd, w[3], c)
<1>1. paging_map_page(m, w, p, c) = Entered(m3, pd, w, Page(p, c))
  BY Zenon DEF paging_map_page, At, Entered
<1> HIDE DEF m1, pdpt, m2, pd, mb, m3
<1>2. m1 = Ensure(m, cur, w[1]) /\ pdpt = m1.tab[cur][w[1]].to
  BY Zenon DEF m1, pdpt
<1>3. m2 = Ensure(m1, pdpt, w[2]) /\ pd = m2.tab[pdpt][w[2]].to
  BY Zenon DEF m2, pd
<1>4. mb = Ensure(m2, pd, w[3]) /\ m3 = Split(mb, pd, w[3], c)
  BY Zenon DEF mb, m3
<1>5. Route(m, w, c, m1, pdpt, m2, pd, mb, m3)
  BY <1>2, <1>3, <1>4, Zenon DEF Route
<1> QED
  BY <1>1, <1>5, Zenon

LEMMA MapPage ==
    ASSUME NEW m, NEW lv, Sane(m, lv), cur \in spaces, NEW w \in VA, NEW p \in Int,
           NEW c \in Cache
    PROVE  Maps(m, paging_map_page(m, w, p, c), w, Page(p, c))
<1> DEFINE mn == paging_map_page(m, w, p, c)
           e  == Page(p, c)
<1>0. PICK m1, pdpt, m2, pd, mb, m3 :
        /\ Route(m, w, c, m1, pdpt, m2, pd, mb, m3)
        /\ mn = Entered(m3, pd, w, e)
  BY MapPageIs
<1> DEFINE pt == m3.tab[pd][w[3]].to
<1>1. mn = IF m3.ok THEN [m3 EXCEPT !.tab[pt][w[4]] = e] ELSE m3
  BY <1>0, Zenon DEF Entered
<1>a. (\E l3 : Descends(m, lv, m3, l3, w)) /\ Reached(m3, w, pdpt, pd)
  BY <1>0, Descent, Zenon
<1>2. m3.ok => /\ m3.tab[cur][w[1]] = Table(pdpt) /\ m3.tab[pdpt][w[2]] = Table(pd)
               /\ m3.tab[pd][w[3]] = Table(pt)
  BY <1>a, Zenon DEF Reached
<1>3. e \in Entries /\ e.kind = "page"
  BY EntryTypes, Zenon
<1> HIDE DEF mn, pt, e
<1>4. PICK l3 : Descends(m, lv, m3, l3, w)
  BY <1>a, Zenon
<1>5. Sane(m3, l3) /\ Grown(m, lv, m3, l3)
  BY <1>4, Zenon DEF Descends
<1>6. /\ m3 \in [tab : [Frames -> [Index -> Entries]], free : SUBSET Frames, ok : BOOLEAN]
      /\ Levelled(m3.tab, m3.free, l3) /\ Tops(m3.tab, l3, spaces)
      /\ ~m3.ok => m3.free = {}
  BY <1>5, Zenon DEF Sane
<1>7. CASE ~m3.ok
  <2>1. mn = m3 /\ m3.free = {}
    BY <1>1, <1>6, <1>7, Zenon
  <2>2. Maps(m, m3, w, e)
    BY <1>5, <1>6, <2>1, Zenon DEF Maps, Grown
  <2> QED
    BY <2>1, <2>2, Zenon DEF mn, e
<1>8. CASE m3.ok
  <2>1. PICK a, d, q : Path(m3.tab, cur, w, a, d, q) /\ l3[q] = 1
    BY <1>4, <1>8, Zenon DEF Descends
  <2>2. q = pt
    <3>1. Table(a) = Table(pdpt)
      BY <1>2, <1>8, <2>1, Zenon DEF Path
    <3>2. a = pdpt
      BY <3>1, Zenon DEF Table
    <3>3. Table(d) = Table(pd)
      BY <1>2, <1>8, <2>1, <3>2, Zenon DEF Path
    <3>4. d = pd
      BY <3>3, Zenon DEF Table
    <3>5. Table(q) = Table(pt)
      BY <1>2, <1>8, <2>1, <3>4, Zenon DEF Path
    <3> QED
      BY <3>5, Zenon DEF Table
  <2>3. q \in Frames /\ w[4] \in Index
    BY <2>1, Indices, Zenon DEF Path
  <2> DEFINE tn == Written(m3.tab, q, w[4], e)
  <2>4. mn = [m3 EXCEPT !.tab[q][w[4]] = e]
    BY <1>1, <1>8, <2>2, Zenon
  <2>5. mn.tab = tn /\ mn.free = m3.free
    BY <1>6, <2>4, Zenon DEF Written
  <2>6. cur \in Frames /\ l3[cur] = 4 /\ spaces \subseteq Frames /\ \A s \in spaces : l3[s] = 4
    BY <1>6, Zenon DEF Tops
  <2>7. Levelled(tn, m3.free, l3)
    BY <1>3, <1>6, <2>1, <2>3, WrittenLevels, Zenon
  <2>8. /\ Translate(tn, cur, w) = e
        /\ \A s \in Frames, v \in VA : l3[s] = 4 /\ v # w =>
             Translate(tn, s, v) = Translate(m3.tab, s, v)
    BY <1>3, <1>6, <2>1, <2>6, WrittenWalk
  <2>9. Writes(tn, m3.tab, q, w[4], e)
    BY <1>3, <1>6, <2>3, WrittenIs, Zenon
  <2> HIDE DEF tn
  <2>10. \A s \in spaces, k \in Index : tn[s][k] = m3.tab[s][k]
    BY <2>1, <2>6, <2>9 DEF Writes
  <2>11. Tops(tn, l3, spaces)
    BY <1>6, <2>10, Zenon DEF Tops, Index
  <2>12. \A s \in spaces, v \in VA : v # w => Kept(Translate(tn, s, v), Translate(m.tab, s, v))
    BY <1>5, <2>6, <2>8, Zenon DEF Grown
  <2>13. \A s, u \in spaces :
          s # u /\ tn[s][1].kind = "table" /\ tn[s][1] = tn[u][1]
          => m.tab[s][1] = tn[s][1] /\ m.tab[u][1] = tn[u][1]
    <3>1. \A s \in spaces : tn[s][1] = m3.tab[s][1]
      BY <2>10, Zenon DEF Index
    <3> QED
      BY <1>5, <3>1 DEF Grown
  <2>14. Maps(m, mn, w, e)
    BY <2>5, <2>7, <2>8, <2>11, <2>12, <2>13, Zenon DEF Maps
  <2> QED
    BY <2>14, Zenon DEF mn, e
<1> QED
  BY <1>7, <1>8, Zenon

-----------------------------------------------------------------------------
(* The steps                                                               *)

LEMMA TablesStart == TablesInit => TablesInv
<1> SUFFICES ASSUME TablesInit PROVE TablesInv
  BY Zenon
<1> DEFINE lv == [f \in Frames |-> IF f = 0 THEN 4 ELSE IF f = 1 THEN 3 ELSE IF f = 2 THEN 2 ELSE 0]
<1>1. 0 \in Frames /\ 1 \in Frames /\ 2 \in Frames /\ free \subseteq Frames
  BY TablesAssumption DEF TablesInit, Frames
<1>2. /\ tab[0] = [n \in Index |-> IF n = 0 THEN Table(1) ELSE None]
      /\ tab[1] = [n \in Index |-> IF n = 0 THEN Table(2) ELSE None]
      /\ tab[2] = [n \in Index |-> [kind |-> "big", to |-> 100 + 2 * n, cache |-> "wb"]]
      /\ \A f \in Frames : f \notin {0, 1, 2} => tab[f] = ZeroTable
      /\ DOMAIN tab = Frames
  <2>1. tab[0] = [ZeroTable EXCEPT ![0] = Table(1)]
    BY <1>1 DEF TablesInit
  <2>2. tab[1] = [ZeroTable EXCEPT ![0] = Table(2)]
    BY <1>1 DEF TablesInit
  <2>3. tab[2] = [n \in {0, 1} |-> [kind |-> "big", to |-> 100 + 2 * n, cache |-> "wb"]]
    BY <1>1 DEF TablesInit
  <2>4. \A f \in Frames : f \notin {0, 1, 2} => tab[f] = ZeroTable
    BY Zenon DEF TablesInit
  <2>5. DOMAIN tab = Frames
    BY Zenon DEF TablesInit
  <2>6. \A e : [ZeroTable EXCEPT ![0] = e] = [n \in Index |-> IF n = 0 THEN e ELSE None]
    BY Zenon DEF ZeroTable, Index
  <2> QED
    BY <2>1, <2>2, <2>3, <2>4, <2>5, <2>6, Zenon DEF Index
<1>3. \A n \in Index : [kind |-> "big", to |-> 100 + 2 * n, cache |-> "wb"] \in Entries
  BY DEF Entries, Cache, Index
<1>4. tab[0] \in [Index -> Entries] /\ tab[1] \in [Index -> Entries] /\ tab[2] \in [Index -> Entries]
  BY <1>1, <1>2, <1>3, EntryTypes
<1>5. tab \in [Frames -> [Index -> Entries]]
  <2>1. \A f \in Frames : tab[f] \in [Index -> Entries]
    BY <1>2, <1>4, EntryTypes
  <2>2. tab = [f \in Frames |-> tab[f]]
    BY DEF TablesInit
  <2> QED
    BY <2>1, <2>2, Zenon
<1>6. lv \in [Frames -> 0..4] /\ lv[0] = 4 /\ lv[1] = 3 /\ lv[2] = 2
      /\ \A f \in Frames : f \notin {0, 1, 2} => lv[f] = 0
  BY <1>1
<1> HIDE DEF lv
<1>7. \A f \in free : lv[f] = 0
  BY <1>6, <1>1, TablesAssumption DEF TablesInit
<1>8. /\ \A n \in Index : GoodEntry(tab[0][n], 4, lv)
      /\ \A n \in Index : GoodEntry(tab[1][n], 3, lv)
      /\ \A n \in Index : GoodEntry(tab[2][n], 2, lv)
  <2>1. GoodEntry(None, 4, lv) /\ GoodEntry(None, 3, lv)
    BY EntryTypes, Zenon DEF GoodEntry
  <2>2. GoodEntry(Table(1), 4, lv) /\ GoodEntry(Table(2), 3, lv)
    BY <1>1, <1>6, EntryTypes DEF GoodEntry
  <2>3. \A n \in Index : tab[2][n].kind = "big"
    BY <1>2
  <2>4. \A n \in Index : GoodEntry(tab[2][n], 2, lv)
    BY <2>3 DEF GoodEntry
  <2> QED
    BY <1>2, <2>1, <2>2, <2>4
<1>9. \A f \in Frames, n \in Index : lv[f] # 0 => GoodEntry(tab[f][n], lv[f], lv)
  BY <1>6, <1>8, Zenon
<1>10. \A f \in Frames, n \in Index : lv[f] \in {2, 3, 4} /\ tab[f][n].kind = "table" => n = 0 /\ f \in {0, 1}
  BY <1>2, <1>6, EntryTypes DEF Index
<1>11. OneParent(tab, lv)
  BY <1>6, <1>10 DEF OneParent
<1>12. Levelled(tab, free, lv)
  BY <1>1, <1>5, <1>6, <1>7, <1>9, <1>11, Zenon DEF Levelled
<1>13. spaces = {0} /\ cur = 0 /\ DOMAIN family = Frames
  BY Zenon DEF TablesInit
<1>14. Tops(tab, lv, spaces)
  BY <1>1, <1>2, <1>6, <1>13 DEF Tops, Index
<1> QED
  BY <1>12, <1>13, <1>14, Zenon DEF TablesInv, Apart

\* A step of TablesNext changes no other translation, and enters the page.
OnlyAsked ==
    /\ \A s \in spaces, v \in VA :
          v # asked' => Kept(Translate(tab', s, v), Translate(tab, s, v))
    /\ (ret' # 0 /\ free' # {}) => Translate(tab', cur', asked') = Page(ret', "wb")

LEMMA MapStep ==
    ASSUME TablesInv, NEW m, NEW lv, Sane(m, lv), m.tab = tab,
           NEW w \in VA, NEW p \in Int, NEW c \in Cache,
           tab' = paging_map_page(m, w, p, c).tab, free' = paging_map_page(m, w, p, c).free,
           asked' = w, ret' # 0 => ret' = p /\ c = "wb",
           UNCHANGED <<spaces, cur, family>>
    PROVE  TablesInv' /\ OnlyAsked
<1> DEFINE mn == paging_map_page(m, w, p, c)
<1>1. cur \in spaces
  BY Zenon DEF TablesInv
<1>2. Maps(m, mn, w, Page(p, c))
  BY <1>1, MapPage, Zenon
<1>3. mn.tab = tab' /\ mn.free = free'
  BY Zenon
<1> HIDE DEF mn
<1>4. /\ \E ln : Levelled(tab', free', ln) /\ Tops(tab', ln, spaces)
      /\ \A s \in spaces, v \in VA : v # w => Kept(Translate(tab', s, v), Translate(tab, s, v))
      /\ \A s, u \in spaces :
            s # u /\ tab'[s][1].kind = "table" /\ tab'[s][1] = tab'[u][1]
            => tab[s][1] = tab'[s][1] /\ tab[u][1] = tab'[u][1]
      /\ free' # {} => Translate(tab', cur, w) = Page(p, c)
  BY <1>2, <1>3, Zenon DEF Maps
<1>5. Apart'
  <2> SUFFICES ASSUME NEW s \in spaces, NEW u \in spaces, s # u,
                      tab'[s][1].kind = "table", tab'[s][1] = tab'[u][1]
               PROVE  family[s] = family[u]
    BY Zenon DEF Apart
  <2>1. tab[s][1].kind = "table" /\ tab[s][1] = tab[u][1]
    BY <1>4, Zenon
  <2> QED
    BY <2>1, Zenon DEF TablesInv, Apart
<1>6. TablesInv'
  BY <1>4, <1>5, Zenon DEF TablesInv
<1>7. OnlyAsked
  BY <1>4, Zenon DEF OnlyAsked
<1> QED
  BY <1>6, <1>7, Zenon

\* A new top table has the low tree, and what else it has it shares with cr3.
LEMMA NewSpaceStep ==
    ASSUME TablesInv, NEW table \in [Index -> Entries], NEW shared \in BOOLEAN,
           table[0] = tab[cur][0], table[1] \in {None, tab[cur][1]}, ~shared => table[1] = None,
           NewSpace(table, shared)
    PROVE  TablesInv' /\ OnlyAsked
<1> DEFINE t == Pick(free)
<1>1. /\ free # {} /\ free' = free \ {t} /\ tab' = [tab EXCEPT ![t] = table]
      /\ spaces' = spaces \cup {t} /\ cur' = cur /\ asked' = <<>> /\ ret' = 0
      /\ family' = [family EXCEPT ![t] = IF shared THEN family[cur] ELSE t]
  BY Zenon DEF NewSpace
<1>2. PICK lv : Levelled(tab, free, lv) /\ Tops(tab, lv, spaces)
  BY Zenon DEF TablesInv
<1> DEFINE ln == [lv EXCEPT ![t] = 4]
<1>3. /\ tab \in [Frames -> [Index -> Entries]] /\ free \subseteq Frames /\ lv \in [Frames -> 0..4]
      /\ spaces \subseteq Frames /\ cur \in spaces /\ DOMAIN family = Frames
      /\ \A s \in spaces : lv[s] = 4 /\ tab[s][0] = Table(1)
  BY <1>2, Zenon DEF Levelled, Tops, TablesInv
<1>4. t \in free
  BY <1>1, <1>3, PickIsFree, Zenon
<1> HIDE DEF t
<1>5. t \in Frames /\ lv[t] = 0 /\ t \notin spaces
  BY <1>2, <1>3, <1>4 DEF Levelled
<1>6. /\ tab' \in [Frames -> [Index -> Entries]] /\ tab'[t] = table
      /\ \A g \in Frames : g # t => tab'[g] = tab[g]
  BY <1>1, <1>3, <1>5, Zenon
<1>7. /\ ln \in [Frames -> 0..4] /\ ln[t] = 4
      /\ \A g \in Frames : g # t => ln[g] = lv[g]
  BY <1>3, <1>5, Zenon
<1> HIDE DEF ln
<1>8. \A g \in Frames, k \in Index : lv[g] # 0 => GoodEntry(tab[g][k], lv[g], lv)
  BY <1>2, Zenon DEF Levelled
<1>9. \A k \in Index : table[k] = None \/ table[k] = tab[cur][k]
  BY Zenon DEF Index
<1>10. \A k \in Index : GoodEntry(table[k], 4, lv)
  <2>1. GoodEntry(None, 4, lv)
    BY EntryTypes, Zenon DEF GoodEntry
  <2>2. \A k \in Index : GoodEntry(tab[cur][k], 4, lv)
    BY <1>3, <1>8
  <2> QED
    BY <1>9, <2>1, <2>2, Zenon
<1>11. ASSUME NEW e, NEW l \in 1..4, GoodEntry(e, l, lv)
       PROVE  GoodEntry(e, l, ln)
  <2>1. e.kind = "table" => l \in {2, 3, 4}
    BY <1>11 DEF GoodEntry
  <2>2. e.kind = "table" => e.to # t
    BY <1>5, <1>11, <2>1 DEF GoodEntry
  <2> QED
    BY <1>7, <1>11, <2>2, Zenon DEF GoodEntry
<1>12. \A g \in Frames, k \in Index : ln[g] # 0 => GoodEntry(tab'[g][k], ln[g], ln)
  <2> SUFFICES ASSUME NEW g \in Frames, NEW k \in Index, ln[g] # 0
               PROVE  GoodEntry(tab'[g][k], ln[g], ln)
    BY Zenon
  <2>1. CASE g = t
    BY <1>6, <1>7, <1>10, <1>11, <2>1
  <2>2. CASE g # t
    <3>1. tab'[g][k] = tab[g][k] /\ ln[g] = lv[g] /\ ln[g] \in 1..4
      BY <1>6, <1>7, <2>2
    <3>2. GoodEntry(tab[g][k], lv[g], lv)
      BY <1>8, <3>1, Zenon
    <3> QED
      BY <1>11, <3>1, <3>2, Zenon
  <2> QED
    BY <2>1, <2>2, Zenon
<1>13. OneParent(tab', ln)
  <2> SUFFICES ASSUME NEW g \in Frames, NEW h \in Frames, NEW j \in Index, NEW k \in Index,
                      ln[g] \in {2, 3, 4}, ln[h] = ln[g], tab'[g][j].kind = "table",
                      tab'[h][k].kind = "table", tab'[g][j].to = tab'[h][k].to
               PROVE  j = k /\ (ln[g] # 4 => g = h)
    BY DEF OneParent
  <2> DEFINE gg == IF g = t THEN cur ELSE g
             hh == IF h = t THEN cur ELSE h
  <2>1. /\ gg \in Frames /\ lv[gg] = ln[g] /\ tab[gg][j] = tab'[g][j]
        /\ ln[g] # 4 => gg = g
    BY <1>3, <1>6, <1>7, <1>9, EntryTypes, Zenon
  <2>2. /\ hh \in Frames /\ lv[hh] = ln[h] /\ tab[hh][k] = tab'[h][k]
        /\ ln[h] # 4 => hh = h
    BY <1>3, <1>6, <1>7, <1>9, EntryTypes, Zenon
  <2> HIDE DEF gg, hh
  <2>3. OneParent(tab, lv)
    BY <1>2, Zenon DEF Levelled
  <2> QED
    BY <2>1, <2>2, <2>3 DEF OneParent
<1>14. \A f \in free' : ln[f] = 0
  BY <1>1, <1>2, <1>3, <1>7, Zenon DEF Levelled
<1>15. Levelled(tab', free', ln)
  BY <1>1, <1>3, <1>6, <1>7, <1>12, <1>13, <1>14, Zenon DEF Levelled
<1>16. Tops(tab', ln, spaces')
  BY <1>1, <1>3, <1>5, <1>6, <1>7 DEF Tops
<1>17. Apart'
  <2> SUFFICES ASSUME NEW s \in spaces', NEW u \in spaces', s # u,
                      tab'[s][1].kind = "table", tab'[s][1] = tab'[u][1]
               PROVE  family'[s] = family'[u]
    BY Zenon DEF Apart
  <2>1. \A g \in spaces : family'[g] = family[g] /\ tab'[g] = tab[g]
    BY <1>1, <1>3, <1>5, <1>6, Zenon
  <2>2. table[1].kind = "table" => shared /\ table[1] = tab[cur][1]
    BY EntryTypes, Zenon
  <2>3. shared => family'[t] = family[cur]
    BY <1>1, <1>3, <1>5, Zenon
  <2>4. \A g, h \in spaces : tab[g][1].kind = "table" /\ tab[g][1] = tab[h][1] => family[g] = family[h]
    BY Zenon DEF TablesInv, Apart
  <2>5. CASE s = t
    <3>1. u \in spaces
      BY <1>1, <2>5, Zenon
    <3> QED
      BY <1>3, <1>6, <2>1, <2>2, <2>3, <2>4, <2>5, <3>1
  <2>6. CASE u = t
    <3>1. s \in spaces
      BY <1>1, <2>6, Zenon
    <3> QED
      BY <1>3, <1>6, <2>1, <2>2, <2>3, <2>4, <2>6, <3>1
  <2>7. CASE s # t /\ u # t
    <3>1. s \in spaces /\ u \in spaces
      BY <1>1, <2>7, Zenon
    <3> QED
      BY <2>1, <2>4, <3>1, ZenonT(30)
  <2> QED
    BY <2>5, <2>6, <2>7, Zenon
<1>18. TablesInv'
  BY <1>1, <1>3, <1>15, <1>16, <1>17, Zenon DEF TablesInv
<1>19. \A s \in spaces, v \in VA : Translate(tab', s, v) = Translate(tab, s, v)
  <2>1. Extends(tab', tab, lv)
    BY <1>5, <1>6, Zenon DEF Extends
  <2> TAKE s \in spaces, v \in VA
  <2>2. s \in Frames /\ lv[s] = 4
    BY <1>3, Zenon
  <2> QED
    BY <1>2, <2>1, <2>2, ExtendsWalk
<1>20. OnlyAsked
  BY <1>1, <1>19, Zenon DEF OnlyAsked, Kept
<1> QED
  BY <1>18, <1>20, Zenon

LEMMA TablesStep == TablesInv /\ [TablesNext]_tableVars => TablesInv' /\ (TablesNext => OnlyAsked)
<1> SUFFICES ASSUME TablesInv, [TablesNext]_tableVars
             PROVE  TablesInv' /\ (TablesNext => OnlyAsked)
  BY Zenon
<1>1. PICK lv : Levelled(tab, free, lv) /\ Tops(tab, lv, spaces)
  BY Zenon DEF TablesInv
<1>2. /\ tab \in [Frames -> [Index -> Entries]] /\ free \subseteq Frames /\ cur \in spaces
      /\ cur \in Frames
  BY <1>1, Zenon DEF Levelled, TablesInv, Tops
<1>3. Sane(Memory, lv)
  BY <1>1, <1>2, Zenon DEF Sane, Memory
<1>5. ASSUME NEW v \in Identity, NEW c \in Cache, Map(v, c) PROVE TablesInv' /\ OnlyAsked
  <2>1. v \in VA /\ Same(v) \in Int
    BY TablesAssumption, Indices, Zenon
  <2>2. /\ tab' = paging_map_page(Memory, v, Same(v), c).tab
        /\ free' = paging_map_page(Memory, v, Same(v), c).free
        /\ ret' = 0 /\ asked' = v /\ UNCHANGED <<spaces, cur, family>>
    BY <1>5, Zenon DEF Map
  <2>3. Memory.tab = tab
    BY Zenon DEF Memory
  <2> QED
    BY <1>3, <2>1, <2>2, <2>3, MapStep, Zenon
<1>6. ASSUME NEW v \in Images, paging_alloc_and_map(v) PROVE TablesInv' /\ OnlyAsked
  <2>1. CASE free = {}
    <3>1. tab' = tab /\ free' = free /\ ret' = 0 /\ UNCHANGED <<spaces, cur, family>>
      BY <1>6, <2>1, Zenon DEF paging_alloc_and_map
    <3>2. TablesInv'
      BY <3>1 DEF TablesInv, Apart
    <3>3. OnlyAsked
      BY <3>1, Zenon DEF OnlyAsked, Kept
    <3> QED
      BY <3>2, <3>3, Zenon
  <2>2. CASE free # {}
    <3> DEFINE p == Pick(free)
               m == [Memory EXCEPT !.free = @ \ {p}]
    <3>1. /\ tab' = paging_map_page(m, v, p, "wb").tab
          /\ free' = paging_map_page(m, v, p, "wb").free
          /\ ret' = p /\ asked' = v /\ UNCHANGED <<spaces, cur, family>>
      BY <1>6, <2>2, Zenon DEF paging_alloc_and_map
    <3>2. p \in free
      BY <1>2, <2>2, PickIsFree, Zenon
    <3> HIDE DEF p
    <3>3. /\ p \in Int /\ "wb" \in Cache
      BY <1>2, <3>2, TablesAssumption DEF Frames, Cache
    <3>7. v \in VA
      BY TablesAssumption, Zenon
    <3>4. /\ m.tab = tab /\ m.free = free \ {p} /\ m.ok = TRUE
          /\ m \in [tab : [Frames -> [Index -> Entries]], free : SUBSET Frames, ok : BOOLEAN]
      BY <1>2, Zenon DEF Memory
    <3>5. Levelled(tab, free \ {p}, lv)
      BY <1>1, Zenon DEF Levelled
    <3>6. Sane(m, lv) /\ m.tab = tab
      BY <1>1, <3>4, <3>5, Zenon DEF Sane
    <3> HIDE DEF m
    <3> QED
      BY <3>1, <3>3, <3>6, <3>7, MapStep, Zenon
  <2> QED
    BY <2>1, <2>2, Zenon
<1>7. tab[cur] \in [Index -> Entries] /\ tab[cur][0] \in Entries
  BY <1>2, Zenon DEF Index
<1>8. CASE Clone
  <2> DEFINE table == paging_clone_pd(cur)
  <2>1. table = [n \in Index |-> IF n = 0 THEN tab[cur][0] ELSE None]
    BY Zenon DEF paging_clone_pd, ZeroTable, Index
  <2>2. table \in [Index -> Entries] /\ table[0] = tab[cur][0] /\ table[1] = None
    BY <1>7, <2>1, EntryTypes DEF Index
  <2>3. NewSpace(table, FALSE)
    BY <1>8, Zenon DEF Clone
  <2> HIDE DEF table
  <2> QED
    BY <2>2, <2>3, NewSpaceStep, Zenon
<1>9. CASE Vfork
  <2>1. NewSpace(tab[cur], TRUE)
    BY <1>9, Zenon DEF Vfork, paging_vfork_clone
  <2> QED
    BY <1>7, <2>1, NewSpaceStep, Zenon
<1>10. ASSUME NEW s \in spaces, load_cr3(s) PROVE TablesInv' /\ OnlyAsked
  <2>1. cur' = s /\ ret' = 0 /\ UNCHANGED <<tab, free, spaces, family>>
    BY <1>10, Zenon DEF load_cr3
  <2>2. TablesInv'
    BY <2>1, Zenon DEF TablesInv, Apart
  <2>3. OnlyAsked
    BY <2>1, Zenon DEF OnlyAsked, Kept
  <2> QED
    BY <2>2, <2>3, Zenon
<1>11. ASSUME UNCHANGED tableVars PROVE TablesInv'
  BY <1>11 DEF tableVars, TablesInv, Apart
<1>12. CASE TablesNext
  BY <1>5, <1>6, <1>8, <1>9, <1>10, <1>12, Zenon DEF TablesNext
<1> QED
  BY <1>11, <1>12, Zenon

\* Every address space has the low tree of cr3, and above it two share a table
\* only through vfork: paging.c makes no table reachable from two places.
THEOREM LowTreeShared == TablesSpec => []OnlyLowTreeShared
<1>1. TablesInv => OnlyLowTreeShared
  <2> SUFFICES ASSUME TablesInv PROVE OnlyLowTreeShared
    BY Zenon
  <2>1. PICK lv : Tops(tab, lv, spaces)
    BY Zenon DEF TablesInv
  <2>2. \A s \in spaces : tab[s][0] = tab[cur][0]
    BY <2>1, Zenon DEF TablesInv, Tops
  <2>3. \A v \in VA, s \in spaces : v[1] = 0 => Translate(tab, s, v) = Translate(tab, cur, v)
    BY <2>2, Zenon DEF Translate, At
  <2> QED
    BY <2>3, Zenon DEF OnlyLowTreeShared, TablesInv, Apart
<1> QED
  BY <1>1, TablesStart, TablesStep, PTL DEF TablesSpec

\* paging_map_page and the allocation above it change the translation of the
\* page asked for and of no other, in every address space.
THEOREM OnlyAskedMapped == TablesSpec => MapsOnlyAsked
<1> DEFINE Asked == /\ \A s \in spaces, v \in VA :
                         LET old == Translate(tab, s, v)
                             new == Translate(tab, s, v)'
                         IN  v # asked' => new.kind = old.kind /\ new.to = old.to
                                           /\ (new.cache # old.cache => new.cache = "uc")
                    /\ (ret' # 0 /\ free' # {}) => Translate(tab, cur, asked)' = Page(ret', "wb")
<1>1. TablesNext /\ OnlyAsked => Asked
  BY Zenon DEF OnlyAsked, Kept, Translate, Leaf, At
<1>2. TablesInv /\ [TablesNext]_tableVars => [Asked]_tableVars
  BY <1>1, TablesStep, Zenon
<1>3. TablesSpec => [][Asked]_tableVars
  BY <1>2, TablesStart, TablesStep, PTL DEF TablesSpec
<1> QED
  BY <1>3, Zenon DEF MapsOnlyAsked
=============================================================================
