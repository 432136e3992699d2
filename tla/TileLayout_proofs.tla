------------------------- MODULE TileLayout_proofs -------------------------
(***************************************************************************)
(* Proofs about TileLayout, for every grid, every set of sizes and every   *)
(* number of apps, whether or not they fit on a page.  That apps are kept  *)
(* apart is proved for grids of at most eight columns: in others they are  *)
(* not.                                                                    *)
(***************************************************************************)
EXTENDS TileLayout, WellFoundedInduction, TLAPS

\* The bits of the apps of the current page are set.
Marked ==
    \A a \in 1 .. idx :
        pos[a].page = page => Area(apps[a], pos[a].x, pos[a].y) \subseteq map

\* No app is on a page that has yet to be created.
PagesPast == page <= idx /\ \A a \in 1 .. idx : pos[a].page < a

IInv ==
    /\ TypeOK
    /\ PagesPast
    /\ Marked
    /\ InsideGrid
    /\ Cols <= 8 => NoOverlap

Sized == [w : Nat \ {0}, h : Nat \ {0}]

\* The map has a byte for every eight columns.
LEMMA MapWide ==
    /\ MapW \in Nat /\ MapW >= 1
    /\ \A x \in 0 .. Cols - 1 : x \div 8 \in 0 .. MapW - 1 /\ x % 8 \in 0 .. 7
  <1>1. Cols \in Nat /\ Cols >= 1
    BY GridAssumption
  <1>2. MapW \in Nat /\ MapW >= 1
    BY <1>1 DEF MapW
  <1>3. ASSUME NEW x \in 0 .. Cols - 1
        PROVE  x \div 8 \in 0 .. MapW - 1 /\ x % 8 \in 0 .. 7
    BY <1>1 DEF MapW
  <1>4. QED
    BY <1>2, <1>3

\* A tile inside the grid has a byte of the map, if not its own: the macro's
\* missing brackets only make the number smaller.
LEMMA ByteInside ==
    ASSUME NEW W \in Nat, W >= 1, NEW R \in Nat, NEW y \in Nat, NEW i \in Nat,
           y + i < R, NEW c \in 0 .. W - 1
    PROVE  W * y + i + c \in 0 .. W * R - 1
  <1> DEFINE V == W - 1
             k == R - 1 - y
  <1>1. V \in Nat /\ k \in Nat /\ i <= k /\ c <= V /\ W = V + 1 /\ R = y + 1 + k
    OBVIOUS
  <1> HIDE DEF V, k
  <1>2. W * R = W * y + W + W * k
    BY <1>1
  <1>3. W * k = V * k + k /\ V * k \in Nat
    BY <1>1
  <1>4. W * y \in Nat
    OBVIOUS
  <1> DEFINE A == W * y
             B == W * R
             E == W * k
             F == V * k
  <1>5. A \in Nat /\ F \in Nat /\ E = F + k /\ B = A + W + E
    BY <1>2, <1>3, <1>4
  <1> HIDE DEF A, B, E, F
  <1>6. A + i + c \in 0 .. B - 1
    BY <1>1, <1>5
  <1>7. QED
    BY <1>6 DEF A, B

\* A map of at most eight columns is one byte wide.
LEMMA OneByte == Cols <= 8 => MapW = 1
  BY GridAssumption DEF MapW

\* Inside a narrow grid a tile has the byte of its row and the bit of its column.
LEMMA BitOfTile ==
    ASSUME Cols <= 8, NEW x \in Int, NEW y \in Int, NEW j \in Int, NEW i \in Int,
           0 <= x + j, x + j < Cols
    PROVE  Bit(x, y, j, i) = <<y + i, x + j>>
  <1>1. (x + j) \div 8 = 0 /\ (x + j) % 8 = x + j
    BY GridAssumption
  <1>2. QED
    BY <1>1, OneByte DEF Bit

\* A free area lies inside the grid: an area that crossed an edge would hold
\* a tile on that edge.
LEMMA FreeInside ==
    ASSUME NEW s \in Sized, NEW x \in 0 .. Cols - 1, NEW y \in 0 .. Rows - 1,
           IsFreeArea(s, x, y)
    PROVE  x + s.w <= Cols /\ y + s.h <= Rows
  <1> USE GridAssumption DEF Sized
  <1>1. SUFFICES ASSUME x + s.w > Cols \/ y + s.h > Rows PROVE FALSE
    OBVIOUS
  <1>2. CASE x + s.w > Cols
    <2>1. Cols - x \in 0 .. s.w - 1 /\ 0 \in 0 .. s.h - 1
      BY <1>2
    <2>2. x + (Cols - x) # Cols
      BY <2>1 DEF IsFreeArea
    <2>3. QED
      BY <2>2
  <1>3. CASE y + s.h > Rows
    <2>1. Rows - y \in 0 .. s.h - 1 /\ 0 \in 0 .. s.w - 1
      BY <1>3
    <2>2. y + (Rows - y) # Rows
      BY <2>1 DEF IsFreeArea
    <2>3. QED
      BY <2>2
  <1>4. QED
    BY <1>1, <1>2, <1>3

\* A tile inside a narrow grid belongs to an area exactly if its bit does.
LEMMA AreaOfTiles ==
    ASSUME Cols <= 8, NEW s \in Sized, NEW x \in 0 .. Cols - 1, NEW y \in 0 .. Rows - 1,
           x + s.w <= Cols,
           NEW u \in x .. x + s.w - 1, NEW v \in y .. y + s.h - 1
    PROVE  \E j \in 0 .. s.w - 1, i \in 0 .. s.h - 1 :
               Bit(x, y, j, i) = <<v, u>>
  <1> USE GridAssumption DEF Sized
  <1>1. u - x \in 0 .. s.w - 1 /\ v - y \in 0 .. s.h - 1
    OBVIOUS
  <1>2. /\ x + (u - x) = u /\ y + (v - y) = v /\ 0 <= u /\ u < Cols
        /\ x \in Int /\ y \in Int /\ u - x \in Int /\ v - y \in Int
    OBVIOUS
  <1>3. Bit(x, y, u - x, v - y) = <<v, u>>
    <2> DEFINE j == u - x
               i == v - y
    <2>1. /\ x + j = u /\ y + i = v /\ 0 <= x + j /\ x + j < Cols
          /\ x \in Int /\ y \in Int /\ j \in Int /\ i \in Int
      BY <1>2
    <2> HIDE DEF j, i
    <2>2. Bit(x, y, j, i) = <<y + i, x + j>>
      BY <2>1, BitOfTile, Zenon
    <2>3. QED
      BY <2>1, <2>2, Zenon DEF j, i
  <1>4. QED
    BY <1>1, <1>3

LEMMA InitIInv == Init => IInv
  BY AppsAssumption, GridAssumption
  DEF Init, IInv, TypeOK, PagesPast, Marked, InsideGrid, NoOverlap

\* Placing an app keeps the invariant.
LEMMA NewItemIInv == IInv /\ NewItem => IInv'
  <1> SUFFICES ASSUME IInv, NewItem PROVE IInv'
    OBVIOUS
  <1> USE AppsAssumption, GridAssumption
  <1>1. PICK n \in 1 .. Apps :
            /\ n = idx + 1 /\ idx' = n /\ idx \in 0 .. Apps
            /\ apps' = apps /\ page' = page /\ page \in 0 .. Apps
    BY DEF NewItem, IInv, TypeOK
  <1>2. PICK s \in Sized : s = apps[n] /\ s \in Sizes
    BY <1>1, SizesAssumption DEF IInv, TypeOK, Sized
  <1>3. PICK x \in 0 .. Cols - 1, y \in 0 .. Rows - 1 :
            /\ IsFreeArea(s, x, y)
            /\ map' = map \cup Area(s, x, y)
            /\ pos' = [pos EXCEPT ![n] = [page |-> page, x |-> x, y |-> y]]
    BY <1>1, <1>2 DEF NewItem, IsFirstFree, MarkArea
  <1>4. x + s.w <= Cols /\ y + s.h <= Rows
    BY <1>3, FreeInside
  <1>5. pos'[n] = [page |-> page, x |-> x, y |-> y]
    BY <1>1, <1>3 DEF IInv, TypeOK
  <1>6. \A a \in 1 .. idx : a \in 1 .. Apps /\ a # n /\ pos'[a] = pos[a]
    BY <1>1, <1>3 DEF IInv, TypeOK
  <1>7. \A a \in 1 .. n : a = n \/ a \in 1 .. idx
    BY <1>1
  <1>8. Area(s, x, y) \subseteq (0 .. MapW * Rows - 1) \X (0 .. 7)
    <2> SUFFICES ASSUME NEW j \in 0 .. s.w - 1, NEW i \in 0 .. s.h - 1
                 PROVE  Bit(x, y, j, i) \in (0 .. MapW * Rows - 1) \X (0 .. 7)
      BY DEF Area
    <2>1. /\ x + j \in 0 .. Cols - 1 /\ y + i < Rows
          /\ y \in Nat /\ i \in Nat /\ Rows \in Nat
      BY <1>4 DEF Sized
    <2>2. /\ MapW \in Nat /\ MapW >= 1
          /\ (x + j) \div 8 \in 0 .. MapW - 1 /\ (x + j) % 8 \in 0 .. 7
      BY <2>1, MapWide
    <2> DEFINE c == (x + j) \div 8
               n8 == (x + j) % 8
    <2>3. c \in 0 .. MapW - 1 /\ n8 \in 0 .. 7
      BY <2>2
    <2> HIDE DEF c, n8
    <2>4. MapW * y + i + c \in 0 .. MapW * Rows - 1
      BY <2>1, <2>2, <2>3, ByteInside
    <2>5. Bit(x, y, j, i) = <<MapW * y + i + c, n8>>
      BY DEF Bit, c, n8
    <2>6. QED
      BY <2>3, <2>4, <2>5
  <1>9. TypeOK'
    <2>2. map' \subseteq (0 .. MapW * Rows - 1) \X (0 .. 7)
      BY <1>3, <1>8 DEF IInv, TypeOK
    <2>3. [page |-> page, x |-> x, y |-> y]
            \in [page : -1 .. Apps, x : 0 .. Cols - 1, y : 0 .. Rows - 1]
      BY <1>1
    <2>4. pos' \in [1 .. Apps -> [page : -1 .. Apps, x : 0 .. Cols - 1,
                                 y : 0 .. Rows - 1]]
      BY <1>3, <2>3 DEF IInv, TypeOK
    <2>5. apps' \in [1 .. Apps -> Sizes] /\ idx' \in 0 .. Apps
          /\ page' \in -1 .. Apps
      BY <1>1 DEF IInv, TypeOK
    <2>6. QED
      BY <2>2, <2>4, <2>5 DEF TypeOK
  <1>10. PagesPast'
    BY <1>1, <1>5, <1>6, <1>7 DEF IInv, PagesPast
  <1>11. Marked'
    <2>1. \A a \in 1 .. idx :
            Area(apps[a], pos[a].x, pos[a].y)'
                = Area(apps[a], pos[a].x, pos[a].y)
      BY <1>1, <1>6 DEF Area, Bit
    <2>2. Area(apps[n], pos'[n].x, pos'[n].y) = Area(s, x, y)
      BY <1>2, <1>5
    <2>3. SUFFICES ASSUME NEW a \in 1 .. n, pos'[a].page = page
                   PROVE  Area(apps[a], pos'[a].x, pos'[a].y) \subseteq map'
      BY <1>1 DEF Marked, Area, Bit
    <2>4. CASE a = n
      BY <2>2, <2>4, <1>3
    <2>5. CASE a \in 1 .. idx
      BY <2>3, <2>5, <1>3, <1>6 DEF IInv, Marked
    <2>6. QED
      BY <2>4, <2>5, <1>7
  <1>12. InsideGrid'
    BY <1>1, <1>2, <1>4, <1>5, <1>6, <1>7 DEF IInv, InsideGrid
  <1>13. ASSUME Cols <= 8 PROVE NoOverlap'
    <2>1. \A a \in 1 .. idx : Tiles(a)' = Tiles(a)
      BY <1>1, <1>6 DEF Tiles
    <2>2. Tiles(n)' = (x .. x + s.w - 1) \X (y .. y + s.h - 1)
      BY <1>1, <1>2, <1>5 DEF Tiles
    <2>3. ASSUME NEW a \in 1 .. idx, pos[a].page = page
          PROVE  Tiles(a) \cap Tiles(n)' = {}
      <3>1. SUFFICES ASSUME NEW u, NEW v,
                            <<u, v>> \in Tiles(a), <<u, v>> \in Tiles(n)'
                     PROVE  FALSE
        BY <2>2 DEF Tiles
      <3>2. /\ apps[a] \in Sized
            /\ pos[a].x \in 0 .. Cols - 1 /\ pos[a].y \in 0 .. Rows - 1
            /\ pos[a].x + apps[a].w <= Cols
        BY <1>6, SizesAssumption DEF IInv, TypeOK, InsideGrid, Sized
      <3>3. /\ u \in pos[a].x .. pos[a].x + apps[a].w - 1
            /\ v \in pos[a].y .. pos[a].y + apps[a].h - 1
        BY <3>1 DEF Tiles
      <3>4. <<v, u>> \in map
        <4>1. <<v, u>> \in Area(apps[a], pos[a].x, pos[a].y)
          BY <1>13, <3>2, <3>3, AreaOfTiles DEF Area
        <4>2. QED
          BY <4>1, <2>3 DEF IInv, Marked
      <3>5. u \in x .. x + s.w - 1 /\ v \in y .. y + s.h - 1
        BY <3>1, <2>2
      <3>6. PICK j \in 0 .. s.w - 1, i \in 0 .. s.h - 1 :
                Bit(x, y, j, i) = <<v, u>>
        BY <1>13, <3>5, <1>4, AreaOfTiles
      <3>7. QED
        BY <3>4, <3>6, <1>3 DEF IsFreeArea
    <2>4. SUFFICES ASSUME NEW a \in 1 .. n, NEW b \in 1 .. n, a # b,
                          pos'[a].page = pos'[b].page
                   PROVE  Tiles(a)' \cap Tiles(b)' = {}
      BY <1>1 DEF NoOverlap
    <2>5. CASE a \in 1 .. idx /\ b \in 1 .. idx
      BY <1>13, <2>1, <2>4, <2>5, <1>6 DEF IInv, NoOverlap
    <2>6. CASE a \in 1 .. idx /\ b = n
      BY <2>1, <2>3, <2>4, <2>6, <1>5, <1>6
    <2>7. CASE a = n /\ b \in 1 .. idx
      BY <2>1, <2>3, <2>4, <2>7, <1>5, <1>6
    <2>8. QED
      BY <2>4, <2>5, <2>6, <2>7, <1>7
  <1>14. QED
    BY <1>9, <1>10, <1>11, <1>12, <1>13 DEF IInv

\* So does a new page: no app is on it yet.
LEMMA NewPageIInv == IInv /\ NewPage => IInv'
  <1> SUFFICES ASSUME IInv, NewPage PROVE IInv'
    OBVIOUS
  <1>1. /\ UNCHANGED <<apps, idx, pos>> /\ page' = idx /\ map' = {}
        /\ idx \in 0 .. Apps
    BY DEF NewPage, NeedsPage, IInv, TypeOK
  <1>2. TypeOK' /\ PagesPast'
    BY <1>1, AppsAssumption DEF IInv, TypeOK, PagesPast
  <1>3. Marked'
    BY <1>1, AppsAssumption DEF IInv, TypeOK, PagesPast, Marked
  <1>4. InsideGrid' /\ (Cols <= 8 => NoOverlap')
    BY <1>1 DEF IInv, InsideGrid, NoOverlap, Tiles
  <1>5. QED
    BY <1>2, <1>3, <1>4 DEF IInv

LEMMA NextIInv == IInv /\ [Next]_vars => IInv'
  <1> SUFFICES ASSUME IInv, [Next]_vars PROVE IInv'
    OBVIOUS
  <1>1. CASE UNCHANGED vars
    BY <1>1 DEF IInv, vars, TypeOK, PagesPast, Marked, InsideGrid, NoOverlap,
                Tiles, Area, Bit
  <1>2. QED
    BY <1>1, NewItemIInv, NewPageIInv DEF Next, Done

LEMMA SpecIInv == Spec => []IInv
  BY InitIInv, NextIInv, PTL DEF Spec

\* The layout never marks a bit outside its map, in wide grids either.
THEOREM TypeCorrect == Spec => []TypeOK
  BY SpecIInv, PTL DEF IInv

\* Every app is inside the grid of its page, and in a grid of at most eight
\* columns apps of one page never share a tile.
THEOREM LaidWell == Spec => []WellLaid
  <1>1. IInv => WellLaid
    BY DEF IInv, WellLaid
  <1>2. QED
    BY <1>1, SpecIInv, PTL

-----------------------------------------------------------------------------
(* The loops end: the part of it that needs no fairness.                   *)

\* The least-number principle, from the fact that < is well-founded.
LEMMA Least ==
    ASSUME NEW T \in SUBSET Nat, T # {}
    PROVE  \E n \in T : \A m \in T : n <= m
  <1> DEFINE R == OpToRel(<, Nat)
  <1>1. \A m, n \in Nat : m < n => <<m, n>> \in R
    BY DEF OpToRel
  <1>2. IsWellFoundedOn(R, Nat)
    BY NatLessThanWellFounded
  <1> HIDE DEF R
  <1>3. PICK n \in T : \A m \in T : <<m, n>> \notin R
    BY <1>2, WFMin
  <1>4. \A m \in T : ~(m < n)
    BY <1>1, <1>3
  <1>5. QED
    BY <1>4

\* Where an app of size s finds room: in which rows, and where in a row.
FreeRows(s) == {y \in 0 .. Rows - 1 : \E x \in 0 .. Cols - 1 : IsFreeArea(s, x, y)}
FreeIn(s, y) == {x \in 0 .. Cols - 1 : IsFreeArea(s, x, y)}

\* If there is room at all, the search row by row finds it.
LEMMA SomeIsFirst ==
    ASSUME NEW s, NEW x0 \in 0 .. Cols - 1, NEW y0 \in 0 .. Rows - 1,
           IsFreeArea(s, x0, y0)
    PROVE  \E x \in 0 .. Cols - 1, y \in 0 .. Rows - 1 : IsFirstFree(s, x, y)
  <1> USE GridAssumption
  <1>1. FreeRows(s) \in SUBSET Nat /\ FreeRows(s) # {}
    BY DEF FreeRows
  <1>2. PICK y \in FreeRows(s) : \A z \in FreeRows(s) : y <= z
    BY <1>1, Least
  <1>3. y \in 0 .. Rows - 1
    BY <1>2 DEF FreeRows
  <1>4. FreeIn(s, y) \in SUBSET Nat /\ FreeIn(s, y) # {}
    BY <1>2 DEF FreeRows, FreeIn
  <1>5. PICK x \in FreeIn(s, y) : \A z \in FreeIn(s, y) : x <= z
    BY <1>4, Least
  <1>6. x \in 0 .. Cols - 1 /\ IsFreeArea(s, x, y)
    BY <1>5 DEF FreeIn
  <1>7. ASSUME NEW x2 \in 0 .. Cols - 1, NEW y2 \in 0 .. y, y2 < y \/ x2 < x
        PROVE  ~IsFreeArea(s, x2, y2)
    <2>1. CASE y2 < y
      <3>1. y2 \in 0 .. Rows - 1 /\ ~(y <= y2)
        BY <1>3, <2>1
      <3>2. y2 \notin FreeRows(s)
        BY <1>2, <3>1
      <3>3. QED
        BY <3>1, <3>2 DEF FreeRows
    <2>2. CASE y2 = y /\ x2 < x
      <3>1. x2 \notin FreeIn(s, y)
        BY <1>5, <1>6, <2>2
      <3>2. QED
        BY <2>2, <3>1 DEF FreeIn
    <2>3. QED
      BY <1>3, <1>7, <2>1, <2>2
  <1>8. IsFirstFree(s, x, y)
    BY <1>6, <1>7 DEF IsFirstFree
  <1>9. QED
    BY <1>3, <1>6, <1>8

\* A page that was opened for the next app is still empty.
FreshIsEmpty == page = idx => map = {}

\* An empty page has room for every app that is not larger.
LEMMA EmptyHasRoom ==
    ASSUME NEW s \in Sized, Fits(s), map = {}
    PROVE  IsFreeArea(s, 0, 0)
  BY GridAssumption DEF Sized, Fits, IsFreeArea

LEMMA FreshIInv == IInv /\ FreshIsEmpty /\ [Next]_vars => FreshIsEmpty'
  <1> SUFFICES ASSUME IInv, FreshIsEmpty, [Next]_vars PROVE FreshIsEmpty'
    OBVIOUS
  <1>1. CASE NewItem
    <2>1. page' = page /\ idx' = idx + 1 /\ page <= idx /\ idx \in Nat /\ page \in Int
      BY <1>1, AppsAssumption DEF NewItem, IInv, TypeOK, PagesPast
    <2>2. QED
      BY <2>1 DEF FreshIsEmpty
  <1>2. CASE NewPage
    BY <1>2 DEF NewPage, FreshIsEmpty
  <1>3. CASE UNCHANGED vars
    BY <1>3 DEF vars, FreshIsEmpty
  <1>4. QED
    BY <1>1, <1>2, <1>3 DEF Next, Done

\* On a page opened for the next app that app has its place, if on any.
LEMMA FreshTakes ==
    ASSUME IInv, FreshIsEmpty, idx < Apps, page = idx, Fits(apps[idx + 1])
    PROVE  /\ CanPlace
           /\ ~NeedsOther
  <1> DEFINE s == apps[idx + 1]
  <1>1. idx \in Nat /\ idx + 1 \in 1 .. Apps
    BY AppsAssumption DEF IInv, TypeOK
  <1>2. s \in Sized
    BY <1>1, SizesAssumption DEF IInv, TypeOK, Sized
  <1>3. 0 \in 0 .. Cols - 1 /\ 0 \in 0 .. Rows - 1
    BY GridAssumption
  <1>4. IsFreeArea(s, 0, 0)
    BY <1>2, EmptyHasRoom DEF FreshIsEmpty
  <1>5. \E x \in 0 .. Cols - 1, y \in 0 .. Rows - 1 : IsFirstFree(s, x, y)
    BY <1>3, <1>4, SomeIsFirst
  <1>6. ~(page < 0)
    BY <1>1
  <1>7. QED
    BY <1>3, <1>4, <1>5, <1>6 DEF CanPlace, NeedsOther

LEMMA StuckIInv == IInv /\ FreshIsEmpty => NeverStuck
  <1> SUFFICES ASSUME IInv, FreshIsEmpty, idx < Apps, Fits(apps[idx + 1])
               PROVE  (page >= 0 /\ CanPlace) \/ (page # idx /\ NeedsOther)
    BY DEF NeverStuck
  <1>0. idx \in Nat /\ page \in Int
    BY AppsAssumption DEF IInv, TypeOK
  <1>1. CASE page = idx
    BY <1>0, <1>1, FreshTakes
  <1>2. CASE page # idx /\ ~NeedsOther
    <2>1. PICK x \in 0 .. Cols - 1, y \in 0 .. Rows - 1 : IsFreeArea(apps[idx + 1], x, y)
      BY <1>2 DEF NeedsOther
    <2>2. CanPlace
      BY <2>1, SomeIsFirst DEF CanPlace
    <2>3. page >= 0
      BY <1>0, <1>2 DEF NeedsOther
    <2>4. QED
      BY <2>2, <2>3
  <1>3. QED
    BY <1>1, <1>2

LEMMA SpecFresh == Spec => []FreshIsEmpty
  <1>1. Init => FreshIsEmpty
    BY DEF Init, FreshIsEmpty
  <1>2. QED
    BY <1>1, FreshIInv, SpecIInv, PTL DEF Spec

\* An app that is wider or higher than the page has no place on it, not even
\* on an empty one.
LEMMA TooLarge ==
    ASSUME IInv PROVE StuckForEver
  <1> SUFFICES ASSUME idx < Apps, ~Fits(apps[idx + 1])
               PROVE  ~CanPlace /\ NeedsOther
    BY DEF StuckForEver
  <1>1. idx + 1 \in 1 .. Apps
    BY AppsAssumption DEF IInv, TypeOK
  <1>2. apps[idx + 1] \in Sized
    BY <1>1, SizesAssumption DEF IInv, TypeOK, Sized
  <1> DEFINE s == apps[idx + 1]
  <1> HIDE DEF s
  <1>3. s \in Sized /\ ~Fits(s)
    BY <1>2 DEF s
  <1>4. ASSUME NEW x \in 0 .. Cols - 1, NEW y \in 0 .. Rows - 1, IsFreeArea(s, x, y)
        PROVE  FALSE
    <2>1. x + s.w <= Cols /\ y + s.h <= Rows
      BY <1>3, <1>4, FreeInside
    <2>2. s.w \in Nat /\ s.h \in Nat /\ (s.w > Cols \/ s.h > Rows)
      BY <1>3, GridAssumption DEF Sized, Fits
    <2>3. QED
      BY <2>1, <2>2, GridAssumption
  <1>5. QED
    BY <1>4 DEF CanPlace, NeedsOther, IsFirstFree, s

\* Whatever the grid, the sizes and the number of apps: an app that fits on an
\* empty page is never left without a place and without the page it needs, and
\* a page is not opened twice for it; an app that does not is never placed, so
\* that the loop of smart_home_ui_init opens pages for ever.
THEOREM LoopsNeverStuck == Spec => [](NeverStuck /\ StuckForEver)
  BY SpecIInv, SpecFresh, StuckIInv, TooLarge, PTL

\* Every turn of the loops that changes anything lowers a count that is never
\* negative: with LoopsNeverStuck they end if every app fits on a page.
THEOREM LoopsShrink == Spec => [](Left \in Nat) /\ Shrinks
  <1>1. IInv => Left \in Nat
    BY AppsAssumption DEF IInv, TypeOK, Left
  <1>2. ASSUME IInv, FreshIsEmpty, [Next]_vars PROVE [Left' < Left]_vars
    <2>0. idx \in 0 .. Apps /\ page \in -1 .. Apps /\ Apps \in Nat /\ page <= idx
      BY <1>2, AppsAssumption DEF IInv, TypeOK, PagesPast
    <2>1. CASE NewItem
      <3>1. page' = page /\ idx' = idx + 1 /\ idx < Apps
        BY <2>1 DEF NewItem
      <3>2. QED
        BY <2>0, <3>1 DEF Left
    <2>2. CASE NewPage
      <3>1. page' = idx /\ idx' = idx /\ idx < Apps /\ NeedsOther
        BY <2>2 DEF NewPage, NeedsPage, NeedsOther
      <3>2. CASE page = idx
        <4>1. map = {} /\ map' = {}
          BY <1>2, <2>2, <3>2 DEF FreshIsEmpty, NewPage
        <4>2. UNCHANGED vars
          BY <2>2, <3>1, <3>2, <4>1 DEF NewPage, NeedsPage, vars
        <4>3. QED
          BY <4>2
      <3>3. CASE page # idx
        BY <2>0, <3>1, <3>3 DEF Left
      <3>4. QED
        BY <3>2, <3>3
    <2>3. QED
      BY <1>2, <2>1, <2>2 DEF Next, Done
  <1>3. QED
    BY <1>1, <1>2, SpecIInv, SpecFresh, PTL DEF Spec, Shrinks
=============================================================================
