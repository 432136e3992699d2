---------------------------- MODULE TileLayout ----------------------------
(***************************************************************************)
(* The tiles of a page of apps (layout/tile_layout.c) and the loops that   *)
(* fill the pages with it (smart_home_ui.c, ui_intercom_homepage.c).       *)
(*                                                                         *)
(* A page is a grid of Cols x Rows tiles, with a bit map of the taken      *)
(* ones.  An app of w x h tiles takes the first free place, row by row; an *)
(* app that finds none opens a new page.                                   *)
(*                                                                         *)
(* The macro that addresses the map does not bracket its arguments: a tile *)
(* at row y + i is looked for at byte w * y + i of its column of bytes,    *)
(* not at w * (y + i).  The two agree only in a map one byte wide, that is *)
(* of at most eight columns: in a wider one tiles of different rows share  *)
(* their bits, and apps may overlap.                                       *)
(*                                                                         *)
(* Nothing compares an app with the grid before the loops run.  An app     *)
(* that fits on no page gets one after the other, all of them empty: they  *)
(* are one page of the model, which then does no step but NewPage, without *)
(* a change.                                                               *)
(***************************************************************************)
EXTENDS Integers

CONSTANTS
    Cols, Rows,         \* the tiles of a page
    Apps,               \* how many apps there are
    Sizes               \* the sizes they may have

ASSUME GridAssumption == Cols \in Nat \ {0} /\ Rows \in Nat \ {0}

ASSUME AppsAssumption == Apps \in Nat

\* Every app has a tile.
ASSUME SizesAssumption == Sizes \subseteq [w : Nat \ {0}, h : Nat \ {0}]

VARIABLES
    apps,               \* the sizes of the apps
    idx,                \* how many are placed
    map,                \* the set bits of the current page: <<byte, bit>>
    page,               \* the current page, named by the idx it started with
    pos                 \* where every app was placed

vars == <<apps, idx, map, page, pos>>

MapW == (Cols + 7) \div 8

TypeOK ==
    /\ apps \in [1 .. Apps -> Sizes]
    /\ idx \in 0 .. Apps
    /\ map \subseteq (0 .. MapW * Rows - 1) \X (0 .. 7)
    /\ page \in -1 .. Apps
    /\ pos \in [1 .. Apps -> [page : -1 .. Apps, x : 0 .. Cols - 1,
                              y : 0 .. Rows - 1]]

Init ==
    /\ apps \in [1 .. Apps -> Sizes]
    /\ idx = 0 /\ map = {} /\ page = -1
    /\ pos = [a \in 1 .. Apps |-> [page |-> -1, x |-> 0, y |-> 0]]

-----------------------------------------------------------------------------

\* MAP_DATA and DATA_MASK, as they expand for the tile (x + j, y + i).
Bit(x, y, j, i) == <<MapW * y + i + (x + j) \div 8, (x + j) % 8>>

\* The bits of an app of size s at (x, y).
Area(s, x, y) == {Bit(x, y, j, i) : j \in 0 .. s.w - 1, i \in 0 .. s.h - 1}

\* Mutant: the area may reach over the bottom.
IsFreeAreaNoBottom(s, x, y) ==
    \A j \in 0 .. s.w - 1, i \in 0 .. s.h - 1 :
        x + j # Cols /\ Bit(x, y, j, i) \notin map

\* is_free_area: no tile of the area lies on an edge of the grid or is taken.
IsFreeArea(s, x, y) ==
    \A j \in 0 .. s.w - 1, i \in 0 .. s.h - 1 :
        x + j # Cols /\ y + i # Rows /\ Bit(x, y, j, i) \notin map

\* The first place, row by row, where an app of size s fits.
IsFirstFree(s, x, y) ==
    /\ IsFreeArea(s, x, y)
    /\ \A x2 \in 0 .. Cols - 1, y2 \in 0 .. y :
           y2 < y \/ x2 < x => ~IsFreeArea(s, x2, y2)

\* Mutant: only the first row of the area is marked.
MarkAreaTop(s, x, y) == map \cup {Bit(x, y, j, 0) : j \in 0 .. s.w - 1}

\* mark_area.
MarkArea(s, x, y) == map \cup Area(s, x, y)

\* tile_layout_new_item, for the next app.
NewItem ==
    /\ page >= 0 /\ idx < Apps
    /\ \E x \in 0 .. Cols - 1, y \in 0 .. Rows - 1 :
         /\ IsFirstFree(apps[idx + 1], x, y)
         /\ map' = MarkArea(apps[idx + 1], x, y)
         /\ pos' = [pos EXCEPT ![idx + 1] = [page |-> page, x |-> x, y |-> y]]
    /\ idx' = idx + 1
    /\ UNCHANGED <<apps, page>>

\* The first page, or the one after a page without a place for the next app.
NeedsPage ==
    /\ idx < Apps
    /\ \/ page < 0
       \/ \A x \in 0 .. Cols - 1, y \in 0 .. Rows - 1 :
              ~IsFreeArea(apps[idx + 1], x, y)
    /\ UNCHANGED <<apps, idx, pos>>

\* Mutant: the new page starts with the old map.
NewPageKeepsMap == NeedsPage /\ page' = idx /\ UNCHANGED map

\* tile_layout_create.
NewPage == NeedsPage /\ page' = idx /\ map' = {}

Done == idx = Apps /\ UNCHANGED vars

Next == NewItem \/ NewPage \/ Done

Spec == Init /\ [][Next]_vars

\* The loops run to their end.
FairSpec == Spec /\ WF_vars(NewItem \/ NewPage)

-----------------------------------------------------------------------------
(* Properties.                                                             *)

\* The tiles an app covers on its page.
Tiles(a) ==
    (pos[a].x .. pos[a].x + apps[a].w - 1)
        \X (pos[a].y .. pos[a].y + apps[a].h - 1)

\* The bits marked by tile_layout_new_item keep the apps of a page apart, in a
\* grid of at most eight columns.
NoOverlap ==
    \A a, b \in 1 .. idx :
        a # b /\ pos[a].page = pos[b].page => Tiles(a) \cap Tiles(b) = {}

\* Every app is inside the grid, although is_free_area looks only for tiles
\* on its edge and never for tiles beyond it.
InsideGrid ==
    \A a \in 1 .. idx :
        pos[a].x + apps[a].w <= Cols /\ pos[a].y + apps[a].h <= Rows

\* The apps of a page are drawn in full, and in a grid of at most eight columns
\* side by side.
WellLaid == InsideGrid /\ (Cols <= 8 => NoOverlap)

\* An empty page has room for an app of size s.
Fits(s) == s.w <= Cols /\ s.h <= Rows

\* What can happen to the next app.
CanPlace ==
    \E x \in 0 .. Cols - 1, y \in 0 .. Rows - 1 : IsFirstFree(apps[idx + 1], x, y)

NeedsOther ==
    \/ page < 0
    \/ \A x \in 0 .. Cols - 1, y \in 0 .. Rows - 1 : ~IsFreeArea(apps[idx + 1], x, y)

\* If the next app fits on a page at all, the search finds a place, or the loop
\* opens a page, and never a second one for it: a page that has just been
\* opened holds it.
NeverStuck ==
    idx < Apps /\ Fits(apps[idx + 1])
        => (page >= 0 /\ CanPlace) \/ (page # idx /\ NeedsOther)

\* An app that fits on no page is never placed: once it has its page there is
\* nothing but another empty one.
StuckForEver ==
    idx < Apps /\ ~Fits(apps[idx + 1]) => ~CanPlace /\ NeedsOther

\* What is left of the loops: each app a place, and a page unless one has been
\* opened for it.
Left == 2 * (Apps - idx) + (IF page = idx THEN 0 ELSE 1)

\* Every turn of the loops brings them nearer to their end, or finds them at an
\* app that fits on no page.
Shrinks == [][Left' < Left]_vars

\* The loops end if every app fits on a page: each finds its place, whatever
\* the apps before it have left.
AllPlaced == (\A a \in 1 .. Apps : Fits(apps[a])) => <>(idx = Apps)
=============================================================================
