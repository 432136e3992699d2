---------------------------- MODULE Pages_proofs ----------------------------
(***************************************************************************)
(* Proofs about Pages, with the coffees and the submenus of the settings   *)
(* page, for every set of wallpapers, however far the coffees can be       *)
(* pulled, whatever the program is built with and however the screen is    *)
(* held; and about the Wi-Fi menu of the settings page, for every bound on *)
(* the commands in the pipe.                                               *)
(***************************************************************************)
EXTENDS Pages, WifiPage, FiniteSetTheorems, WellFoundedInduction, TLAPS

-----------------------------------------------------------------------------
(* The placing of the buttons on a grid, by induction over the turns of the *)
(* loop.  The library's induction theorems take an operator, which no       *)
(* backend can instantiate; the least-number principle takes a set.         *)

\* The least-number principle, from the fact that < is well-founded.
LEMMA Least ==
    ASSUME NEW T \in SUBSET Nat, T # {}
    PROVE  \E n \in T : \A m \in T : n <= m
  <1> DEFINE R == OpToRel(<, Nat)
  <1>1. \A m, n \in Nat : m < n => <<m, n>> \in R
    BY DEF OpToRel
  <1>2. IsWellFoundedOn(R, Nat)
    BY NatLessThanWellFounded
  <1> HIDE DEF R
  <1>3. PICK n \in T : \A m \in T : <<m, n>> \notin R
    BY <1>2, WFMin
  <1>4. \A m \in T : ~(m < n)
    BY <1>1, <1>3
  <1>5. \A m \in T : n <= m
    BY <1>4
  <1>6. QED
    BY <1>5

\* Induction, for a property given as the set of the numbers that have it.
LEMMA Induct ==
    ASSUME NEW S, 0 \in S, \A n \in Nat : n \in S => n + 1 \in S
    PROVE  Nat \subseteq S
  <1> SUFFICES ASSUME Nat \ S # {} PROVE FALSE
    OBVIOUS
  <1> DEFINE T == Nat \ S
  <1>1. PICK n \in T : \A m \in T : n <= m
    BY Least
  <1>2. n - 1 \in Nat /\ n - 1 \notin T
    BY <1>1
  <1>3. QED
    BY <1>1, <1>2

\* The buttons with names in N.
Buttons(N) == [name : N, w : Nat \ {0}, h : Nat \ {0}]

\* Where button b finds room, and the corner that Place takes.
Free(taken, b, cols, rows) ==
    {at \in (0 .. cols - b.w) \X (0 .. rows - b.h) : AreaEmpty(taken, b, at)}

Corner(free) == CHOOSE at \in free : \A other \in free \ {at} : Before(at, other)

\* The search in rows and columns finds the first free place if there is one.
LEMMA FirstCorner ==
    ASSUME NEW free \in SUBSET (Nat \X Nat), free # {}
    PROVE  /\ Corner(free) \in free
           /\ \A other \in free \ {Corner(free)} : Before(Corner(free), other)
  <1> DEFINE ys == {at[2] : at \in free}
  <1>0. \A at \in free : at = <<at[1], at[2]>> /\ at[1] \in Nat /\ at[2] \in Nat
    OBVIOUS
  <1>1. PICK y \in ys : \A z \in ys : y <= z
    <2>1. ys \in SUBSET Nat /\ ys # {}
      BY <1>0
    <2>2. QED
      BY <2>1, Least
  <1> DEFINE xs == {at[1] : at \in {c \in free : c[2] = y}}
  <1>2. PICK x \in xs : \A z \in xs : x <= z
    <2>1. xs \in SUBSET Nat /\ xs # {}
      BY <1>0, <1>1
    <2>2. QED
      BY <2>1, Least
  <1>3. PICK at \in free : at[2] = y /\ at[1] = x
    BY <1>2
  <1>4. \A other \in free \ {at} : Before(at, other)
    <2>1. TAKE other \in free \ {at}
    <2>2. other[2] \in ys /\ y <= other[2]
      BY <1>1
    <2>3. other[2] = y => other[1] \in xs /\ x <= other[1]
      BY <1>2
    <2>4. other = <<other[1], other[2]>> /\ at = <<at[1], at[2]>>
      BY <1>0
    <2>5. other[1] # x \/ other[2] # y
      BY <1>3, <2>4
    <2>6. x \in Nat /\ y \in Nat /\ other[1] \in Nat /\ other[2] \in Nat
      BY <1>0, <1>3
    <2>7. QED
      BY <1>3, <2>2, <2>3, <2>5, <2>6 DEF Before
  <1>5. QED
    BY <1>3, <1>4 DEF Corner

\* Place takes the first free corner, and none only when none is free.
LEMMA PlaceIsFirst ==
    ASSUME NEW N, NEW b \in Buttons(N), NEW cols \in Nat, NEW rows \in Nat, NEW taken
    PROVE  LET free == Free(taken, b, cols, rows)
           IN  /\ free \in SUBSET (Nat \X Nat)
               /\ free = {} => Place(taken, b, cols, rows) = {}
               /\ free # {} => /\ Corner(free) \in free
                               /\ Place(taken, b, cols, rows) = AreaFill(b, Corner(free))
  <1>1. Free(taken, b, cols, rows) \in SUBSET (Nat \X Nat)
    BY DEF Free, Buttons
  <1>2. QED
    BY <1>1, FirstCorner DEF Place, Free, Corner

\* f records the cells after each turn of the loop, up to turn n.
Turns(f, n, buttons, cols, rows) ==
    f = [i \in 0 .. n |-> IF i = 0 THEN <<>>
                          ELSE PlaceNext(f[i - 1], buttons[i], cols, rows)]

\* There is such a record for any number of turns.
LEMMA TurnsExist ==
    ASSUME NEW buttons, NEW cols, NEW rows
    PROVE  \A n \in Nat : \E f : Turns(f, n, buttons, cols, rows)
  <1> DEFINE S == {n \in Nat : \E f : Turns(f, n, buttons, cols, rows)}
  <1>1. 0 \in S
    <2> DEFINE f == [i \in 0 .. 0 |-> <<>>]
    <2>1. Turns(f, 0, buttons, cols, rows)
      BY DEF Turns
    <2>2. QED
      BY <2>1
  <1>2. ASSUME NEW n \in Nat, n \in S
        PROVE  n + 1 \in S
    <2>1. PICK f : Turns(f, n, buttons, cols, rows)
      BY <1>2
    <2> DEFINE g == [i \in 0 .. n + 1 |->
                        IF i = n + 1 THEN PlaceNext(f[n], buttons[n + 1], cols, rows) ELSE f[i]]
    <2>2. \A i \in 0 .. n : g[i] = f[i]
      OBVIOUS
    <2>3. \A i \in 0 .. n + 1 :
            g[i] = IF i = 0 THEN <<>> ELSE PlaceNext(g[i - 1], buttons[i], cols, rows)
      <3>1. TAKE i \in 0 .. n + 1
      <3>2. CASE i = n + 1
        <4>1. /\ i # 0
              /\ i - 1 = n
              /\ g[i - 1] = f[n]
              /\ g[i] = PlaceNext(f[n], buttons[n + 1], cols, rows)
          BY <3>2
        <4>2. QED
          BY <3>2, <4>1
      <3>3. CASE i = 0
        <4>1. g[0] = f[0] /\ f[0] = <<>>
          BY <2>1, <2>2 DEF Turns
        <4>2. QED
          BY <3>3, <4>1
      <3>4. CASE i \in 1 .. n
        <4>1. i \in 0 .. n /\ i - 1 \in 0 .. n /\ i # 0
          BY <3>4
        <4>2. f[i] = PlaceNext(f[i - 1], buttons[i], cols, rows)
          BY <2>1, <4>1 DEF Turns
        <4>3. g[i] = f[i] /\ g[i - 1] = f[i - 1]
          BY <2>2, <4>1
        <4> HIDE DEF g
        <4>4. QED
          BY <4>1, <4>2, <4>3
      <3>5. QED
        BY <3>2, <3>3, <3>4
    <2>4. g = [i \in 0 .. n + 1 |-> g[i]]
      OBVIOUS
    <2> HIDE DEF g
    <2>5. Turns(g, n + 1, buttons, cols, rows)
      BY <2>3, <2>4 DEF Turns
    <2>6. QED
      BY <2>5
  <1> HIDE DEF S
  <1>3. Nat \subseteq S
    BY <1>1, <1>2, Induct
  <1>4. QED
    BY <1>3 DEF S

\* Placed is defined by recursion: it does satisfy its own equation.
LEMMA PlacedTurns ==
    ASSUME NEW buttons, Len(buttons) \in Nat, NEW cols, NEW rows
    PROVE  /\ Placed(buttons, cols, rows)[0] = <<>>
           /\ \A i \in 1 .. Len(buttons) :
                Placed(buttons, cols, rows)[i]
                = PlaceNext(Placed(buttons, cols, rows)[i - 1], buttons[i], cols, rows)
  <1> DEFINE n == Len(buttons)
             f == CHOOSE g : Turns(g, n, buttons, cols, rows)
  <1>1. Turns(f, n, buttons, cols, rows)
    BY TurnsExist
  <1>2. Placed(buttons, cols, rows) = f
    BY DEF Placed, Turns
  <1> HIDE DEF f
  <1>3. QED
    BY <1>1, <1>2 DEF Turns

\* The names of the first n buttons.
Names(buttons, n) == {buttons[j].name : j \in 1 .. n}

\* The corners at which b lies on the grid.
Corners(b, cols, rows) == (0 .. cols - b.w) \X (0 .. rows - b.h)

\* What the first n buttons got: each an area of its size on the grid, or
\* nothing if it finds no place beside the others; and no two share a cell.
Shared(cells, buttons, n, cols, rows) ==
    /\ cells = [nm \in Names(buttons, n) |-> cells[nm]]
    /\ \A nm \in Names(buttons, n) :
         \E j \in 1 .. n :
            /\ buttons[j].name = nm
            /\ \/ \E at \in Corners(buttons[j], cols, rows) :
                     cells[nm] = AreaFill(buttons[j], at)
               \/ /\ cells[nm] = {}
                  /\ Free(Taken(cells), buttons[j], cols, rows) = {}
    /\ \A a, b \in Names(buttons, n) : a # b => cells[a] \cap cells[b] = {}

\* The cells taken are those of the buttons placed so far.
LEMMA TakenIs ==
    ASSUME NEW cells, NEW names, cells = [nm \in names |-> cells[nm]]
    PROVE  Taken(cells) = UNION {cells[nm] : nm \in names}
  BY DEF Taken, Range

\* A button for which there was no room finds none later.
LEMMA FreeShrinks ==
    ASSUME NEW taken, NEW more, taken \subseteq more, NEW b, NEW cols, NEW rows,
           Free(taken, b, cols, rows) = {}
    PROVE  Free(more, b, cols, rows) = {}
  BY DEF Free, AreaEmpty

\* One more turn keeps what the turns before it made.
LEMMA SharedNext ==
    ASSUME NEW n \in Nat, NEW N, NEW buttons \in Seq(Buttons(N)), n + 1 \in 1 .. Len(buttons),
           NEW cols \in Nat, NEW rows \in Nat, NEW cells,
           Shared(cells, buttons, n, cols, rows)
    PROVE  Shared(PlaceNext(cells, buttons[n + 1], cols, rows), buttons, n + 1, cols, rows)
  <1> DEFINE b     == buttons[n + 1]
             names == Names(buttons, n)
             place == Place(Taken(cells), b, cols, rows)
             after == PlaceNext(cells, b, cols, rows)
  <1>0. b \in Buttons(N)
    OBVIOUS
  <1>1. Names(buttons, n + 1) = names \cup {b.name}
    <2>1. 1 .. n + 1 = (1 .. n) \cup {n + 1}
      OBVIOUS
    <2>2. QED
      BY <2>1 DEF Names
  <1>2. cells = [nm \in names |-> cells[nm]]
    BY DEF Shared
  <1>3. after = [nm \in names \cup {b.name} |-> IF nm \in names THEN cells[nm] ELSE place]
    <2> HIDE DEF names, b
    <2>1. PlaceNext(cells, b, cols, rows)
          = [nm \in names \cup {b.name} |->
               IF nm \in names THEN cells[nm] ELSE Place(Taken(cells), b, cols, rows)]
      BY <1>2 DEF PlaceNext
    <2>2. QED
      BY <2>1
  <1>4. Taken(cells) \subseteq Taken(after)
    <2>1. Taken(cells) = UNION {cells[nm] : nm \in names}
      BY <1>2, TakenIs
    <2>2. Taken(after) = UNION {after[nm] : nm \in names \cup {b.name}}
      BY <1>3, TakenIs
    <2> HIDE DEF place, after, names, b
    <2>3. \A nm \in names : after[nm] = cells[nm]
      BY <1>3
    <2>4. QED
      BY <2>1, <2>2, <2>3
  <1>5. \/ \E at \in Corners(b, cols, rows) :
              place = AreaFill(b, at) /\ place \cap Taken(cells) = {}
        \/ place = {} /\ Free(Taken(cells), b, cols, rows) = {}
    <2> DEFINE free == Free(Taken(cells), b, cols, rows)
    <2>1. CASE free = {}
      BY <1>0, <2>1, PlaceIsFirst
    <2>2. CASE free # {}
      <3>1. Corner(free) \in free /\ place = AreaFill(b, Corner(free))
        BY <1>0, <2>2, PlaceIsFirst
      <3>2. /\ Corner(free) \in Corners(b, cols, rows)
            /\ AreaEmpty(Taken(cells), b, Corner(free))
        BY <3>1 DEF Free, Corners
      <3>3. QED
        BY <3>1, <3>2 DEF AreaEmpty
    <2>3. QED
      BY <2>1, <2>2
  <1>6. \A nm \in names : cells[nm] \subseteq Taken(cells)
    BY <1>2, TakenIs
  <1> HIDE DEF b, names, place, after
  <1>7. \A nm \in names \cup {b.name} :
          \E j \in 1 .. n + 1 :
             /\ buttons[j].name = nm
             /\ \/ \E at \in Corners(buttons[j], cols, rows) : after[nm] = AreaFill(buttons[j], at)
                \/ after[nm] = {} /\ Free(Taken(after), buttons[j], cols, rows) = {}
    <2>1. TAKE nm \in names \cup {b.name}
    <2>2. CASE nm \in names
      <3>1. PICK j \in 1 .. n :
              /\ buttons[j].name = nm
              /\ \/ \E at \in Corners(buttons[j], cols, rows) : cells[nm] = AreaFill(buttons[j], at)
                 \/ cells[nm] = {} /\ Free(Taken(cells), buttons[j], cols, rows) = {}
        BY <2>2 DEF Shared, names
      <3>2. after[nm] = cells[nm] /\ j \in 1 .. n + 1
        BY <1>3, <2>2
      <3>3. Free(Taken(cells), buttons[j], cols, rows) = {}
            => Free(Taken(after), buttons[j], cols, rows) = {}
        BY <1>4, FreeShrinks
      <3>4. QED
        BY <3>1, <3>2, <3>3
    <2>3. CASE nm \notin names
      <3>1. /\ after[nm] = place
            /\ b.name = nm
            /\ n + 1 \in 1 .. n + 1
            /\ b = buttons[n + 1]
        BY <1>3, <2>1, <2>3 DEF b
      <3>2. Free(Taken(cells), b, cols, rows) = {} => Free(Taken(after), b, cols, rows) = {}
        BY <1>4, FreeShrinks
      <3>3. QED
        BY <1>5, <3>1, <3>2
    <2>4. QED
      BY <2>2, <2>3
  <1>8. \A c, d \in names \cup {b.name} : c # d => after[c] \cap after[d] = {}
    <2>1. \A c, d \in names : c # d => cells[c] \cap cells[d] = {}
      BY DEF Shared, names
    <2>2. \A c \in names : cells[c] \cap place = {}
      BY <1>5, <1>6
    <2>3. QED
      BY <1>3, <2>1, <2>2
  <1>9. after = [nm \in names \cup {b.name} |-> after[nm]]
    BY <1>3
  <1>10. QED
    BY <1>1, <1>7, <1>8, <1>9 DEF Shared, after, b

\* Whatever list of buttons ui_btnmatrix_create gets and on whatever grid: each
\* name has an area of its button's size that lies on the grid, or nothing; no
\* two share a cell; and a button with nothing fits nowhere beside the others.
THEOREM AnyMatrix ==
    ASSUME NEW N, NEW buttons \in Seq(Buttons(N)), NEW cols \in Nat, NEW rows \in Nat
    PROVE  Shared(Matrix(buttons, cols, rows), buttons, Len(buttons), cols, rows)
  <1> DEFINE n == Len(buttons)
             placed == Placed(buttons, cols, rows)
             S == {i \in Nat : i <= n => Shared(placed[i], buttons, i, cols, rows)}
  <1>0. n \in Nat
    OBVIOUS
  <1>1. /\ placed[0] = <<>>
        /\ \A i \in 1 .. n :
             placed[i] = PlaceNext(placed[i - 1], buttons[i], cols, rows)
    BY PlacedTurns
  <1> HIDE DEF placed, n
  <1>2. 0 \in S
    <2>1. Names(buttons, 0) = {}
      BY DEF Names
    <2>2. Shared(<<>>, buttons, 0, cols, rows)
      BY <2>1 DEF Shared
    <2>3. QED
      BY <1>1, <2>2
  <1>3. ASSUME NEW i \in Nat, i \in S
        PROVE  i + 1 \in S
    <2> SUFFICES ASSUME i + 1 <= n
                 PROVE  Shared(placed[i + 1], buttons, i + 1, cols, rows)
      OBVIOUS
    <2>1. Shared(placed[i], buttons, i, cols, rows)
      BY <1>0, <1>3
    <2>2. i + 1 \in 1 .. n /\ (i + 1) - 1 = i
      BY <1>0
    <2>3. placed[i + 1] = PlaceNext(placed[i], buttons[i + 1], cols, rows)
      BY <1>1, <2>2
    <2>4. QED
      BY <2>1, <2>2, <2>3, SharedNext DEF n
  <1> HIDE DEF S
  <1>4. Nat \subseteq S
    BY <1>2, <1>3, Induct
  <1>5. Shared(placed[n], buttons, n, cols, rows)
    BY <1>0, <1>4 DEF S
  <1>6. QED
    BY <1>5 DEF Matrix, placed, n

\* The sizes of a row of cells and of an area.
LEMMA RunSize ==
    ASSUME NEW x \in Nat, NEW k \in Nat \ {0}
    PROVE  /\ IsFiniteSet(x .. x + k - 1)
           /\ Cardinality(x .. x + k - 1) = k
           /\ x \in x .. x + k - 1
  <1>1. x + k - 1 \in Int /\ ~(x > x + k - 1) /\ (x + k - 1) - x + 1 = k
    OBVIOUS
  <1>2. IsFiniteSet(x .. x + k - 1)
    BY <1>1, FS_Interval
  <1>3. Cardinality(x .. x + k - 1) = (x + k - 1) - x + 1
    BY <1>1, FS_Interval
  <1>4. QED
    BY <1>1, <1>2, <1>3

LEMMA AreaSize ==
    ASSUME NEW N, NEW b \in Buttons(N), NEW at \in Nat \X Nat
    PROVE  /\ IsFiniteSet(AreaFill(b, at))
           /\ Cardinality(AreaFill(b, at)) = b.w * b.h
           /\ at \in AreaFill(b, at)
  <1> DEFINE x == at[1]
             y == at[2]
             xs == x .. x + b.w - 1
             ys == y .. y + b.h - 1
  <1> HIDE DEF x, y
  <1>0. /\ x \in Nat
        /\ y \in Nat
        /\ at = <<x, y>>
        /\ b.w \in Nat \ {0}
        /\ b.h \in Nat \ {0}
    BY DEF Buttons, x, y
  <1>1. IsFiniteSet(xs) /\ Cardinality(xs) = b.w /\ x \in xs
    BY <1>0, RunSize
  <1>2. IsFiniteSet(ys) /\ Cardinality(ys) = b.h /\ y \in ys
    BY <1>0, RunSize
  <1>3. AreaFill(b, at) = xs \X ys
    BY DEF AreaFill, x, y
  <1> HIDE DEF xs, ys
  <1>4. IsFiniteSet(xs \X ys) /\ Cardinality(xs \X ys) = b.w * b.h
    BY <1>1, <1>2, FS_Product
  <1>5. at \in xs \X ys
    BY <1>0, <1>1, <1>2
  <1>6. QED
    BY <1>3, <1>4, <1>5

\* A button of one cell finds room on a grid that is not full.
LEMMA SmallFits ==
    ASSUME NEW N, NEW b \in Buttons(N), b.w = 1, b.h = 1, NEW cols \in Nat, NEW rows \in Nat,
           NEW taken, IsFiniteSet(taken), Cardinality(taken) < cols * rows
    PROVE  Free(taken, b, cols, rows) # {}
  <1> DEFINE xs == 0 .. cols - 1
             ys == 0 .. rows - 1
             grid == xs \X ys
  <1>1. IsFiniteSet(grid) /\ Cardinality(grid) = cols * rows
    <2>1. IsFiniteSet(xs) /\ Cardinality(xs) = cols
      BY FS_Interval
    <2>2. IsFiniteSet(ys) /\ Cardinality(ys) = rows
      BY FS_Interval
    <2> HIDE DEF xs, ys
    <2>3. QED
      BY <2>1, <2>2, FS_Product
  <1>2. PICK at \in grid : at \notin taken
    <2> SUFFICES ASSUME grid \subseteq taken
                 PROVE  FALSE
      OBVIOUS
    <2>1. Cardinality(grid) <= Cardinality(taken)
      BY FS_Subset
    <2>2. Cardinality(grid) \in Nat /\ Cardinality(taken) \in Nat
      BY <1>1, FS_CardinalityType
    <2> HIDE DEF grid
    <2>3. QED
      BY <1>1, <2>1, <2>2
  <1>3. AreaFill(b, at) = {at}
    <2>1. at[1] .. at[1] + 1 - 1 = {at[1]} /\ at[2] .. at[2] + 1 - 1 = {at[2]}
      OBVIOUS
    <2>2. {at[1]} \X {at[2]} = {at}
      BY <1>2
    <2>3. QED
      BY <2>1, <2>2 DEF AreaFill
  <1>4. at \in Free(taken, b, cols, rows)
    BY <1>2, <1>3 DEF Free, AreaEmpty
  <1>5. QED
    BY <1>4

\* A first button of one row, and small ones that have cells enough.
FitsIn(buttons, cols, rows) ==
    /\ Len(buttons) # 0 /\ rows # 0
    /\ buttons[1].h = 1 /\ buttons[1].w <= cols
    /\ \A j \in 2 .. Len(buttons) : buttons[j].w = 1 /\ buttons[j].h = 1
    /\ buttons[1].w + Len(buttons) - 1 <= cols * rows

\* The first n buttons have their places, and the others can have theirs.
RoomLeft(cells, buttons, n) ==
    /\ \A nm \in Names(buttons, n) : cells[nm] # {}
    /\ IsFiniteSet(Taken(cells))
    /\ Cardinality(Taken(cells)) <= IF n = 0 THEN 0 ELSE buttons[1].w + n - 1

\* With cells enough for all, the next button finds its place too.
LEMMA RoomNext ==
    ASSUME NEW N, NEW buttons \in Seq(Buttons(N)), NEW n \in Nat, n + 1 \in 1 .. Len(buttons),
           NEW cols \in Nat, NEW rows \in Nat, FitsIn(buttons, cols, rows),
           NEW cells, cells = [nm \in Names(buttons, n) |-> cells[nm]],
           RoomLeft(cells, buttons, n)
    PROVE  RoomLeft(PlaceNext(cells, buttons[n + 1], cols, rows), buttons, n + 1)
  <1> DEFINE b     == buttons[n + 1]
             names == Names(buttons, n)
             taken == Taken(cells)
             free  == Free(taken, b, cols, rows)
             place == Place(taken, b, cols, rows)
             after == PlaceNext(cells, b, cols, rows)
             used  == IF n = 0 THEN 0 ELSE buttons[1].w + n - 1
  <1>0. /\ b \in Buttons(N)
        /\ buttons[1] \in Buttons(N)
        /\ b.w \in Nat \ {0}
        /\ b.h = 1
        /\ buttons[1].w \in Nat /\ (n = 0 => b = buttons[1]) /\ (n # 0 => b.w = 1)
    <2>1. /\ 1 \in 1 .. Len(buttons) /\ n + 1 \in 1 .. Len(buttons)
          /\ n # 0 => n + 1 \in 2 .. Len(buttons)
      OBVIOUS
    <2>2. buttons[1] \in Buttons(N) /\ b \in Buttons(N)
      BY <2>1
    <2>3. b.w \in Nat \ {0} /\ buttons[1].w \in Nat
      BY <2>2 DEF Buttons
    <2>4. QED
      BY <2>1, <2>2, <2>3 DEF FitsIn
  <1>1. /\ IsFiniteSet(taken)
        /\ Cardinality(taken) \in Nat
        /\ Cardinality(taken) <= used
    BY FS_CardinalityType DEF RoomLeft
  <1>2. free # {}
    <2>1. CASE n = 0
      <3>1. taken = {}
        <4>1. Cardinality(taken) = 0
          BY <1>1, <2>1
        <4>2. QED
          BY <1>1, <4>1, FS_EmptySet
      <3>2. cols - b.w \in Nat /\ rows - b.h \in Nat
        BY <1>0, <2>1 DEF FitsIn
      <3>3. <<0, 0>> \in free
        BY <3>1, <3>2 DEF Free, AreaEmpty
      <3>4. QED
        BY <3>3
    <2>2. CASE n # 0
      <3>1. /\ buttons[1].w + n - 1 < buttons[1].w + Len(buttons) - 1
            /\ Len(buttons) \in Nat
        BY <1>0
      <3>2. /\ cols * rows \in Nat
            /\ buttons[1].w + Len(buttons) - 1 <= cols * rows
        BY DEF FitsIn
      <3> HIDE DEF taken
      <3>3. Cardinality(taken) < cols * rows
        BY <1>0, <1>1, <2>2, <3>1, <3>2
      <3>4. QED
        BY <1>0, <1>1, <2>2, <3>3, SmallFits
    <2>3. QED
      BY <2>1, <2>2
  <1>3. IsFiniteSet(place) /\ Cardinality(place) = b.w /\ place # {}
    <2>1. Corner(free) \in Nat \X Nat /\ place = AreaFill(b, Corner(free))
      BY <1>0, <1>2, PlaceIsFirst
    <2> HIDE DEF free, place, b
    <2>2. IsFiniteSet(place) /\ Cardinality(place) = b.w * b.h /\ place # {}
      BY <1>0, <2>1, AreaSize
    <2>3. QED
      BY <1>0, <2>2
  <1>4. Names(buttons, n + 1) = names \cup {b.name}
    <2>1. 1 .. n + 1 = (1 .. n) \cup {n + 1}
      OBVIOUS
    <2>2. QED
      BY <2>1 DEF Names
  <1>5. after = [nm \in names \cup {b.name} |-> IF nm \in names THEN cells[nm] ELSE place]
    <2> HIDE DEF names, b
    <2>1. QED
      BY DEF PlaceNext, names
  <1>6. \A nm \in names : cells[nm] # {}
    BY DEF RoomLeft
  <1>7. taken = UNION {cells[nm] : nm \in names}
    BY TakenIs
  <1> HIDE DEF place, names, after, taken, free, b
  <1>8. \A nm \in names \cup {b.name} : after[nm] # {}
    BY <1>3, <1>5, <1>6
  <1>9. Taken(after) = UNION {after[nm] : nm \in names \cup {b.name}}
    <2>1. after = [nm \in names \cup {b.name} |-> after[nm]]
      BY <1>5
    <2>2. QED
      BY <2>1, TakenIs
  <1>10. Taken(after) = taken \/ Taken(after) = taken \cup place
    BY <1>5, <1>7, <1>9
  <1>11. /\ IsFiniteSet(Taken(after))
         /\ Cardinality(Taken(after)) <= buttons[1].w + n
    <2>1. CASE Taken(after) = taken
      BY <1>0, <1>1, <2>1
    <2>2. CASE Taken(after) = taken \cup place
      <3>1. /\ IsFiniteSet(taken \cup place)
            /\ Cardinality(taken \cup place)
               = Cardinality(taken) + Cardinality(place) - Cardinality(taken \cap place)
        BY <1>1, <1>3, FS_Union
      <3>2. Cardinality(taken \cap place) \in Nat
        BY <1>1, FS_Subset, FS_CardinalityType
      <3>3. Cardinality(taken \cup place) <= used + b.w
        <4>1. \A c, d, k, r, w \in Int :
                 c <= r /\ d = w /\ 0 <= k => c + d - k <= r + w
          OBVIOUS
        <4>2. used \in Int /\ b.w \in Int /\ Cardinality(taken) \in Int
          BY <1>0, <1>1
        <4>3. Cardinality(place) \in Int /\ Cardinality(taken \cap place) \in Int
              /\ 0 <= Cardinality(taken \cap place)
          BY <1>3, <3>2, <4>2
        <4> HIDE DEF used
        <4>4. QED
          BY <1>1, <1>3, <3>1, <4>1, <4>2, <4>3, Zenon
      <3>4. used + b.w <= buttons[1].w + n
        BY <1>0
      <3>5. Cardinality(taken \cup place) \in Nat
        BY <3>1, FS_CardinalityType
      <3>6. used \in Int
        BY <1>0
      <3> HIDE DEF used
      <3>7. QED
        BY <1>0, <2>2, <3>1, <3>3, <3>4, <3>5, <3>6
    <2>3. QED
      BY <1>10, <2>1, <2>2
  <1>12. buttons[1].w + n = buttons[1].w + (n + 1) - 1 /\ n + 1 # 0
    <2>1. \A w, k \in Nat : w + k = w + (k + 1) - 1 /\ k + 1 # 0
      OBVIOUS
    <2>2. QED
      BY <1>0, <2>1, Zenon
  <1>13. RoomLeft(after, buttons, n + 1)
    BY <1>4, <1>8, <1>11, <1>12 DEF RoomLeft
  <1>14. QED
    BY <1>13 DEF after, b

\* A list that starts with one button as long as a row or shorter, and goes on
\* with buttons of one cell, gets all its places as soon as the grid has as many
\* cells as they take: the first free place leaves no gap too small to use.
THEOREM AllPlaced ==
    ASSUME NEW N, NEW buttons \in Seq(Buttons(N)), NEW cols \in Nat, NEW rows \in Nat,
           FitsIn(buttons, cols, rows)
    PROVE  /\ WellPlaced(Matrix(buttons, cols, rows))
           /\ DOMAIN Matrix(buttons, cols, rows) = Names(buttons, Len(buttons))
  <1> DEFINE n == Len(buttons)
             placed == Placed(buttons, cols, rows)
             S == {i \in Nat : i <= n => /\ Shared(placed[i], buttons, i, cols, rows)
                                         /\ RoomLeft(placed[i], buttons, i)}
  <1>0. n \in Nat
    OBVIOUS
  <1>1. /\ placed[0] = <<>>
        /\ \A i \in 1 .. n :
             placed[i] = PlaceNext(placed[i - 1], buttons[i], cols, rows)
    BY PlacedTurns
  <1> HIDE DEF placed, n
  <1>2. 0 \in S
    <2>1. Names(buttons, 0) = {}
      BY DEF Names
    <2>2. Shared(<<>>, buttons, 0, cols, rows)
      BY <2>1 DEF Shared
    <2>3. Taken(<<>>) = {}
      BY DEF Taken, Range
    <2>4. RoomLeft(<<>>, buttons, 0)
      <3>1. IsFiniteSet(Taken(<<>>)) /\ Cardinality(Taken(<<>>)) = 0
        BY <2>3, FS_EmptySet
      <3>2. QED
        BY <2>1, <3>1 DEF RoomLeft
    <2>5. QED
      BY <1>1, <2>2, <2>4
  <1>3. ASSUME NEW i \in Nat, i \in S
        PROVE  i + 1 \in S
    <2> SUFFICES ASSUME i + 1 <= n
                 PROVE  /\ Shared(placed[i + 1], buttons, i + 1, cols, rows)
                        /\ RoomLeft(placed[i + 1], buttons, i + 1)
      OBVIOUS
    <2>1. /\ Shared(placed[i], buttons, i, cols, rows)
          /\ RoomLeft(placed[i], buttons, i)
      BY <1>0, <1>3
    <2>2. i + 1 \in 1 .. n /\ (i + 1) - 1 = i
      BY <1>0
    <2>3. placed[i + 1] = PlaceNext(placed[i], buttons[i + 1], cols, rows)
      BY <1>1, <2>2
    <2>4. placed[i] = [nm \in Names(buttons, i) |-> placed[i][nm]]
      BY <2>1 DEF Shared
    <2>5. RoomLeft(placed[i + 1], buttons, i + 1)
      BY <2>1, <2>2, <2>3, <2>4, RoomNext DEF n
    <2>6. Shared(placed[i + 1], buttons, i + 1, cols, rows)
      BY <2>1, <2>2, <2>3, SharedNext DEF n
    <2>7. QED
      BY <2>5, <2>6
  <1> HIDE DEF S
  <1>4. Nat \subseteq S
    BY <1>2, <1>3, Induct
  <1>5. /\ Shared(placed[n], buttons, n, cols, rows)
        /\ RoomLeft(placed[n], buttons, n)
    BY <1>0, <1>4 DEF S
  <1>6. QED
    BY <1>5 DEF Matrix, placed, n, Shared, RoomLeft, WellPlaced

-----------------------------------------------------------------------------
(* The pages.                                                              *)

\* The matrix that the init of page p makes.
GridOf(p) ==
    CASE p = "home"      -> HomeCells
      [] p = "setting"   -> SettingCells
      [] p = "furniture" -> FurnitureCells
      [] p = "player"    -> PlayerCells

\* A matrix is empty until the init of its page makes it.
Grids == {<<>>, HomeCells, SettingCells, FurnitureCells, PlayerCells}

\* The types of the objects; ui.cells holds no other matrices.
UiType ==
    [open : SUBSET AllPages, dates : Int, polls : Int,
     hidden : BOOLEAN, shotTimer : BOOLEAN,
     wall : Wallpapers, snap : Wallpapers \cup {"null"},
     pics : [Showing -> Wallpapers \cup {"closed", "null"}],
     cells : [Gridded -> Grids]]

\* How the program was built, and how its screen is held.
BuildType == built \in SUBSET Parts /\ wide \in BOOLEAN

\* What holds of the objects in the middle of a handler too.
Consistent(u) ==
    /\ u \in UiType
    /\ u.snap \in {"null", u.wall}
    /\ \A p \in Showing : u.pics[p] \in {"closed", "null", u.wall}
    /\ \A p \in Showing \ u.open : u.pics[p] = "closed"
    /\ \A p \in Gridded \cap u.open : u.cells[p] = GridOf(p)

\* The pictures of u and its matrices, with those that the init of p makes.
PicsWith(u, p)  == [q \in Showing |-> IF q = p THEN u.snap ELSE u.pics[q]]
CellsWith(u, p) == [q \in Gridded |-> IF q = p THEN GridOf(p) ELSE u.cells[q]]

\* u with page p as its init makes it, and with these timers and wallpaper.
WithPage(u, p, dates, polls, hidden) ==
    [open      |-> u.open \cup {p},
     dates     |-> dates,
     polls     |-> polls,
     hidden    |-> hidden,
     shotTimer |-> u.shotTimer,
     wall      |-> u.wall,
     snap      |-> u.snap,
     pics      |-> PicsWith(u, p),
     cells     |-> CellsWith(u, p)]

\* v has the pages open, and its timers and its wallpaper are as given.
Shows(v, open, dates, polls, hidden) ==
    /\ Consistent(v)
    /\ v.open = open /\ v.dates = dates /\ v.polls = polls /\ v.hidden = hidden

\* Page p is the only one, and the timers and the wallpaper are as it wants.
OnlyPage(v, p) ==
    /\ Consistent(v)
    /\ v.open = {p}
    /\ v.dates = IF p = "home" THEN 1 ELSE 0
    /\ v.polls = IF p = "setting" THEN 1 ELSE 0
    /\ v.hidden <=> p \in {"player", "monitor"}

\* Between two handlers one page is open.
UiInv == \E p \in AllPages : OnlyPage(ui, p)

\* The mask and the submenus are those of an open settings page.
SettingInv ==
    /\ SettingTypeOK
    /\ mask # "none" <=> "setting" \in ui.open
    /\ \A m \in Submenus : menu[m] # "none" => "setting" \in ui.open
    /\ mask = "shown" => cur \in Submenus
    /\ OneSubmenu

\* The coffee that is named is enlarged and those beside it are not, and in a
\* zone it is the one of the zone, however the list got there.
InItsZone ==
    /\ name \in big /\ big \cap {name - 1, name + 1} = {}
    /\ scroll \in 1 .. 18 => InZone(name, scroll)

\* What holds of the coffees, open or not.
CoffeeInv == CoffeeTypeOK /\ InItsZone

\* The inductive invariant: PageOwns is not inductive, as it says nothing of
\* the pictures of a page that is closed.
IInv == BuildType /\ UiInv /\ SettingInv /\ CoffeeInv

\* The matrices depend on the build only, which no handler changes.
LEMMA GridsKept ==
    ASSUME UNCHANGED build
    PROVE  UiType' = UiType /\ \A p \in Gridded : GridOf(p)' = GridOf(p)
  BY
     DEF build, Grids, GridOf, Gridded, HomeCells, SettingCells,
         FurnitureCells,
         PlayerCells, HomeButtons, SettingButtons, With, UiType

\* The picture is the one of the wallpaper, whoever takes it.
LEMMA SnapshotKeeps ==
    ASSUME NEW u, Consistent(u), NEW ok \in BOOLEAN
    PROVE  Shows(Snapshot(u, ok), u.open, u.dates, u.polls, u.hidden)
  <1>1. CASE u.snap = "null" /\ ok
    <2>1. Snapshot(u, ok) = [u EXCEPT !.snap = u.wall]
      BY <1>1 DEF Snapshot
    <2>2. QED
      BY <2>1 DEF Consistent, UiType, Shows
  <1>2. CASE ~(u.snap = "null" /\ ok)
    BY <1>2 DEF Consistent, UiType, Snapshot, Shows
  <1>3. QED
    BY <1>1, <1>2

\* The matrices by their names.
LEMMA GridNames ==
    /\ GridOf("home") = HomeCells /\ GridOf("setting") = SettingCells
    /\ GridOf("furniture") = FurnitureCells /\ GridOf("player") = PlayerCells
  BY DEF GridOf

\* A page that is made as WithPage says leaves the objects consistent.
LEMMA PageMade ==
    ASSUME NEW u, Consistent(u), NEW p \in AllPages,
           NEW dates \in Int, NEW polls \in Int, NEW hidden \in BOOLEAN
    PROVE  Shows(WithPage(u, p, dates, polls, hidden), u.open \cup {p}, dates, polls, hidden)
  <1> DEFINE v     == WithPage(u, p, dates, polls, hidden)
             open  == u.open \cup {p}
             pics  == PicsWith(u, p)
             cells == CellsWith(u, p)
  <1>1. u \in UiType /\ open \in SUBSET AllPages
    BY DEF Consistent, UiType
  <1>2. /\ pics \in [Showing -> Wallpapers \cup {"closed", "null"}]
        /\ \A q \in Showing : pics[q] \in {"closed", "null", u.wall}
        /\ \A q \in Showing \ open : pics[q] = "closed"
    BY DEF Consistent, UiType, PicsWith
  <1>3. /\ cells \in [Gridded -> Grids]
        /\ \A q \in Gridded \cap open : cells[q] = GridOf(q)
    BY GridNames DEF Consistent, UiType, Gridded, Grids, CellsWith
  <1>4. v = [open |-> open, dates |-> dates, polls |-> polls, hidden |-> hidden,
             shotTimer |-> u.shotTimer, wall |-> u.wall, snap |-> u.snap,
             pics |-> pics, cells |-> cells]
    BY DEF WithPage
  <1> HIDE DEF v, open, pics, cells
  <1>5. v \in UiType
    BY <1>1, <1>2, <1>3, <1>4 DEF UiType
  <1>6. /\ v.open = open
        /\ v.dates = dates
        /\ v.polls = polls
        /\ v.hidden = hidden
        /\ v.wall = u.wall
        /\ v.snap = u.snap
        /\ v.pics = pics
        /\ v.cells = cells
    BY <1>1, <1>4 DEF UiType
  <1>7. Consistent(v)
    BY <1>2, <1>3, <1>5, <1>6 DEF Consistent
  <1>8. QED
    BY <1>6, <1>7 DEF Shows, v, open

\* A page without a picture or without a matrix leaves those of the others.
LEMMA OthersKept ==
    ASSUME NEW u \in UiType, NEW p
    PROVE  /\ p \in Showing => PicsWith(u, p) = [u.pics EXCEPT ![p] = u.snap]
           /\ p \notin Showing => PicsWith(u, p) = u.pics
           /\ p \in Gridded => CellsWith(u, p) = [u.cells EXCEPT ![p] = GridOf(p)]
           /\ p \notin Gridded => CellsWith(u, p) = u.cells
  <1>1. /\ u.pics \in [Showing -> Wallpapers \cup {"closed", "null"}]
        /\ u.cells \in [Gridded -> Grids]
    BY DEF UiType
  <1>2. QED
    BY <1>1 DEF PicsWith, CellsWith

\* A record of the objects, field by field.
LEMMA UiRecord ==
    ASSUME NEW u \in UiType
    PROVE  u = [open |-> u.open, dates |-> u.dates, polls |-> u.polls,
                hidden |-> u.hidden, shotTimer |-> u.shotTimer, wall |-> u.wall,
                snap |-> u.snap, pics |-> u.pics, cells |-> u.cells]
  BY DEF UiType

\* Hiding the wallpaper changes nothing else.
LEMMA HideKeeps ==
    ASSUME NEW u, Consistent(u)
    PROVE  /\ Shows(BgHide(u), u.open, u.dates, u.polls, TRUE)
           /\ Shows(BgShow(u), u.open, u.dates, u.polls, FALSE)
  BY DEF Consistent, UiType, BgHide, BgShow, Shows

\* What each init makes.
LEMMA HomeMade ==
    ASSUME NEW u, Consistent(u), "home" \notin u.open
    PROVE  Shows(HomeInit(u), u.open \cup {"home"}, u.dates + 1, u.polls, u.hidden)
  <1>1. u \in UiType
    BY DEF Consistent
  <1>2. /\ PicsWith(u, "home") = u.pics
        /\ CellsWith(u, "home") = [u.cells EXCEPT !["home"] = GridOf("home")]
    BY <1>1, OthersKept DEF Showing, Gridded
  <1>3. PICK open, dates, polls, hidden, shotTimer, wall, snap, pics, cells :
           u = [open |-> open, dates |-> dates, polls |-> polls,
                hidden |-> hidden, shotTimer |-> shotTimer, wall |-> wall,
                snap |-> snap, pics |-> pics, cells |-> cells]
    BY <1>1, UiRecord
  <1>4. HomeInit(u) = WithPage(u, "home", u.dates + 1, u.polls, u.hidden)
    BY <1>2, <1>3, GridNames DEF WithPage, HomeInit, Made
  <1>5. /\ "home" \in AllPages
        /\ u.dates \in Int
        /\ u.polls \in Int
        /\ u.hidden \in BOOLEAN
        /\ u.dates + 1 \in Int /\ u.polls + 1 \in Int
    BY <1>1 DEF AllPages, UiType
  <1>6. QED
    BY <1>4, <1>5, PageMade

LEMMA SettingMade ==
    ASSUME NEW u, Consistent(u), "setting" \notin u.open
    PROVE  Shows(SettingInit(u), u.open \cup {"setting"}, u.dates, u.polls + 1, u.hidden)
  <1>1. u \in UiType
    BY DEF Consistent
  <1>2. /\ PicsWith(u, "setting") = u.pics
        /\ CellsWith(u, "setting") = [u.cells EXCEPT !["setting"] = GridOf("setting")]
    BY <1>1, OthersKept DEF Showing, Gridded
  <1>3. PICK open, dates, polls, hidden, shotTimer, wall, snap, pics, cells :
           u = [open |-> open, dates |-> dates, polls |-> polls,
                hidden |-> hidden, shotTimer |-> shotTimer, wall |-> wall,
                snap |-> snap, pics |-> pics, cells |-> cells]
    BY <1>1, UiRecord
  <1>4. SettingInit(u) = WithPage(u, "setting", u.dates, u.polls + 1, u.hidden)
    BY <1>2, <1>3, GridNames DEF WithPage, SettingInit, Made
  <1>5. /\ "setting" \in AllPages
        /\ u.dates \in Int
        /\ u.polls \in Int
        /\ u.hidden \in BOOLEAN
        /\ u.dates + 1 \in Int /\ u.polls + 1 \in Int
    BY <1>1 DEF AllPages, UiType
  <1>6. QED
    BY <1>4, <1>5, PageMade

LEMMA PlayerMade ==
    ASSUME NEW u, Consistent(u)
    PROVE  Shows(PlayerInit(u), u.open \cup {"player"}, u.dates, u.polls, TRUE)
  <1> DEFINE v == BgHide(u)
  <1>1. v \in UiType
    BY HideKeeps DEF Shows, Consistent
  <1>2. /\ PicsWith(v, "player") = v.pics
        /\ CellsWith(v, "player") = [v.cells EXCEPT !["player"] = GridOf("player")]
    BY <1>1, OthersKept DEF Showing, Gridded
  <1>3. PlayerInit(u) = [Made(v, "player") EXCEPT !.cells["player"] = PlayerCells]
    BY DEF PlayerInit
  <1> HIDE DEF v
  <1>4. PICK open, dates, polls, hidden, shotTimer, wall, snap, pics, cells :
           v = [open |-> open, dates |-> dates, polls |-> polls,
                hidden |-> hidden, shotTimer |-> shotTimer, wall |-> wall,
                snap |-> snap, pics |-> pics, cells |-> cells]
    BY <1>1, UiRecord
  <1>5. PlayerInit(u) = WithPage(v, "player", v.dates, v.polls, v.hidden)
    BY <1>2, <1>3, <1>4, GridNames DEF WithPage, Made
  <1>6. Shows(v, u.open, u.dates, u.polls, TRUE)
    BY HideKeeps DEF v
  <1>7. /\ "player" \in AllPages /\ Consistent(v)
        /\ v.dates \in Int /\ v.polls \in Int /\ v.hidden \in BOOLEAN
    BY <1>1, <1>6 DEF AllPages, UiType, Shows
  <1>8. Shows(WithPage(v, "player", v.dates, v.polls, v.hidden),
               v.open \cup {"player"}, v.dates, v.polls, v.hidden)
    BY <1>7, PageMade
  <1>9. QED
    BY <1>5, <1>6, <1>8 DEF Shows

LEMMA MonitorMade ==
    ASSUME NEW u, Consistent(u)
    PROVE  Shows(MonitorInit(u), u.open \cup {"monitor"}, u.dates, u.polls, TRUE)
  <1> DEFINE v == BgHide(u)
  <1>1. v \in UiType
    BY HideKeeps DEF Shows, Consistent
  <1>2. PicsWith(v, "monitor") = v.pics /\ CellsWith(v, "monitor") = v.cells
    BY <1>1, OthersKept DEF Showing, Gridded
  <1>3. MonitorInit(u) = Made(v, "monitor")
    BY DEF MonitorInit
  <1> HIDE DEF v
  <1>4. PICK open, dates, polls, hidden, shotTimer, wall, snap, pics, cells :
           v = [open |-> open, dates |-> dates, polls |-> polls,
                hidden |-> hidden, shotTimer |-> shotTimer, wall |-> wall,
                snap |-> snap, pics |-> pics, cells |-> cells]
    BY <1>1, UiRecord
  <1>5. MonitorInit(u) = WithPage(v, "monitor", v.dates, v.polls, v.hidden)
    BY <1>2, <1>3, <1>4, GridNames DEF WithPage, Made
  <1>6. Shows(v, u.open, u.dates, u.polls, TRUE)
    BY HideKeeps DEF v
  <1>7. /\ "monitor" \in AllPages /\ Consistent(v)
        /\ v.dates \in Int /\ v.polls \in Int /\ v.hidden \in BOOLEAN
    BY <1>1, <1>6 DEF AllPages, UiType, Shows
  <1>8. Shows(WithPage(v, "monitor", v.dates, v.polls, v.hidden),
               v.open \cup {"monitor"}, v.dates, v.polls, v.hidden)
    BY <1>7, PageMade
  <1>9. QED
    BY <1>5, <1>6, <1>8 DEF Shows

LEMMA PlainMade ==
    ASSUME NEW u, Consistent(u), NEW p \in {"coffee", "intercom", "call"}
    PROVE  Shows(Made(u, p), u.open \cup {p}, u.dates, u.polls, u.hidden)
  <1>1. u \in UiType
    BY DEF Consistent
  <1>2. PicsWith(u, p) = u.pics /\ CellsWith(u, p) = u.cells
    BY <1>1, OthersKept DEF Showing, Gridded
  <1>3. PICK open, dates, polls, hidden, shotTimer, wall, snap, pics, cells :
           u = [open |-> open, dates |-> dates, polls |-> polls,
                hidden |-> hidden, shotTimer |-> shotTimer, wall |-> wall,
                snap |-> snap, pics |-> pics, cells |-> cells]
    BY <1>1, UiRecord
  <1>4. Made(u, p) = WithPage(u, p, u.dates, u.polls, u.hidden)
    BY <1>2, <1>3, GridNames DEF WithPage, Made
  <1>5. /\ p \in AllPages
        /\ u.dates \in Int
        /\ u.polls \in Int
        /\ u.hidden \in BOOLEAN
        /\ u.dates + 1 \in Int /\ u.polls + 1 \in Int
    BY <1>1 DEF AllPages, UiType
  <1>6. QED
    BY <1>4, <1>5, PageMade

LEMMA SmartMade ==
    ASSUME NEW u, Consistent(u), "smart" \notin u.open, NEW ok \in BOOLEAN
    PROVE  Shows(SmartInit(u, ok), u.open \cup {"smart"}, u.dates, u.polls, u.hidden)
  <1> DEFINE v == Snapshot(u, ok)
  <1>1. v \in UiType
    BY SnapshotKeeps DEF Shows, Consistent
  <1>2. /\ PicsWith(v, "smart") = [v.pics EXCEPT !["smart"] = v.snap]
        /\ CellsWith(v, "smart") = v.cells
    BY <1>1, OthersKept DEF Showing, Gridded
  <1> HIDE DEF v
  <1>3. PICK open, dates, polls, hidden, shotTimer, wall, snap, pics, cells :
           v = [open |-> open, dates |-> dates, polls |-> polls,
                hidden |-> hidden, shotTimer |-> shotTimer, wall |-> wall,
                snap |-> snap, pics |-> pics, cells |-> cells]
    BY <1>1, UiRecord
  <1>4. SmartInit(u, ok) = WithPage(v, "smart", v.dates, v.polls, v.hidden)
    BY <1>2, <1>3, GridNames DEF WithPage, SmartInit, Made, v
  <1>5. Shows(v, u.open, u.dates, u.polls, u.hidden)
    BY SnapshotKeeps DEF v
  <1>6. /\ "smart" \in AllPages /\ Consistent(v)
        /\ v.dates \in Int /\ v.polls \in Int /\ v.hidden \in BOOLEAN
    BY <1>1, <1>5 DEF AllPages, UiType, Shows
  <1>7. Shows(WithPage(v, "smart", v.dates, v.polls, v.hidden),
               v.open \cup {"smart"}, v.dates, v.polls, v.hidden)
    BY <1>6, PageMade
  <1>8. QED
    BY <1>4, <1>5, <1>7 DEF Shows

LEMMA FurnitureMade ==
    ASSUME NEW u, Consistent(u), "furniture" \notin u.open, NEW ok \in BOOLEAN
    PROVE  Shows(FurnitureInit(u, ok), u.open \cup {"furniture"}, u.dates, u.polls, u.hidden)
  <1> DEFINE v == Snapshot(u, ok)
  <1>1. v \in UiType
    BY SnapshotKeeps DEF Shows, Consistent
  <1>2. /\ PicsWith(v, "furniture") = [v.pics EXCEPT !["furniture"] = v.snap]
        /\ CellsWith(v, "furniture") = [v.cells EXCEPT !["furniture"] = GridOf("furniture")]
    BY <1>1, OthersKept DEF Showing, Gridded
  <1> HIDE DEF v
  <1>3. PICK open, dates, polls, hidden, shotTimer, wall, snap, pics, cells :
           v = [open |-> open, dates |-> dates, polls |-> polls,
                hidden |-> hidden, shotTimer |-> shotTimer, wall |-> wall,
                snap |-> snap, pics |-> pics, cells |-> cells]
    BY <1>1, UiRecord
  <1>4. FurnitureInit(u, ok) = WithPage(v, "furniture", v.dates, v.polls, v.hidden)
    BY <1>2, <1>3, GridNames DEF WithPage, FurnitureInit, Made, v
  <1>5. Shows(v, u.open, u.dates, u.polls, u.hidden)
    BY SnapshotKeeps DEF v
  <1>6. /\ "furniture" \in AllPages /\ Consistent(v)
        /\ v.dates \in Int /\ v.polls \in Int /\ v.hidden \in BOOLEAN
    BY <1>1, <1>5 DEF AllPages, UiType, Shows
  <1>7. Shows(WithPage(v, "furniture", v.dates, v.polls, v.hidden),
               v.open \cup {"furniture"}, v.dates, v.polls, v.hidden)
    BY <1>6, PageMade
  <1>8. QED
    BY <1>4, <1>5, <1>7 DEF Shows

LEMMA IceboxMade ==
    ASSUME NEW u, Consistent(u), "icebox" \notin u.open, NEW ok \in BOOLEAN
    PROVE  Shows(IceboxInit(u, ok), u.open \cup {"icebox"}, u.dates, u.polls, u.hidden)
  <1> DEFINE v == Snapshot(u, ok)
  <1>1. v \in UiType
    BY SnapshotKeeps DEF Shows, Consistent
  <1>2. /\ PicsWith(v, "icebox") = [v.pics EXCEPT !["icebox"] = v.snap]
        /\ CellsWith(v, "icebox") = v.cells
    BY <1>1, OthersKept DEF Showing, Gridded
  <1> HIDE DEF v
  <1>3. PICK open, dates, polls, hidden, shotTimer, wall, snap, pics, cells :
           v = [open |-> open, dates |-> dates, polls |-> polls,
                hidden |-> hidden, shotTimer |-> shotTimer, wall |-> wall,
                snap |-> snap, pics |-> pics, cells |-> cells]
    BY <1>1, UiRecord
  <1>4. IceboxInit(u, ok) = WithPage(v, "icebox", v.dates, v.polls, v.hidden)
    BY <1>2, <1>3, GridNames DEF WithPage, IceboxInit, Made, v
  <1>5. Shows(v, u.open, u.dates, u.polls, u.hidden)
    BY SnapshotKeeps DEF v
  <1>6. /\ "icebox" \in AllPages /\ Consistent(v)
        /\ v.dates \in Int /\ v.polls \in Int /\ v.hidden \in BOOLEAN
    BY <1>1, <1>5 DEF AllPages, UiType, Shows
  <1>7. Shows(WithPage(v, "icebox", v.dates, v.polls, v.hidden),
               v.open \cup {"icebox"}, v.dates, v.polls, v.hidden)
    BY <1>6, PageMade
  <1>8. QED
    BY <1>4, <1>5, <1>7 DEF Shows

\* A page that is deleted takes its pictures with it.
LEMMA DeletedKeeps ==
    ASSUME NEW u, Consistent(u), NEW p \in AllPages
    PROVE  Shows(Deleted(u, p), u.open \ {p}, u.dates, u.polls, u.hidden)
  BY DEF Consistent, UiType, Deleted, AllPages, Gridded, Showing, Shows

\* The home page takes its timer with it.
LEMMA LeaveHomeKeeps ==
    ASSUME NEW u, Consistent(u)
    PROVE  Shows(LeaveHome(u), u.open \ {"home"}, u.dates - 1, u.polls, u.hidden)
  <1> DEFINE v == [u EXCEPT !.dates = @ - 1]
  <1>1. Shows(v, u.open, u.dates - 1, u.polls, u.hidden)
    BY DEF Shows, Consistent, UiType
  <1>2. LeaveHome(u) = Deleted(v, "home")
    BY DEF LeaveHome
  <1> HIDE DEF v
  <1>3. QED
    BY <1>1, <1>2, DeletedKeeps DEF Shows, AllPages

\* Consistent speaks of the build, which no handler changes.
LEMMA Arrived ==
    ASSUME UNCHANGED build, NEW p \in AllPages, OnlyPage(ui', p)
    PROVE  UiInv' /\ ui'.open = {p}
  <1>1. OnlyPage(ui, p)'
    BY GridsKept DEF OnlyPage, Consistent
  <1>2. QED
    BY <1>1 DEF OnlyPage, UiInv

\* A page that is open is the only one.
LEMMA Alone ==
    ASSUME UiInv, NEW p \in ui.open
    PROVE  OnlyPage(ui, p) /\ p \in AllPages
  BY DEF UiInv, OnlyPage

\* The handlers that leave the home page.
LEMMA HomeToSmartMoves ==
    ASSUME UiInv, HomeToSmart
    PROVE  OnlyPage(ui, "home") /\ OnlyPage(ui', "smart")
  <1>1. OnlyPage(ui, "home")
    BY Alone DEF HomeToSmart, HasButton
  <1>2. PICK ok \in BOOLEAN : ui' = LeaveHome(SmartInit(ui, ok))
    BY DEF HomeToSmart
  <1>3. Shows(SmartInit(ui, ok), {"home", "smart"}, 1, 0, FALSE)
    BY <1>1, SmartMade DEF OnlyPage, Shows
  <1>4. Shows(ui', {"smart"}, 0, 0, FALSE)
    BY <1>2, <1>3, LeaveHomeKeeps DEF Shows
  <1>5. QED
    BY <1>1, <1>4 DEF OnlyPage, Shows

LEMMA HomeToFurnitureMoves ==
    ASSUME UiInv, HomeToFurniture
    PROVE  OnlyPage(ui, "home") /\ OnlyPage(ui', "furniture")
  <1>1. OnlyPage(ui, "home")
    BY Alone DEF HomeToFurniture, HasButton
  <1>2. PICK ok \in BOOLEAN : ui' = LeaveHome(FurnitureInit(ui, ok))
    BY DEF HomeToFurniture
  <1>3. Shows(FurnitureInit(ui, ok), {"home", "furniture"}, 1, 0, FALSE)
    BY <1>1, FurnitureMade DEF OnlyPage, Shows
  <1>4. Shows(ui', {"furniture"}, 0, 0, FALSE)
    BY <1>2, <1>3, LeaveHomeKeeps DEF Shows
  <1>5. QED
    BY <1>1, <1>4 DEF OnlyPage, Shows

LEMMA HomeToIntercomMoves ==
    ASSUME UiInv, HomeToIntercom
    PROVE  OnlyPage(ui, "home") /\ OnlyPage(ui', "intercom")
  <1>1. OnlyPage(ui, "home")
    BY Alone DEF HomeToIntercom, HasButton
  <1>2. ui' = LeaveHome(Made(ui, "intercom"))
    BY DEF HomeToIntercom, IntercomInit
  <1>3. Shows(Made(ui, "intercom"), {"home", "intercom"}, 1, 0, FALSE)
    BY <1>1, PlainMade DEF OnlyPage, Shows
  <1>4. Shows(ui', {"intercom"}, 0, 0, FALSE)
    BY <1>2, <1>3, LeaveHomeKeeps DEF Shows
  <1>5. QED
    BY <1>1, <1>4 DEF OnlyPage, Shows

LEMMA HomeToSettingMoves ==
    ASSUME UiInv, HomeToSetting
    PROVE  OnlyPage(ui, "home") /\ OnlyPage(ui', "setting")
  <1>1. OnlyPage(ui, "home")
    BY Alone DEF HomeToSetting, HasButton
  <1>2. ui' = LeaveHome(SettingInit(ui))
    BY DEF HomeToSetting
  <1>3. Shows(SettingInit(ui), {"home", "setting"}, 1, 1, FALSE)
    BY <1>1, SettingMade DEF OnlyPage, Shows
  <1>4. Shows(ui', {"setting"}, 0, 1, FALSE)
    BY <1>2, <1>3, LeaveHomeKeeps DEF Shows
  <1>5. QED
    BY <1>1, <1>4 DEF OnlyPage, Shows

\* The returns to the home page.
LEMMA SmartReturnMoves ==
    ASSUME UiInv, SmartReturn
    PROVE  OnlyPage(ui, "smart") /\ OnlyPage(ui', "home")
  <1>1. OnlyPage(ui, "smart")
    BY Alone DEF SmartReturn
  <1>2. ui' = Deleted(HomeInit(ui), "smart")
    BY DEF SmartReturn
  <1>3. Shows(HomeInit(ui), {"smart", "home"}, 1, 0, FALSE)
    BY <1>1, HomeMade DEF OnlyPage, Shows
  <1>4. Shows(ui', {"home"}, 1, 0, FALSE)
    BY <1>2, <1>3, DeletedKeeps DEF Shows, AllPages
  <1>5. QED
    BY <1>1, <1>4 DEF OnlyPage, Shows

LEMMA FurnitureReturnMoves ==
    ASSUME UiInv, FurnitureReturn
    PROVE  OnlyPage(ui, "furniture") /\ OnlyPage(ui', "home")
  <1>1. OnlyPage(ui, "furniture")
    BY Alone DEF FurnitureReturn
  <1>2. ui' = Deleted(HomeInit(ui), "furniture")
    BY DEF FurnitureReturn
  <1>3. Shows(HomeInit(ui), {"furniture", "home"}, 1, 0, FALSE)
    BY <1>1, HomeMade DEF OnlyPage, Shows
  <1>4. Shows(ui', {"home"}, 1, 0, FALSE)
    BY <1>2, <1>3, DeletedKeeps DEF Shows, AllPages
  <1>5. QED
    BY <1>1, <1>4 DEF OnlyPage, Shows

LEMMA IntercomReturnMoves ==
    ASSUME UiInv, IntercomReturn
    PROVE  OnlyPage(ui, "intercom") /\ OnlyPage(ui', "home")
  <1>1. OnlyPage(ui, "intercom")
    BY Alone DEF IntercomReturn
  <1>2. ui' = Deleted(HomeInit(ui), "intercom")
    BY DEF IntercomReturn
  <1>3. Shows(HomeInit(ui), {"intercom", "home"}, 1, 0, FALSE)
    BY <1>1, HomeMade DEF OnlyPage, Shows
  <1>4. Shows(ui', {"home"}, 1, 0, FALSE)
    BY <1>2, <1>3, DeletedKeeps DEF Shows, AllPages
  <1>5. QED
    BY <1>1, <1>4 DEF OnlyPage, Shows

LEMMA SettingReturnMoves ==
    ASSUME UiInv, SettingReturn
    PROVE  OnlyPage(ui, "setting") /\ OnlyPage(ui', "home")
  <1> DEFINE v == [HomeInit(ui) EXCEPT !.polls = @ - 1]
  <1>1. OnlyPage(ui, "setting")
    BY Alone DEF SettingReturn
  <1>2. ui' = Deleted(v, "setting")
    BY DEF SettingReturn
  <1>3. Shows(HomeInit(ui), {"setting", "home"}, 1, 1, FALSE)
    BY <1>1, HomeMade DEF OnlyPage, Shows
  <1>4. Shows(v, {"setting", "home"}, 1, 0, FALSE)
    BY <1>3 DEF Shows, Consistent, UiType
  <1> HIDE DEF v
  <1>5. Shows(ui', {"home"}, 1, 0, FALSE)
    BY <1>2, <1>4, DeletedKeeps DEF Shows, AllPages
  <1>6. QED
    BY <1>1, <1>5 DEF OnlyPage, Shows

\* The jumps of the furniture page, and the returns to it.
LEMMA JumpIceboxMoves ==
    ASSUME UiInv, JumpIcebox
    PROVE  OnlyPage(ui, "furniture") /\ OnlyPage(ui', "icebox")
  <1>1. OnlyPage(ui, "furniture")
    BY Alone DEF JumpIcebox, HasButton
  <1>2. PICK ok \in BOOLEAN : ui' = Deleted(IceboxInit(ui, ok), "furniture")
    BY DEF JumpIcebox
  <1>3. Shows(IceboxInit(ui, ok), {"furniture", "icebox"}, 0, 0, FALSE)
    BY <1>1, IceboxMade DEF OnlyPage, Shows
  <1>4. Shows(ui', {"icebox"}, 0, 0, FALSE)
    BY <1>2, <1>3, DeletedKeeps DEF Shows, AllPages
  <1>5. QED
    BY <1>1, <1>4 DEF OnlyPage, Shows

LEMMA JumpCoffeeMoves ==
    ASSUME UiInv, JumpCoffee
    PROVE  OnlyPage(ui, "furniture") /\ OnlyPage(ui', "coffee")
  <1>1. OnlyPage(ui, "furniture")
    BY Alone DEF JumpCoffee, HasButton
  <1>2. ui' = Deleted(Made(ui, "coffee"), "furniture")
    BY DEF JumpCoffee, CoffeeInit
  <1>3. Shows(Made(ui, "coffee"), {"furniture", "coffee"}, 0, 0, FALSE)
    BY <1>1, PlainMade DEF OnlyPage, Shows
  <1>4. Shows(ui', {"coffee"}, 0, 0, FALSE)
    BY <1>2, <1>3, DeletedKeeps DEF Shows, AllPages
  <1>5. QED
    BY <1>1, <1>4 DEF OnlyPage, Shows

LEMMA JumpPlayerMoves ==
    ASSUME UiInv, JumpPlayer
    PROVE  OnlyPage(ui, "furniture") /\ OnlyPage(ui', "player")
  <1>1. OnlyPage(ui, "furniture")
    BY Alone DEF JumpPlayer, HasButton
  <1>2. ui' = Deleted(PlayerInit(ui), "furniture")
    BY DEF JumpPlayer
  <1>3. Shows(PlayerInit(ui), {"furniture", "player"}, 0, 0, TRUE)
    <2>1. Shows(PlayerInit(ui), ui.open \cup {"player"}, ui.dates, ui.polls, TRUE)
      BY <1>1, PlayerMade DEF OnlyPage
    <2>2. /\ ui.open \cup {"player"} = {"furniture", "player"}
          /\ ui.dates = 0
          /\ ui.polls = 0
      BY <1>1 DEF OnlyPage
    <2>3. QED
      BY <2>1, <2>2
  <1>4. Shows(ui', {"player"}, 0, 0, TRUE)
    BY <1>2, <1>3, DeletedKeeps DEF Shows, AllPages
  <1>5. QED
    BY <1>1, <1>4 DEF OnlyPage, Shows

LEMMA IceboxReturnMoves ==
    ASSUME UiInv, IceboxReturn
    PROVE  OnlyPage(ui, "icebox") /\ OnlyPage(ui', "furniture")
  <1>1. OnlyPage(ui, "icebox")
    BY Alone DEF IceboxReturn
  <1>2. PICK ok \in BOOLEAN : ui' = Deleted(FurnitureInit(ui, ok), "icebox")
    BY DEF IceboxReturn
  <1>3. Shows(FurnitureInit(ui, ok), {"icebox", "furniture"}, 0, 0, FALSE)
    BY <1>1, FurnitureMade DEF OnlyPage, Shows
  <1>4. Shows(ui', {"furniture"}, 0, 0, FALSE)
    BY <1>2, <1>3, DeletedKeeps DEF Shows, AllPages
  <1>5. QED
    BY <1>1, <1>4 DEF OnlyPage, Shows

LEMMA CoffeeReturnMoves ==
    ASSUME UiInv, CoffeeReturn
    PROVE  OnlyPage(ui, "coffee") /\ OnlyPage(ui', "furniture")
  <1>1. OnlyPage(ui, "coffee")
    BY Alone DEF CoffeeReturn
  <1>2. PICK ok \in BOOLEAN : ui' = Deleted(FurnitureInit(ui, ok), "coffee")
    BY DEF CoffeeReturn
  <1>3. Shows(FurnitureInit(ui, ok), {"coffee", "furniture"}, 0, 0, FALSE)
    BY <1>1, FurnitureMade DEF OnlyPage, Shows
  <1>4. Shows(ui', {"furniture"}, 0, 0, FALSE)
    BY <1>2, <1>3, DeletedKeeps DEF Shows, AllPages
  <1>5. QED
    BY <1>1, <1>4 DEF OnlyPage, Shows

LEMMA PlayerReturnMoves ==
    ASSUME UiInv, PlayerReturn
    PROVE  OnlyPage(ui, "player") /\ OnlyPage(ui', "furniture")
  <1>1. OnlyPage(ui, "player")
    BY Alone DEF PlayerReturn
  <1>2. PICK ok \in BOOLEAN : ui' = BgShow(Deleted(FurnitureInit(ui, ok), "player"))
    BY DEF PlayerReturn
  <1>3. Shows(FurnitureInit(ui, ok), {"player", "furniture"}, 0, 0, TRUE)
    BY <1>1, FurnitureMade DEF OnlyPage, Shows
  <1>4. Shows(Deleted(FurnitureInit(ui, ok), "player"), {"furniture"}, 0, 0, TRUE)
    BY <1>3, DeletedKeeps DEF Shows, AllPages
  <1>5. Shows(ui', {"furniture"}, 0, 0, FALSE)
    BY <1>2, <1>4, HideKeeps DEF Shows
  <1>6. QED
    BY <1>1, <1>5 DEF OnlyPage, Shows

\* The doors of the intercom page, and the returns to it.
LEMMA IntercomToMonitorMoves ==
    ASSUME UiInv, IntercomToMonitor
    PROVE  OnlyPage(ui, "intercom") /\ OnlyPage(ui', "monitor")
  <1>1. OnlyPage(ui, "intercom")
    BY Alone DEF IntercomToMonitor
  <1>2. ui' = Deleted(MonitorInit(ui), "intercom")
    BY DEF IntercomToMonitor
  <1>3. Shows(MonitorInit(ui), {"intercom", "monitor"}, 0, 0, TRUE)
    <2>1. Shows(MonitorInit(ui), ui.open \cup {"monitor"}, ui.dates, ui.polls, TRUE)
      BY <1>1, MonitorMade DEF OnlyPage
    <2>2. /\ ui.open \cup {"monitor"} = {"intercom", "monitor"}
          /\ ui.dates = 0
          /\ ui.polls = 0
      BY <1>1 DEF OnlyPage
    <2>3. QED
      BY <2>1, <2>2
  <1>4. Shows(ui', {"monitor"}, 0, 0, TRUE)
    BY <1>2, <1>3, DeletedKeeps DEF Shows, AllPages
  <1>5. QED
    BY <1>1, <1>4 DEF OnlyPage, Shows

LEMMA IntercomToCallMoves ==
    ASSUME UiInv, IntercomToCall
    PROVE  OnlyPage(ui, "intercom") /\ OnlyPage(ui', "call")
  <1>1. OnlyPage(ui, "intercom")
    BY Alone DEF IntercomToCall
  <1>2. ui' = Deleted(Made(ui, "call"), "intercom")
    BY DEF IntercomToCall, CallInit
  <1>3. Shows(Made(ui, "call"), {"intercom", "call"}, 0, 0, FALSE)
    BY <1>1, PlainMade DEF OnlyPage, Shows
  <1>4. Shows(ui', {"call"}, 0, 0, FALSE)
    BY <1>2, <1>3, DeletedKeeps DEF Shows, AllPages
  <1>5. QED
    BY <1>1, <1>4 DEF OnlyPage, Shows

LEMMA MonitorReturnMoves ==
    ASSUME UiInv, MonitorReturn
    PROVE  OnlyPage(ui, "monitor") /\ OnlyPage(ui', "intercom")
  <1>1. OnlyPage(ui, "monitor")
    BY Alone DEF MonitorReturn
  <1>2. ui' = BgShow(Deleted(Made(ui, "intercom"), "monitor"))
    BY DEF MonitorReturn, IntercomInit
  <1>3. Shows(Made(ui, "intercom"), {"monitor", "intercom"}, 0, 0, TRUE)
    BY <1>1, PlainMade DEF OnlyPage, Shows
  <1>4. Shows(Deleted(Made(ui, "intercom"), "monitor"), {"intercom"}, 0, 0, TRUE)
    BY <1>3, DeletedKeeps DEF Shows, AllPages
  <1>5. Shows(ui', {"intercom"}, 0, 0, FALSE)
    BY <1>2, <1>4, HideKeeps DEF Shows
  <1>6. QED
    BY <1>1, <1>5 DEF OnlyPage, Shows

LEMMA CallReturnMoves ==
    ASSUME UiInv, CallReturn
    PROVE  OnlyPage(ui, "call") /\ OnlyPage(ui', "intercom")
  <1>1. OnlyPage(ui, "call")
    BY Alone DEF CallReturn
  <1>2. ui' = Deleted(Made(ui, "intercom"), "call")
    BY DEF CallReturn, IntercomInit
  <1>3. Shows(Made(ui, "intercom"), {"call", "intercom"}, 0, 0, FALSE)
    BY <1>1, PlainMade DEF OnlyPage, Shows
  <1>4. Shows(ui', {"intercom"}, 0, 0, FALSE)
    BY <1>2, <1>3, DeletedKeeps DEF Shows, AllPages
  <1>5. QED
    BY <1>1, <1>4 DEF OnlyPage, Shows

\* The picture is taken, or another wallpaper is chosen on the settings page,
\* where nobody shows the picture.
LEMMA TakeSnapshotStays ==
    ASSUME TakeSnapshot, NEW p, OnlyPage(ui, p)
    PROVE  OnlyPage(ui', p)
  <1>1. PICK ok \in BOOLEAN : ui' = [Snapshot(ui, ok) EXCEPT !.shotTimer = FALSE]
    BY DEF TakeSnapshot
  <1> DEFINE v == Snapshot(ui, ok)
  <1>2. OnlyPage(v, p)
    BY SnapshotKeeps DEF OnlyPage, Shows
  <1> HIDE DEF v
  <1>3. ui' = [v EXCEPT !.shotTimer = FALSE]
    BY <1>1 DEF v
  <1>4. QED
    BY <1>2, <1>3 DEF OnlyPage, Consistent, UiType

LEMMA PickWallpaperStays ==
    ASSUME UiInv, PickWallpaper
    PROVE  OnlyPage(ui, "setting") /\ OnlyPage(ui', "setting")
  <1>1. OnlyPage(ui, "setting")
    BY Alone DEF PickWallpaper
  <1>2. PICK w \in Wallpapers, ok \in BOOLEAN : ui' = BgSetImg(ui, w, ok)
    BY DEF PickWallpaper
  <1> DEFINE pics == [p \in Showing |->
                        IF ui.pics[p] \in Wallpapers THEN "freed" ELSE ui.pics[p]]
             v == [ui EXCEPT !.wall = w, !.snap = "null", !.pics = pics]
  <1>3. \A p \in Showing : ui.pics[p] = "closed"
    BY <1>1 DEF OnlyPage, Consistent, Showing
  <1>4. pics = [p \in Showing |-> "closed"]
    BY <1>3, WallpaperAssumption DEF NoPicture
  <1>5. ui' = Snapshot(v, ok)
    BY <1>2 DEF BgSetImg
  <1> HIDE DEF pics
  <1>6. Shows(v, {"setting"}, 0, 1, FALSE)
    BY <1>1, <1>4 DEF OnlyPage, Shows, Consistent, UiType, Showing
  <1> HIDE DEF v
  <1>7. QED
    BY <1>1, <1>5, <1>6, SnapshotKeeps DEF OnlyPage, Shows

\* The zones leave nothing out from the very left to 1800 pixels.
LEMMA ZoneOf ==
    ASSUME NEW x \in Int, x > 0, x <= 18
    PROVE  \E k \in Coffees : InZone(k, x)
  <1>1. {1, 2, 3, 4, 5} \subseteq Coffees
    BY DEF Coffees
  <1>2. InZone(1, x) \/ InZone(2, x) \/ InZone(3, x) \/ InZone(4, x) \/ InZone(5, x)
    BY DEF InZone
  <1>3. QED
    BY <1>1, <1>2

\* A scroll event, from anywhere to anywhere.
LEMMA CoffeeScrolls ==
    ASSUME CoffeeInv, Scroll
    PROVE  CoffeeInv'
  <1>1. CASE \A k \in Coffees : ~InZone(k, scroll')
    <2>1. UNCHANGED <<big, name>>
      BY <1>1 DEF Scroll
    <2>2. scroll' \in Int
      BY OverscrollAssumption DEF Scroll
    <2>3. scroll' <= 0 \/ scroll' > 18
      BY <1>1, <2>2, ZoneOf
    <2>4. QED
      BY <2>1, <2>2, <2>3, OverscrollAssumption
         DEF Scroll, CoffeeInv, CoffeeTypeOK, InItsZone
  <1>2. CASE \E k \in Coffees : InZone(k, scroll')
    <2>1. PICK k \in Coffees :
               /\ InZone(k, scroll')
               /\ big' = (big \ Neighbours(k)) \cup {k}
               /\ name' = k
      BY <1>2 DEF Scroll
    <2>2. big' \subseteq Coffees /\ k \in big' /\ big' \cap {k - 1, k + 1} = {}
      <3>1. big \subseteq Coffees
        BY DEF CoffeeInv, CoffeeTypeOK
      <3>2. k - 1 # k /\ k + 1 # k
        BY <2>1 DEF Coffees
      <3>3. Neighbours(k) = {k - 1, k + 1} \cap Coffees
        BY DEF Neighbours
      <3> HIDE DEF Coffees
      <3>4. QED
        BY <2>1, <3>1, <3>2, <3>3
    <2>3. scroll' \in -Overscroll .. 16 + Overscroll
      BY DEF Scroll
    <2>4. QED
      BY <2>1, <2>2, <2>3 DEF CoffeeInv, CoffeeTypeOK, InItsZone
  <1>3. QED
    BY <1>1, <1>2

\* Where the middle of the list is: the zone, or the end beyond the zones.
Zoned(k, x) ==
    /\ x <= 0 => k = 1
    /\ x > 18 => k = 5
    /\ x > 0 /\ x <= 18 => InZone(k, x)

\* Two events at most 200 pixels apart are in one zone or in two beside each
\* other; outside the zones they are at the end where the last zone is.
LEMMA ZonesNear ==
    ASSUME NEW x \in Int, NEW y \in Int, NEW n \in 1 .. 5,
           y - x <= 2, x - y <= 2, Zoned(n, x)
    PROVE  /\ \A k \in 1 .. 5 : InZone(k, y) => n = k - 1 \/ n = k \/ n = k + 1
           /\ y <= 0 => n = 1
           /\ y > 18 => n = 5
  <1>1. ASSUME NEW k \in 1 .. 5, InZone(k, y)
        PROVE  n = k - 1 \/ n = k \/ n = k + 1
    <2>1. y > 4 * k - 6 /\ y <= 4 * k - 2
      BY <1>1 DEF InZone
    <2>2. CASE x <= 0
      <3>1. n = 1 /\ y <= 2
        BY <2>2 DEF Zoned
      <3>2. QED
        BY <2>1, <3>1
    <2>3. CASE x > 18
      <3>1. n = 5 /\ y > 16
        BY <2>3 DEF Zoned
      <3>2. QED
        BY <2>1, <3>1
    <2>4. CASE x > 0 /\ x <= 18
      <3>1. x > 4 * n - 6 /\ x <= 4 * n - 2
        BY <2>4 DEF Zoned, InZone
      <3>2. QED
        BY <2>1, <3>1
    <2>5. QED
      BY <2>2, <2>3, <2>4
  <1>2. CASE x > 0 /\ x <= 18
    <2>1. x > 4 * n - 6 /\ x <= 4 * n - 2
      BY <1>2 DEF Zoned, InZone
    <2>2. QED
      BY <1>1, <2>1
  <1>3. CASE ~(x > 0 /\ x <= 18)
    BY <1>1, <1>3 DEF Zoned
  <1>4. QED
    BY <1>2, <1>3

LEMMA CentredIs ==
    ASSUME scroll \in Int
    PROVE  Centred <=> big = {name} /\ Zoned(name, scroll)
  BY DEF Centred, Zoned

\* A short one.
LEMMA CoffeeStepsShort ==
    ASSUME CoffeeInv, Scroll, Centred, scroll' - scroll <= 2, scroll - scroll' <= 2
    PROVE  Centred'
  <1> DEFINE x == scroll
             y == scroll'
  <1>0. y - x <= 2 /\ x - y <= 2
    BY Zenon
  <1>1. x \in Int /\ y \in Int /\ name \in 1 .. 5 /\ y - x <= 2 /\ x - y <= 2
    <2>1. x \in -Overscroll .. 16 + Overscroll /\ name \in 1 .. 5
      BY DEF CoffeeInv, CoffeeTypeOK, Coffees
    <2>2. y \in -Overscroll .. 16 + Overscroll
      BY DEF Scroll
    <2> HIDE DEF x, y
    <2>3. x \in Int /\ y \in Int
      BY <2>1, <2>2, OverscrollAssumption
    <2>4. QED
      BY <1>0, <2>1, <2>3, Zenon
  <1>2. big = {name} /\ Zoned(name, x)
    BY <1>1, CentredIs
  <1>3. Centred' <=> big' = {name'} /\ Zoned(name', y)
    BY <1>1 DEF Centred, Zoned, InZone
  <1>4. /\ \A k \in 1 .. 5 : InZone(k, y) => name = k - 1 \/ name = k \/ name = k + 1
        /\ y <= 0 => name = 1
        /\ y > 18 => name = 5
    <2> HIDE DEF x, y
    <2>1. QED
      BY <1>1, <1>2, ZonesNear
  <1>5. \/ /\ \A k \in Coffees : ~InZone(k, y)
           /\ UNCHANGED <<big, name>>
        \/ \E k \in Coffees :
             /\ InZone(k, y)
             /\ big' = (big \ Neighbours(k)) \cup {k}
             /\ name' = k
    BY DEF Scroll
  <1> HIDE DEF x, y
  <1>6. CASE \A k \in Coffees : ~InZone(k, y)
    <2>1. y <= 0 \/ y > 18
      BY <1>1, <1>6, ZoneOf
    <2>2. UNCHANGED <<big, name>>
      BY <1>5, <1>6
    <2>3. Zoned(name, y)
      BY <1>1, <1>4, <2>1 DEF Zoned
    <2>4. QED
      BY <1>2, <1>3, <2>2, <2>3
  <1>7. CASE \E k \in Coffees : InZone(k, y)
    <2>1. PICK k \in Coffees :
               /\ InZone(k, y)
               /\ big' = (big \ Neighbours(k)) \cup {k}
               /\ name' = k
      BY <1>5, <1>7
    <2>2. k \in 1 .. 5
      BY <2>1 DEF Coffees
    <2>3. name = k - 1 \/ name = k \/ name = k + 1
      BY <1>4, <2>1, <2>2
    <2>4. big' = {k}
      <3>1. name \in Coffees
        BY <1>1 DEF Coffees
      <3>2. k - 1 # k /\ k + 1 # k
        BY <2>2
      <3>3. QED
        BY <1>2, <2>1, <2>3, <3>1, <3>2 DEF Neighbours
    <2>5. y > 4 * k - 6 /\ y <= 4 * k - 2 /\ y > 0
      BY <2>1 DEF InZone
    <2>6. y > 18 => k = 5
      BY <1>1, <2>2, <2>5
    <2>7. Zoned(k, y)
      BY <1>1, <2>1, <2>5, <2>6 DEF Zoned
    <2>8. QED
      BY <1>3, <2>1, <2>4, <2>7
  <1>8. QED
    BY <1>6, <1>7

\* What the submenus need of the pages is only whether theirs is open.
LEMMA SettingStays ==
    ASSUME SettingInv, UNCHANGED settingVars, "setting" \in ui'.open <=> "setting" \in ui.open
    PROVE  SettingInv'
  BY DEF SettingInv, SettingTypeOK, settingVars, OneSubmenu

LEMMA MaskIsMade ==
    ASSUME SettingInv, MaskMade, "setting" \notin ui.open, "setting" \in ui'.open
    PROVE  SettingInv'
  BY DEF SettingInv, SettingTypeOK, OneSubmenu, MaskMade, Submenus

LEMMA SubmenusGo ==
    ASSUME SettingInv, SubmenusDestroyed, popup = "none", "setting" \notin ui'.open
    PROVE  SettingInv'
  BY DEF SettingInv, SettingTypeOK, OneSubmenu, SubmenusDestroyed, Submenus

LEMMA SubmenuSwitched ==
    ASSUME SettingInv, UNCHANGED ui, "setting" \in ui.open, popup = "none",
           NEW m \in Submenus, MenuSwitch(m)
    PROVE  SettingInv'
  <1> DEFINE hidden == IF cur # "max" /\ menu[cur] # "none"
                       THEN [menu EXCEPT ![cur] = "hidden"] ELSE menu
  <1>1. /\ hidden \in [Submenus -> {"none", "hidden", "shown"}]
        /\ \A k \in Submenus : hidden[k] # "shown"
    <2>1. CASE cur # "max" /\ menu[cur] # "none"
      BY <2>1 DEF SettingInv, SettingTypeOK, OneSubmenu
    <2>2. CASE cur = "max" \/ menu[cur] = "none"
      BY <2>2 DEF SettingInv, SettingTypeOK, OneSubmenu, Submenus
    <2>3. QED
      BY <2>1, <2>2
  <1>2. /\ mask' = "shown" /\ cur' = m /\ popup' = "none"
        /\ menu' = [SubmenuInit(hidden, m) EXCEPT ![m] = "shown"]
    BY DEF MenuSwitch
  <1> HIDE DEF hidden
  <1>3. /\ menu' \in [Submenus -> {"none", "hidden", "shown"}]
        /\ menu'[m] = "shown"
        /\ \A k \in Submenus : menu'[k] = "shown" => k = m
    BY <1>1, <1>2 DEF SubmenuInit
  <1>4. QED
    BY <1>2, <1>3 DEF SettingInv, SettingTypeOK, OneSubmenu

\* The buttons inside a submenu.
LEMMA InsideSubmenu ==
    ASSUME SettingInv, InSubmenu
    PROVE  SettingInv'
  <1> USE DEF SettingInv, SettingTypeOK, OneSubmenu, Submenus
  <1>1. CASE MaskPressed
    BY <1>1 DEF InSubmenu, MaskPressed
  <1>2. CASE ShowCalendar
    BY <1>2 DEF InSubmenu, ShowCalendar, LanguagePressable
  <1>3. CASE ShowTimeSetting
    BY <1>3 DEF InSubmenu, ShowTimeSetting, LanguagePressable
  <1>4. CASE CalendarPicked
    BY <1>4 DEF InSubmenu, CalendarPicked
  <1>5. CASE Confirmed
    BY <1>5 DEF InSubmenu, Confirmed
  <1>6. QED
    BY <1>1, <1>2, <1>3, <1>4, <1>5 DEF InSubmenu

\* The program starts on the home page.
LEMMA InitIInv == Init => IInv
  <1> SUFFICES ASSUME Init PROVE IInv
    OBVIOUS
  <1>1. BuildType
    BY DEF Init, BuildType
  <1>2. OnlyPage(ui, "home")
    <2> DEFINE u == [open |-> {}, dates |-> 0, polls |-> 0,
                     hidden |-> FALSE, shotTimer |-> TRUE,
                     wall |-> MainBgPic, snap |-> "null",
                     pics |-> [p \in Showing |-> "closed"],
                     cells |-> [p \in Gridded |-> <<>>]]
    <2>1. ui = HomeInit(u)
      BY DEF Init
    <2>2. Shows(u, {}, 0, 0, FALSE)
      BY WallpaperAssumption
         DEF Shows, Consistent, UiType, Grids, Showing, Gridded
    <2> HIDE DEF u
    <2>3. Shows(ui, {"home"}, 1, 0, FALSE)
      BY <2>1, <2>2, HomeMade DEF Shows
    <2>4. QED
      BY <2>3 DEF Shows, OnlyPage
  <1>3. SettingInv
    BY <1>2
       DEF Init, SettingStart, SettingInv, SettingTypeOK, OneSubmenu,
           Submenus, OnlyPage
  <1>4. CoffeeInv
    BY OverscrollAssumption DEF Init, CoffeeInv, CoffeeTypeOK, InItsZone, Coffees
  <1>5. QED
    BY <1>1, <1>2, <1>3, <1>4 DEF IInv, UiInv, AllPages

\* The handlers that leave a page for another, the settings page apart.
PageSwitch ==
    \/ HomeToSmart \/ HomeToFurniture \/ HomeToIntercom
    \/ SmartReturn \/ FurnitureReturn \/ IntercomReturn
    \/ JumpIcebox \/ JumpCoffee \/ JumpPlayer
    \/ IceboxReturn \/ CoffeeReturn \/ PlayerReturn
    \/ IntercomToMonitor \/ IntercomToCall \/ MonitorReturn \/ CallReturn

\* Each of them goes from one page to another.
LEMMA Switched ==
    ASSUME UiInv, PageSwitch
    PROVE  \E p, q \in AllPages \ {"setting"} : OnlyPage(ui, p) /\ OnlyPage(ui', q)
  <1> USE DEF AllPages
  <1>1. CASE HomeToSmart
    BY <1>1, HomeToSmartMoves
  <1>2. CASE HomeToFurniture
    BY <1>2, HomeToFurnitureMoves
  <1>3. CASE HomeToIntercom
    BY <1>3, HomeToIntercomMoves
  <1>4. CASE SmartReturn
    BY <1>4, SmartReturnMoves
  <1>5. CASE FurnitureReturn
    BY <1>5, FurnitureReturnMoves
  <1>6. CASE IntercomReturn
    BY <1>6, IntercomReturnMoves
  <1>7. CASE JumpIcebox
    BY <1>7, JumpIceboxMoves
  <1>8. CASE JumpCoffee
    BY <1>8, JumpCoffeeMoves
  <1>9. CASE JumpPlayer
    BY <1>9, JumpPlayerMoves
  <1>10. CASE IceboxReturn
    BY <1>10, IceboxReturnMoves
  <1>11. CASE CoffeeReturn
    BY <1>11, CoffeeReturnMoves
  <1>12. CASE PlayerReturn
    BY <1>12, PlayerReturnMoves
  <1>13. CASE IntercomToMonitor
    BY <1>13, IntercomToMonitorMoves
  <1>14. CASE IntercomToCall
    BY <1>14, IntercomToCallMoves
  <1>15. CASE MonitorReturn
    BY <1>15, MonitorReturnMoves
  <1>16. CASE CallReturn
    BY <1>16, CallReturnMoves
  <1>17. QED
    BY <1>1, <1>2, <1>3, <1>4, <1>5, <1>6, <1>7, <1>8, <1>9, <1>10, <1>11,
       <1>12, <1>13,
       <1>14, <1>15, <1>16 DEF PageSwitch

\* What a page switch does to the variables that are not the pages'.
LEMMA SwitchFrame ==
    ASSUME PageSwitch
    PROVE  /\ UNCHANGED build /\ UNCHANGED settingVars
           /\ UNCHANGED coffeeVars \/ CoffeeMade
  BY DEF PageSwitch, HomeToSmart, HomeToFurniture, HomeToIntercom, SmartReturn,
         FurnitureReturn, IntercomReturn, JumpIcebox, JumpCoffee, JumpPlayer, IceboxReturn,
         CoffeeReturn, PlayerReturn, IntercomToMonitor, IntercomToCall, MonitorReturn,
         CallReturn

\* The coffees of another visit are in the first zone.
LEMMA CoffeeStays ==
    ASSUME CoffeeInv, UNCHANGED coffeeVars \/ CoffeeMade
    PROVE  CoffeeInv'
  <1>1. CASE UNCHANGED coffeeVars
    BY <1>1 DEF coffeeVars, CoffeeInv, CoffeeTypeOK, InItsZone
  <1>2. CASE CoffeeMade
    BY <1>2, OverscrollAssumption DEF CoffeeMade, CoffeeInv, CoffeeTypeOK, InItsZone, Coffees
  <1>3. QED
    BY <1>1, <1>2

\* The page with its matrix, its picture and its timers is the one of the last
\* handler; a handler that leaves the settings page leaves no mask.
LEMMA NextIInv == IInv /\ [Next]_vars => IInv'
  <1> SUFFICES ASSUME IInv, [Next]_vars PROVE IInv'
    OBVIOUS
  <1>1. BuildType /\ UiInv /\ SettingInv /\ CoffeeInv
    BY DEF IInv
  <1>2. ASSUME UNCHANGED build PROVE BuildType'
    BY <1>1, <1>2 DEF BuildType, build
  <1>3. ASSUME UNCHANGED ui, UNCHANGED build PROVE UiInv'
    BY <1>1, <1>3, GridsKept DEF UiInv, OnlyPage, Consistent
  <1>4. CASE PageSwitch
    <2>1. PICK p, q \in AllPages \ {"setting"} : OnlyPage(ui, p) /\ OnlyPage(ui', q)
      BY <1>1, <1>4, Switched
    <2>2. "setting" \notin ui.open /\ "setting" \notin ui'.open
      BY <2>1 DEF OnlyPage
    <2>3. QED
      BY <1>1, <1>2, <1>4, <2>1, <2>2, SwitchFrame, Arrived, SettingStays,
         CoffeeStays
         DEF IInv
  <1>5. CASE HomeToSetting
    <2>1. OnlyPage(ui, "home") /\ OnlyPage(ui', "setting")
      BY <1>1, <1>5, HomeToSettingMoves
    <2>2. UNCHANGED build /\ UNCHANGED coffeeVars /\ MaskMade
      BY <1>5 DEF HomeToSetting
    <2>3. SettingInv'
      BY <1>1, <2>1, <2>2, MaskIsMade DEF OnlyPage
    <2>4. QED
      BY <1>1, <1>2, <2>1, <2>2, <2>3, Arrived, CoffeeStays DEF IInv, AllPages
  <1>6. CASE SettingReturn
    <2>1. OnlyPage(ui, "setting") /\ OnlyPage(ui', "home")
      BY <1>1, <1>6, SettingReturnMoves
    <2>2. /\ UNCHANGED build
          /\ UNCHANGED coffeeVars
          /\ SubmenusDestroyed
          /\ popup = "none"
      BY <1>6 DEF SettingReturn
    <2>3. SettingInv'
      BY <1>1, <2>1, <2>2, SubmenusGo DEF OnlyPage
    <2>4. QED
      BY <1>1, <1>2, <2>1, <2>2, <2>3, Arrived, CoffeeStays DEF IInv, AllPages
  <1>7. CASE TakeSnapshot
    <2>1. PICK p \in AllPages : OnlyPage(ui, p)
      BY <1>1 DEF UiInv
    <2>2. OnlyPage(ui', p)
      BY <1>7, <2>1, TakeSnapshotStays
    <2>3. UNCHANGED <<build, settingVars, coffeeVars>> /\ ui'.open = ui.open
      BY <1>7, <2>1, <2>2 DEF TakeSnapshot, OnlyPage
    <2>4. QED
      BY <1>1, <1>2, <2>2, <2>3, Arrived, SettingStays, CoffeeStays DEF IInv
  <1>8. CASE PickWallpaper
    <2>1. OnlyPage(ui, "setting") /\ OnlyPage(ui', "setting")
      BY <1>1, <1>8, PickWallpaperStays
    <2>2. UNCHANGED <<build, settingVars, coffeeVars>> /\ ui'.open = ui.open
      BY <1>8, <2>1 DEF PickWallpaper, OnlyPage
    <2>3. QED
      BY <1>1, <1>2, <2>1, <2>2, Arrived, SettingStays, CoffeeStays
         DEF IInv, AllPages
  <1>9. CASE OpenSubmenu
    <2>1. PICK m \in Submenus : HasButton("setting", m) /\ MenuSwitch(m)
      BY <1>9 DEF OpenSubmenu
    <2>2. UNCHANGED <<build, ui, coffeeVars>>
      BY <1>9 DEF OpenSubmenu
    <2>3. SettingInv'
      BY <1>1, <2>1, <2>2, SubmenuSwitched DEF HasButton
    <2>4. QED
      BY <1>1, <1>2, <1>3, <2>2, <2>3, CoffeeStays DEF IInv
  <1>10. CASE InSubmenu
    <2>1. UNCHANGED <<build, ui, coffeeVars>>
      BY <1>10 DEF InSubmenu
    <2>2. QED
      BY <1>1, <1>2, <1>3, <1>10, <2>1, InsideSubmenu, CoffeeStays DEF IInv
  <1>11. CASE ScrollCoffee
    <2>1. UNCHANGED <<build, ui, settingVars>> /\ Scroll
      BY <1>11 DEF ScrollCoffee
    <2>2. QED
      BY <1>1, <1>2, <1>3, <2>1, CoffeeScrolls, SettingStays DEF IInv
  <1>12. CASE UNCHANGED vars
    <2>1. UNCHANGED <<build, ui, settingVars, coffeeVars>>
      BY <1>12 DEF vars, build
    <2>2. QED
      BY <1>1, <1>2, <1>3, <2>1, SettingStays, CoffeeStays DEF IInv
  <1>13. QED
    BY <1>4, <1>5, <1>6, <1>7, <1>8, <1>9, <1>10, <1>11, <1>12
       DEF Next, PageSwitch

\* IInv holds in every state of the pages.
THEOREM Invariance == Spec => []IInv
  <1>1. QED
    BY InitIInv, NextIInv, PTL DEF Spec

\* The objects keep their types, whatever wallpapers there are.
THEOREM PagesTypeCorrect == Spec => []PagesTypeOK
  <1>1. IInv => PagesTypeOK
    BY
       DEF IInv, BuildType, UiInv, OnlyPage, Consistent, UiType, SettingInv,
           CoffeeInv,
           PagesTypeOK
  <1>2. QED
    BY Invariance, <1>1, PTL

\* No page shows memory that rk_demo_bg_set_img has freed, or an older wallpaper.
THEOREM NoFreedPicture == Spec => []PictureLive
  <1>1. IInv => PictureLive
    BY DEF IInv, UiInv, OnlyPage, Consistent, PictureLive
  <1>2. QED
    BY Invariance, <1>1, PTL

\* Between two handlers one page is open and nothing of another one is left:
\* neither a timer, nor a hidden wallpaper, nor a mask or a submenu.
THEOREM OnePageOnly == Spec => []PageOwns
  <1>1. IInv => PageOwns
    BY DEF IInv, UiInv, OnlyPage, SettingInv, PageOwns
  <1>2. QED
    BY Invariance, <1>1, PTL

\* However far the list can be pulled and one scroll event is from the last,
\* the coffee that is named is enlarged and those beside it are not.
THEOREM NamedLarge == Spec => []NamedIsEnlarged
  <1>1. ASSUME IInv PROVE NamedIsEnlarged
    <2>1. scroll \in Int /\ name \in 1 .. 5
      BY <1>1, OverscrollAssumption DEF IInv, CoffeeInv, CoffeeTypeOK, Coffees
    <2>2. name \in big /\ big \cap {name - 1, name + 1} = {}
      BY <1>1 DEF IInv, CoffeeInv, InItsZone
    <2>3. ASSUME scroll \in 1 .. 18, NEW k \in Coffees
          PROVE  FromMiddle(name) <= FromMiddle(k)
      <3>1. scroll > 4 * name - 6 /\ scroll <= 4 * name - 2
        BY <1>1, <2>3 DEF IInv, CoffeeInv, InItsZone, InZone
      <3>2. k \in 1 .. 5
        BY <2>3 DEF Coffees
      <3>3. QED
        BY <2>1, <3>1, <3>2 DEF FromMiddle
    <2>4. QED
      BY <2>2, <2>3 DEF NamedIsEnlarged
  <1>2. QED
    BY Invariance, <1>1, PTL

\* Events at most 200 pixels apart keep one coffee enlarged, the one whose zone
\* the middle of the list is in.
THEOREM ShortStepsKeepOne == Spec => SmallStepsKeepOne
  <1>1. ASSUME IInv, [Next]_vars
        PROVE  [Centred /\ scroll' - scroll <= 2 /\ scroll - scroll' <= 2
                  => Centred']_coffeeVars
    <2>1. CoffeeInv
      BY <1>1 DEF IInv
    <2>2. CASE ScrollCoffee
      BY <2>1, <2>2, CoffeeStepsShort DEF ScrollCoffee
    <2>3. CASE CoffeeMade
      BY <2>3 DEF CoffeeMade, Centred
    <2>4. CASE UNCHANGED coffeeVars
      BY <2>4
    <2>5. ScrollCoffee \/ CoffeeMade \/ UNCHANGED coffeeVars
      <3>1. CASE PageSwitch
        BY <3>1, SwitchFrame
      <3>2. CASE UNCHANGED vars
        BY <3>2 DEF vars
      <3>3. CASE Next /\ ~PageSwitch
        BY <3>3 DEF Next, PageSwitch, HomeToSetting, SettingReturn, TakeSnapshot,
                    OpenSubmenu, InSubmenu, PickWallpaper
      <3>4. QED
        BY <1>1, <3>1, <3>2, <3>3
    <2>6. QED
      BY <2>2, <2>3, <2>4, <2>5
  <1>2. QED
    BY <1>1, Invariance, PTL DEF Spec, SmallStepsKeepOne

-----------------------------------------------------------------------------
(* The buttons of the pages.                                               *)

\* The names of all buttons.
AllNames == {"smart", "furniture", "intercom", "setting", "wifi", "bt",
             "wallpaper", "language", "about", "icebox", "player", "coffee", "list", "start", "stop", "sliders"}

\* The names in the list of buttons.
Named(names) == {names[i] : i \in 1 .. Len(names)}

\* The names in two lists put together.
LEMMA NamedJoined ==
    ASSUME NEW s \in Seq(AllNames), NEW t \in Seq(AllNames)
    PROVE  /\ s \o t \in Seq(AllNames)
           /\ Len(s \o t) = Len(s) + Len(t)
           /\ Named(s \o t) = Named(s) \cup Named(t)
  <1>1. s \o t \in Seq(AllNames) /\ Len(s \o t) = Len(s) + Len(t)
    OBVIOUS
  <1>2. \A i \in 1 .. Len(s) : (s \o t)[i] = s[i] /\ i \in 1 .. Len(s \o t)
    OBVIOUS
  <1>3. \A j \in 1 .. Len(t) :
          (s \o t)[Len(s) + j] = t[j] /\ Len(s) + j \in 1 .. Len(s \o t)
    OBVIOUS
  <1>4. \A k \in 1 .. Len(s \o t) :
          k \in 1 .. Len(s) \/ \E j \in 1 .. Len(t) : k = Len(s) + j
    <2>1. TAKE k \in 1 .. Len(s \o t)
    <2>2. k \notin 1 .. Len(s) => k - Len(s) \in 1 .. Len(t) /\ k = Len(s) + (k - Len(s))
      BY <1>1
    <2>3. QED
      BY <2>2
  <1>5. Named(s \o t) \subseteq Named(s) \cup Named(t)
    BY <1>2, <1>3, <1>4 DEF Named
  <1>6. Named(s) \cup Named(t) \subseteq Named(s \o t)
    BY <1>2, <1>3 DEF Named
  <1>7. QED
    BY <1>1, <1>5, <1>6

\* A button that depends on how the program was built.
LEMMA WithIs ==
    ASSUME NEW part, NEW button \in AllNames
    PROVE  /\ With(part, button) \in Seq(AllNames)
           /\ Len(With(part, button)) \in 0 .. 1
           /\ Named(With(part, button)) = IF part \in built THEN {button} ELSE {}
  <1>1. Len(<<>>) = 0 /\ <<>> \in Seq(AllNames) /\ Named(<<>>) = {}
    BY DEF Named
  <1>2. /\ Len(<<button>>) = 1
        /\ <<button>> \in Seq(AllNames)
        /\ Named(<<button>>) = {button}
    BY DEF Named
  <1>3. CASE part \in built
    <2>1. With(part, button) = <<button>>
      BY <1>3 DEF With
    <2>2. QED
      BY <1>2, <1>3, <2>1
  <1>4. CASE part \notin built
    <2>1. With(part, button) = <<>>
      BY <1>4 DEF With
    <2>2. QED
      BY <1>1, <1>4, <2>1
  <1>5. QED
    BY <1>3, <1>4

\* Small makes buttons of one cell with these names.
LEMMA SmallButtons ==
    ASSUME NEW names \in Seq(AllNames)
    PROVE  /\ Small(names) \in Seq(Buttons(AllNames))
           /\ Len(Small(names)) = Len(names)
           /\ \A i \in 1 .. Len(names) :
                Small(names)[i] = Button(names[i], 1, 1)
           /\ Names(Small(names), Len(names)) = Named(names)
  <1>1. DOMAIN names = 1 .. Len(names) /\ Len(names) \in Nat
    OBVIOUS
  <1>2. \A i \in 1 .. Len(names) :
          /\ Button(names[i], 1, 1) \in Buttons(AllNames)
          /\ Button(names[i], 1, 1).name = names[i]
    BY DEF Button, Buttons
  <1>3. Small(names) = [i \in 1 .. Len(names) |-> Button(names[i], 1, 1)]
    BY <1>1 DEF Small
  <1>4. /\ Small(names) \in Seq(Buttons(AllNames))
        /\ Len(Small(names)) = Len(names)
    BY <1>1, <1>2, <1>3
  <1>5. \A i \in 1 .. Len(names) : Small(names)[i] = Button(names[i], 1, 1)
    BY <1>3
  <1>6. Names(Small(names), Len(names)) = Named(names)
    BY <1>2, <1>5 DEF Names, Named
  <1>7. QED
    BY <1>4, <1>5, <1>6

\* Buttons of one cell on a grid with cells enough.
LEMMA SmallPlaced ==
    ASSUME NEW names \in Seq(AllNames), Len(names) # 0,
           NEW cols \in Nat, NEW rows \in Nat \ {0}, cols # 0,
           Len(names) <= cols * rows
    PROVE  /\ WellPlaced(Matrix(Small(names), cols, rows))
           /\ DOMAIN Matrix(Small(names), cols, rows) = Named(names)
  <1>1. \A i \in 1 .. Len(names) :
          Small(names)[i].w = 1 /\ Small(names)[i].h = 1
    <2>1. \A i \in 1 .. Len(names) : Small(names)[i] = Button(names[i], 1, 1)
      BY SmallButtons
    <2>2. \A nm : Button(nm, 1, 1).w = 1 /\ Button(nm, 1, 1).h = 1
      BY DEF Button
    <2>3. QED
      BY <2>1, <2>2
  <1>2. 1 + Len(names) - 1 = Len(names) /\ Len(names) \in Nat
        /\ 1 \in 1 .. Len(names) /\ 2 .. Len(names) \subseteq 1 .. Len(names)
    OBVIOUS
  <1>3. /\ Len(Small(names)) = Len(names)
        /\ Small(names) \in Seq(Buttons(AllNames))
    BY SmallButtons
  <1>4. FitsIn(Small(names), cols, rows)
    BY <1>1, <1>2, <1>3 DEF FitsIn
  <1>5. QED
    BY <1>3, <1>4, AllPlaced, SmallButtons

\* The matrices of the four pages.
LEMMA HomePlaced ==
    /\ WellPlaced(HomeCells)
    /\ DOMAIN HomeCells = (built \cap {"smart", "furniture", "intercom"}) \cup {"setting"}
  <1> DEFINE s == With("smart", "smart")
             f == With("furniture", "furniture")
             i == With("intercom", "intercom")
             n == Len(HomeButtons)
  <1>1. {"smart", "furniture", "intercom", "setting"} \subseteq AllNames
    BY DEF AllNames
  <1>2. /\ s \in Seq(AllNames) /\ Len(s) \in 0 .. 1
        /\ Named(s) = IF "smart" \in built THEN {"smart"} ELSE {}
    BY <1>1, WithIs
  <1>3. /\ f \in Seq(AllNames) /\ Len(f) \in 0 .. 1
        /\ Named(f) = IF "furniture" \in built THEN {"furniture"} ELSE {}
    BY <1>1, WithIs
  <1>4. /\ i \in Seq(AllNames) /\ Len(i) \in 0 .. 1
        /\ Named(i) = IF "intercom" \in built THEN {"intercom"} ELSE {}
    BY <1>1, WithIs
  <1>5. /\ <<"setting">> \in Seq(AllNames) /\ Len(<<"setting">>) = 1
        /\ Named(<<"setting">>) = {"setting"}
    BY <1>1 DEF Named
  <1>6. HomeButtons = s \o f \o i \o <<"setting">>
    BY DEF HomeButtons
  <1> HIDE DEF s, f, i
  <1>7. /\ s \o f \in Seq(AllNames) /\ Len(s \o f) = Len(s) + Len(f)
        /\ Named(s \o f) = Named(s) \cup Named(f)
    BY <1>2, <1>3, NamedJoined
  <1>8. /\ s \o f \o i \in Seq(AllNames)
        /\ Len(s \o f \o i) = Len(s \o f) + Len(i)
        /\ Named(s \o f \o i) = Named(s \o f) \cup Named(i)
    BY <1>4, <1>7, NamedJoined
  <1>9. /\ HomeButtons \in Seq(AllNames) /\ n = Len(s \o f \o i) + 1
        /\ Named(HomeButtons) = Named(s \o f \o i) \cup {"setting"}
    BY <1>5, <1>6, <1>8, NamedJoined
  <1>10. n \in 1 .. 4
    <2>1. Len(s) \in 0 .. 1 /\ Len(f) \in 0 .. 1 /\ Len(i) \in 0 .. 1
      BY <1>2, <1>3, <1>4
    <2>2. n = Len(s) + Len(f) + Len(i) + 1
      BY <1>7, <1>8, <1>9
    <2>3. \A x, y, z \in 0 .. 1 : x + y + z + 1 \in 1 .. 4
      OBVIOUS
    <2>4. QED
      BY <2>1, <2>2, <2>3, Zenon
  <1>11. Named(HomeButtons) = (built \cap {"smart", "furniture", "intercom"}) \cup {"setting"}
    BY <1>2, <1>3, <1>4, <1>7, <1>8, <1>9
  <1>12. WellPlaced(HomeCells) /\ DOMAIN HomeCells = Named(HomeButtons)
    <2>1. CASE wide
      <3>1. HomeCells = Matrix(Small(HomeButtons), n, 1)
        BY <2>1 DEF HomeCells
      <3> HIDE DEF n
      <3>2. n <= n * 1 /\ n \in Nat \ {0} /\ 1 \in Nat \ {0}
        BY <1>10
      <3>3. QED
        BY <1>9, <3>1, <3>2, SmallPlaced DEF n
    <2>2. CASE ~wide
      <3> DEFINE rows == (n + 1) \div 2
      <3>1. HomeCells = Matrix(Small(HomeButtons), 2, rows)
        BY <2>2 DEF HomeCells
      <3> HIDE DEF n
      <3>2. n <= 2 * rows /\ n # 0 /\ rows \in Nat \ {0} /\ 2 \in Nat \ {0}
        BY <1>10
      <3> HIDE DEF rows
      <3>3. QED
        BY <1>9, <3>1, <3>2, SmallPlaced DEF n
    <2>3. QED
      BY <2>1, <2>2
  <1>13. QED
    BY <1>11, <1>12

\* A page of three buttons in a row.
LEMMA RowPlaced ==
    ASSUME NEW a \in AllNames, NEW b \in AllNames, NEW c \in AllNames
    PROVE  WellPlaced(Matrix(Small(<<a, b, c>>), 3, 1))
  <1>1. <<a, b, c>> \in Seq(AllNames) /\ Len(<<a, b, c>>) = 3
    OBVIOUS
  <1>2. 3 \in Nat \ {0} /\ 1 \in Nat \ {0} /\ 3 <= 3 * 1
    OBVIOUS
  <1>3. QED
    BY <1>1, <1>2, SmallPlaced

LEMMA FurniturePlaced == WellPlaced(FurnitureCells)
  <1>1. {"icebox", "player", "coffee"} \subseteq AllNames
    BY DEF AllNames
  <1>2. QED
    BY <1>1, RowPlaced DEF FurnitureCells, FurnitureButtons

LEMMA PlayerPlaced == WellPlaced(PlayerCells)
  <1>1. {"list", "start", "stop"} \subseteq AllNames
    BY DEF AllNames
  <1>2. QED
    BY <1>1, RowPlaced DEF PlayerCells, PlayerButtons

LEMMA SettingPlaced == WellPlaced(SettingCells)
  <1> DEFINE wf    == With("radio", "wifi")
             bt    == With("radio", "bt")
             rest  == <<"wallpaper", "language", "about">>
             small == Small(SettingButtons)
             first == Button("sliders", 2, 1)
             all   == <<first>> \o small
  <1>1. {"wifi", "bt", "wallpaper", "language", "about", "sliders"} \subseteq AllNames
    BY DEF AllNames
  <1>2. wf \in Seq(AllNames) /\ Len(wf) \in 0 .. 1
    BY <1>1, WithIs
  <1>3. bt \in Seq(AllNames) /\ Len(bt) \in 0 .. 1
    BY <1>1, WithIs
  <1>4. rest \in Seq(AllNames) /\ Len(rest) = 3
    BY <1>1
  <1>5. SettingButtons = wf \o bt \o rest
    BY DEF SettingButtons
  <1> HIDE DEF wf, bt, rest
  <1>6. wf \o bt \in Seq(AllNames) /\ Len(wf \o bt) = Len(wf) + Len(bt)
    BY <1>2, <1>3, NamedJoined
  <1>7. /\ SettingButtons \in Seq(AllNames)
        /\ Len(SettingButtons) = Len(wf \o bt) + 3
    BY <1>4, <1>5, <1>6, NamedJoined
  <1>8. Len(SettingButtons) \in 3 .. 5
    <2>1. Len(wf) \in 0 .. 1 /\ Len(bt) \in 0 .. 1
      BY <1>2, <1>3
    <2>2. Len(SettingButtons) = Len(wf) + Len(bt) + 3
      BY <1>6, <1>7
    <2>3. \A x, y \in 0 .. 1 : x + y + 3 \in 3 .. 5
      OBVIOUS
    <2>4. QED
      BY <2>1, <2>2, <2>3, Zenon
  <1>9. /\ small \in Seq(Buttons(AllNames)) /\ Len(small) = Len(SettingButtons)
        /\ \A i \in 1 .. Len(SettingButtons) : small[i] = Button(SettingButtons[i], 1, 1)
    BY <1>7, SmallButtons
  <1> HIDE DEF small
  <1>10. \A i \in 1 .. Len(small) : small[i].w = 1 /\ small[i].h = 1
    <2>1. \A nm : Button(nm, 1, 1).w = 1 /\ Button(nm, 1, 1).h = 1
      BY DEF Button
    <2>2. QED
      BY <1>9, <2>1
  <1>11. first \in Buttons(AllNames) /\ first.w = 2 /\ first.h = 1
    BY <1>1 DEF Button, Buttons
  <1> HIDE DEF first
  <1>12. /\ all \in Seq(Buttons(AllNames))
         /\ Len(all) = 1 + Len(small)
         /\ all[1] = first
         /\ \A j \in 2 .. Len(all) : all[j] = small[j - 1] /\ j - 1 \in 1 .. Len(small)
    BY <1>9, <1>11
  <1> HIDE DEF all
  <1>13. FitsIn(all, 2, 4)
    <2>1. Len(all) \in 4 .. 6
      <3>1. Len(all) = 1 + Len(SettingButtons)
        BY <1>9, <1>12, Zenon
      <3>2. \A k \in 3 .. 5 : 1 + k \in 4 .. 6
        OBVIOUS
      <3>3. QED
        BY <1>8, <3>1, <3>2, Zenon
    <2>2. \A j \in 2 .. Len(all) : all[j].w = 1 /\ all[j].h = 1
      BY <1>10, <1>12
    <2>3. QED
      BY <1>11, <1>12, <2>1, <2>2 DEF FitsIn
  <1>14. WellPlaced(Matrix(all, 2, 4))
    BY <1>12, <1>13, AllPlaced
  <1>15. QED
    BY <1>14 DEF SettingCells, all, small, first

\* On the open page with a button matrix every button has its place, whatever
\* the program was built with and however the screen is held: no pointer that
\* an init styles a button through is left stale.
THEOREM ButtonsPlaced == Spec => []EveryButton
  <1>1. IInv => EveryButton
    <2> SUFFICES ASSUME IInv
                 PROVE  EveryButton
      OBVIOUS
    <2>1. PICK p \in AllPages : OnlyPage(ui, p)
      BY DEF IInv, UiInv
    <2>2. \A q \in Gridded \cap ui.open : ui.cells[q] = GridOf(q)
      BY <2>1 DEF OnlyPage, Consistent
    <2>3. \A q \in Gridded : WellPlaced(GridOf(q))
      BY HomePlaced, SettingPlaced, FurniturePlaced, PlayerPlaced, GridNames
         DEF Gridded
    <2>4. "home" \in ui.open => ui.cells["home"] = HomeCells
      BY <2>2, GridNames DEF Gridded
    <2>5. QED
      BY <2>2, <2>3, <2>4, HomePlaced DEF EveryButton
  <1>2. QED
    BY <1>1, Invariance, PTL

-----------------------------------------------------------------------------
(* The Wi-Fi menu of the settings page, a module of its own: the pointers  *)
(* into its lists.                                                         *)

\* Inductive as the three parts of PointersLive are, with the types.
WifiIInv == WifiTypeOK /\ DialogEndsScan /\ DialogButtonLive /\ CurrentTagLive

\* A command written to the pipe.
LEMMA Written ==
    ASSUME NEW s \in Seq(Commands), NEW c \in Commands
    PROVE  Append(s, c) \in Seq(Commands) /\ Len(Append(s, c)) = Len(s) + 1
  OBVIOUS

LEMMA EmptyPipe == <<>> \in Seq(Commands) /\ Len(<<>>) = 0
  OBVIOUS

\* At first the page is closed and nothing is shown.
LEMMA WifiInitIInv == WifiInit => WifiIInv
  <1>1. WifiInit => /\ registered \in BOOLEAN /\ gonff \in BOOLEAN /\ page \in BOOLEAN
                    /\ saved \in BOOLEAN /\ found \in BOOLEAN
    BY Zenon DEF WifiInit
  <1>2. QED
    BY <1>1, PipeMaxAssumption, EmptyPipe
       DEF WifiInit, WifiIInv, WifiTypeOK, DialogEndsScan, DialogButtonLive,
           CurrentTagLive, Pointers, Opening

\* The server and the library touch no pointer and no waiting_scanning.
LEMMA OtherThreads ==
    ASSUME WifiIInv, Boot \/ Serve \/ LibStep
    PROVE  WifiIInv'
  <1> USE PipeMaxAssumption
      DEF WifiIInv, WifiTypeOK, DialogEndsScan, DialogButtonLive,
          CurrentTagLive, Opening, server, flags, lists
  <1>1. CASE Boot
    BY <1>1 DEF Boot
  <1>2. CASE Serve
    BY <1>2, EmptyPipe DEF Serve
  <1>3. CASE StateReport
    BY <1>3 DEF StateReport
  <1>4. CASE ScanReport
    BY <1>4 DEF ScanReport
  <1>5. QED
    BY <1>1, <1>2, <1>3, <1>4 DEF LibStep

\* The callbacks of the page.
LEMMA UiThread ==
    ASSUME WifiIInv, UiStep
    PROVE  WifiIInv'
  <1> USE PipeMaxAssumption
      DEF WifiIInv, WifiTypeOK, DialogEndsScan, DialogButtonLive,
          CurrentTagLive, server, flags,
          lists, UiIdle, AfterDelete, Pointers, Opening
  <1>1. CASE Open \/ OpenSaved \/ OpenScan \/ Refuse
    <2>1. CASE Open
      BY <2>1 DEF Open
    <2>2. CASE OpenSaved
      BY <2>2 DEF OpenSaved, ReadSaved
    <2>3. CASE OpenScan
      <3>1. timer' = "idle" /\ page' = TRUE /\ page' \in BOOLEAN
        BY <2>3, Zenon DEF OpenScan
      <3>2. /\ ~page /\ tag # "gone" /\ waiting' \in {waiting, 1}
            /\ UNCHANGED <<server, flags, last, lists>>
        BY <2>3 DEF OpenScan
      <3>3. dialog = "null"
        BY <3>2
      <3>4. QED
        BY <3>1, <3>2, <3>3
    <2>4. CASE Refuse
      BY <2>4 DEF Refuse
    <2>5. QED
      BY <1>1, <2>1, <2>2, <2>3, <2>4
  <1>2. CASE Close
    BY <1>2 DEF Close
  <1>3. CASE Scan
    BY <1>3 DEF Scan
  <1>4. CASE Toggle
    <2>1. PICK c \in Commands :
              pipe' = Append(pipe, c) /\ waiting' = (IF c = "ENABLE" THEN 1 ELSE waiting)
      BY <1>4 DEF Toggle
    <2>2. /\ timer = "idle" /\ page /\ dialog = "null" /\ Len(pipe) < PipeMax
          /\ UNCHANGED <<srv, registered, flags, page, timer, last, lists>>
      BY <1>4 DEF Toggle
    <2>3. pipe' \in Seq(Commands) /\ Len(pipe') <= PipeMax
      BY <2>1, <2>2, Written
    <2>4. QED
      BY <2>1, <2>2, <2>3
  <1>5. CASE ConnectSaved
    BY <1>5 DEF ConnectSaved
  <1>6. CASE AskPassword
    BY <1>6 DEF AskPassword
  <1>7. CASE Answer
    BY <1>7 DEF Answer, ReadSaved
  <1>8. CASE Update
    BY <1>8 DEF Update
  <1>9. CASE UpdateState
    BY <1>9 DEF UpdateState, ReadSaved
  <1>10. CASE UpdateScan
    BY <1>10 DEF UpdateScan
  <1>11. CASE ShowFound
    BY <1>11 DEF ShowFound
  <1>12. QED
    BY <1>1, <1>2, <1>3, <1>4, <1>5, <1>6, <1>7, <1>8, <1>9, <1>10, <1>11
       DEF UiStep

\* The steps of the other threads, then the callbacks.
LEMMA WifiNextIInv == WifiIInv /\ [WifiNext]_wifiVars => WifiIInv'
  <1> SUFFICES ASSUME WifiIInv, [WifiNext]_wifiVars PROVE WifiIInv'
    OBVIOUS
  <1>1. CASE UNCHANGED wifiVars
    BY <1>1
       DEF wifiVars, server, flags, lists, WifiIInv, WifiTypeOK,
           DialogEndsScan, DialogButtonLive, CurrentTagLive, Opening
  <1>2. QED
    BY <1>1, OtherThreads, UiThread DEF WifiNext

\* An open dialog has ended the scan, so nothing deletes the list under it.
THEOREM WifiInvariance == WifiSpec => []WifiIInv
  <1>1. QED
    BY WifiInitIInv, WifiNextIInv, PTL DEF WifiSpec

\* Every variable keeps its type, whatever the bound on the pipe.
THEOREM WifiTypeCorrect == WifiSpec => []WifiTypeOK
  <1>1. WifiIInv => WifiTypeOK
    BY DEF WifiIInv
  <1>2. QED
    BY WifiInvariance, <1>1, PTL

\* The dialog never refers to a button that was deleted, and the tag of the
\* current network is never deleted twice.
THEOREM PointersSafe == WifiSpec => []PointersLive
  <1>1. WifiIInv => PointersLive
    BY DEF WifiIInv, PointersLive
  <1>2. QED
    BY WifiInvariance, <1>1, PTL

=============================================================================
