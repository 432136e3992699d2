---------------------------- MODULE ButtonMatrix ----------------------------
(***************************************************************************)
(* Where ui_btnmatrix.c places the buttons of a page on its grid: in the   *)
(* order of the list, each in the first free place, row by row.  A button  *)
(* that is too large or finds no place is left out with a line on the      *)
(* terminal, and the page's pointer to it keeps its old value.             *)
(*                                                                         *)
(* A button is a record of its name and its size; the result says which    *)
(* cells each name got.  (Buttons without a size bring their own place; no *)
(* page has one.)                                                          *)
(***************************************************************************)
EXTENDS Integers, Sequences, Functions

Button(name, w, h) == [name |-> name, w |-> w, h |-> h]

\* The cells of button b at the corner at = <<column, row>>.
AreaFill(b, at) ==
    (at[1] .. at[1] + b.w - 1) \X (at[2] .. at[2] + b.h - 1)

AreaEmpty(taken, b, at) == AreaFill(b, at) \cap taken = {}

Before(a, c) == a[2] < c[2] \/ (a[2] = c[2] /\ a[1] < c[1])

\* The cells for button b, none if there is no room.
Place(taken, b, cols, rows) ==
    LET free == {at \in (0 .. cols - b.w) \X (0 .. rows - b.h) :
                    AreaEmpty(taken, b, at)}
    IN IF free = {} THEN {}
       ELSE AreaFill(b, CHOOSE at \in free :
                            \A other \in free \ {at} : Before(at, other))

\* Mutant: the map of taken cells is not filled.
TakenNone(cells) == {}

Taken(cells) == UNION Range(cells)

\* One turn of the loop of ui_btnmatrix_create.
PlaceNext(cells, b, cols, rows) ==
    [name \in DOMAIN cells \cup {b.name} |->
        IF name \in DOMAIN cells THEN cells[name]
        ELSE Place(Taken(cells), b, cols, rows)]

\* The cells after each of its turns.
Placed(buttons, cols, rows) ==
    LET placed[i \in 0 .. Len(buttons)] ==
            IF i = 0 THEN <<>>
            ELSE PlaceNext(placed[i - 1], buttons[i], cols, rows)
    IN  placed

\* ui_btnmatrix_create.
Matrix(buttons, cols, rows) == Placed(buttons, cols, rows)[Len(buttons)]

\* Every button has its place, as large as it asks for, and no two share any.
WellPlaced(cells) ==
    /\ \A b \in DOMAIN cells : cells[b] # {}
    /\ \A a, b \in DOMAIN cells : a # b => cells[a] \cap cells[b] = {}
=============================================================================
