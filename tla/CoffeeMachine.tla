--------------------------- MODULE CoffeeMachine ---------------------------
(***************************************************************************)
(* The coffees of the coffee machine's page                                *)
(* (furniture_control/coffee_machine.c): five pictures in a row that the   *)
(* user scrolls.  The one in the middle is to be enlarged and named.  The  *)
(* page does so in the scroll event, by comparing the position with fixed  *)
(* zones, and in each zone resets only the neighbours.                     *)
(*                                                                         *)
(* Positions are in hundreds of pixels, rounded up; the pictures are four  *)
(* apart.  How far one scroll event is from the last is up to LVGL and the *)
(* user: a short list can be thrown from one end to the other.             *)
(***************************************************************************)
EXTENDS Integers

CONSTANTS
    Overscroll          \* how far the row can be pulled past its ends

ASSUME OverscrollAssumption == Overscroll \in Nat

VARIABLES
    scroll,             \* lv_obj_get_scroll_left
    big,                \* the pictures whose zoom is 256
    name                \* the coffee that coffee_machine_name names

coffeeVars == <<scroll, big, name>>

Coffees == 1 .. 5

CoffeeTypeOK ==
    /\ scroll \in -Overscroll .. 16 + Overscroll
    /\ big \subseteq Coffees
    /\ name \in Coffees

\* coffee_machine_ui_init makes the pictures; their state goes with them.
CoffeeMade == scroll' = 0 /\ big' = {1} /\ name' = 1

\* Mutant: only the coffee before is made small again.
NeighboursBefore(k) == {k - 1} \cap Coffees

Neighbours(k) == {k - 1, k + 1} \cap Coffees

\* The zone of coffee k.
InZone(k, s) == s > 4 * k - 6 /\ s <= 4 * k - 2 /\ s > 0

\* coffee_machine_png_box_scroll_callback, at the new position.
Scroll ==
    /\ scroll' \in -Overscroll .. 16 + Overscroll
    /\ \/ /\ \A k \in Coffees : ~InZone(k, scroll')
          /\ UNCHANGED <<big, name>>
       \/ \E k \in Coffees :
            /\ InZone(k, scroll')
            /\ big' = (big \ Neighbours(k)) \cup {k}
            /\ name' = k

\* The distance of coffee k from the middle.
FromMiddle(k) == LET d == scroll - 4 * (k - 1) IN IF d < 0 THEN -d ELSE d

\* However far one event is from the last, the coffee that is named is
\* enlarged and the two beside it are not, and inside the row none is nearer
\* to the middle: although a zone resets only two of the pictures.  A coffee
\* farther away may be left enlarged, and at the very left, where there is no
\* zone, the name may be an old one: see SmallStepsKeepOne.
NamedIsEnlarged ==
    /\ name \in big /\ big \cap {name - 1, name + 1} = {}
    /\ scroll \in 1 .. 18 => \A k \in Coffees : FromMiddle(name) <= FromMiddle(k)

\* One coffee is enlarged, the one in whose zone the middle is, or the first
\* or last one where there is no zone.
Centred ==
    /\ big = {name}
    /\ scroll <= 0 => name = 1
    /\ scroll > 18 => name = 5
    /\ scroll \in 1 .. 18 => InZone(name, scroll)

\* An event at most 200 pixels from the last one keeps it so, wherever the
\* user turns round.  Longer ones do not: from 201 to 0 the second coffee
\* stays, and over 400 a zone may be passed by.
SmallStepsKeepOne ==
    [][Centred /\ scroll' - scroll <= 2 /\ scroll - scroll' <= 2 => Centred']_coffeeVars
=============================================================================
