---------------------------- MODULE MCBacklight ----------------------------
(* Backlight with a level below the table (the darkest), the brightest one *)
(* and one above the table, where a negative value and one whose lowest    *)
(* byte is 0 are found, a timeout shorter than the longest press (5 s) and *)
(* one that is longer (60 s).                                              *)
EXTENDS Backlight

MCLevels   == {-1, 7, 8}
MCGarbage  == {-1, 256}
MCTimeouts == {1, 3}
=============================================================================
