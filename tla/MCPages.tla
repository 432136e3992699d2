------------------------------ MODULE MCPages ------------------------------
(* Pages with two of the four wallpapers.                                  *)
EXTENDS Pages

MCWallpapers == {"pic0", "pic1"}
=============================================================================
