--------------------------- MODULE MCTileLayout ---------------------------
(* The layout with every list of small apps on a small page, among them    *)
(* one that is wider than the page.                                        *)
EXTENDS TileLayout

SmallSizes == [w : 1 .. 3, h : 1 .. 2] \cup {[w |-> 4, h |-> 1]}
=============================================================================
