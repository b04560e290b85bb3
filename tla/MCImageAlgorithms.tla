------------------------- MODULE MCImageAlgorithms -------------------------
(* TLC instance of ImageAlgorithms.  1200 pixels and a word of 2^24 keep   *)
(* the proportion of the program's 307200 pixels and 2^32, and are more    *)
(* pixels than an average can carry into the next one.  The areas are a    *)
(* small spot and two near halves; the colors are both ends of a byte, two *)
(* at the filter's lower limit, and one in the middle.                     *)
EXTENDS ImageAlgorithms

SpotAndHalves == <<3, 612, 585>>
FiveColors == {<<0, 0, 0>>, <<21, 21, 23>>, <<22, 22, 22>>, <<100, 60, 200>>, <<255, 255, 255>>}
=============================================================================
