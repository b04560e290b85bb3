-------------------------- MODULE MCImageServices --------------------------
(* TLC instance of ImageServices: more images than jobs; images of up to   *)
(* three pixels, dark, middling and bright ones.                           *)
EXTENDS ImageServices

FewColors == {<<0, 0, 0>>, <<0, 0, 2>>, <<100, 60, 200>>, <<254, 254, 253>>, <<255, 255, 255>>}
=============================================================================
