---------------------------- MODULE MCExtraction ----------------------------
(* A directory, a file in it, and a file beside it; sizes and limits at     *)
(* both ends of a signed counter of 4 bits.                                 *)
EXTENDS Extraction

MCPath == {<<"a">>, <<"a", "b">>, <<"c">>}
MCSize == {-1, 0, 3, 4, 7}
MCLimit == {0, 2, 3, 7}
=============================================================================
