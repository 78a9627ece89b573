---------------------------- MODULE MCRomBrowser ----------------------------
(* A system with two directories and one without ROMs; the order by path is not  *)
(* the one by title.                                                         *)
EXTENDS RomBrowser

A == <<"GB", "a">>
C == <<"GB", "w", "c">>
W == <<"GB", "w">>
X == <<"GB", "x">>
B == <<"GB", "x", "b">>

MCRoms == [s \in {"gb", "nes"} |-> IF s = "gb" THEN {A, C, B} ELSE {}]
MCNameOrder == <<B, A, C, W, X>>
MCPathOrder == <<C, A, X, W, B>>
MCFavorites == <<<<"gb", A>>, <<"gb", B>>>>
MCRecents == <<<<"gb", C>>>>
MCSettings == {[graphic |-> g, wrap |-> g, byPath |-> FALSE] : g \in BOOLEAN}
=============================================================================
