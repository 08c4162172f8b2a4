----------------------------- MODULE MCConnMenu -----------------------------
(* A small instance of ConnMenu: at most three rows, with a menu of none and  *)
(* one of too many.                                                           *)
EXTENDS ConnMenu

MCTimeouts == {-1, 0, 2}
MCSavers == {-1, 0, 2}
MCSaverOn == {2}
=============================================================================
