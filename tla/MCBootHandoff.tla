---------------------------- MODULE MCBootHandoff ----------------------------
(* A small instance of BootHandoff: three boot numbers, two systems, at most *)
(* one variable that cannot be read.                                         *)
EXTENDS BootHandoff
=============================================================================
