-------------------------------- MODULE Null --------------------------------
(* What stands for nothing in every module: SQL NULL, no row, nobody.          *)
CONSTANT None
=============================================================================
