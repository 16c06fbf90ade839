------------------------------- MODULE MCStartup ------------------------------
(* Startup and Accumulator with three-bit sums and a buffer of four cells.  *)
EXTENDS Startup

Charges == {1, 5}
Lengths == {0, 1, 2, 3}

=============================================================================
