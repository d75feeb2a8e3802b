--------------------------- MODULE MCPositionedIO ---------------------------
(* Module PositionedIO with ints of two bits and positions of three: an    *)
(* offset can be negative or zero as an int and still be a valid off_t.    *)
EXTENDS PositionedIO
=============================================================================
