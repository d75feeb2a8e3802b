---------------------------- MODULE MCLindGateway ----------------------------
(* Module LindGateway with integers of three bits: data may be shorter or  *)
(* longer than a structure, and a size may exceed the largest int.         *)
EXTENDS LindGateway
=============================================================================
