---------------------------- MODULE MCDescriptors ----------------------------
(* Module Descriptors with two objects and two numbers for each table: a   *)
(* number can be closed and handed out again while another one stays open. *)
EXTENDS Descriptors, TLC

Symmetry == Permutations(Objects)
=============================================================================
