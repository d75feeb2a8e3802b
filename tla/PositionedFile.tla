--------------------------- MODULE PositionedFile ---------------------------
(***************************************************************************)
(* What a program expects of an open file: lseek, read and write work at   *)
(* the file position and move it, a positioned read or write works at its  *)
(* own offset and leaves the position alone, each in one step.             *)
(*                                                                         *)
(* "sound" tells whether the last call kept its promise; a call that does  *)
(* not may have done anything, but the calls after it start from where it  *)
(* left the position.                                                      *)
(***************************************************************************)
EXTENDS Integers

CONSTANTS
  MaxPos,   \* bound: positions and offsets
  MaxCount  \* bound: bytes a call asks for

Positions == 0..MaxPos
Offsets   == -1..MaxPos
Counts    == 0..MaxCount
Whences   == {"SEEK_SET", "SEEK_CUR"}

VARIABLES
  pos,   \* the file position
  last,  \* the last call: where it worked, on how many bytes, its result
  sound

vars == <<pos, last, sound>>

(* A transfer of up to n bytes at p moves k of them and says so, fails, or *)
(* gives an unreadable answer, which the program takes for 0 bytes.        *)
Moves(n, p) == {k \in 0..n : p + k <= MaxPos}
Outcomes(n, p) ==
  {[len |-> k, ret |-> k] : k \in Moves(n, p)} \cup {[len |-> 0, ret |-> -1]}
    \cup {[len |-> k, ret |-> 0] : k \in Moves(n, p)}

Done(o, p, t) == [op |-> o, at |-> p, len |-> t.len, ret |-> t.ret]

Init ==
  /\ pos = 0 /\ sound = TRUE
  /\ last = Done("none", 0, [len |-> 0, ret |-> 0])

(* The position a seek asks for.                                           *)
Target(p, off, whence) == IF whence = "SEEK_SET" THEN off ELSE p + off

Seek(off, whence) ==
  \/ /\ Target(pos, off, whence) \in Positions
     /\ pos' = Target(pos, off, whence)
     /\ last' = Done("lseek", pos', [len |-> 0, ret |-> pos'])
  \/ /\ last' = Done("lseek", pos, [len |-> 0, ret |-> -1])
     /\ UNCHANGED pos

Transfer(o, n) ==
  \E t \in Outcomes(n, pos) :
    last' = Done(o, pos, t) /\ pos' = pos + t.len

Positioned(o, n, off) ==
  \E t \in Outcomes(n, off) :
    last' = Done(o, off, t) /\ UNCHANGED pos

Promised ==
  \/ \E off \in Offsets, whence \in Whences : Seek(off, whence)
  \/ \E n \in Counts : Transfer("read", n) \/ Transfer("write", n)
  \/ \E n \in Counts, off \in Positions :
       Positioned("pread", n, off) \/ Positioned("pwrite", n, off)

Recover == UNCHANGED <<pos, last>>

Next == (sound' = TRUE /\ (Promised \/ Recover)) \/ sound' = FALSE

Spec == Init /\ [][Next]_vars
=============================================================================
