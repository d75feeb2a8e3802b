---------------------------- MODULE PositionedIO ----------------------------
(***************************************************************************)
(* lind_pread, lind_pwrite and lind_lseek of lind_platform.c.              *)
(*                                                                         *)
(* Lind has no positioned read or write: the wrappers save the position    *)
(* with lind_lseek, seek, transfer and seek back, and look at the result   *)
(* of the transfer only.  lind_lseek hands its 64-bit offset to Lind as an *)
(* int and returns what Lind has written into ret_off, which is not        *)
(* initialised, if Lind's answer is not an error.                          *)
(*                                                                         *)
(* The contents of the file are left out: what a call reads or writes is   *)
(* given by where it works and on how many bytes.                          *)
(***************************************************************************)
EXTENDS Integers

CONSTANTS
  IntMax,   \* the largest int
  MaxPos,   \* bound: positions and offsets
  MaxCount  \* bound: bytes a call asks for

VARIABLES
  pc,       \* the next step of the wrapper
  op, off, cnt, cur_pos,  \* its name, arguments and local variable
  pos,      \* Lind's position of the file
  last,     \* the last transfer or seek of the program
  start,    \* history: the position when the call was made
  fault     \* history: what went wrong with a seek of this call

vars == <<pc, op, off, cnt, cur_pos, pos, last, start, fault>>

(* Module PositionedFile: what the program expects.  In the middle of a    *)
(* positioned call that has met no fault the position is the one it        *)
(* started from.                                                           *)
File == INSTANCE PositionedFile WITH
  pos   <- IF pc # "idle" /\ fault = "none" THEN start ELSE pos,
  sound <- fault = "none"

ASSUME IntAssumption == IntMax \in Nat \ {0}
ASSUME BoundAssumption == MaxPos \in Nat /\ MaxCount \in Nat

Done(o, p, t) == File!Done(o, p, t)

(* What 32 bits keep of an off_t.                                          *)
ToInt(x) == ((x + IntMax + 1) % (2 * (IntMax + 1))) - (IntMax + 1)

Init ==
  /\ pc = "idle" /\ op = "none" /\ off = 0 /\ cnt = 0 /\ cur_pos = 0
  /\ pos = 0 /\ last = Done("none", 0, [len |-> 0, ret |-> 0])
  /\ start = 0 /\ fault = "none"

-----------------------------------------------------------------------------
(* External: Lind seeks or refuses to; its answer may be unreadable either *)
(* way.                                                                    *)
LindSeeks(x, whence) ==
  LET p == File!Target(pos, x, whence) IN
  {[code |-> -1, pos |-> pos, odd |-> FALSE], [code |-> 0, pos |-> pos, odd |-> TRUE]}
    \cup (IF p \in File!Positions
          THEN {[code |-> 0, pos |-> p, odd |-> o] : o \in BOOLEAN} ELSE {})

(* What lind_lseek returns for such an answer.                             *)
SeekResults(a) ==
  IF a.code < 0 THEN {a.code} ELSE IF a.odd THEN File!Offsets ELSE {a.pos}

(* An unreadable answer outweighs every other fault of the call.           *)
SeekFault(a) ==
  IF a.odd THEN "odd" ELSE IF fault = "none" /\ a.code < 0 THEN "refused" ELSE fault

(* lind_lseek(fd, x, whence), returning r.                                 *)
lind_lseek(x, whence, r) ==
  \E a \in LindSeeks(ToInt(x), whence) :
    /\ r \in SeekResults(a)
    /\ pos' = a.pos
    /\ fault' = SeekFault(a)

Fits(x) == ToInt(x) = x

(* Outside the positioned wrappers their arguments do not exist.           *)
NoLocals == op' = "none" /\ off' = 0 /\ cnt' = 0 /\ cur_pos' = 0 /\ start' = 0

-----------------------------------------------------------------------------
(* The program's lseek: an error of Lind is reported, so it is no fault.   *)
lseek(x, whence) ==
  /\ pc = "idle"
  /\ \E a \in LindSeeks(ToInt(x), whence) : \E r \in SeekResults(a) :
       /\ pos' = a.pos
       /\ last' = Done("lseek", a.pos, [len |-> 0, ret |-> r])
       /\ fault' = IF a.odd THEN "odd" ELSE IF Fits(x) THEN "none" ELSE "wide"
  /\ NoLocals /\ UNCHANGED pc

(* lind_read and lind_write at the position.                               *)
Transfer(o, n) ==
  \E t \in File!Outcomes(n, pos) :
    pos' = pos + t.len /\ last' = Done(o, pos, t)

plain(o, n) ==
  /\ pc = "idle"
  /\ Transfer(o, n)
  /\ fault' = "none"
  /\ NoLocals /\ UNCHANGED pc

(* lind_pread and lind_pwrite are the same four steps.                     *)
Begin(o, n, x) ==
  /\ pc = "idle" /\ pc' = "save"
  /\ op' = o /\ cnt' = n /\ off' = x /\ cur_pos' = 0
  /\ start' = pos
  /\ fault' = IF Fits(x) /\ Fits(pos) THEN "none" ELSE "wide"
  /\ UNCHANGED <<pos, last>>

Save ==
  /\ pc = "save" /\ pc' = "seek"
  /\ \E r \in File!Offsets : lind_lseek(0, "SEEK_CUR", r) /\ cur_pos' = r
  /\ UNCHANGED <<op, off, cnt, last, start>>

SeekTo ==
  /\ pc = "seek" /\ pc' = "move"
  /\ \E r \in File!Offsets : lind_lseek(off, "SEEK_SET", r)
  /\ UNCHANGED <<op, off, cnt, cur_pos, last, start>>

(* A faulty variant: one byte more is asked for.                           *)
MoveOneMore ==
  /\ pc = "move" /\ pc' = "restore"
  /\ Transfer(op, cnt + 1)
  /\ UNCHANGED <<op, off, cnt, cur_pos, start, fault>>

Move ==
  /\ pc = "move" /\ pc' = "restore"
  /\ Transfer(op, cnt)
  /\ UNCHANGED <<op, off, cnt, cur_pos, start, fault>>

(* Faulty variants: the position is not sought, or sought from where the   *)
(* transfer ended.                                                         *)
RestoreForgotten ==
  /\ pc = "restore" /\ pc' = "idle"
  /\ UNCHANGED <<op, off, cnt, cur_pos, pos, last, start, fault>>
RestoreFromHere ==
  /\ pc = "restore" /\ pc' = "idle"
  /\ \E r \in File!Offsets : lind_lseek(cur_pos, "SEEK_CUR", r)
  /\ UNCHANGED <<op, off, cnt, cur_pos, last, start>>

Restore ==
  /\ pc = "restore" /\ pc' = "idle"
  /\ \E r \in File!Offsets : lind_lseek(cur_pos, "SEEK_SET", r)
  /\ UNCHANGED <<op, off, cnt, cur_pos, last, start>>

Next ==
  \/ \E x \in File!Offsets, whence \in File!Whences : lseek(x, whence)
  \/ \E n \in File!Counts : plain("read", n) \/ plain("write", n)
  \/ \E n \in File!Counts, x \in File!Offsets : Begin("pread", n, x) \/ Begin("pwrite", n, x)
  \/ Save \/ SeekTo \/ Move \/ Restore

Spec == Init /\ [][Next]_vars

-----------------------------------------------------------------------------
(* Properties.                                                             *)

Ops    == {"none", "lseek", "read", "write", "pread", "pwrite"}
Faults == {"none", "refused", "odd", "wide"}

(* Every variable keeps its type.                                          *)
TypeOK ==
  /\ pc \in {"idle", "save", "seek", "move", "restore"}
  /\ op \in Ops /\ off \in File!Offsets /\ cnt \in File!Counts
  /\ cur_pos \in File!Offsets /\ pos \in File!Positions /\ start \in File!Positions
  /\ last \in [op : Ops, at : File!Positions, len : File!Counts, ret : File!Offsets]
  /\ fault \in Faults

(* A call none of whose seeks is refused or answered unreadably, on        *)
(* positions an int holds, does what the program expects: lind_pread and   *)
(* lind_pwrite work at their offset and leave the position alone.          *)
ImplementsFile == File!Spec

(* When seeks are refused or an offset does not fit an int, lind_pread and *)
(* lind_pwrite say nothing of it.  The transfer has then worked at the     *)
(* offset, what an int keeps of it or the program's own position, and the  *)
(* position is the old one, what an int keeps of it or the end of the      *)
(* transfer: only an unreadable answer can move it anywhere else.          *)
DamageLocal ==
  pc = "idle" /\ last.op \in {"pread", "pwrite"} /\ fault # "odd" =>
    /\ last.at \in {off, ToInt(off), start}
    /\ pos \in {start, ToInt(start), last.at + last.len}
=============================================================================
