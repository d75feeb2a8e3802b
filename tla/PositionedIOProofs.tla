------------------------- MODULE PositionedIOProofs -------------------------
(***************************************************************************)
(* Proofs about module PositionedIO for every width of int and every bound *)
(* on positions and counts: the wrappers implement PositionedFile, and a   *)
(* refused seek or a truncated offset does local damage only.              *)
(***************************************************************************)
EXTENDS PositionedIO, TLAPS

USE DEF File!Positions, File!Offsets, File!Counts, File!Whences

(* Facts about what 32 bits keep of an off_t.                              *)
LEMMA ModSmall ==
  ASSUME NEW b \in Nat \ {0}, NEW a \in 0..(b - 1)
  PROVE  a % b = a
OBVIOUS

(* An int holds 0.                                                         *)
LEMMA ZeroFits == ToInt(0) = 0
<1>1. 2 * (IntMax + 1) \in Nat \ {0} /\ IntMax + 1 \in 0..(2 * (IntMax + 1) - 1)
  BY IntAssumption
<1>2. (IntMax + 1) % (2 * (IntMax + 1)) = IntMax + 1
  BY <1>1, ModSmall
<1>3. 0 + IntMax + 1 = IntMax + 1
  BY IntAssumption
<1> QED BY <1>2, <1>3, IntAssumption DEF ToInt

(* An int holds -1.                                                        *)
LEMMA ErrorFits == ToInt(-1) = -1
<1>1. 2 * (IntMax + 1) \in Nat \ {0} /\ IntMax \in 0..(2 * (IntMax + 1) - 1)
  BY IntAssumption
<1>2. IntMax % (2 * (IntMax + 1)) = IntMax
  BY <1>1, ModSmall
<1>3. -1 + IntMax + 1 = IntMax
  BY IntAssumption
<1> QED BY <1>2, <1>3, IntAssumption DEF ToInt

(* What an int keeps of a number is a number.                              *)
LEMMA IntIsInt == \A x \in Int : ToInt(x) \in Int
BY IntAssumption DEF ToInt

-----------------------------------------------------------------------------
(* Where a positioned call stands.  Until an answer is unreadable, cur_pos *)
(* is the position the call started from or lind_lseek's -1, and Lind's    *)
(* position is where the last step that worked has put it; until anything  *)
(* goes wrong, both are exactly what the C code intends.                   *)
Saved   == cur_pos = start \/ cur_pos = -1
Landed(p) == p \in {off, ToInt(off), start}

Standing ==
  /\ pc # "idle" => op \in {"pread", "pwrite"}
  /\ pc \in {"save", "seek"} /\ fault # "odd" => pos = start
  /\ pc \in {"seek", "move", "restore"} /\ fault # "odd" => Saved
  /\ pc = "move" /\ fault # "odd" => Landed(pos)
  /\ pc = "restore" /\ fault # "odd" =>
       Landed(last.at) /\ pos = last.at + last.len

Intended ==
  fault = "none" =>
    /\ pc # "idle" => Fits(off) /\ Fits(start)
    /\ pc \in {"seek", "move", "restore"} => cur_pos = start
    /\ pc = "move" => pos = off

Inv == TypeOK /\ Standing /\ Intended /\ DamageLocal

(* What lind_lseek leaves behind.                                          *)
LEMMA SeekLeaves ==
  ASSUME TypeOK, NEW x \in Int, NEW whence \in {"SEEK_SET", "SEEK_CUR"},
         NEW r \in File!Offsets, lind_lseek(x, whence, r)
  PROVE  /\ pos' \in File!Positions /\ fault' \in Faults
         /\ fault' # "odd" => fault # "odd"
         /\ fault' # "odd" => \/ r = -1 /\ pos' = pos /\ fault' # "none"
                              \/ pos' = File!Target(pos, ToInt(x), whence) /\ r = pos'
         /\ fault' = "none" => fault = "none"
<1>1. PICK a \in LindSeeks(ToInt(x), whence) :
        r \in SeekResults(a) /\ pos' = a.pos /\ fault' = SeekFault(a)
  BY DEF lind_lseek
<1>2. \/ a = [code |-> -1, pos |-> pos, odd |-> FALSE]
      \/ a = [code |-> 0, pos |-> pos, odd |-> TRUE]
      \/ /\ File!Target(pos, ToInt(x), whence) \in File!Positions
         /\ \E o \in BOOLEAN : a = [code |-> 0, pos |-> File!Target(pos, ToInt(x), whence), odd |-> o]
  BY <1>1 DEF LindSeeks
<1>3. CASE a = [code |-> -1, pos |-> pos, odd |-> FALSE]
  BY <1>1, <1>3 DEF SeekResults, SeekFault, TypeOK, Faults
<1>4. CASE a = [code |-> 0, pos |-> pos, odd |-> TRUE]
  BY <1>1, <1>4 DEF SeekFault, TypeOK, Faults
<1>5. CASE /\ File!Target(pos, ToInt(x), whence) \in File!Positions
           /\ \E o \in BOOLEAN : a = [code |-> 0, pos |-> File!Target(pos, ToInt(x), whence), odd |-> o]
  <2>1. PICK o \in BOOLEAN : a = [code |-> 0, pos |-> File!Target(pos, ToInt(x), whence), odd |-> o]
    BY <1>5
  <2>2. a.code = 0 /\ a.odd = o /\ a.pos = File!Target(pos, ToInt(x), whence)
    BY <2>1
  <2> QED BY <1>1, <1>5, <2>2 DEF SeekResults, SeekFault, TypeOK, Faults
<1> QED BY <1>2, <1>3, <1>4, <1>5

(* What a transfer leaves behind.                                          *)
LEMMA TransferLeaves ==
  ASSUME TypeOK, NEW n \in File!Counts, NEW o \in Ops, Transfer(o, n)
  PROVE  /\ pos' \in File!Positions
         /\ last' \in [op : Ops, at : File!Positions, len : File!Counts, ret : File!Offsets]
         /\ last'.op = o /\ last'.at = pos /\ pos' = pos + last'.len
         /\ \E t \in File!Outcomes(n, pos) : last' = File!Done(o, pos, t) /\ pos' = pos + t.len
<1>1. PICK t \in File!Outcomes(n, pos) : pos' = pos + t.len /\ last' = File!Done(o, pos, t)
  BY DEF Transfer, Done
<1>2. t.len \in File!Counts /\ pos + t.len \in File!Positions /\ t.ret \in File!Offsets
  BY <1>1, BoundAssumption DEF File!Outcomes, File!Moves, TypeOK
<1> QED BY <1>1, <1>2 DEF File!Done, TypeOK

-----------------------------------------------------------------------------
(* The invariant holds initially and is kept by every step.                *)
LEMMA InvInit == Init => Inv
<1> SUFFICES ASSUME Init PROVE Inv
  OBVIOUS
<1>1. last = [op |-> "none", at |-> 0, len |-> 0, ret |-> 0]
  BY DEF Init, Done, File!Done
<1> QED BY <1>1, BoundAssumption
        DEF Init, Inv, TypeOK, Standing, Intended, DamageLocal, Ops, Faults

(* Every step keeps the invariant.                                         *)
LEMMA InvStep == Inv /\ [Next]_vars => Inv'
<1> SUFFICES ASSUME Inv, [Next]_vars PROVE Inv'
  OBVIOUS
<1> USE DEF Inv
<1>1. ASSUME NEW x \in File!Offsets, NEW whence \in File!Whences, lseek(x, whence)
      PROVE  Inv'
  <2>1. PICK a \in LindSeeks(ToInt(x), whence) :
          \E r \in SeekResults(a) :
             /\ pos' = a.pos
             /\ last' = Done("lseek", a.pos, [len |-> 0, ret |-> r])
             /\ fault' = IF a.odd THEN "odd" ELSE IF Fits(x) THEN "none" ELSE "wide"
    BY <1>1 DEF lseek
  <2>2. PICK r \in SeekResults(a) :
             /\ pos' = a.pos
             /\ last' = Done("lseek", a.pos, [len |-> 0, ret |-> r])
             /\ fault' = IF a.odd THEN "odd" ELSE IF Fits(x) THEN "none" ELSE "wide"
    BY <2>1
  <2>3. a.pos \in File!Positions /\ r \in File!Offsets
    BY <2>1, <2>2, BoundAssumption DEF LindSeeks, SeekResults, TypeOK
  <2>4. last' = [op |-> "lseek", at |-> a.pos, len |-> 0, ret |-> r]
    BY <2>2 DEF Done, File!Done
  <2> QED BY <1>1, <2>2, <2>3, <2>4, BoundAssumption
          DEF lseek, NoLocals, TypeOK, Standing, Intended, DamageLocal, Ops, Faults
<1>2. ASSUME NEW n \in File!Counts, NEW o \in {"read", "write"}, plain(o, n)
      PROVE  Inv'
  <2>1. Transfer(o, n) /\ o \in Ops
    BY <1>2 DEF plain, Ops
  <2> QED BY <1>2, <2>1, TransferLeaves, BoundAssumption
          DEF plain, NoLocals, TypeOK, Standing, Intended, DamageLocal, Ops, Faults
<1>3. ASSUME NEW n \in File!Counts, NEW x \in File!Offsets, NEW o \in {"pread", "pwrite"},
             Begin(o, n, x)
      PROVE  Inv'
  BY <1>3, BoundAssumption DEF Begin, TypeOK, Standing, Intended, DamageLocal, Ops, Faults, Fits
<1>4. CASE Save
  <2>1. PICK r \in File!Offsets : lind_lseek(0, "SEEK_CUR", r) /\ cur_pos' = r
    BY <1>4 DEF Save
  <2>2. File!Target(pos, ToInt(0), "SEEK_CUR") = pos
    BY ZeroFits DEF File!Target, TypeOK
  <2>3. /\ pos' \in File!Positions /\ fault' \in Faults
        /\ fault' # "odd" => fault # "odd" /\ pos' = pos /\ (r = -1 \/ r = pos)
        /\ fault' = "none" => fault = "none" /\ r = pos
    BY <2>1, <2>2, SeekLeaves
  <2> QED BY <1>4, <2>1, <2>3 DEF Save, TypeOK, Standing, Intended, DamageLocal, Saved, Fits
<1>5. CASE SeekTo
  <2>1. PICK r \in File!Offsets : lind_lseek(off, "SEEK_SET", r)
    BY <1>5 DEF SeekTo
  <2>2. File!Target(pos, ToInt(off), "SEEK_SET") = ToInt(off)
    BY DEF File!Target
  <2>3. /\ pos' \in File!Positions /\ fault' \in Faults
        /\ fault' # "odd" => fault # "odd" /\ pos' \in {pos, ToInt(off)}
        /\ fault' = "none" => fault = "none" /\ pos' = ToInt(off)
    BY <2>1, <2>2, SeekLeaves DEF TypeOK
  <2> QED BY <1>5, <2>3
          DEF SeekTo, TypeOK, Standing, Intended, DamageLocal, Saved, Landed, Fits
<1>6. CASE Move
  <2>1. Transfer(op, cnt) /\ op \in Ops /\ cnt \in File!Counts
    BY <1>6 DEF Move, TypeOK
  <2>2. /\ pos' \in File!Positions
        /\ last' \in [op : Ops, at : File!Positions, len : File!Counts, ret : File!Offsets]
        /\ last'.at = pos /\ pos' = last'.at + last'.len
    BY <2>1, TransferLeaves
  <2> QED BY <1>6, <2>2
          DEF Move, TypeOK, Standing, Intended, DamageLocal, Saved, Landed, Fits
<1>7. CASE Restore
  <2>1. PICK r \in File!Offsets : lind_lseek(cur_pos, "SEEK_SET", r)
    BY <1>7 DEF Restore
  <2>2. File!Target(pos, ToInt(cur_pos), "SEEK_SET") = ToInt(cur_pos)
    BY DEF File!Target
  <2>3. /\ pos' \in File!Positions /\ fault' \in Faults
        /\ fault' # "odd" => fault # "odd" /\ pos' \in {pos, ToInt(cur_pos)}
    BY <2>1, <2>2, SeekLeaves DEF TypeOK
  <2>4. fault' # "odd" => pos' \in {pos, ToInt(start)}
    BY <1>7, <2>3, ErrorFits DEF Restore, Standing, Saved
  <2> QED BY <1>7, <2>3, <2>4
          DEF Restore, TypeOK, Standing, Intended, DamageLocal, Landed
<1>8. CASE UNCHANGED vars
  BY <1>8 DEF vars, TypeOK, Standing, Intended, DamageLocal, Saved, Landed, Fits
<1> QED BY <1>1, <1>2, <1>3, <1>4, <1>5, <1>6, <1>7, <1>8 DEF Next

(* So Inv is an invariant.                                                 *)
LEMMA Invariance == Spec => []Inv
BY InvInit, InvStep, PTL DEF Spec

-----------------------------------------------------------------------------
(* Every variable of the wrappers keeps its type.                          *)
THEOREM TypeCorrect == Spec => []TypeOK
BY Invariance, PTL DEF Inv

(* Refused seeks and truncated offsets misplace a transfer or the position *)
(* only within what DamageLocal allows, for every width of int.            *)
THEOREM DamageIsLocal == Spec => []DamageLocal
BY Invariance, PTL DEF Inv

-----------------------------------------------------------------------------
(* Every step is one the abstract file may take.                           *)
LEMMA StepImplements == Inv /\ [Next]_vars => [File!Next]_(File!vars)
<1> SUFFICES ASSUME Inv, [Next]_vars
             PROVE  File!Next \/ UNCHANGED File!vars
  OBVIOUS
<1> USE DEF Inv
<1>0. CASE (fault = "none")' = FALSE
  BY <1>0 DEF File!Next
<1>1. ASSUME NEW x \in File!Offsets, NEW whence \in File!Whences, lseek(x, whence),
             fault' = "none"
      PROVE  File!Next
  <2>0. PICK a \in LindSeeks(ToInt(x), whence) : \E r \in SeekResults(a) :
             /\ pos' = a.pos
             /\ last' = Done("lseek", a.pos, [len |-> 0, ret |-> r])
             /\ fault' = IF a.odd THEN "odd" ELSE IF Fits(x) THEN "none" ELSE "wide"
    BY <1>1 DEF lseek
  <2>1. PICK r \in SeekResults(a) :
             /\ pos' = a.pos
             /\ last' = Done("lseek", a.pos, [len |-> 0, ret |-> r])
             /\ fault' = IF a.odd THEN "odd" ELSE IF Fits(x) THEN "none" ELSE "wide"
    BY <2>0
  <2>2. ~a.odd /\ ToInt(x) = x
    BY <1>1, <2>1 DEF Fits
  <2>3. \/ a.code = -1 /\ a.pos = pos
        \/ a.code = 0 /\ a.pos = File!Target(pos, x, whence) /\ a.pos \in File!Positions
    BY <2>1, <2>2 DEF LindSeeks
  <2>4. r = IF a.code = -1 THEN -1 ELSE a.pos
    BY <2>1, <2>2, <2>3 DEF SeekResults
  <2>5. pc = "idle" /\ pc' = "idle"
    BY <1>1 DEF lseek
  <2>6. File!Seek(x, whence)
    BY <2>1, <2>3, <2>4, <2>5 DEF File!Seek, Done, TypeOK
  <2> QED BY <1>1, <2>6 DEF File!Next, File!Promised
<1>2. ASSUME NEW n \in File!Counts, NEW o \in {"read", "write"}, plain(o, n)
      PROVE  File!Next
  <2>1. pc = "idle" /\ pc' = "idle" /\ fault' = "none" /\ Transfer(o, n)
    BY <1>2 DEF plain
  <2>2. File!Transfer(o, n)
    BY <2>1 DEF Transfer, File!Transfer, Done
  <2> QED BY <2>1, <2>2 DEF File!Next, File!Promised
<1>3. ASSUME NEW n \in File!Counts, NEW x \in File!Offsets, NEW o \in {"pread", "pwrite"},
             Begin(o, n, x), fault' = "none"
      PROVE  File!Next
  BY <1>3 DEF Begin, File!Next, File!Recover
<1>4. ASSUME Save \/ SeekTo, fault' = "none"
      PROVE  File!Next
  <2>1. fault = "none" /\ pc # "idle" /\ pc' # "idle" /\ UNCHANGED <<start, last>>
    <3>1. CASE Save
      BY <1>4, <3>1, SeekLeaves DEF Save
    <3>2. CASE SeekTo
      BY <1>4, <3>2, SeekLeaves DEF SeekTo, TypeOK
    <3> QED BY <1>4, <3>1, <3>2
  <2> QED BY <1>4, <2>1 DEF File!Next, File!Recover
<1>5. ASSUME Move, fault' = "none"
      PROVE  File!Next
  <2>1. /\ fault = "none" /\ pc = "move" /\ pc' = "restore" /\ start' = start
        /\ pos = off /\ op \in {"pread", "pwrite"} /\ Transfer(op, cnt)
    BY <1>5 DEF Move, Standing, Intended
  <2>2. File!Positioned(op, cnt, off)
    <3>1. PICK t \in File!Outcomes(cnt, off) : last' = File!Done(op, off, t)
      BY <2>1 DEF Transfer, Done
    <3> QED BY <1>5, <2>1, <3>1 DEF File!Positioned
  <2>3. off \in File!Positions /\ cnt \in File!Counts
    BY <2>1 DEF TypeOK
  <2> QED BY <1>5, <2>1, <2>2, <2>3 DEF File!Next, File!Promised
<1>6. ASSUME Restore, fault' = "none"
      PROVE  File!Next
  <2>1. PICK r \in File!Offsets : lind_lseek(cur_pos, "SEEK_SET", r)
    BY <1>6 DEF Restore
  <2>2. fault = "none" /\ pos' = File!Target(pos, ToInt(cur_pos), "SEEK_SET")
    BY <1>6, <2>1, SeekLeaves DEF TypeOK
  <2>3. pos' = start
    BY <1>6, <2>2 DEF Restore, Intended, Fits, File!Target
  <2> QED BY <1>6, <2>2, <2>3 DEF Restore, File!Next, File!Recover
<1>7. CASE UNCHANGED vars
  BY <1>7 DEF vars, File!vars
<1> QED BY <1>0, <1>1, <1>2, <1>3, <1>4, <1>5, <1>6, <1>7 DEF Next

(* lind_lseek, lind_read, lind_write, lind_pread and lind_pwrite implement *)
(* the abstract file, whatever Lind answers, for every width of int.       *)
THEOREM Implementation == Spec => ImplementsFile
<1>1. Init => File!Init
  BY DEF Init, File!Init, Done
<1> QED BY <1>1, StepImplements, Invariance, PTL DEF Spec, ImplementsFile, File!Spec
=============================================================================
