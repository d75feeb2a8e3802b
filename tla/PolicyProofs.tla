---------------------------- MODULE PolicyProofs ----------------------------
(***************************************************************************)
(* Proofs about module Policy, for every set of call names and for         *)
(* configuration files of any length.                                      *)
(***************************************************************************)
EXTENDS Policy, TLAPS

USE NameAssumption, FileAssumption

(* What an entry means is one of the three values a line can have.         *)
LEMMA MeaningRecognised ==
  ASSUME NEW n \in Int, NEW a, Means(n, a)
  PROVE  a \in Recognised
BY DEF Means, Sets, Recognised

(* Reading one more entry: it counts if its value is recognised, otherwise *)
(* the previous meaning stays.                                             *)
LEMMA MeaningStep ==
  ASSUME TypeOK, line <= Len(file), Means(line - 1, mact), file[line].entry
  PROVE  Means(line, EntryAction(file[line]))
<1>1. line \in Nat
  BY DEF TypeOK
<1>2. CASE file[line].value \in Recognised
  <2>1. Sets(line) /\ EntryAction(file[line]) = file[line].value
    BY <1>2 DEF Sets, EntryAction
  <2>2. line \in 1..line /\ \A j \in (line + 1)..line : ~Sets(j)
    BY <1>1 DEF TypeOK
  <2> QED
    BY <2>1, <2>2 DEF Means
<1>3. CASE file[line].value \notin Recognised
  BY <1>1, <1>3 DEF Means, Sets, EntryAction
<1> QED
  BY <1>2, <1>3

(* A chunk that is no entry changes no meaning.                            *)
LEMMA MeaningSkip ==
  ASSUME TypeOK, line <= Len(file), Means(line - 1, mact), ~file[line].entry
  PROVE  Means(line, mact)
BY DEF Means, Sets, TypeOK

(* The types hold initially.                                               *)
LEMMA TypeInit == Init => TypeOK
<1> SUFFICES ASSUME Init PROVE TypeOK
  OBVIOUS
<1>1. file \in Seq(Chunks) /\ Len(file) \in Nat
  BY DEF Init
<1> QED
  BY <1>1 DEF Init, TypeOK, Recognised

(* Every step keeps them; in particular the table has no other indices.    *)
LEMMA TypeStep == TypeOK /\ [Next]_vars => TypeOK'
<1> SUFFICES ASSUME TypeOK, [Next]_vars PROVE TypeOK'
  OBVIOUS
<1>a. Len(file) \in Nat
  BY DEF TypeOK
<1>1. CASE OpenFails
  BY <1>1 DEF OpenFails, TypeOK
<1>2. CASE Open
  BY <1>2 DEF Open, TypeOK, Actions
<1>3. CASE SkipLine
  BY <1>3, <1>a DEF SkipLine, TypeOK
<1>4. CASE ReadEntry
  <2>1. mact' \in Recognised /\ mact' \in Actions
    BY <1>4 DEF ReadEntry, EntryAction, TypeOK, Recognised, Actions
  <2> QED
    BY <1>4, <1>a, <2>1 DEF ReadEntry, TypeOK
<1>5. CASE Close
  BY <1>5 DEF Close, TypeOK
<1>6. CASE UNCHANGED vars
  BY <1>6 DEF vars, TypeOK
<1> QED
  BY <1>1, <1>2, <1>3, <1>4, <1>5, <1>6 DEF Next, Terminated

(* The inductive invariant holds initially.                                *)
LEMMA InvInit == Init => IInv
<1> SUFFICES ASSUME Init PROVE IInv
  OBVIOUS
<1>1. Means(line - 1, mact)
  BY DEF Init, Means
<1> QED
  BY <1>1, TypeInit DEF Init, IInv, TableCorrect

(* Every step keeps it.  The step that matters is an entry: its call has   *)
(* no entry before, because the table still says NO_VAL.                   *)
LEMMA InvStep == IInv /\ [Next]_vars => IInv'
<1> SUFFICES ASSUME IInv, [Next]_vars PROVE IInv'
  OBVIOUS
<1>a. TypeOK /\ TypeOK' /\ Len(file) \in Nat /\ line \in Nat
  BY TypeStep DEF IInv, TypeOK
<1>1. CASE OpenFails
  BY <1>1, <1>a DEF OpenFails, IInv, TableCorrect
<1>2. CASE Open
  <2>1. line = 1 /\ line' = 1 /\ file' = file /\ mact' = mact
    BY <1>2 DEF Open, IInv
  <2>2. TableCorrect'
    BY <1>2, <2>1 DEF Open, TableCorrect, CallNumbers
  <2>3. Means(line - 1, mact)'
    BY <1>2, <2>1 DEF Open, IInv, Means, Sets
  <2> QED
    BY <1>2, <1>a, <2>2, <2>3 DEF Open, IInv
<1>3. CASE SkipLine
  <2>1. line' - 1 = line /\ line <= Len(file) /\ file' = file /\ mact' = mact
        /\ ~file[line].entry /\ monitor_actions' = monitor_actions
    BY <1>3, <1>a DEF SkipLine
  <2>2. Means(line, mact)
    BY <1>3, <1>a, <2>1, MeaningSkip DEF SkipLine, IInv
  <2>3. Means(line - 1, mact)'
    BY <2>1, <2>2 DEF Means, Sets
  <2>4. TableCorrect'
    BY <1>3, <1>a, <2>1 DEF SkipLine, IInv, TableCorrect, Named, Means, Sets
  <2> QED
    BY <1>3, <1>a, <2>3, <2>4 DEF SkipLine, IInv
<1>4. CASE ReadEntry
  <2>1. CASE at' = "exit"
    BY <1>4, <1>a, <2>1 DEF ReadEntry, IInv, TableCorrect
  <2>2. CASE at' # "exit"
    <3> DEFINE c == file[line].key
    <3>1. /\ at = "read" /\ at' = "read" /\ line <= Len(file) /\ line' - 1 = line
          /\ file[line].entry /\ file' = file /\ mact' = EntryAction(file[line])
          /\ monitor_actions[c] = "NO_VAL"
          /\ monitor_actions' = [monitor_actions EXCEPT ![c] = mact']
      BY <1>4, <1>a, <2>2 DEF ReadEntry
    <3>2. Means(line, mact')
      BY <1>a, <3>1, MeaningStep DEF IInv
    <3>3. Means(line - 1, mact)'
      BY <3>1, <3>2 DEF Means, Sets
    <3>4. ASSUME NEW d \in Calls PROVE
             \/ /\ \A n \in 1..line : ~Named(n, d)
                /\ monitor_actions'[d] = "NO_VAL"
             \/ \E n \in 1..line :
                  /\ Named(n, d) /\ Means(n, monitor_actions'[d])
                  /\ \A m \in 1..line : Named(m, d) => m = n
      <4>0. monitor_actions \in [CallNumbers -> Actions] /\ d \in CallNumbers
        BY <1>a DEF TypeOK, CallNumbers
      <4>1. CASE d = c
        <5>1. \A n \in 1..(line - 1) : ~Named(n, d)
          BY <1>a, <3>1, <4>1, MeaningRecognised DEF IInv, TableCorrect, Recognised
        <5>2. Named(line, d) /\ monitor_actions'[d] = mact'
          BY <3>1, <4>0, <4>1 DEF Named
        <5>3. line \in 1..line
          BY <1>a DEF TypeOK
        <5>4. \A m \in 1..line : Named(m, d) => m = line
          BY <1>a, <5>1
        <5> QED
          BY <3>2, <5>2, <5>3, <5>4
      <4>2. CASE d # c
        <5>1. ~Named(line, d) /\ monitor_actions'[d] = monitor_actions[d]
          BY <3>1, <4>0, <4>2 DEF Named
        <5> QED
          BY <1>a, <3>1, <5>1 DEF IInv, TableCorrect
      <4> QED
        BY <4>1, <4>2
    <3>5. TableCorrect'
      BY <3>1, <3>4 DEF TableCorrect, Named, Means, Sets
    <3> QED
      BY <1>a, <3>1, <3>3, <3>5 DEF IInv
  <2> QED
    BY <2>1, <2>2
<1>5. CASE Close
  BY <1>5, <1>a DEF Close, IInv, TableCorrect, Named, Means, Sets
<1>6. CASE UNCHANGED vars
  BY <1>6, <1>a DEF vars, IInv, TableCorrect, Named, Means, Sets
<1> QED
  BY <1>1, <1>2, <1>3, <1>4, <1>5, <1>6 DEF Next, Terminated

(* Whatever the file, the table holds what each entry means: the last      *)
(* recognised value up to its line, ALLOW_LIND before the first.           *)
THEOREM TableMeansFile == Spec => []TableCorrect
<1>1. IInv => TableCorrect
  BY DEF IInv
<1> QED
  BY <1>1, InvInit, InvStep, PTL DEF Spec

(* No entry of the table is assigned twice.                                *)
THEOREM NoReassignment == Spec => AssignedOnce
<1>1. TypeOK /\ [Next]_vars =>
        [at = "read" => \A c \in CallNumbers :
           monitor_actions[c] # "NO_VAL"
             => monitor_actions'[c] = monitor_actions[c]]_vars
  BY DEF TypeOK, Next, OpenFails, Open, SkipLine, ReadEntry, Close, Terminated, vars
<1> QED
  BY <1>1, TypeInit, TypeStep, PTL DEF Spec, AssignedOnce

(* load_config never indexes the table outside it and the word before it,  *)
(* and stores nothing but actions there.                                   *)
THEOREM TypeCorrect == Spec => []TypeOK
BY TypeInit, TypeStep, PTL DEF Spec

(* A step into an exit keeps the line it stopped at.                       *)
LEMMA OutcomeStep == IInv /\ Outcome /\ [Next]_vars => Outcome'
<1> SUFFICES ASSUME IInv, Outcome, [Next]_vars PROVE Outcome'
  OBVIOUS
<1>a. TypeOK /\ Len(file) \in Nat /\ line \in Nat
  BY DEF IInv, TypeOK
<1>1. CASE OpenFails
  BY <1>1 DEF OpenFails, IInv, Outcome
<1>2. CASE Open \/ SkipLine
  BY <1>2 DEF Open, SkipLine, Outcome
<1>3. CASE ReadEntry
  <2>1. CASE at' = "exit"
    <3>1. /\ at = "read" /\ line' = line /\ file' = file
          /\ line <= Len(file) /\ file[line].entry
          /\ monitor_actions[file[line].key] # "NO_VAL"
      BY <1>3, <1>a, <2>1 DEF ReadEntry
    <3>2. file[line].key \in Calls =>
            \E n \in 1..(line - 1) : Named(n, file[line].key)
      BY <3>1 DEF IInv, TableCorrect
    <3>3. \A n : Named(n, file[line].key)' <=> Named(n, file[line].key)
      BY <3>1 DEF Named
    <3> QED
      BY <2>1, <3>1, <3>2, <3>3 DEF Outcome
  <2>2. CASE at' # "exit"
    BY <1>3, <2>2 DEF ReadEntry, Outcome
  <2> QED
    BY <2>1, <2>2
<1>4. CASE Close
  BY <1>4, <1>a DEF Close, TypeOK, Outcome
<1>5. CASE UNCHANGED vars
  BY <1>5 DEF vars, Outcome, Named
<1> QED
  BY <1>1, <1>2, <1>3, <1>4, <1>5 DEF Next, Terminated

(* load_config returns only when the whole file is read, and exits only    *)
(* for a duplicated or unknown name or a file it cannot open.              *)
THEOREM OutcomeCorrect == Spec => []Outcome
<1>1. Init => Outcome
  BY DEF Init, Outcome
<1> QED
  BY <1>1, InvInit, InvStep, OutcomeStep, PTL DEF Spec
-----------------------------------------------------------------------------
(* No two entries read so far have the same key, unknown names counting as *)
(* one key, since all of them are index -1.                                *)
KeysDistinct ==
  at \in {"read", "done"} =>
    \A m, n \in 1..(line - 1) :
      file[m].entry /\ file[n].entry /\ file[m].key = file[n].key => m = n

(* The table has an action for the key of every entry read so far, so that *)
(* a second one is refused.                                                *)
KeysTaken ==
  at \in {"read", "done"} =>
    \A n \in 1..(line - 1) : file[n].entry => monitor_actions[file[n].key] # "NO_VAL"

(* Every step keeps both.                                                  *)
LEMMA KeysStep ==
  TypeOK /\ (at = "open" => line = 1) /\ KeysDistinct /\ KeysTaken /\ [Next]_vars
    => KeysDistinct' /\ KeysTaken'
<1> SUFFICES ASSUME TypeOK, at = "open" => line = 1, KeysDistinct, KeysTaken, [Next]_vars
             PROVE  KeysDistinct' /\ KeysTaken'
  OBVIOUS
<1>a. Len(file) \in Nat /\ line \in Nat /\ line >= 1 /\ line <= Len(file) + 1
      /\ monitor_actions \in [CallNumbers -> Actions] /\ mact \in Recognised
  BY DEF TypeOK
<1>1. CASE OpenFails
  BY <1>1 DEF OpenFails, KeysDistinct, KeysTaken
<1>2. CASE Open
  <2>1. line' = 1
    BY <1>2 DEF Open
  <2> QED BY <2>1 DEF KeysDistinct, KeysTaken
<1>3. CASE SkipLine
  <2>1. /\ at = "read" /\ line' - 1 = line /\ file' = file /\ ~file[line].entry
        /\ monitor_actions' = monitor_actions
    BY <1>3, <1>a DEF SkipLine
  <2>2. \A n \in 1..line : file[n].entry => n \in 1..(line - 1)
    BY <1>a, <2>1
  <2> QED BY <2>1, <2>2 DEF KeysDistinct, KeysTaken
<1>4. CASE ReadEntry
  <2>1. CASE at' = "exit"
    BY <2>1 DEF KeysDistinct, KeysTaken
  <2>2. CASE at' # "exit"
    <3> DEFINE c == file[line].key
    <3>1. /\ at = "read" /\ line <= Len(file) /\ line' - 1 = line /\ file' = file
          /\ monitor_actions[c] = "NO_VAL" /\ mact' = EntryAction(file[line])
          /\ monitor_actions' = [monitor_actions EXCEPT ![c] = mact']
      BY <1>4, <1>a, <2>2 DEF ReadEntry
    <3>2. mact' # "NO_VAL"
      BY <1>a, <3>1 DEF EntryAction, Recognised
    <3>3. \A n \in 1..line : n = line \/ n \in 1..(line - 1)
      BY <1>a
    <3>4. \A n \in 1..(line - 1) : file[n].entry => file[n].key # c
      BY <3>1 DEF KeysTaken
    <3>5. c \in CallNumbers /\ \A n \in 1..(line - 1) : file[n].key \in CallNumbers
      <4>1. \A n \in 1..line : file[n] \in Chunks
        BY <1>a, <3>1 DEF TypeOK
      <4>2. line \in 1..line
        BY <1>a
      <4> QED BY <1>a, <4>1, <4>2 DEF Chunks
    <3>6. KeysDistinct'
      BY <3>1, <3>3, <3>4 DEF KeysDistinct
    <3>7. \A n \in 1..line : file[n].entry => monitor_actions'[file[n].key] # "NO_VAL"
      BY <1>a, <3>1, <3>2, <3>3, <3>5 DEF KeysTaken
    <3> QED BY <3>1, <3>6, <3>7 DEF KeysTaken
  <2> QED BY <2>1, <2>2
<1>5. CASE Close
  BY <1>5 DEF Close, KeysDistinct, KeysTaken
<1>6. CASE UNCHANGED vars
  BY <1>6 DEF vars, KeysDistinct, KeysTaken
<1> QED BY <1>1, <1>2, <1>3, <1>4, <1>5, <1>6 DEF Next, Terminated

(* load_config accepts no file that names a call twice, nor one with two   *)
(* unknown names: whatever the word before the table holds, the first      *)
(* unknown name leaves an action there and the second is refused.          *)
THEOREM DuplicatesRefused ==
  Spec => [](at = "done" =>
    \A m, n \in 1..Len(file) :
      file[m].entry /\ file[n].entry /\ file[m].key = file[n].key => m = n)
<1> DEFINE Distinct == at = "done" =>
             \A m, n \in 1..Len(file) :
               file[m].entry /\ file[n].entry /\ file[m].key = file[n].key => m = n
<1>1. Init => KeysDistinct /\ KeysTaken
  BY DEF Init, KeysDistinct, KeysTaken
<1>2. IInv /\ KeysDistinct /\ KeysTaken /\ [Next]_vars => KeysDistinct' /\ KeysTaken'
  BY KeysStep DEF IInv
<1>3. IInv /\ Outcome /\ KeysDistinct => Distinct
  <2> SUFFICES ASSUME IInv, Outcome, KeysDistinct, at = "done"
               PROVE  \A m, n \in 1..Len(file) :
                        file[m].entry /\ file[n].entry /\ file[m].key = file[n].key => m = n
    OBVIOUS
  <2>1. Len(file) \in Nat /\ line - 1 = Len(file)
    BY DEF IInv, TypeOK, Outcome
  <2> QED BY <2>1 DEF KeysDistinct
<1> HIDE DEF Distinct
<1>4. Spec => []Distinct
  BY <1>1, <1>2, <1>3, InvInit, InvStep, OutcomeCorrect, PTL DEF Spec
<1> QED BY <1>4 DEF Distinct
=============================================================================
