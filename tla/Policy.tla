------------------------------- MODULE Policy -------------------------------
(***************************************************************************)
(* load_config of lind_monitor.c: the configuration file becomes the table *)
(* monitor_actions that intercept_calls dispatches on.                     *)
(*                                                                         *)
(* The file is a sequence of chunks, a chunk being what one fgets returns: *)
(* a line, or up to 99 bytes of a long one.  A chunk without "=", or that  *)
(* begins with "#" or a newline, is no entry.  A value is recognised only  *)
(* with its newline: the last line of a file without one is "other", and   *)
(* so is a misspelt value.                                                 *)
(***************************************************************************)
EXTENDS Integers, Sequences

CONSTANTS
  Calls,   \* the names in syscall_names
  Files    \* the contents the configuration file may have

NoCall      == "none"   \* get_syscall_num finds no such name: index -1
CallNumbers == Calls \cup {NoCall}
Actions     == {"ALLOW_LIND", "DENY_LIND", "ALLOW_OS", "NO_VAL"}
Recognised  == {"ALLOW_LIND", "DENY_LIND", "ALLOW_OS"}
Chunks == [entry : BOOLEAN, key : CallNumbers, value : Recognised \cup {"other"}]

ASSUME NameAssumption == NoCall \notin Calls
ASSUME FileAssumption == Files \subseteq Seq(Chunks)

VARIABLES
  at,               \* "open", "read", "done" or "exit"
  file,             \* the chunks
  line,             \* the next chunk
  mact,             \* the action of the last entry
  monitor_actions   \* the table, and the word before it (index -1)

vars == <<at, file, line, mact, monitor_actions>>

(* The table is zero, ALLOW_LIND, before it is reset; the word before it   *)
(* belongs to something else.                                              *)
Init ==
  /\ at = "open" /\ file \in Files /\ line = 1 /\ mact = "ALLOW_LIND"
  /\ monitor_actions \in [CallNumbers -> Actions]
  /\ \A c \in Calls : monitor_actions[c] = "ALLOW_LIND"

(* The file cannot be opened.                                              *)
OpenFails ==
  /\ at = "open" /\ at' = "exit"
  /\ UNCHANGED <<file, line, mact, monitor_actions>>

Open ==
  /\ at = "open" /\ at' = "read"
  /\ monitor_actions' = [c \in CallNumbers |-> IF c \in Calls THEN "NO_VAL"
                                               ELSE monitor_actions[c]]
  /\ UNCHANGED <<file, line, mact>>

SkipLine ==
  /\ at = "read" /\ line <= Len(file) /\ ~file[line].entry
  /\ line' = line + 1
  /\ UNCHANGED <<at, file, mact, monitor_actions>>

(* Faulty variants: any value is stored; an unrecognised one is ALLOW_LIND. *)
EntryActionAny(chunk) == chunk.value
EntryActionDefault(chunk) ==
  IF chunk.value \in Recognised THEN chunk.value ELSE "ALLOW_LIND"

(* The action of an entry: its value, or that of the previous entry.       *)
EntryAction(chunk) == IF chunk.value \in Recognised THEN chunk.value ELSE mact

(* A faulty variant: the last entry of a call wins.                        *)
ReadEntryOverwrites ==
  /\ at = "read" /\ line <= Len(file) /\ file[line].entry
  /\ mact' = EntryAction(file[line])
  /\ monitor_actions' = [monitor_actions EXCEPT ![file[line].key] = mact']
  /\ line' = line + 1 /\ UNCHANGED <<at, file>>

ReadEntry ==
  /\ at = "read" /\ line <= Len(file) /\ file[line].entry
  /\ mact' = EntryAction(file[line])
  /\ \/ /\ monitor_actions[file[line].key] = "NO_VAL"
        /\ monitor_actions' = [monitor_actions EXCEPT ![file[line].key] = mact']
        /\ line' = line + 1 /\ UNCHANGED at
     \/ /\ monitor_actions[file[line].key] # "NO_VAL" \* "Duplicated call"
        /\ at' = "exit" /\ UNCHANGED <<line, monitor_actions>>
  /\ UNCHANGED file

(* A faulty variant: reading stops early.                                  *)
CloseEarly ==
  /\ at = "read" /\ at' = "done"
  /\ UNCHANGED <<file, line, mact, monitor_actions>>

Close ==
  /\ at = "read" /\ line > Len(file) /\ at' = "done"
  /\ UNCHANGED <<file, line, mact, monitor_actions>>

Terminated == at \in {"done", "exit"} /\ UNCHANGED vars

Next == OpenFails \/ Open \/ SkipLine \/ ReadEntry \/ Close \/ Terminated

Spec == Init /\ [][Next]_vars

-----------------------------------------------------------------------------
(* Every variable keeps its type.                                          *)
TypeOK ==
  /\ at \in {"open", "read", "done", "exit"}
  /\ file \in Seq(Chunks) /\ line \in 1..(Len(file) + 1)
  /\ mact \in Recognised
  /\ monitor_actions \in [CallNumbers -> Actions]

(* Entry n gives the action a: the value of the latest recognised entry up *)
(* to n, ALLOW_LIND before the first.                                      *)
Sets(n) == file[n].entry /\ file[n].value \in Recognised
Means(n, a) ==
  \/ /\ \A k \in 1..n : ~Sets(k)
     /\ a = "ALLOW_LIND"
  \/ \E k \in 1..n : /\ Sets(k) /\ a = file[k].value
                     /\ \A j \in (k + 1)..n : ~Sets(j)

Named(n, c) == file[n].entry /\ file[n].key = c

(* The table says of each call read so far what its only entry means, and  *)
(* NO_VAL of every other call.                                             *)
TableCorrect ==
  at \in {"read", "done"} =>
    \A c \in Calls :
      \/ /\ \A n \in 1..(line - 1) : ~Named(n, c)
         /\ monitor_actions[c] = "NO_VAL"
      \/ \E n \in 1..(line - 1) :
           /\ Named(n, c) /\ Means(n, monitor_actions[c])
           /\ \A m \in 1..(line - 1) : Named(m, c) => m = n

(* The whole file has been read when load_config returns, and it refuses   *)
(* a file only if a call is named twice, a name is unknown or the file     *)
(* cannot be opened.                                                       *)
Outcome ==
  /\ at = "done" => line = Len(file) + 1
  /\ at = "exit" /\ line > 1 =>
       /\ line <= Len(file) /\ file[line].entry
       /\ file[line].key \in Calls => \E n \in 1..(line - 1) : Named(n, file[line].key)

(* The inductive invariant: mact stands for the chunks read so far.        *)
IInv ==
  /\ TypeOK /\ TableCorrect
  /\ at = "open" => line = 1
  /\ at \in {"open", "read"} => Means(line - 1, mact)

(* Once the table is reset, an action is assigned once and never replaced. *)
AssignedOnce ==
  [][at = "read" => \A c \in CallNumbers :
       monitor_actions[c] # "NO_VAL" => monitor_actions'[c] = monitor_actions[c]]_vars
=============================================================================
