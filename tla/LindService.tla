---------------------------- MODULE LindService ----------------------------
(***************************************************************************)
(* Abstract specification of a call of a lind_* wrapper, as the handlers   *)
(* of lind_monitor.c rely on it: Lind performs the operation once or not   *)
(* at all, and the wrapper comes back only if Lind has answered, with the  *)
(* value that stands for the answer and without touching the caller's      *)
(* buffer unless the operation has succeeded.  A call that Lind does not   *)
(* answer is lost: it never comes back, and the monitor goes down with it. *)
(*                                                                         *)
(* It is the interface of two modules: LindGateway, which works a call out *)
(* in detail, and Monitor, for which it is one step, both implement it.    *)
(***************************************************************************)

VARIABLES
  st,      \* "off", "idle", "asked", "served", "lost", "mapping" or "crashed"
  ready,   \* Lind's functions have been loaded
  answer,  \* what Lind has answered to the running call
  back,    \* the value the last wrapper has returned
  filled   \* it has written to the caller's buffer

vars == <<st, ready, answer, back, filled>>

Answers == {"ok", "err", "odd"}   \* odd: not one ParseResponse can read
Value(a) == IF a = "ok" THEN "code" ELSE IF a = "err" THEN "minus1" ELSE "zero"

Init ==
  /\ st = "off" /\ ready = FALSE
  /\ answer = "none" /\ back = "zero" /\ filled = FALSE

(* LindPythonInit succeeds or fails.                                       *)
Start ==
  /\ st = "off" /\ st' = "idle"
  /\ ready' \in BOOLEAN
  /\ UNCHANGED <<answer, back, filled>>

(* A handler calls a wrapper.                                              *)
Ask ==
  /\ st = "idle" /\ st' = "asked"
  /\ back' = "zero" /\ filled' = FALSE
  /\ UNCHANGED <<ready, answer>>

(* Lind performs the operation and answers.                                *)
Serve ==
  /\ st = "asked" /\ ready /\ st' = "served"
  /\ answer' \in Answers
  /\ UNCHANGED <<ready, back, filled>>

(* There is no answer: an exception, no such function, no arguments.       *)
Lose ==
  /\ st = "asked" /\ st' = "lost"
  /\ UNCHANGED <<ready, answer, back, filled>>

(* The wrapper returns.                                                    *)
Reply ==
  /\ st = "served" /\ st' = "idle"
  /\ back' = Value(answer)
  /\ filled' \in IF answer = "ok" THEN BOOLEAN ELSE {FALSE}
  /\ answer' = "none"
  /\ UNCHANGED ready

(* add_mapping and get_mapping: no part of the answer to a call.           *)
Map ==
  /\ st = "idle" /\ st' = "mapping"
  /\ UNCHANGED <<ready, answer, back, filled>>

Mapped ==
  /\ st = "mapping" /\ st' = "idle"
  /\ UNCHANGED <<ready, answer, back, filled>>

(* The monitor goes down: in a call, before it could start Lind, or for a  *)
(* reason of its own.                                                      *)
Crash ==
  /\ st # "crashed" /\ st' = "crashed"
  /\ answer' = "none" /\ back' = "zero" /\ filled' = FALSE
  /\ UNCHANGED ready

Next == Start \/ Ask \/ Serve \/ Lose \/ Reply \/ Map \/ Mapped \/ Crash

Spec == Init /\ [][Next]_vars
=============================================================================
