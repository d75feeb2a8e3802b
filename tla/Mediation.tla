------------------------------ MODULE Mediation ------------------------------
(***************************************************************************)
(* What the monitor promises the traced program about one system call,     *)
(* without stops, registers or the "entering" flag: the kernel runs the    *)
(* call, then Lind does if the call is Lind's, then the program gets one   *)
(* answer.  At any time the program may be lost to the monitor (it dies,   *)
(* or one of the two stops mediating); no answer is given after that.      *)
(***************************************************************************)
EXTENDS Naturals

VARIABLES
  phase,   \* "idle": the program runs; "asked": it is in a call; "over"
  kind,    \* whose the current call is
  kernel,  \* how often the kernel has run it
  lind,    \* Lind's result ("odd": not understood), "none" before
  value    \* the last answer given to the program

medVars == <<phase, kind, kernel, lind, value>>

(* kernel: passed to the kernel.  lind: served by Lind.  fallback: served  *)
(* by Lind, by the kernel if Lind fails.  unsupported: refused.  denied:   *)
(* never answered.                                                         *)
Kinds == {"kernel", "lind", "fallback", "unsupported", "denied"}

Answer(k, l) ==
  CASE k = "lind"                   -> l
    [] k = "fallback" /\ l # "err"  -> l
    [] k = "unsupported"            -> "einval"
    [] OTHER                        -> "os"

MedInit ==
  /\ phase = "idle" /\ kind = "none" /\ kernel = 0
  /\ lind = "none" /\ value = "none"

Ask ==
  /\ phase = "idle"
  /\ phase' = "asked" /\ kind' \in Kinds
  /\ kernel' = 0 /\ lind' = "none" /\ value' = "none"

RunKernel ==
  /\ phase = "asked" /\ kernel = 0
  /\ kernel' = 1
  /\ UNCHANGED <<phase, kind, lind, value>>

RunLind ==
  /\ phase = "asked" /\ kind \in {"lind", "fallback"}
  /\ kernel = 1 /\ lind = "none"
  /\ lind' \in {"ok", "err", "odd"}
  /\ UNCHANGED <<phase, kind, kernel, value>>

Return ==
  /\ phase = "asked" /\ kind # "denied"
  /\ kernel = 1 /\ (kind \in {"lind", "fallback"} => lind # "none")
  /\ value' = Answer(kind, lind)
  /\ phase' = "idle" /\ kind' = "none" /\ kernel' = 0 /\ lind' = "none"

Abandon ==
  /\ phase # "over"
  /\ phase' = "over" /\ kind' = "none" /\ kernel' = 0
  /\ lind' = "none" /\ value' = "none"

MedNext == Ask \/ RunKernel \/ RunLind \/ Return \/ Abandon

MedSpec == MedInit /\ [][MedNext]_medVars
=============================================================================
