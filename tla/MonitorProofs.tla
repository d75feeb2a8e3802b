---------------------------- MODULE MonitorProofs ----------------------------
(***************************************************************************)
(* Proofs about module Monitor, for every set of calls, every set of       *)
(* policies and every set of faults.                                       *)
(***************************************************************************)
EXTENDS Monitor, TLAPS

USE PolicyAssumption, CallsAssumption, NoCallAssumption

(* The sets of constants the type of a variable refers to.                 *)
LEMMA TablesTyped == Tables \subseteq [CallNumbers -> Actions]
BY DEF Tables, CallNumbers

(* set_args stores a register file or does nothing.                        *)
LEMMA SetArgsTyped ==
  ASSUME NEW r \in RegFile, ureg \in RegFile, set_args(r)
  PROVE  ureg' \in RegFile
BY DEF set_args

(* Every state a step of ptrace leads to is a state of the tracee.         *)
LEMMA TraceeTyped ==
  ASSUME tr \in TraceeStates
  PROVE  Resumed(tr) \in TraceeStates /\ Detached(tr) \in TraceeStates
BY DEF Resumed, Detached, TraceeStates, Running, Stopped, Zombies, Gone

(* What waitpid reports is a status.                                       *)
LEMMA ReportTyped == Report(tr) \in Statuses
BY DEF Report, Statuses

(* A result computed by a handler is a result.                             *)
LEMMA RetValTyped ==
  ASSUME NEW k, NEW l, NEW os \in Results
  PROVE  RetVal(k, l, os) \in Results
BY DEF RetVal, Results

(* What set_mem leaves behind an argument is memory.                       *)
LEMMA WriteBackTyped ==
  ASSUME NEW row, NEW i \in ArgNo, ubuf \in [ArgNo -> Memory]
  PROVE  WriteBack(row, i) \in Memory
<1>1. /\ ubuf[i].head \in Contents /\ ubuf[i].rest \in Contents
      /\ ubuf[i].beyond \in Contents
  BY DEF Memory
<1>2. ASSUME NEW old \in Contents PROVE Poked(row, i, old) \in Contents
  BY DEF Poked, Contents
<1>3. "junk" \in Contents
  BY DEF Contents
<1> QED
  BY <1>1, <1>2, <1>3 DEF WriteBack, Memory

(* What a wrapper is given is a content or nothing.                        *)
LEMMA SentTyped ==
  ASSUME NEW row, NEW i \in ArgNo, ubuf \in [ArgNo -> Memory]
  PROVE  Sent(row, i) \in Contents \cup {"none"}
<1>1. ubuf[i].head \in Contents
  BY DEF Memory
<1> QED
  BY <1>1 DEF Sent, Contents

(* The history after a Lind operation is a history.                        *)
LEMMA LindTyped ==
  ASSUME NEW h \in History, NEW l \in LindResults,
         NEW g \in [ArgNo -> Contents \cup {"none"}]
  PROVE  [h EXCEPT !.linds = @ + 1, !.lres = l, !.given = g] \in History
<1>1. [h EXCEPT !.linds = @ + 1] \in History
  BY DEF History
<1>2. ASSUME NEW k \in History PROVE [k EXCEPT !.lres = l] \in History
  BY DEF History
<1>3. ASSUME NEW k \in History PROVE [k EXCEPT !.given = g] \in History
  BY DEF History
<1> QED
  BY <1>1, <1>2, <1>3

(* What a call may write is behind its arguments.                          *)
LEMMA OutputsTyped == ASSUME NEW c PROVE Outputs(c) \subseteq ArgNo
BY DEF Outputs, ArgNo

(* A run of the kernel adds to the history that it happened and what it    *)
(* wrote, and stores a result.                                             *)
LEMMA KernelRun ==
  ASSUME NativeRun, cur \in History, ureg \in RegFile, ubuf \in [ArgNo -> Memory]
  PROVE  /\ cur' \in History /\ ureg' \in RegFile /\ ubuf' \in [ArgNo -> Memory]
         /\ cur'.call = cur.call /\ cur'.args = cur.args /\ cur'.size = cur.size
         /\ cur'.bad = cur.bad /\ cur'.given = cur.given /\ cur'.lres = cur.lres
         /\ cur'.linds = cur.linds /\ cur'.osruns = cur.osruns + 1
         /\ ureg'.call = ureg.call /\ ureg'.args = ureg.args
<1>1. CASE cur' = [cur EXCEPT !.osruns = @ + 1] /\ UNCHANGED <<ureg, ubuf>>
  BY <1>1 DEF History
<1>2. ASSUME NEW r \in {"os_ok", "os_err"}, NEW w \in SUBSET Outputs(ureg.call),
             ureg' = [ureg EXCEPT !.rax = r],
             ubuf' = [i \in ArgNo |->
                        IF i \in w THEN [Own EXCEPT !.head = "os", !.rest = "os"]
                        ELSE ubuf[i]],
             cur' = [cur EXCEPT !.osruns = @ + 1, !.wrote = w]
      PROVE  /\ cur' \in History /\ ureg' \in RegFile /\ ubuf' \in [ArgNo -> Memory]
             /\ cur'.call = cur.call /\ cur'.args = cur.args /\ cur'.size = cur.size
             /\ cur'.bad = cur.bad /\ cur'.given = cur.given /\ cur'.lres = cur.lres
             /\ cur'.linds = cur.linds /\ cur'.osruns = cur.osruns + 1
             /\ ureg'.call = ureg.call /\ ureg'.args = ureg.args
  <2>1. w \in SUBSET ArgNo
    BY OutputsTyped
  <2>2. cur' \in History
    <3>1. [cur EXCEPT !.osruns = @ + 1] \in History
      BY DEF History
    <3>2. ASSUME NEW k \in History PROVE [k EXCEPT !.wrote = w] \in History
      BY <2>1 DEF History
    <3> QED
      BY <1>2, <3>1, <3>2
  <2>3. ureg' \in RegFile /\ ureg'.call = ureg.call /\ ureg'.args = ureg.args
    BY <1>2 DEF RegFile, Results
  <2>4. [Own EXCEPT !.head = "os", !.rest = "os"] \in Memory
    BY DEF Own, Memory, Contents
  <2>5. ubuf' \in [ArgNo -> Memory]
    BY <1>2, <2>4
  <2>6. /\ cur'.call = cur.call /\ cur'.args = cur.args /\ cur'.size = cur.size
        /\ cur'.bad = cur.bad /\ cur'.given = cur.given /\ cur'.lres = cur.lres
        /\ cur'.linds = cur.linds /\ cur'.osruns = cur.osruns + 1
    BY <1>2 DEF History
  <2> QED
    BY <2>2, <2>3, <2>5, <2>6
<1> QED
  BY <1>1, <1>2 DEF NativeRun

(* A new call is one of these.                                             *)
LEMMA IssuedCall ==
  ASSUME NEW c \in Calls, Issue(c)
  PROVE  \E a \in [ArgNo -> ArgValues], size \in Sizes, bad \in SUBSET ArgNo :
           /\ ureg' = [call |-> c, rax |-> "enosys", args |-> a]
           /\ cur' = [call |-> c, args |-> a, size |-> size, bad |-> bad,
                      osruns |-> 0, linds |-> 0, wrote |-> {}, lres |-> "none",
                      given |-> Nothing]
           /\ bad # {} => "badpath" \in Faults
<1>1. PICK neg \in SUBSET (Row(c).signed \cup (IF c = "mmap" THEN {5} ELSE {})),
           bad \in IF "badpath" \in Faults THEN SUBSET PathArgs(c) ELSE {{}},
           size \in BlockSizes(c) :
        LET a == [i \in ArgNo |-> IF i \in neg THEN "neg" ELSE "prog"] IN
          /\ ureg' = [call |-> c, rax |-> "enosys", args |-> a]
          /\ cur' = [call |-> c, args |-> a, size |-> size, bad |-> bad,
                     osruns |-> 0, linds |-> 0, wrote |-> {}, lres |-> "none",
                     given |-> Nothing]
  BY DEF Issue
<1>2. [i \in ArgNo |-> IF i \in neg THEN "neg" ELSE "prog"] \in [ArgNo -> ArgValues]
  BY DEF ArgValues
<1>3. size \in Sizes
  BY DEF BlockSizes, Sizes
<1>4. bad \in SUBSET ArgNo /\ (bad # {} => "badpath" \in Faults)
  BY DEF PathArgs
<1> QED
  BY <1>1, <1>2, <1>3, <1>4

(* The initial state is typed.                                             *)
LEMMA TypeInit == Init => TypeOK
<1> SUFFICES ASSUME Init PROVE TypeOK
  OBVIOUS
<1>1. monitor_actions \in [CallNumbers -> Actions]
  BY TablesTyped DEF Init
<1>2. NoArgs \in [ArgNo -> ArgValues] /\ "read" \in CallNumbers
      /\ NoCall \in CallNumbers
  BY DEF NoArgs, ArgValues, CallNumbers
<1>3. regs \in RegFile /\ ureg \in RegFile
  BY <1>2 DEF Init, RegFile, Results
<1>4. cur \in History
  <2>1. Nothing \in [ArgNo -> Contents \cup {"none"}]
    BY DEF Nothing
  <2> QED
    BY <1>2, <2>1 DEF Init, History, Sizes
<1>5. ubuf \in [ArgNo -> Memory]
  BY DEF Init, Own, Memory, Contents
<1> QED
  BY <1>1, <1>3, <1>4, <1>5
  DEF Init, TypeOK, MonitorStates, Statuses, TraceeStates, Running

(* Every step keeps the types.                                             *)
LEMMA TypeStep == TypeOK /\ [Next]_vars => TypeOK'
<1> SUFFICES ASSUME TypeOK, [Next]_vars PROVE TypeOK'
  OBVIOUS
<1> USE DEF TypeOK, monitorVars, traceeVars
<1>a. Crash => TypeOK'
  BY TraceeTyped DEF Crash, MonitorStates, Ended
<1>b. WaitPid => status' \in Statuses /\ tr' \in TraceeStates
  BY ReportTyped DEF WaitPid, TraceeStates, Gone
<1>1. CASE StopSelf
  BY <1>1 DEF StopSelf, TraceeStates, Stopped
<1>2. ASSUME NEW c \in Calls, Issue(c) PROVE TypeOK'
  <2>1. PICK a \in [ArgNo -> ArgValues], size \in Sizes, bad \in SUBSET ArgNo :
          /\ ureg' = [call |-> c, rax |-> "enosys", args |-> a]
          /\ cur' = [call |-> c, args |-> a, size |-> size, bad |-> bad,
                     osruns |-> 0, linds |-> 0, wrote |-> {}, lres |-> "none",
                     given |-> Nothing]
    BY <1>2, IssuedCall
  <2>2. ureg' \in RegFile /\ cur' \in History
    BY <2>1 DEF RegFile, History, Results, CallNumbers, Nothing
  <2>3. ubuf' \in [ArgNo -> Memory]
    BY <1>2 DEF Issue, Own, Memory, Contents
  <2> QED
    BY <1>2, <2>2, <2>3 DEF Issue, TraceeStates, Stopped
<1>3. CASE NativeRun
  BY <1>3, KernelRun DEF NativeRun, TraceeStates, Stopped, Gone
<1>4. CASE SignalStop
  BY <1>4 DEF SignalStop, TraceeStates, Stopped, RegFile, CallNumbers
<1>5. CASE Kill
  BY <1>5 DEF Kill, TraceeStates
<1>6. CASE Die
  BY <1>6 DEF Die, TraceeStates, Stopped, Zombies
<1>7. CASE PythonInit
  BY <1>7 DEF PythonInit, MonitorStates
<1>8. CASE FirstWait
  BY <1>8, <1>b DEF FirstWait, MonitorStates
<1>9. CASE Continue
  BY <1>9, TraceeTyped DEF Continue, MonitorStates
<1>10. CASE Wait
  <2>1. status' \in Statuses /\ tr' \in TraceeStates
    BY <1>10, <1>b DEF Wait
  <2>2. pc' \in MonitorStates
    BY <1>10 DEF Wait, MonitorStates, Ended
  <2> QED
    BY <1>10, <2>1, <2>2 DEF Wait
<1>11. CASE get_args
  BY <1>11 DEF get_args, MonitorStates
<1>12. CASE NoHandler
  BY <1>12 DEF NoHandler, MonitorStates
<1>13. CASE monitor_deny
  <2>1. regs' \in RegFile
    BY <1>13 DEF monitor_deny, RegFile, Results
  <2>2. ureg' \in RegFile
    BY <1>13, <2>1 DEF monitor_deny, set_args
  <2> QED
    BY <1>13, <2>1, <2>2, TraceeTyped DEF monitor_deny, MonitorStates, Ended
<1>14. CASE monitor_exit
  BY <1>14 DEF monitor_exit, MonitorStates
<1>15. CASE EntryHalf
  BY <1>15 DEF EntryHalf, MonitorStates
<1>16. CASE ExecveEntry
  BY <1>16 DEF ExecveEntry, MonitorStates, Handling
<1>17. CASE MmapEntry
  <2>1. regs' \in RegFile
    BY <1>17 DEF MmapEntry, RegFile, ArgValues
  <2>2. ureg' \in RegFile
    BY <1>17, <2>1 DEF MmapEntry, set_args
  <2> QED
    BY <1>17, <2>1, <2>2 DEF MmapEntry, MonitorStates
<1>18. CASE MmapCrash
  BY <1>18, <1>a DEF MmapCrash
<1>19. CASE ExitHalf
  BY <1>19 DEF ExitHalf, AfterPaths, MonitorStates, Handling
<1>20. CASE get_path
  BY <1>20 DEF get_path, AfterPaths, MonitorStates, Handling
<1>21. CASE BadPath
  BY <1>21, <1>a DEF BadPath
<1>22. CASE LindCall
  <2>0. lret' \in LindResults
    BY <1>22 DEF LindCall, LindResults
  <2>1. cur' \in History
    BY <1>22, <2>0, LindTyped, SentTyped DEF LindCall
  <2> QED
    BY <1>22, <2>0, <2>1 DEF LindCall, MonitorStates, Handling
<1>23. CASE LindCrash
  BY <1>23, <1>a DEF LindCrash
<1>24. CASE Reply
  <2> DEFINE row == Row(regs.call)
             new == [call |-> regs.call,
                     rax  |-> RetVal(row.ret, lret, regs.rax),
                     args |-> [i \in ArgNo |-> IF i \in row.dirty THEN "mon"
                                               ELSE regs.args[i]]]
  <2>1. new \in RegFile
    <3>1. RetVal(row.ret, lret, regs.rax) \in Results
      BY RetValTyped DEF RegFile
    <3>2. new.args \in [ArgNo -> ArgValues]
      BY DEF RegFile, ArgValues
    <3> QED
      BY <3>1, <3>2 DEF RegFile
  <2>2. regs' = new /\ (ureg' = ureg \/ ureg' = new)
    BY <1>24 DEF Reply, set_args
  <2>3. ubuf' \in [ArgNo -> Memory]
    BY <1>24, WriteBackTyped DEF Reply
  <2> HIDE DEF new
  <2> QED
    BY <1>24, <2>1, <2>2, <2>3 DEF Reply, MonitorStates
<1>25. CASE UNCHANGED vars
  BY <1>25 DEF vars
<1> QED
  BY <1>1, <1>2, <1>3, <1>4, <1>5, <1>6, <1>7, <1>8, <1>9, <1>10, <1>11,
     <1>12, <1>13, <1>14, <1>15, <1>16, <1>17, <1>18, <1>19, <1>20, <1>21,
     <1>22, <1>23, <1>24, <1>25
  DEF Next, MonitorStep, LindStep, KernelStep, Terminated

(* Every variable of the monitor keeps its type: no handler, whatever its  *)
(* row, and no failing request makes up a value of another kind.           *)
THEOREM TypeCorrect == Spec => []TypeOK
BY TypeInit, TypeStep, PTL DEF Spec

-----------------------------------------------------------------------------
(* No call of the ALLOW_OS switch reaches Lind.                            *)
LEMMA OsRowsNative ==
  ASSUME NEW c, Action(c) = "ALLOW_OS"
  PROVE  ~PerformsLind(Row(c))
BY DEF Row, Handler, OsSwitch, PerformsLind, LindRets, monitor_os, monitor_execve,
       monitor_tgkill, monitor_getcwd, monitor_arch_prctl, monitor_munmap,
       monitor_mmap, monitor_mprotect, monitor_gettid, monitor_brk, Native

(* The inductive invariant holds initially.                                *)
LEMMA InvInit == Init => IInv
<1> SUFFICES ASSUME Init PROVE IInv
  OBVIOUS
<1>1. TypeOK
  BY TypeInit
<1> QED
  BY <1>1 DEF Init, IInv, IdleInv, EntryInv, ExitInv, ServeInv, EndInv, Counts,
     Ended, Gone

(* Every step keeps it: the tracee's, the kernel's and the monitor's.      *)
LEMMA InvStep == IInv /\ [Next]_vars => IInv'
<1> SUFFICES ASSUME IInv, [Next]_vars PROVE IInv'
  OBVIOUS
<1>0. TypeOK'
  BY TypeStep DEF IInv
<1> USE <1>0 DEF IInv, IdleInv, EntryInv, ExitInv, ServeInv, EndInv, TypeOK,
                 monitorVars, traceeVars, Action, Toggling, Same, Counts,
                 Served, NeedsLind, Refused, Row, AtSyscall, AfterPaths, Ended,
                 Gone
<1>1. CASE StopSelf
  BY <1>1 DEF StopSelf
<1>2. ASSUME NEW c \in Calls, Issue(c) PROVE IInv'
  BY <1>2 DEF Issue
<1>3. CASE NativeRun
  <2>1. /\ cur'.call = cur.call /\ cur'.args = cur.args
        /\ cur'.linds = cur.linds /\ cur'.osruns = cur.osruns + 1
    BY <1>3, KernelRun
  <2>2. ureg'.call = ureg.call /\ ureg'.args = ureg.args
    BY <1>3, KernelRun
  <2>a. UNCHANGED <<monitor_actions, pc, ready, status, regs, entering, lret, killed>>
    BY <1>3 DEF NativeRun
  <2>3. CASE tr = "kernel"
    <3>1. tr' = IF ureg.call \in ExitCalls THEN "event" ELSE "exit"
      BY <1>3, <2>3 DEF NativeRun
    <3> QED
      BY <2>1, <2>2, <2>a, <2>3, <3>1
  <2>4. CASE tr = "freecall"
    <3>1. tr' \in {"reaped", "free"}
      BY <1>3, <2>4 DEF NativeRun
    <3> QED
      BY <2>1, <2>2, <2>a, <2>4, <3>1
  <2> QED
    BY <1>3, <2>3, <2>4 DEF NativeRun
<1>4. CASE SignalStop
  BY <1>4 DEF SignalStop
<1>5. CASE Kill
  BY <1>5 DEF Kill, Alive, Zombies
<1>6. CASE Die
  BY <1>6 DEF Die
<1>7. CASE PythonInit
  BY <1>7 DEF PythonInit
<1>8. CASE FirstWait
  BY <1>8 DEF FirstWait, WaitPid, Waitable, Report, Stopped, Zombies
<1>9. CASE Continue
  BY <1>9 DEF Continue, Resumed
<1>10. CASE Wait
  <2>1. CASE tr \in Stopped
    <3>1. tr' = tr /\ pc' = "fetch" /\ status' = Report(tr)
      BY <1>10, <2>1 DEF Wait, WaitPid, Report, Stopped, Zombies
    <3> QED
      BY <1>10, <2>1, <3>1 DEF Wait, Report, Stopped
  <2>2. CASE tr \notin Stopped
    <3>1. tr' = "reaped" /\ pc' \in {"done", "exit"}
      BY <1>10, <2>2 DEF Wait, WaitPid, Waitable, Report, Zombies
    <3> QED
      BY <1>10, <3>1 DEF Wait
  <2> QED
    BY <2>1, <2>2
<1>11. CASE get_args
  BY <1>11 DEF get_args, Stopped
<1>12. CASE NoHandler
  BY <1>12 DEF NoHandler
<1>13. CASE monitor_deny
  BY <1>13 DEF monitor_deny, Detached, set_args
<1>14. CASE monitor_exit
  BY <1>14 DEF monitor_exit
<1>15. CASE EntryHalf
  BY <1>15 DEF EntryHalf, Handled, OsCall
<1>16. CASE ExecveEntry
  BY <1>16 DEF ExecveEntry, Handled, OsCall
<1>17. CASE MmapEntry
  <2>1. regs'.call = regs.call /\ ureg'.call \in {ureg.call, regs.call}
    BY <1>17 DEF MmapEntry, set_args, RegFile
  <2>2. /\ Action(regs.call) = "ALLOW_OS" /\ Toggling(regs.call)
        /\ entering /\ status = "syscall" /\ pc = "dispatch"
    BY <1>17 DEF MmapEntry, Handled, OsCall
  <2>3. tr # "exit"
    BY <2>2
  <2>4. pc' = "cont" /\ ~entering' /\ UNCHANGED <<tr, cur, monitor_actions>>
    BY <1>17 DEF MmapEntry
  <2> QED
    BY <2>1, <2>2, <2>3, <2>4
<1>18. CASE MmapCrash
  BY <1>18 DEF MmapCrash, Crash, Detached
<1>19. CASE ExitHalf
  <2>1. /\ pc = "dispatch" /\ status = "syscall" /\ ~entering
        /\ regs.call = cur.call /\ Toggling(cur.call) /\ Counts(1, 0)
    BY <1>19 DEF ExitHalf, Handled
  <2>2. PerformsLind(Row(cur.call)) => Action(cur.call) = "ALLOW_LIND"
    BY <2>1, OsRowsNative
  <2>3. CASE Refused(regs.call, regs.args)
    BY <1>19, <2>1, <2>3 DEF ExitHalf
  <2>4. CASE ~Refused(regs.call, regs.args)
    BY <1>19, <2>1, <2>2, <2>4 DEF ExitHalf
  <2> QED
    BY <2>3, <2>4
<1>20. CASE get_path
  <2>1. CASE pc = "epath"
    <3>1. pc' = "cont"
      BY <1>20, <2>1 DEF get_path
    <3> QED
      BY <1>20, <2>1, <3>1 DEF get_path
  <2>2. CASE pc = "path"
    <3>1. PerformsLind(Row(cur.call)) => Action(cur.call) = "ALLOW_LIND"
      BY <2>2, OsRowsNative
    <3> QED
      BY <1>20, <2>2, <3>1 DEF get_path
  <2> QED
    BY <1>20, <2>1, <2>2 DEF get_path
<1>21. CASE BadPath
  BY <1>21 DEF BadPath, Crash, Detached
<1>22. CASE LindCall
  BY <1>22 DEF LindCall
<1>23. CASE LindCrash
  BY <1>23 DEF LindCrash, Crash, Detached
<1>24. CASE Reply
  BY <1>24 DEF Reply, set_args
<1>25. CASE UNCHANGED vars
  BY <1>25 DEF vars
<1> QED
  BY <1>1, <1>2, <1>3, <1>4, <1>5, <1>6, <1>7, <1>8, <1>9, <1>10, <1>11,
     <1>12, <1>13, <1>14, <1>15, <1>16, <1>17, <1>18, <1>19, <1>20, <1>21,
     <1>22, <1>23, <1>24, <1>25
  DEF Next, MonitorStep, LindStep, KernelStep, Terminated

(* The inductive invariant is an invariant.                                *)
THEOREM Invariance == Spec => []IInv
BY InvInit, InvStep, PTL DEF Spec

(* The flag "entering" agrees with the kind of stop whenever a handler     *)
(* looks at it; in particular the second half of monitor_deny is dead code.*)
THEOREM PhaseCorrect == Spec => []PhaseAgreement
<1>1. IInv => PhaseAgreement
  <2> SUFFICES ASSUME IInv, AtSyscall, tr \in {"entry", "exit"},
                      Action(regs.call) # "NO_VAL"
               PROVE  entering <=> tr = "entry"
    BY DEF PhaseAgreement
  <2>1. CASE tr = "entry"
    BY <2>1 DEF IInv, EntryInv, AtSyscall
  <2>2. CASE tr = "exit"
    <3>1. regs.call = cur.call /\ cur.call \in Calls \ ExitCalls
          /\ (entering <=> ~Toggling(cur.call)) /\ Action(cur.call) # "DENY_LIND"
      BY <2>2 DEF IInv, ExitInv, AtSyscall, Same
    <3>2. Action(cur.call) \in Actions
      BY <3>1 DEF IInv, TypeOK, Action, CallNumbers
    <3> QED
      BY <2>2, <3>1, <3>2 DEF Actions, Toggling
  <2> QED
    BY <2>1, <2>2
<1> QED
  BY <1>1, Invariance, PTL

(* No call is performed twice, by the kernel or by Lind, and a call that   *)
(* returns was performed by both as the policy says.                       *)
THEOREM ServedExactlyOnce == Spec => []ExactlyOnce
<1>1. IInv => ExactlyOnce
  BY DEF IInv, IdleInv, EndInv, ExactlyOnce, Returned, Served, Counts
<1> QED
  BY <1>1, Invariance, PTL

(* Lind is asked for the call the tracee is in, with its arguments, after  *)
(* the kernel has run it, even from registers a failed get_args left.      *)
THEOREM LindAskedForCurrentCall == Spec => []LindOnCurrentCall
<1>1. IInv => LindOnCurrentCall
  BY DEF IInv, ServeInv, LindOnCurrentCall, Same, Counts, NeedsLind
<1> QED
  BY <1>1, Invariance, PTL

(* A traced program does not get an answer to a denied call.               *)
THEOREM DenialHolds == Spec => []DeniedNeverReturns
<1>1. IInv => DeniedNeverReturns
  BY DEF IInv, IdleInv, DeniedNeverReturns, Returned
<1> QED
  BY <1>1, Invariance, PTL

-----------------------------------------------------------------------------
(* How the monitor and its tracee part.  A tracee that can still be seen   *)
(* running, or has ended by itself, was not killed; only its own end is    *)
(* reported as an exit; a context is missing, and a path unreadable, only  *)
(* through the fault of that name.                                         *)
PartInv ==
  /\ tr \in Running \cup (Stopped \ {"event"}) \cup {"zexited"} => ~killed
  /\ status = "exited" => tr = "reaped" /\ ~killed
  /\ ready \/ pc = "init" \/ "nolind" \in Faults
  /\ cur.bad # {} => "badpath" \in Faults
  /\ CleanEnd
  /\ TracedUntilDenied

(* The monitor and the tracee part as PartInv says, whatever step is next. *)
LEMMA PartStep == IInv /\ PartInv /\ [Next]_vars => PartInv'
<1> SUFFICES ASSUME IInv, PartInv, [Next]_vars PROVE PartInv'
  OBVIOUS
<1>0. /\ EndInv /\ ServeInv /\ EntryInv /\ ExitInv
      /\ tr \in TraceeStates /\ cur \in History
  BY DEF IInv, TypeOK
<1> USE <1>0 DEF PartInv, CleanEnd, TracedUntilDenied, monitorVars, traceeVars,
                 Running, Stopped, Action, Ended, Gone, EndInv
<1>a. ASSUME Crash, pc \notin Ended \cup {"init"},
             tr \in {"entry", "exit"} =>
               Faults \cap {"badpath", "nolind", "raise", "wild"} # {}
      PROVE  PartInv'
  BY <1>a DEF Crash, Detached
<1>1. CASE StopSelf
  BY <1>1 DEF StopSelf
<1>2. ASSUME NEW c \in Calls, Issue(c) PROVE PartInv'
  BY <1>2, IssuedCall DEF Issue
<1>3. CASE NativeRun
  <2>1. cur'.call = cur.call /\ cur'.bad = cur.bad
    BY <1>3 DEF NativeRun, History
  <2> QED
    BY <1>3, <2>1 DEF NativeRun
<1>4. CASE SignalStop
  BY <1>4 DEF SignalStop
<1>5. CASE Kill
  BY <1>5 DEF Kill, Alive
<1>6. CASE Die
  BY <1>6 DEF Die
<1>7. CASE PythonInit
  BY <1>7 DEF PythonInit
<1>8. CASE FirstWait
  BY <1>8 DEF FirstWait, WaitPid, Waitable, Report, Zombies
<1>9. CASE Continue
  BY <1>9 DEF Continue, Resumed
<1>10. CASE Wait
  BY <1>10 DEF Wait, WaitPid, Waitable, Report, Zombies
<1>11. CASE get_args
  BY <1>11 DEF get_args
<1>12. CASE NoHandler
  BY <1>12 DEF NoHandler, AtSyscall
<1>13. CASE monitor_deny
  <2>1. /\ pc = "dispatch" /\ status = "syscall"
        /\ Action(regs.call) = "DENY_LIND"
    BY <1>13 DEF monitor_deny, AtSyscall
  <2>2. entering
    BY <2>1 DEF ServeInv, Same, Toggling
  <2>3. tr # "exit"
    BY <2>1 DEF ExitInv, Same
  <2>4. tr = "entry" => regs.call = cur.call
    BY <2>1 DEF EntryInv, Same
  <2> QED
    BY <1>13, <2>1, <2>2, <2>3, <2>4 DEF monitor_deny, Detached
<1>14. CASE monitor_exit
  BY <1>14 DEF monitor_exit, AtSyscall
<1>15. CASE EntryHalf
  BY <1>15 DEF EntryHalf, Handled, AtSyscall
<1>16. CASE ExecveEntry
  BY <1>16 DEF ExecveEntry, Handled, AtSyscall
<1>17. CASE MmapEntry
  BY <1>17 DEF MmapEntry, Handled, AtSyscall
<1>18. CASE MmapCrash
  BY <1>18, <1>a DEF MmapCrash, Handled, AtSyscall
<1>19. CASE ExitHalf
  BY <1>19 DEF ExitHalf, Handled, AtSyscall, AfterPaths
<1>20. CASE get_path
  BY <1>20 DEF get_path, AfterPaths
<1>21. CASE BadPath
  BY <1>21, <1>a DEF BadPath
<1>22. CASE LindCall
  <2>1. cur'.call = cur.call /\ cur'.bad = cur.bad
    BY <1>22 DEF LindCall, History
  <2> QED
    BY <1>22, <2>1 DEF LindCall
<1>23. CASE LindCrash
  BY <1>23, <1>a DEF LindCrash
<1>24. CASE Reply
  BY <1>24 DEF Reply
<1>25. CASE UNCHANGED vars
  BY <1>25 DEF vars
<1> QED
  BY <1>1, <1>2, <1>3, <1>4, <1>5, <1>6, <1>7, <1>8, <1>9, <1>10, <1>11,
     <1>12, <1>13, <1>14, <1>15, <1>16, <1>17, <1>18, <1>19, <1>20, <1>21,
     <1>22, <1>23, <1>24, <1>25
  DEF Next, MonitorStep, LindStep, KernelStep, Terminated

(* The parting invariant is an invariant of the monitor.                   *)
LEMMA Parting == Spec => []PartInv
<1>1. Init => PartInv
  BY DEF Init, PartInv, CleanEnd, TracedUntilDenied, Stopped
<1> QED
  BY <1>1, PartStep, Invariance, PTL DEF Spec

(* main returns from intercept_calls only for a tracee that has exited by  *)
(* itself and has been reaped, never for one that was killed.              *)
THEOREM EndsCleanly == Spec => []CleanEnd
<1>1. PartInv => CleanEnd
  BY DEF PartInv
<1> QED
  BY <1>1, Parting, PTL

(* A live program gets away from the monitor only through monitor_deny or  *)
(* through one of the faults that crash the monitor; the death of the      *)
(* tracee inside a handler is not among them.                              *)
THEOREM TracedTillDenied == Spec => []TracedUntilDenied
<1>1. PartInv => TracedUntilDenied
  BY DEF PartInv
<1> QED
  BY <1>1, Parting, PTL

-----------------------------------------------------------------------------
(* What becomes of a denied call: Lind never performs it, and the kernel   *)
(* only after the monitor has ended and let the program go.  This is how   *)
(* far DeniedNotExecuted, which does not hold, is wrong.                   *)
DenialExtent ==
  cur.call # NoCall /\ Action(cur.call) = "DENY_LIND" =>
    /\ cur.linds = 0
    /\ cur.osruns > 0 => pc \in Ended /\ tr \in {"free", "reaped"}

(* No step performs a denied call while the monitor is there.              *)
LEMMA ExtentStep == IInv /\ DenialExtent /\ [Next]_vars => DenialExtent'
<1> SUFFICES ASSUME IInv, DenialExtent, [Next]_vars,
                    cur'.call # NoCall, Action(cur.call)' = "DENY_LIND"
             PROVE  /\ cur'.linds = 0
                    /\ cur'.osruns > 0 => pc' \in Ended /\ tr' \in {"free", "reaped"}
  BY DEF DenialExtent
<1>0. TypeOK /\ IdleInv /\ EntryInv /\ ExitInv /\ ServeInv /\ EndInv
  BY DEF IInv
<1>1. ASSUME NEW c \in Calls, Issue(c) PROVE cur'.linds = 0 /\ cur'.osruns = 0
  BY <1>1 DEF Issue
<1>2. CASE NativeRun
  <2>1. /\ cur'.call = cur.call /\ cur'.linds = cur.linds
        /\ monitor_actions' = monitor_actions /\ pc' = pc
        /\ cur.call # NoCall /\ Action(cur.call) = "DENY_LIND"
    BY <1>0, <1>2 DEF NativeRun, TypeOK, History, Action, monitorVars
  <2>2. tr = "freecall" /\ pc \in Ended /\ tr' \in {"free", "reaped"}
    BY <1>0, <1>2, <2>1 DEF NativeRun, EntryInv, EndInv
  <2> QED
    BY <2>1, <2>2 DEF DenialExtent
<1>3. CASE LindCall
  <2>1. cur'.call = cur.call /\ monitor_actions' = monitor_actions /\ pc = "lind"
    BY <1>0, <1>3 DEF LindCall, TypeOK, History
  <2> QED
    BY <1>0, <2>1 DEF ServeInv, NeedsLind, Action
<1>4. CASE ~NativeRun /\ ~LindCall /\ ~(\E c \in Calls : Issue(c))
  <2>1. cur' = cur /\ monitor_actions' = monitor_actions
    BY <1>4 DEF Next, MonitorStep, LindStep, KernelStep, Terminated, StopSelf, SignalStop,
       Kill, Die, PythonInit, FirstWait, Continue, Wait, get_args, NoHandler, monitor_deny,
       monitor_exit, EntryHalf, ExecveEntry, MmapEntry, MmapCrash, Crash, ExitHalf,
       get_path, BadPath, LindCrash, Reply, vars
  <2>2. pc \in Ended /\ tr \in {"free", "reaped"} => pc' = pc /\ tr' = tr
    BY <1>4 DEF Next, MonitorStep, LindStep, KernelStep, Terminated, StopSelf, SignalStop,
       Kill, Alive, Gone, Zombies, Die, PythonInit, FirstWait, Continue, Wait, get_args,
       NoHandler, monitor_deny, monitor_exit, EntryHalf, ExecveEntry, MmapEntry, MmapCrash,
       ExitHalf, Handled, AtSyscall, get_path, BadPath, LindCrash, Reply, Ended, vars,
       monitorVars, traceeVars
  <2> QED
    BY <2>1, <2>2 DEF DenialExtent, Action
<1> QED
  BY <1>0, <1>1, <1>2, <1>3, <1>4 DEF TypeOK, History

(* A denied call is executed only by a program that is no longer traced,   *)
(* whose last mediated call it is.                                         *)
THEOREM DeniedRunsUnmonitored == Spec => []DenialExtent
<1>1. Init => DenialExtent
  BY DEF Init, DenialExtent
<1> QED
  BY <1>1, ExtentStep, Invariance, PTL DEF Spec

-----------------------------------------------------------------------------
(* The safety half of StopsAreResumed and DeathEndsMonitor: how many steps *)
(* the monitor needs at most, and that it always has one.                  *)
Steps ==
  CASE pc = "init"              -> 9
    [] pc \in {"wait0", "wait"} -> 8
    [] pc = "fetch"             -> 7
    [] pc = "dispatch"          -> 6
    [] pc \in {"epath", "path"} -> 5
    [] pc = "lind"              -> 4
    [] pc = "reply"             -> 3
    [] pc = "cont"              -> 2
    [] OTHER                    -> 0

(* While the tracee is stopped, every step of the system brings the        *)
(* monitor nearer to resuming it; no handler goes back to an earlier place.*)
StopShortens == (tr \in Stopped /\ tr' \in Stopped) => Steps' < Steps

(* The tracee is dead, whether or not waitpid has said so.                 *)
Dead == Zombies \cup {"reaped"}
DeathSteps == IF pc = "wait" THEN 1 ELSE Steps

(* Once it is dead, every step of the system brings the monitor nearer to  *)
(* its end: no handler that is running on, on stale registers, and no wait *)
(* that fails because the tracee is reaped already leads back.             *)
DeathShortens == (tr \in Dead) => DeathSteps' < DeathSteps

(* The guards of the loop: a wait needs something to report, the dispatch  *)
(* a branch for the status and the action.                                 *)
MayStep ==
  \/ pc = "wait0" /\ Waitable
  \/ pc = "wait" /\ (Waitable \/ tr = "reaped")
  \/ pc = "dispatch" /\ status = "stopsig"
  \/ AtSyscall /\ \/ Action(regs.call) \in {"NO_VAL", "DENY_LIND"}
                  \/ Action(regs.call) = "ALLOW_OS" /\ regs.call \in ExitCalls
                  \/ Toggling(regs.call)
  \/ pc \notin {"wait0", "wait", "dispatch"} \cup Ended

(* A monitor whose tracee is stopped or dead is never stuck.               *)
NeverStuck == tr \in Stopped \cup Dead /\ pc \notin Ended => MayStep

(* Whatever the step, a stop or a death comes nearer to its end.           *)
LEMMA ShortenStep == IInv /\ Next => (StopShortens /\ DeathShortens) \/ UNCHANGED vars
<1> SUFFICES ASSUME IInv, Next PROVE (StopShortens /\ DeathShortens) \/ UNCHANGED vars
  OBVIOUS
<1>0. EndInv /\ tr \in TraceeStates /\ pc \in MonitorStates
  BY DEF IInv, TypeOK
<1> USE DEF StopShortens, DeathShortens, Steps, DeathSteps, Dead, Stopped, Zombies
<1>a. CASE Crash /\ pc \notin Ended
  BY <1>0, <1>a DEF Crash, Detached, MonitorStates, Handling, Ended
<1>1. CASE StopSelf \/ SignalStop \/ NativeRun
  BY <1>1 DEF StopSelf, SignalStop, NativeRun
<1>2. ASSUME NEW c \in Calls, Issue(c) PROVE StopShortens /\ DeathShortens
  BY <1>2 DEF Issue
<1>3. CASE Kill \/ Die
  BY <1>3 DEF Kill, Die, Alive, Gone
<1>4. CASE PythonInit
  BY <1>4 DEF PythonInit, traceeVars
<1>15. CASE get_args
  BY <1>15 DEF get_args, traceeVars
<1>5. CASE FirstWait
  BY <1>5 DEF FirstWait
<1>6. CASE Continue
  BY <1>6 DEF Continue, Resumed
<1>7. CASE Wait
  <2>1. CASE tr \in Stopped
    BY <1>7, <2>1 DEF Wait, WaitPid, Report
  <2>2. CASE tr \notin Stopped
    <3>1. status' \in {"exited", "signaled"}
      BY <1>0, <1>7, <2>2 DEF Wait, WaitPid, Waitable, Report, EndInv, Ended
    <3>2. pc' \in {"done", "exit"} /\ pc = "wait"
      BY <1>7, <3>1 DEF Wait
    <3> QED
      BY <2>2, <3>2
  <2> QED
    BY <2>1, <2>2
<1>8. CASE NoHandler \/ monitor_exit \/ EntryHalf \/ ExecveEntry \/ MmapEntry
  BY <1>8 DEF NoHandler, monitor_exit, EntryHalf, ExecveEntry, MmapEntry, Handled, AtSyscall,
              traceeVars
<1>9. CASE monitor_deny
  BY <1>9 DEF monitor_deny, AtSyscall, Detached
<1>10. CASE MmapCrash \/ BadPath \/ LindCrash
  BY <1>10, <1>a DEF MmapCrash, BadPath, LindCrash, Handled, AtSyscall, Ended
<1>11. CASE ExitHalf
  BY <1>11 DEF ExitHalf, AfterPaths, Handled, AtSyscall
<1>12. CASE get_path
  BY <1>12 DEF get_path, AfterPaths
<1>13. CASE LindCall \/ Reply
  BY <1>13 DEF LindCall, Reply
<1>14. CASE Terminated
  BY <1>14 DEF Terminated
<1> QED
  BY <1>1, <1>2, <1>3, <1>4, <1>5, <1>6, <1>7, <1>8, <1>9, <1>10, <1>11, <1>12, <1>13, <1>14, <1>15
  DEF Next, MonitorStep, LindStep, KernelStep

(* What the loop knows of the status where it uses it.                     *)
LoopInv ==
  /\ pc \in {"init", "wait0"} => status = "none"
  /\ pc \in {"fetch", "dispatch"} => status \in {"syscall", "stopsig"}

(* The status is that of the last wait, and the dispatch follows a stop.   *)
LEMMA LoopStep == LoopInv /\ [Next]_vars => LoopInv'
BY DEF LoopInv, Next, MonitorStep, LindStep, KernelStep, Terminated, StopSelf, SignalStop,
       NativeRun, Issue, Kill, Die, PythonInit, FirstWait, Continue, Wait, get_args,
       NoHandler, monitor_deny, monitor_exit, EntryHalf, ExecveEntry, MmapEntry, MmapCrash,
       Crash, ExitHalf, AfterPaths, get_path, BadPath, LindCall, LindCrash, Reply,
       Handled, AtSyscall, monitorVars, vars

(* Every stop of the tracee ends within a fixed number of steps of the     *)
(* system, the answer of Lind counted as one.                              *)
THEOREM StopsAreShort == Spec => [][StopShortens]_vars
<1>1. IInv /\ [Next]_vars => [StopShortens]_vars
  BY ShortenStep
<1> QED
  BY <1>1, Invariance, PTL DEF Spec

(* The monitor outlives its tracee by at most nine steps, the answer of    *)
(* Lind counted as one.                                                    *)
THEOREM DeathIsNoticed == Spec => [][DeathShortens]_vars
<1>1. IInv /\ [Next]_vars => [DeathShortens]_vars
  BY ShortenStep
<1> QED
  BY <1>1, Invariance, PTL DEF Spec

(* The loop has a branch for whatever it is told of a stopped or dead      *)
(* tracee, a stale status and stale registers included.                    *)
THEOREM AlwaysABranch == Spec => []NeverStuck
<1>1. IInv /\ LoopInv => NeverStuck
  <2> SUFFICES ASSUME IInv, LoopInv, tr \in Stopped \cup Dead, pc \notin Ended PROVE MayStep
    BY DEF NeverStuck
  <2>1. CASE pc = "wait0"
    BY <2>1 DEF MayStep, Waitable, Dead, IInv, EndInv, LoopInv
  <2>2. CASE pc = "wait"
    BY <2>2 DEF MayStep, Waitable, Dead
  <2>3. CASE pc = "dispatch"
    <3>1. status \in {"syscall", "stopsig"}
      BY <2>3 DEF LoopInv
    <3>2. Action(regs.call) \in {"ALLOW_LIND", "DENY_LIND", "ALLOW_OS", "NO_VAL"}
      <4>1. monitor_actions \in [CallNumbers -> Actions] /\ regs \in RegFile
        BY DEF IInv, TypeOK
      <4>2. regs.call \in CallNumbers
        BY <4>1 DEF RegFile
      <4>3. Action(regs.call) \in Actions
        BY <4>1, <4>2 DEF Action
      <4> QED
        BY <4>3 DEF Actions
    <3>3. \/ Action(regs.call) \in {"NO_VAL", "DENY_LIND"}
          \/ Action(regs.call) = "ALLOW_OS" /\ regs.call \in ExitCalls
          \/ Toggling(regs.call)
      BY <3>2 DEF Toggling
    <3> QED
      BY <2>3, <3>1, <3>3 DEF MayStep, AtSyscall
  <2>4. CASE pc \notin {"wait0", "wait", "dispatch"}
    BY <2>4 DEF MayStep
  <2> QED
    BY <2>1, <2>2, <2>3, <2>4
<1>2. Init => LoopInv
  BY DEF Init, LoopInv
<1> QED
  BY <1>1, <1>2, LoopStep, Invariance, PTL DEF Spec
-----------------------------------------------------------------------------
(* The handlers' use of the wrappers, as module LindService describes it.  *)
(* A handler that does not perform its call in Lind passes through "reply" *)
(* too.                                                                    *)
LindStage ==
  IF pc = "init" THEN "off"
  ELSE IF pc = "crashed" THEN "crashed"
  ELSE IF pc = "lind" THEN "asked"
  ELSE IF pc = "reply" /\ PerformsLind(Row(regs.call)) THEN "served"
  ELSE "idle"

Gate == INSTANCE LindService WITH
  st     <- LindStage,
  ready  <- ready,
  answer <- IF LindStage = "served" THEN lret ELSE "none",
  back   <- IF LindStage \in {"off", "idle"}
            THEN IF lret = "ok" THEN "code" ELSE IF lret = "err" THEN "minus1" ELSE "zero"
            ELSE "zero",
  filled <- FALSE

(* A step outside the wrappers leaves the service alone.                   *)
LEMMA NoLindStep ==
  ASSUME pc \notin {"init", "lind", "crashed"}, ~(pc = "reply" /\ PerformsLind(Row(regs.call))),
         pc' \notin {"init", "lind", "crashed"}, ~(pc' = "reply" /\ PerformsLind(Row(regs.call))'),
         UNCHANGED <<ready, lret>>
  PROVE  UNCHANGED Gate!vars
<1>1. LindStage = "idle" /\ LindStage' = "idle"
  BY DEF LindStage
<1> QED BY <1>1 DEF Gate!vars

(* A step that leaves the monitor where it is leaves the service alone.    *)
LEMMA NoMonitorStep ==
  ASSUME UNCHANGED <<pc, ready, lret, regs, monitor_actions>>
  PROVE  UNCHANGED Gate!vars
<1>1. LindStage' = LindStage
  BY DEF LindStage, Row, Action
<1> QED BY <1>1 DEF Gate!vars

(* The way to a wrapper, or past it.                                       *)
LEMMA AskStep ==
  ASSUME pc \in {"dispatch", "path"}, pc' \in {"path", AfterPaths},
         UNCHANGED <<ready, lret, regs, monitor_actions>>
  PROVE  Gate!Next \/ UNCHANGED Gate!vars
<1>0. LindStage = "idle" /\ PerformsLind(Row(regs.call))' = PerformsLind(Row(regs.call))
  BY DEF LindStage, Row, Action
<1>1. CASE pc' = "lind"
  <2>1. LindStage' = "asked"
    BY <1>1 DEF LindStage
  <2>2. Gate!Ask
    BY <1>0, <2>1 DEF Gate!Ask
  <2> QED BY <2>2 DEF Gate!Next
<1>2. CASE pc' # "lind"
  BY <1>0, <1>2, NoLindStep DEF AfterPaths
<1> QED BY <1>1, <1>2

(* Every step of the monitor is one the service allows.                    *)
LEMMA GateStep == IInv /\ [Next]_vars => [Gate!Next]_(Gate!vars)
<1> SUFFICES ASSUME IInv, [Next]_vars PROVE Gate!Next \/ UNCHANGED Gate!vars
  OBVIOUS
<1>a. CASE Crash /\ pc \notin {"init", "crashed"}
  <2>1. LindStage' = "crashed" /\ LindStage \notin {"off", "crashed"} /\ ready' = ready
    BY <1>a DEF Crash, LindStage
  <2>2. Gate!Crash
    BY <2>1 DEF Gate!Crash
  <2> QED BY <2>2 DEF Gate!Next
<1>1. CASE \/ StopSelf \/ SignalStop \/ NativeRun \/ (\E c \in Calls : Issue(c)) \/ Kill \/ Die
           \/ Terminated \/ UNCHANGED vars
  <2>1. UNCHANGED <<pc, ready, lret, regs, monitor_actions>>
    BY <1>1 DEF StopSelf, SignalStop, NativeRun, Issue, Kill, Die, Terminated, vars, monitorVars
  <2> QED BY <2>1, NoMonitorStep
<1>2. CASE PythonInit
  <2>1. LindStage = "off" /\ LindStage' = "idle" /\ ready' \in BOOLEAN /\ lret' = lret
    BY <1>2 DEF PythonInit, LindStage
  <2>2. Gate!Start
    BY <2>1 DEF Gate!Start
  <2> QED BY <2>2 DEF Gate!Next
<1>3. CASE \/ FirstWait \/ Continue \/ Wait \/ get_args \/ NoHandler \/ monitor_deny
           \/ monitor_exit \/ EntryHalf \/ ExecveEntry \/ MmapEntry
  <2>1. /\ pc \in {"wait0", "cont", "wait", "fetch", "dispatch"}
        /\ pc' \in {"cont", "wait", "fetch", "dispatch", "done", "exit", "epath"}
        /\ UNCHANGED <<ready, lret>>
    BY <1>3 DEF FirstWait, Continue, Wait, get_args, NoHandler, monitor_deny, monitor_exit,
                EntryHalf, ExecveEntry, MmapEntry, Handled, AtSyscall
  <2> QED BY <2>1, NoLindStep
<1>4. CASE MmapCrash \/ BadPath \/ LindCrash
  BY <1>4, <1>a DEF MmapCrash, BadPath, LindCrash, Handled, AtSyscall
<1>5. CASE ExitHalf
  <2>1. pc = "dispatch" /\ UNCHANGED <<ready, lret, regs, monitor_actions>>
    BY <1>5 DEF ExitHalf, Handled, AtSyscall
  <2>2. pc' \in {"cont", "path", AfterPaths}
    BY <1>5 DEF ExitHalf
  <2>3. CASE pc' = "cont"
    BY <2>1, <2>3, NoLindStep
  <2>4. CASE pc' # "cont"
    BY <2>1, <2>2, <2>4, AskStep
  <2> QED BY <2>3, <2>4
<1>6. CASE get_path
  <2>1. pc \in {"epath", "path"} /\ UNCHANGED <<ready, lret, regs, monitor_actions>>
    BY <1>6 DEF get_path
  <2>2. CASE pc = "epath"
    <3>1. pc' = "cont"
      BY <1>6, <2>2 DEF get_path
    <3> QED BY <2>1, <2>2, <3>1, NoLindStep
  <2>3. CASE pc = "path"
    <3>1. pc' = AfterPaths
      BY <1>6, <2>3 DEF get_path
    <3> QED BY <2>1, <2>3, <3>1, AskStep
  <2> QED BY <2>1, <2>2, <2>3
<1>7. CASE LindCall
  <2>1. /\ pc = "lind" /\ pc' = "reply" /\ ready /\ ready' = ready
        /\ lret' \in LindResults /\ UNCHANGED <<regs, monitor_actions>>
    BY <1>7 DEF LindCall, LindResults
  <2>2. NeedsLind(cur.call, cur.args) /\ regs.call = cur.call
    BY <2>1 DEF IInv, ServeInv, Same
  <2>3. PerformsLind(Row(regs.call))'
    BY <2>1, <2>2 DEF NeedsLind, Row, Action
  <2>4. LindStage = "asked" /\ LindStage' = "served"
    BY <2>1, <2>3 DEF LindStage
  <2>5. Gate!Serve
    BY <2>1, <2>4 DEF Gate!Serve, Gate!Answers, LindResults
  <2> QED BY <2>5 DEF Gate!Next
<1>8. CASE Reply
  <2>1. pc = "reply" /\ pc' = "cont" /\ UNCHANGED <<ready, lret>>
    BY <1>8 DEF Reply
  <2>2. CASE PerformsLind(Row(regs.call))
    <3>1. LindStage = "served" /\ LindStage' = "idle"
      BY <2>1, <2>2 DEF LindStage
    <3>2. Gate!Reply
      BY <2>1, <3>1 DEF Gate!Reply, Gate!Value
    <3> QED BY <3>2 DEF Gate!Next
  <2>3. CASE ~PerformsLind(Row(regs.call))
    BY <2>1, <2>3, NoLindStep
  <2> QED BY <2>2, <2>3
<1> QED
  BY <1>1, <1>2, <1>3, <1>4, <1>5, <1>6, <1>7, <1>8 DEF Next, MonitorStep, LindStep, KernelStep

(* The handlers rely on nothing but what LindService offers, which is what *)
(* LindGateway provides: a wrapper is entered only after LindPythonInit,   *)
(* one at a time, its result used only once Lind has answered, and no      *)
(* handler goes on from a call that is lost.                               *)
THEOREM UsesService == Spec => Gate!Spec
<1>1. Init => Gate!Init
  BY DEF Init, Gate!Init, LindStage
<1> QED BY <1>1, Invariance, GateStep, PTL DEF Spec, Gate!Spec
=============================================================================
