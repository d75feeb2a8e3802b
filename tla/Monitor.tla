------------------------------- MODULE Monitor -------------------------------
(***************************************************************************)
(* The reference monitor and the program it traces: init_ptrace, main and  *)
(* intercept_calls of lind_monitor.c with their handlers (module           *)
(* Handlers), and the part of the kernel's ptrace interface they run on.   *)
(*                                                                         *)
(* The tracee executes EVERY call natively: the monitor sees it stopped    *)
(* before the call (entry stop) and after it (exit stop).  At the exit     *)
(* stop a handler performs the Lind operation and overwrites the result.   *)
(* Nothing in a stop says which of the two it is; the monitor keeps the    *)
(* alternation itself, in "entering".                                      *)
(*                                                                         *)
(* The tracee may be killed at any moment, the monitor inside a handler    *)
(* included: the ptrace requests of the rest of the handler then fail, and *)
(* get_args leaves the registers of the previous stop in "regs".           *)
(***************************************************************************)
EXTENDS Handlers

CONSTANTS
  Calls,      \* system-call names (indices of syscall_names)
  Policies,   \* the contents load_config may give monitor_actions
  Faults      \* the environment faults that may happen, a subset of FaultKinds

Actions == {"ALLOW_LIND", "DENY_LIND", "ALLOW_OS", "NO_VAL"}

(* kill: SIGKILL reaches the tracee.  signal: any other signal reaches it. *)
(* badpath: the program passes a pointer that is not a readable string.    *)
(* nolind: LindPythonInit fails.  raise: the Python side raises instead of *)
(* answering.  odd: its answer is not one ParseResponse can read.  wild:   *)
(* the undefined accesses of wild handlers trap.                           *)
FaultKinds == {"kill", "signal", "badpath", "nolind", "raise", "odd", "wild"}

ASSUME PolicyAssumption == Policies \subseteq [Calls -> Actions]
ASSUME FaultAssumption  == Faults \subseteq FaultKinds
ASSUME CallsAssumption  == {"execve", "read"} \subseteq Calls

(* orig_rax = -1: the tracee is stopped outside a system call.             *)
NoCall == "none"
ASSUME NoCallAssumption == NoCall \notin Calls

CallNumbers == Calls \cup {NoCall}

-----------------------------------------------------------------------------
(* Abstract data.  A register argument holds the program's value, a        *)
(* negative value of the program, a pointer of the monitor or a native     *)
(* descriptor.  Memory behind an argument holds what the program, the      *)
(* kernel or Lind put there, or other bytes of the monitor.  It has three  *)
(* parts: the head, as far as the handler's block reaches; the rest, bytes *)
(* of the argument past the block; and what is beyond the argument.        *)
ArgValues == {"prog", "neg", "mon", "native"}
Contents  == {"prog", "os", "lind", "junk"}
Memory    == [head : Contents, rest : Contents, beyond : Contents]
Results   == {"enosys", "os_ok", "os_err", "lind_ok", "lind_err", "unread", "einval"}

(* Lind's results.  odd: the response cannot be read and ParseResponse     *)
(* returns 0, with nothing copied.                                         *)
LindResults == {"ok", "err", "odd"}

Running == {"boot", "launch", "user", "kernel"}
Stopped == {"bootstop", "entry", "exit", "signal", "event"}
Zombies == {"zexited", "zsignaled"}
Gone    == {"reaped", "freecall", "free"}
TraceeStates == Running \cup Stopped \cup Zombies \cup Gone \cup {"dying"}

Handling == {"epath", "path", "lind", "reply"}
Ended    == {"done", "exit", "crashed"}
MonitorStates == {"init", "wait0", "cont", "wait", "fetch", "dispatch"}
                   \cup Handling \cup Ended

Statuses == {"none", "syscall", "stopsig", "exited", "signaled"}

VARIABLES
  monitor_actions, \* the policy table, and the word before it, index -1
  pc,              \* where the monitor is
  ready,           \* LindPythonInit left a usable context
  status,          \* what the last successful waitpid stored
  regs,            \* the monitor's copy of call number, result and arguments
  entering,        \* 1: the next stop is an entry stop
  lret,            \* result of the lind_* wrapper in the running handler
  tr,              \* state of the tracee
  killed,          \* SIGKILL has been sent
  ureg,            \* the tracee's registers: call number, rax, arguments
  ubuf,            \* the memory behind each argument of its current call
  cur              \* the current call: what the program chose (size, bad)
                   \* and, read by no action, its history

monitorVars == <<pc, ready, status, regs, entering, lret>>
traceeVars  == <<tr, killed, ureg, ubuf>>
vars == <<monitor_actions, monitorVars, traceeVars, cur>>

RegFile == [call : CallNumbers, rax : Results,
            args : [ArgNo -> ArgValues]]

(* call and args as issued, the size of its data, arguments that are bad   *)
(* paths, how often the kernel and Lind have run the call, the arguments   *)
(* the kernel wrote behind, Lind's result, and what the wrapper was given  *)
(* for each argument.                                                      *)
History == [call : CallNumbers, args : [ArgNo -> ArgValues], size : Sizes,
            bad : SUBSET ArgNo, osruns : Nat, linds : Nat,
            wrote : SUBSET ArgNo, lres : LindResults \cup {"none"},
            given : [ArgNo -> Contents \cup {"none"}]]

NoArgs  == [i \in ArgNo |-> "prog"]
Own     == [head |-> "prog", rest |-> "prog", beyond |-> "prog"]
Nothing == [i \in ArgNo |-> "none"]

Action(c) == monitor_actions[c]
Row(c)    == Handler(c, Action(c))
Alive     == tr \notin Zombies \cup Gone \cup {"dying"}

-----------------------------------------------------------------------------
(* Reading monitor_actions[-1] yields whatever the build puts there; a     *)
(* value outside the enumeration acts like NO_VAL.                         *)
Tables == {[c \in CallNumbers |-> IF c = NoCall THEN a ELSE p[c]] :
             p \in Policies, a \in Actions}

Init ==
  /\ monitor_actions \in Tables
  /\ pc = "init" /\ ready = FALSE /\ status = "none" /\ entering = TRUE
  /\ lret = "none"
  \* a zeroed structure: call number 0 is read
  /\ regs = [call |-> "read", rax |-> "os_ok", args |-> NoArgs]
  /\ tr = "boot" /\ killed = FALSE
  /\ ureg = [call |-> NoCall, rax |-> "enosys", args |-> NoArgs]
  /\ ubuf = [i \in ArgNo |-> Own]
  /\ cur = [call |-> NoCall, args |-> NoArgs, size |-> "fits", bad |-> {},
            osruns |-> 0, linds |-> 0, wrote |-> {}, lres |-> "none",
            given |-> Nothing]

-----------------------------------------------------------------------------
(* The tracee and the kernel.                                              *)

(* The forked child: PTRACE_TRACEME, then SIGSTOP to itself.               *)
StopSelf ==
  /\ tr = "boot"
  /\ tr' = "bootstop"
  /\ UNCHANGED <<monitor_actions, monitorVars, killed, ureg, ubuf, cur>>

(* The program issues call c.  The first call is the execve of             *)
(* init_ptrace.  Only arguments whose sign a handler tests vary in sign,   *)
(* and only those read with get_path can be bad paths.                     *)
PathArgs(c) == {i \in ArgNo : \/ i \in Row(c).paths
                              \/ Action(c) = "ALLOW_OS" /\ c = "execve" /\ i = 1}

Issue(c) ==
  /\ (tr = "launch" /\ c = "execve") \/ tr = "user"
  /\ \E neg \in SUBSET (Row(c).signed \cup (IF c = "mmap" THEN {5} ELSE {})),
        bad \in IF "badpath" \in Faults THEN SUBSET PathArgs(c) ELSE {{}},
        size \in BlockSizes(c) :
       LET a == [i \in ArgNo |-> IF i \in neg THEN "neg" ELSE "prog"] IN
         /\ ureg' = [call |-> c, rax |-> "enosys", args |-> a]
         /\ cur' = [call |-> c, args |-> a, size |-> size, bad |-> bad,
                    osruns |-> 0, linds |-> 0, wrote |-> {}, lres |-> "none",
                    given |-> Nothing]
  /\ ubuf' = [i \in ArgNo |-> Own]
  /\ tr' = "entry"
  /\ UNCHANGED <<monitor_actions, monitorVars, killed>>

(* The kernel executes the call natively and stops at its exit; a call     *)
(* that ends the process stops at PTRACE_EVENT_EXIT instead.  A successful *)
(* call writes behind some of its output arguments.                        *)
NativeRun ==
  /\ tr \in {"kernel", "freecall"}
  /\ \/ /\ ureg.call \in ExitCalls
        /\ tr' = IF tr = "kernel" THEN "event" ELSE "reaped"
        /\ cur' = [cur EXCEPT !.osruns = @ + 1]
        /\ UNCHANGED <<ureg, ubuf>>
     \/ /\ ureg.call \notin ExitCalls
        /\ tr' = IF tr = "kernel" THEN "exit" ELSE "free"
        /\ \E r \in {"os_ok", "os_err"}, w \in SUBSET Outputs(ureg.call) :
             /\ r = "os_err" => w = {}
             /\ ureg' = [ureg EXCEPT !.rax = r]
             /\ ubuf' = [i \in ArgNo |->
                           IF i \in w THEN [Own EXCEPT !.head = "os", !.rest = "os"]
                           ELSE ubuf[i]]
             /\ cur' = [cur EXCEPT !.osruns = @ + 1, !.wrote = w]
  /\ UNCHANGED <<monitor_actions, monitorVars, killed>>

(* A signal (or the SIGTRAP after an execve) is about to be delivered; it  *)
(* finds the tracee on its way out of the call or in its own code.         *)
SignalStop ==
  /\ "signal" \in Faults
  /\ tr = "user"
  /\ tr' = "signal"
  /\ \E c \in {ureg.call, NoCall} : ureg' = [ureg EXCEPT !.call = c]
  /\ UNCHANGED <<monitor_actions, monitorVars, killed, ubuf, cur>>

(* SIGKILL: the tracee leaves any stop at once and is no longer stopped    *)
(* for ptrace until it reaches PTRACE_EVENT_EXIT, if it does so at all.    *)
Kill ==
  /\ "kill" \in Faults
  /\ Alive /\ tr # "event"
  /\ tr' = "dying" /\ killed' = TRUE
  /\ UNCHANGED <<monitor_actions, monitorVars, ureg, ubuf, cur>>

Die ==
  /\ tr = "dying"
  /\ tr' \in {"event", "zsignaled"}
  /\ UNCHANGED <<monitor_actions, monitorVars, killed, ureg, ubuf, cur>>

(* PTRACE_SYSCALL with signal 0: the call, the process or its death goes   *)
(* on from where it was stopped; a pending signal is dropped.              *)
Resumed(t) ==
  CASE t = "bootstop"              -> "launch"
    [] t = "entry"                 -> "kernel"
    [] t \in {"exit", "signal"}    -> "user"
    [] t = "event"                 -> IF killed THEN "zsignaled" ELSE "zexited"
    [] OTHER                       -> t

(* The monitor process ends: the kernel detaches the tracee, which goes on *)
(* by itself.                                                              *)
Detached(t) ==
  CASE t = "entry" -> "freecall"
    [] t = "exit"  -> "free"
    [] OTHER       -> "reaped"

-----------------------------------------------------------------------------
(* Helpers of the handlers.                                                *)

(* A faulty variant: the registers are never stored.                       *)
SetNothing(r) == ureg' = ureg

(* set_args: store the registers, which fails unless the tracee is stopped *)
set_args(r) == ureg' = IF tr \in Stopped THEN r ELSE ureg

(* The monitor dies inside a handler.                                      *)
Crash ==
  /\ pc' = "crashed"
  /\ tr' = Detached(tr)
  /\ UNCHANGED <<monitor_actions, ready, status, regs, entering, lret, killed,
                 ureg, ubuf, cur>>

-----------------------------------------------------------------------------
(* The monitor: main and the loop of intercept_calls.                      *)

(* main ignores the result of LindPythonInit.  (That it may end the        *)
(* process instead, before anything is traced, is in module LindGateway.)  *)
PythonInit ==
  /\ pc = "init"
  /\ ready' \in IF "nolind" \in Faults THEN BOOLEAN ELSE {TRUE}
  /\ pc' = "wait0"
  /\ UNCHANGED <<monitor_actions, status, regs, entering, lret, traceeVars, cur>>

(* What waitpid reports of a stop or a death.                              *)
Report(t) ==
  CASE t \in {"entry", "exit"} -> "syscall"
    [] t = "zexited"           -> "exited"
    [] t = "zsignaled"         -> "signaled"
    [] OTHER                   -> "stopsig"

(* waitpid reaps a dead tracee.                                            *)
Waitable == tr \in Stopped \cup Zombies
WaitPid ==
  /\ status' = Report(tr)
  /\ tr' = IF tr \in Zombies THEN "reaped" ELSE tr

(* The wait for the first stop; its status is not looked at.               *)
FirstWait ==
  /\ pc = "wait0" /\ Waitable
  /\ WaitPid
  /\ pc' = "cont"
  /\ UNCHANGED <<monitor_actions, ready, regs, entering, lret, killed, ureg,
                 ubuf, cur>>

(* A faulty variant: only system-call stops are resumed.                   *)
ContinueAfterCalls ==
  /\ pc = "cont"
  /\ tr' = IF status = "stopsig" /\ tr # "bootstop" THEN tr ELSE Resumed(tr)
  /\ pc' = "wait"
  /\ UNCHANGED <<monitor_actions, ready, status, regs, entering, lret, killed,
                 ureg, ubuf, cur>>

(* PTRACE_SYSCALL; fails without effect on a tracee that is not stopped.   *)
Continue ==
  /\ pc = "cont"
  /\ tr' = Resumed(tr)
  /\ pc' = "wait"
  /\ UNCHANGED <<monitor_actions, ready, status, regs, entering, lret, killed,
                 ureg, ubuf, cur>>

(* Faulty variants: a killed tracee counts as one that has exited, or is   *)
(* not noticed.                                                            *)
WaitThen(end) ==
  /\ pc = "wait"
  /\ \/ Waitable /\ WaitPid
     \/ tr = "reaped" /\ UNCHANGED <<status, tr>>
  /\ pc' = CASE status' = "exited"                 -> "done"
             [] status' \in {"syscall", "stopsig"} -> "fetch"
             [] OTHER                              -> end
  /\ UNCHANGED <<monitor_actions, ready, regs, entering, lret, killed, ureg,
                 ubuf, cur>>
WaitKilledExited == WaitThen("done")
WaitKilledMissed == WaitThen("cont")

(* waitpid in the loop, and the two tests on its status; when the tracee   *)
(* has been reaped already the call fails and status keeps its value.      *)
Wait ==
  /\ pc = "wait"
  /\ \/ Waitable /\ WaitPid
     \/ tr = "reaped" /\ UNCHANGED <<status, tr>>
  /\ pc' = CASE status' = "exited"               -> "done"
             [] status' \in {"syscall", "stopsig"} -> "fetch"
             [] OTHER                             -> "exit"
  /\ UNCHANGED <<monitor_actions, ready, regs, entering, lret, killed, ureg,
                 ubuf, cur>>

(* get_args: on failure the previous registers stay.                       *)
get_args ==
  /\ pc = "fetch"
  /\ regs' = IF tr \in Stopped THEN ureg ELSE regs
  /\ pc' = "dispatch"
  /\ UNCHANGED <<monitor_actions, ready, status, entering, lret, traceeVars, cur>>

AtSyscall == pc = "dispatch" /\ status = "syscall"

(* Faulty variants: every stop counts in the alternation; a call without   *)
(* an action ends the monitor.                                             *)
NoHandlerToggles ==
  /\ \/ pc = "dispatch" /\ status = "stopsig"
     \/ AtSyscall /\ Action(regs.call) = "NO_VAL"
  /\ pc' = "cont" /\ entering' = ~entering
  /\ UNCHANGED <<monitor_actions, ready, status, regs, lret, traceeVars, cur>>
NoHandlerExits ==
  /\ \/ pc = "dispatch" /\ status = "stopsig" /\ pc' = "cont" /\ UNCHANGED tr
     \/ AtSyscall /\ Action(regs.call) = "NO_VAL" /\ pc' = "exit" /\ tr' = Detached(tr)
  /\ UNCHANGED <<monitor_actions, ready, status, regs, entering, lret, killed,
                 ureg, ubuf, cur>>

(* A stop that is not a system-call stop, and a call without an action:    *)
(* no handler runs.                                                        *)
NoHandler ==
  /\ \/ pc = "dispatch" /\ status = "stopsig"
     \/ AtSyscall /\ Action(regs.call) = "NO_VAL"
  /\ pc' = "cont"
  /\ UNCHANGED <<monitor_actions, ready, status, regs, entering, lret,
                 traceeVars, cur>>

(* A faulty variant: the denied call is answered, the monitor goes on.     *)
DenyGoesOn ==
  /\ AtSyscall /\ Action(regs.call) = "DENY_LIND"
  /\ regs' = [regs EXCEPT !.rax = "einval"]
  /\ set_args(regs')
  /\ entering' = ~entering
  /\ pc' = "cont"
  /\ UNCHANGED <<monitor_actions, ready, status, lret, tr, killed, ubuf, cur>>

(* monitor_deny: on entry, store EINVAL as the result and exit(1); else    *)
(* leave the loop.  Either way the monitor ends.                           *)
monitor_deny ==
  /\ AtSyscall /\ Action(regs.call) = "DENY_LIND"
  /\ regs' = IF entering THEN [regs EXCEPT !.rax = "einval"] ELSE regs
  /\ IF entering THEN set_args(regs') ELSE UNCHANGED ureg
  /\ entering' = ~entering
  /\ pc' = IF entering THEN "exit" ELSE "done"
  /\ tr' = Detached(tr)
  /\ UNCHANGED <<monitor_actions, ready, status, lret, killed, ubuf, cur>>

(* monitor_exit and monitor_exit_group leave the flag alone.               *)
monitor_exit ==
  /\ AtSyscall /\ Action(regs.call) = "ALLOW_OS" /\ regs.call \in ExitCalls
  /\ pc' = "cont"
  /\ UNCHANGED <<monitor_actions, ready, status, regs, entering, lret,
                 traceeVars, cur>>

(* A stop served by one of the handlers of module Handlers, each of which  *)
(* changes the flag.                                                       *)
Toggling(c) == \/ Action(c) = "ALLOW_LIND"
               \/ Action(c) = "ALLOW_OS" /\ c \notin ExitCalls
Handled == AtSyscall /\ Toggling(regs.call)
OsCall(c) == Action(c) = "ALLOW_OS" /\ regs.call = c

(* A faulty variant: the flag is not cleared.                              *)
EntryHalfKeepsFlag ==
  /\ Handled /\ entering
  /\ ~OsCall("execve") /\ ~OsCall("mmap")
  /\ pc' = "cont"
  /\ UNCHANGED <<monitor_actions, ready, status, regs, entering, lret,
                 traceeVars, cur>>

(* The entry half of every handler but two.                                *)
EntryHalf ==
  /\ Handled /\ entering
  /\ ~OsCall("execve") /\ ~OsCall("mmap")
  /\ entering' = FALSE
  /\ pc' = "cont"
  /\ UNCHANGED <<monitor_actions, ready, status, regs, lret, traceeVars, cur>>

(* The entry half of monitor_execve goes on to read path and arguments.    *)
ExecveEntry ==
  /\ Handled /\ entering /\ OsCall("execve")
  /\ entering' = FALSE
  /\ pc' = "epath"
  /\ UNCHANGED <<monitor_actions, ready, status, regs, lret, traceeVars, cur>>

(* The entry half of monitor_mmap puts the native descriptor into arg5.    *)
MmapEntry ==
  /\ Handled /\ entering /\ OsCall("mmap")
  /\ entering' = FALSE
  /\ \/ regs.args[5] = "neg" /\ UNCHANGED <<regs, ureg>>
     \/ /\ regs.args[5] # "neg" /\ ready
        /\ regs' = [regs EXCEPT !.args[5] = "native"]
        /\ set_args(regs')
  /\ pc' = "cont"
  /\ UNCHANGED <<monitor_actions, ready, status, lret, tr, killed, ubuf, cur>>

(* get_mapping without a context, or raising in get_lind_map_to_native.    *)
MmapCrash ==
  /\ Handled /\ entering /\ OsCall("mmap") /\ regs.args[5] # "neg"
  /\ ~ready \/ "raise" \in Faults
  /\ Crash

(* The exit half of a handler up to its first effect; close of a negative  *)
(* descriptor has none.                                                    *)
Refused(c, a) == \E i \in Row(c).signed : a[i] = "neg"

AfterPaths == IF PerformsLind(Row(regs.call)) THEN "lind" ELSE "reply"

(* A faulty variant: the call is served at whichever stop comes first.     *)
ExitHalfAnyStop ==
  /\ Handled
  /\ pc' = IF Row(regs.call).paths # {} THEN "path" ELSE AfterPaths
  /\ UNCHANGED <<monitor_actions, ready, status, regs, entering, lret,
                 traceeVars, cur>>

ExitHalf ==
  /\ Handled /\ ~entering
  /\ IF Refused(regs.call, regs.args)
     THEN pc' = "cont" /\ entering' = TRUE
     ELSE /\ pc' = IF Row(regs.call).paths # {} THEN "path"
                   ELSE AfterPaths
          /\ UNCHANGED entering
  /\ UNCHANGED <<monitor_actions, ready, status, regs, lret, traceeVars, cur>>

(* get_path, for every path argument.  Words that cannot be read count as  *)
(* 0xff: get_path goes on to the NUL of a later mapping...                 *)
get_path ==
  /\ pc \in {"epath", "path"}
  /\ tr \in Stopped
  /\ pc' = IF pc = "epath" THEN "cont" ELSE AfterPaths
  /\ UNCHANGED <<monitor_actions, ready, status, regs, entering, lret,
                 traceeVars, cur>>

(* ... or finds none: the buffer doubles until realloc fails, and the      *)
(* monitor crashes.                                                        *)
BadPath ==
  /\ pc \in {"epath", "path"}
  /\ tr \notin Stopped \/ cur.bad # {}
  /\ Crash

(* What the wrapper is given for argument i; get_mem of a tracee that is   *)
(* not stopped yields 0xff, and a copy of one block is too short for more. *)
Sent(row, i) ==
  IF i \notin row.paths \cup row.mems \cup row.other THEN "none"
  ELSE IF \/ i \in row.other \cup cur.bad
          \/ i \in row.mems /\ tr \notin Stopped
          \/ i \in row.block /\ cur.size = "more"
       THEN "junk" ELSE ubuf[i].head

(* The lind_* wrapper: get_mem of its inputs, MakeLindSysCall and          *)
(* ParseResponse, which answers -1 for an error response, the code of any  *)
(* other, and 0 when an attribute is missing or has the wrong type.        *)
LindCall ==
  /\ pc = "lind" /\ ready
  /\ lret' \in IF "odd" \in Faults THEN LindResults ELSE {"ok", "err"}
  /\ cur' = [cur EXCEPT !.linds = @ + 1, !.lres = lret',
                        !.given = [i \in ArgNo |-> Sent(Row(regs.call), i)]]
  /\ pc' = "reply"
  /\ UNCHANGED <<monitor_actions, ready, status, regs, entering, traceeVars>>

(* No context, an exception in LindSyscall (ParseResponse of NULL), or an  *)
(* undefined access of the handler that traps.                             *)
LindCrash ==
  /\ pc = "lind"
  /\ \/ ~ready
     \/ "raise" \in Faults
     \/ "wild" \in Faults /\ cur.size \in Row(regs.call).wild
  /\ Crash

(* A faulty variant: a failing descriptor call keeps the kernel's result,  *)
(* as open does.                                                           *)
RetValUnchecked(kind, r, os) ==
  CASE kind = "einval"               -> "einval"
    [] kind = "os"                   -> os
    [] kind # "lind" /\ r = "err"    -> os
    [] kind \in LindRets /\ r = "ok" -> "lind_ok"
    [] kind \in LindRets /\ r = "odd" -> "unread"
    [] OTHER                         -> "lind_err"

(* The value of regs.retval at the end of a handler, by kind of handler.   *)
RetVal(kind, r, os) ==
  CASE kind = "einval"                   -> "einval"
    [] kind = "os"                       -> os
    [] kind = "fd_or_os" /\ r = "err"    -> os
    [] kind \in LindRets /\ r = "ok"     -> "lind_ok"
    [] kind \in LindRets /\ r = "odd"    -> "unread"
    [] OTHER                             -> "lind_err"

(* What set_mem leaves in place of "old" behind argument i.  (lind_select  *)
(* copies out of an uninitialised structure when the response could not be *)
(* read.)                                                                  *)
Poked(row, i, old) ==
  IF i \in row.fills \cap (row.pokes \cup row.echoes) /\ lret = "ok" THEN "lind"
  ELSE IF i \in row.pokes \/ (i \in row.echoes \cap row.fills /\ lret = "odd")
       THEN "junk" ELSE old

(* A block of a fixed size does not reach the rest of a longer argument,   *)
(* and reaches beyond a shorter one.                                       *)
WriteBack(row, i) ==
  LET b == ubuf[i] IN
    [head   |-> Poked(row, i, b.head),
     rest   |-> IF i \in row.block THEN b.rest ELSE Poked(row, i, b.rest),
     beyond |-> IF i \in row.block \cap row.pokes /\ cur.size = "less"
                THEN "junk" ELSE b.beyond]

(* A faulty variant: the flag is not set again.                            *)
ReplyKeepsFlag ==
  /\ pc = "reply" /\ pc' = "cont"
  /\ regs' = [regs EXCEPT !.rax = RetVal(Row(regs.call).ret, lret, @)]
  /\ set_args(regs')
  /\ UNCHANGED <<monitor_actions, ready, status, entering, lret, tr, killed,
                 ubuf, cur>>

(* The rest of the exit half: set_mem of the outputs, the return value,    *)
(* set_args, and the flag.                                                 *)
Reply ==
  /\ pc = "reply"
  /\ LET row == Row(regs.call)
         new == [call |-> regs.call,
                 rax  |-> RetVal(row.ret, lret, regs.rax),
                 args |-> [i \in ArgNo |-> IF i \in row.dirty THEN "mon"
                                           ELSE regs.args[i]]]
     IN  /\ regs' = new
         /\ IF row.ret = "os" \/ (row.ret = "fd_or_os" /\ lret = "err")
            THEN UNCHANGED ureg
            ELSE set_args(new)
         /\ ubuf' = IF tr \in Stopped THEN [i \in ArgNo |-> WriteBack(row, i)]
                    ELSE ubuf
  /\ entering' = TRUE
  /\ pc' = "cont"
  /\ UNCHANGED <<monitor_actions, ready, status, lret, tr, killed, cur>>

(* The monitor is gone and so is the tracee, or it runs by itself.         *)
Terminated ==
  /\ pc \in Ended /\ tr \in {"reaped", "free"}
  /\ UNCHANGED vars

MonitorStep ==
  \/ PythonInit \/ FirstWait \/ Continue \/ Wait \/ get_args
  \/ NoHandler \/ monitor_deny \/ monitor_exit
  \/ EntryHalf \/ ExecveEntry \/ MmapEntry \/ MmapCrash \/ ExitHalf
  \/ get_path \/ BadPath \/ Reply

LindStep == LindCall \/ LindCrash

KernelStep == StopSelf \/ Die

Next ==
  \/ MonitorStep
  \/ LindStep
  \/ KernelStep
  \/ NativeRun
  \/ \E c \in Calls : Issue(c)
  \/ SignalStop
  \/ Kill
  \/ Terminated

Spec == Init /\ [][Next]_vars

(* The monitor and the kernel's part of a stop or a death are never        *)
(* suspended for good.  Nothing is assumed of how long the kernel or Lind  *)
(* takes to serve a call (a read or an accept may block), nor of the       *)
(* program.                                                                *)
FairSpec == Spec /\ WF_vars(MonitorStep) /\ WF_vars(KernelStep)

-----------------------------------------------------------------------------
(* Properties.                                                             *)

(* Every variable keeps its type.                                          *)
TypeOK ==
  /\ monitor_actions \in [CallNumbers -> Actions]
  /\ pc \in MonitorStates
  /\ ready \in BOOLEAN
  /\ status \in Statuses
  /\ regs \in RegFile
  /\ entering \in BOOLEAN
  /\ lret \in LindResults \cup {"none"}
  /\ tr \in TraceeStates
  /\ killed \in BOOLEAN
  /\ ureg \in RegFile
  /\ ubuf \in [ArgNo -> Memory]
  /\ cur \in History

(* When a handler is about to look at "entering", the flag tells the entry *)
(* stop from the exit stop, although calls without an action, exit calls,  *)
(* signal stops and exit events do not take part in the alternation.       *)
PhaseAgreement ==
  AtSyscall /\ tr \in {"entry", "exit"} /\ Action(regs.call) # "NO_VAL"
    => (entering <=> tr = "entry")

(* The calls Lind has to serve.                                            *)
NeedsLind(c, a) ==
  Action(c) = "ALLOW_LIND" /\ PerformsLind(Row(c)) /\ ~Refused(c, a)

(* The program runs on after a call.                                       *)
Returned == tr = "user" /\ cur.call # NoCall

(* A call is performed once by the kernel and, when it is Lind's, once by  *)
(* Lind: never twice, and not skipped when the program runs on.            *)
ExactlyOnce ==
  /\ cur.osruns <= 1 /\ cur.linds <= 1
  /\ Returned => /\ cur.osruns = 1
                 /\ cur.linds = IF NeedsLind(cur.call, cur.args) THEN 1 ELSE 0

(* What a handler passes to Lind are the call and the arguments of the     *)
(* call the tracee is in, after the kernel has run it, even when get_args  *)
(* failed at the exit stop and regs is left from the entry stop.           *)
LindOnCurrentCall ==
  pc = "lind" => /\ regs.call = cur.call /\ regs.args = cur.args
                 /\ cur.osruns = 1 /\ cur.linds = 0

(* The program gets Lind's result for a call of Lind's (but for open,      *)
(* whose handler keeps the kernel's result when Lind fails), EINVAL for a  *)
(* call Lind has no handler for, and the kernel's result otherwise.  An    *)
(* answer that could not be read looks like a success.                     *)
Answers ==
  CASE NeedsLind(cur.call, cur.args) ->
         IF cur.lres = "ok" THEN {"lind_ok"}
         ELSE IF cur.lres = "odd" THEN {"unread"}
         ELSE IF cur.call = "open" THEN {"os_ok", "os_err"}
         ELSE {"lind_err"}
    [] Action(cur.call) = "ALLOW_LIND" /\ Row(cur.call).ret = "einval" ->
         {"einval"}
    [] OTHER -> {"os_ok", "os_err"}

ResultDelivered == Returned => ureg.rax \in Answers

(* Arguments transferred as one block of a fixed size, and those of them   *)
(* whose handlers write the block back.                                    *)
OneBlock == {<<"bind", 2>>, <<"connect", 2>>, <<"setsockopt", 4>>,
             <<"epoll_ctl", 4>>, <<"epoll_wait", 2>>, <<"poll", 1>>,
             <<"getsockname", 2>>, <<"getsockopt", 4>>}
Overruns == OneBlock \ {<<"bind", 2>>, <<"connect", 2>>, <<"setsockopt", 4>>}

(* Outputs that are never written back, and outputs written back from a    *)
(* buffer that Lind never fills.                                           *)
LostOutputs == {<<"pread64", 2>>, <<"socketpair", 4>>, <<"accept", 2>>,
                <<"accept", 3>>, <<"recvfrom", 6>>, <<"getsockname", 3>>,
                <<"getsockopt", 5>>, <<"fcntl", 3>>}
Scrambled   == {<<"recvfrom", 2>>, <<"recvfrom", 5>>, <<"recvmsg", 2>>}

(* What the kernel's run has left behind argument i.                       *)
Left(i) == IF i \in cur.wrote THEN "os" ELSE "prog"

(* What the handler of a call of Lind's leaves behind output i.            *)
Found(i) ==
  IF <<cur.call, i>> \in Scrambled THEN "junk"
  ELSE IF <<cur.call, i>> \in LostOutputs THEN Left(i)
  ELSE IF cur.lres = "ok" THEN "lind"
  ELSE IF cur.call = "select" /\ cur.lres = "err" THEN Left(i)
  ELSE "junk"

(* After a success of Lind the program finds Lind's data behind the output *)
(* arguments of its call, but for the lost and the scrambled ones; after   *)
(* an error or an answer that could not be read the handlers overwrite     *)
(* them with uninitialised bytes.  Of an argument that is longer than the  *)
(* one block its handler transfers (poll and epoll_wait: one entry), the   *)
(* rest keeps what the kernel's run has left there.                        *)
BuffersDelivered ==
  Returned /\ NeedsLind(cur.call, cur.args) =>
    \A i \in Outputs(cur.call) :
      /\ ubuf[i].head = Found(i)
      /\ cur.size = "more" =>
           ubuf[i].rest = IF <<cur.call, i>> \in OneBlock THEN Left(i) ELSE Found(i)

(* Memory a call does not return data through keeps what the program wrote *)
(* there, but for the event of epoll_ctl; and memory beyond an argument is *)
(* changed when a block written back is larger than it, and only then.     *)
(* (Beyond a whole word: module TraceeMemory has how set_mem completes the *)
(* last one.)                                                              *)
NoStrayWrites ==
  Returned =>
    \A i \in ArgNo :
      LET written == NeedsLind(cur.call, cur.args) /\ <<cur.call, i>> \in Overruns IN
        /\ i \notin Outputs(cur.call) =>
             /\ ubuf[i].head # "prog" <=> written
             /\ ubuf[i].rest = "prog"
        /\ ubuf[i].beyond # "prog" <=> written /\ cur.size = "less"

(* What Lind is given for an input argument is what the program wrote,     *)
(* although the kernel has run the call before; unless the kernel has      *)
(* overwritten it, it is a path that cannot be read, it is longer than the *)
(* block its handler copies, or it is one of those in whose place the      *)
(* handlers pass other bytes, which Lind is never given.                   *)
Mistaken == {<<"fcntl", 3>>, <<"pwritev", 2>>, <<"poll", 1>>, <<"sendto", 5>>,
             <<"sendmsg", 2>>, <<"recvmsg", 2>>, <<"recvfrom", 6>>,
             <<"accept", 3>>, <<"getsockopt", 5>>}

InputsIntact ==
  Returned /\ cur.linds = 1 =>
    \A i \in Inputs(cur.call) :
      cur.given[i] = "prog" <=>
        /\ i \notin cur.wrote \cup cur.bad
        /\ <<cur.call, i>> \notin Mistaken
        /\ ~(<<cur.call, i>> \in OneBlock /\ cur.size = "more")

(* The program's argument registers survive the call, but for mmap's       *)
(* descriptor and getsockname's length pointer.                            *)
ArgumentsPreserved ==
  Returned => \A i \in ArgNo : \/ ureg.args[i] = cur.args[i]
                                \/ <<cur.call, i>> \in {<<"mmap", 5>>,
                                                        <<"getsockname", 3>>}

(* A live tracee goes on without the monitor only after a denied call or   *)
(* after a crash that the death of the tracee cannot cause.                *)
TracedUntilDenied ==
  tr \in {"free", "freecall"} =>
    \/ pc = "exit" /\ Action(cur.call) = "DENY_LIND"
    \/ pc = "crashed" /\ Faults \cap {"badpath", "nolind", "raise", "wild"} # {}

(* A denied call does not return to the program while it is traced.        *)
DeniedNeverReturns == Returned => Action(cur.call) # "DENY_LIND"

(* The monitor returns from its loop only after the tracee has exited by   *)
(* itself.                                                                 *)
CleanEnd == pc = "done" => tr = "reaped" /\ ~killed

(* The abstract view of a call: module Mediation.                          *)
MedPhase ==
  CASE tr \in {"boot", "bootstop", "launch", "user", "signal"} -> "idle"
    [] tr \in {"entry", "kernel", "exit"}                      -> "asked"
    [] OTHER                                                   -> "over"

MedKind ==
  CASE Action(cur.call) = "DENY_LIND"                   -> "denied"
    [] NeedsLind(cur.call, cur.args)                    ->
         IF Row(cur.call).ret = "fd_or_os" THEN "fallback" ELSE "lind"
    [] Action(cur.call) = "ALLOW_LIND" /\ Row(cur.call).ret = "einval"
                                                        -> "unsupported"
    [] OTHER                                            -> "kernel"

MedValue ==
  CASE ureg.rax \in {"os_ok", "os_err"} -> "os"
    [] ureg.rax = "lind_ok"             -> "ok"
    [] ureg.rax = "lind_err"            -> "err"
    [] ureg.rax = "unread"              -> "odd"
    [] ureg.rax = "einval"              -> "einval"
    [] OTHER                            -> "none"

Med == INSTANCE Mediation WITH
         phase  <- MedPhase,
         kind   <- IF MedPhase = "asked" THEN MedKind ELSE "none",
         kernel <- IF MedPhase = "asked" THEN cur.osruns ELSE 0,
         lind   <- IF MedPhase = "asked" THEN cur.lres ELSE "none",
         value  <- IF MedPhase = "idle" THEN MedValue ELSE "none"

(* The stops of the monitor implement the abstract mediation of a call:    *)
(* kernel, then Lind, then one answer, and none once the program is lost.  *)
ImplementsMediation == Med!MedSpec

(* A stopped tracee is let go on, unless the monitor waits for Lind.       *)
StopsAreResumed == tr \in Stopped ~> (tr \notin Stopped \/ pc = "lind")

(* The monitor does not outlive its tracee, unless it waits for Lind.      *)
DeathEndsMonitor == tr \in Zombies \cup {"reaped"} ~> pc \in Ended \cup {"lind"}

-----------------------------------------------------------------------------
(* The inductive invariant behind PhaseAgreement, ExactlyOnce,             *)
(* LindOnCurrentCall and DeniedNeverReturns: what the monitor's flag and   *)
(* registers are worth, for every state of the tracee.                     *)

Served == IF NeedsLind(cur.call, cur.args) THEN 1 ELSE 0

(* Register contents r that stand for the current call.  (mmap's arguments *)
(* are changed at its entry stop; they are not passed to Lind.)            *)
Same(r) == /\ r.call = cur.call
           /\ Action(cur.call) = "ALLOW_LIND" => r.args = cur.args

Counts(k, l) == cur.osruns = k /\ cur.linds = l

(* Between calls.                                                          *)
IdleInv ==
  tr \in {"boot", "bootstop", "launch", "user", "signal"} =>
    /\ entering
    /\ pc \in CASE tr = "boot"               -> {"init", "wait0"}
               [] tr = "bootstop"           -> {"init", "wait0", "cont"}
               [] tr \in {"launch", "user"} -> {"wait"}
               [] OTHER -> {"wait", "fetch", "dispatch", "cont"}
    /\ pc \in {"fetch", "dispatch"} => status = "stopsig"
    /\ IF cur.call = NoCall THEN Counts(0, 0)
       ELSE Counts(1, Served) /\ Action(cur.call) # "DENY_LIND"

(* Before and while the kernel runs the call.                              *)
EntryInv ==
  tr \in {"entry", "kernel"} =>
    /\ cur.call \in Calls /\ Counts(0, 0) /\ Same(ureg)
    /\ pc \in IF tr = "kernel" THEN {"wait"}
              ELSE {"wait", "fetch", "dispatch", "cont", "epath"}
    /\ pc \in {"fetch", "dispatch"} => status = "syscall"
    /\ IF tr = "entry" /\ pc \in {"wait", "fetch", "dispatch"}
       THEN entering /\ (pc = "dispatch" => Same(regs))
       ELSE /\ Same(regs) /\ Action(cur.call) # "DENY_LIND"
            /\ entering <=> ~Toggling(cur.call)

(* After the kernel has run it.                                            *)
ExitInv ==
  tr = "exit" =>
    /\ cur.call \in Calls /\ cur.call \notin ExitCalls
    /\ cur.osruns = 1 /\ Action(cur.call) # "DENY_LIND"
    /\ pc \in {"wait", "fetch", "dispatch", "path", "lind", "reply", "cont"}
    /\ pc \in {"fetch", "dispatch"} => status = "syscall"
    /\ pc # "cont" => Same(regs) /\ Same(ureg)
    /\ pc \in {"wait", "fetch", "dispatch"} =>
         cur.linds = 0 /\ (entering <=> ~Toggling(cur.call))
    /\ pc = "cont" => entering /\ cur.linds = Served

(* In the exit half of a handler, whatever has become of the tracee.       *)
ServeInv ==
  /\ pc \in {"fetch", "dispatch"} /\ status = "syscall" /\ ~entering
       => /\ tr \in {"exit", "dying", "event", "zsignaled"}
          /\ cur.call \in Calls /\ Toggling(cur.call) /\ Same(regs) /\ Same(ureg)
          /\ Counts(1, 0)
  /\ pc \in {"path", "lind", "reply"}
       => /\ tr \in {"exit", "dying", "event", "zsignaled"}
          /\ cur.call \in Calls /\ ~entering /\ Toggling(cur.call) /\ Same(regs)
          /\ Counts(1, IF pc = "reply" THEN Served ELSE 0)
          /\ ~Refused(regs.call, regs.args)
          /\ pc = "lind" => NeedsLind(cur.call, cur.args)

EndInv ==
  /\ pc \in Ended => tr \in Gone
  /\ tr \in {"free", "freecall"} => pc \in Ended
  /\ tr = "freecall" => cur.osruns = 0
  /\ tr = "reaped" => pc \in Ended \/ status \in {"exited", "signaled"}
  /\ cur.osruns <= 1 /\ cur.linds <= 1

(* All of it: every part is needed for some step of another.               *)
IInv == TypeOK /\ IdleInv /\ EntryInv /\ ExitInv /\ ServeInv /\ EndInv

-----------------------------------------------------------------------------
(* What the repository says of the program and the program does not do.    *)

(* The calls the policy forbids are not executed.                          *)
DeniedNotExecuted ==
  cur.call # NoCall /\ Action(cur.call) = "DENY_LIND" => cur.osruns = 0

(* The program finds Lind's data in the buffer of a successful pread64.    *)
PreadDelivered ==
  Returned /\ cur.call = "pread64" /\ NeedsLind(cur.call, cur.args)
           /\ cur.lres = "ok"
    => ubuf[2].head = "lind"
=============================================================================
