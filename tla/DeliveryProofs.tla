---------------------------- MODULE DeliveryProofs ----------------------------
(***************************************************************************)
(* What the program finds after a call, for every set of calls, policies   *)
(* and faults: the result, the output buffers, the untouched memory and    *)
(* the argument registers; and that the monitor implements the abstract    *)
(* mediation.  Builds on the invariant of MonitorProofs.                   *)
(***************************************************************************)
EXTENDS MonitorProofs

(* What a handler of Lind's writes back: nothing of a lost output, an      *)
(* unfilled buffer for a scrambled one, what Lind filled for the others.   *)
OutputFits(c, row, i) ==
  IF <<c, i>> \in Scrambled THEN i \in row.pokes /\ i \notin row.fills
  ELSE IF <<c, i>> \in LostOutputs THEN i \notin row.pokes \cup row.echoes
  ELSE /\ i \in row.fills
       /\ c # "select" => i \in row.pokes
       /\ c = "select" => i \in row.echoes /\ i \notin row.pokes

(* What it passes on: every input, in its own right or mistaken.           *)
InputFits(c, row, i) ==
  /\ i \in row.paths \cup row.mems \cup row.other
  /\ i \in row.other <=> <<c, i>> \in Mistaken

(* What the rows of Handlers have in common: which calls return Lind's     *)
(* result, test a sign, change a register, use a block of a fixed size,    *)
(* and what they do with the inputs and outputs of the call.               *)
RowFits(c, row) ==
  /\ row.ret \in RetKinds
  /\ row.ret = "fd_or_os" <=> c = "open"
  /\ row.signed # {} => row.ret = "lind"
  /\ \A i \in row.dirty : <<c, i>> = <<"getsockname", 3>>
  /\ row.ret \notin LindRets => row.pokes = {} /\ row.echoes = {}
  /\ row.ret \in LindRets =>
       /\ \A i \in ArgNo : /\ i \in row.block <=> <<c, i>> \in OneBlock
                           /\ i \in row.block \cap row.pokes <=> <<c, i>> \in Overruns
       /\ \A i \in Outputs(c) : OutputFits(c, row, i)
       /\ \A i \in ArgNo \ Outputs(c) :
            /\ i \in row.pokes <=> <<c, i>> \in Overruns
            /\ i \notin row.echoes
       /\ \A i \in Inputs(c) : InputFits(c, row, i)

(* Every handler of the ALLOW_LIND switch fits.                            *)
LEMMA LindRowFits ==
  ASSUME NEW c
  PROVE  RowFits(c, LindSwitch(c))
<1> USE DEF Native, RetKinds, LindRets, ArgNo, OutputFits, InputFits
<1>1. CASE c \in {"getuid", "geteuid", "getgid", "getegid", "getpid", "flock",
         "lseek", "listen", "shutdown"}
  <2>1. LindSwitch(c) = Lind
    BY <1>1 DEF LindSwitch, LindFileSwitch, monitor_getuid, monitor_geteuid,
        monitor_getgid, monitor_getegid, monitor_getpid, monitor_flock,
        monitor_lseek, monitor_listen, monitor_shutdown
  <2> QED
    BY <1>1, <2>1 DEF Lind, RowFits, Outputs, Inputs, LostOutputs, Scrambled,
        OneBlock, Overruns, Mistaken
<1>2. CASE c \in {"fcntl"}
  <2>1. LindSwitch(c) = [Lind EXCEPT !.other = {3}, !.wild = Sizes]
    BY <1>2 DEF LindSwitch, LindFileSwitch, monitor_fcntl
  <2> QED
    BY <1>2, <2>1 DEF Lind, RowFits, Outputs, Inputs, LostOutputs, Scrambled,
        OneBlock, Overruns, Mistaken
<1>3. CASE c \in {"close"}
  <2>1. LindSwitch(c) = [Lind EXCEPT !.signed = {1}]
    BY <1>3 DEF LindSwitch, LindFileSwitch, monitor_close
  <2> QED
    BY <1>3, <2>1 DEF Lind, RowFits, Outputs, Inputs, LostOutputs, Scrambled,
        OneBlock, Overruns, Mistaken
<1>4. CASE c \in {"dup", "dup2", "dup3", "socket", "epoll_create",
         "epoll_create1"}
  <2>1. LindSwitch(c) = LindFd
    BY <1>4 DEF LindSwitch, LindFileSwitch, monitor_dup, monitor_dup2,
        monitor_dup3, monitor_socket, monitor_epoll_create,
        monitor_epoll_create1
  <2> QED
    BY <1>4, <2>1 DEF LindFd, RowFits, Outputs, Inputs, LostOutputs,
        Scrambled, OneBlock, Overruns, Mistaken
<1>5. CASE c \in {"rmdir", "mkdir", "chdir", "unlink"}
  <2>1. LindSwitch(c) = LindPath({1})
    BY <1>5 DEF LindSwitch, LindFileSwitch, monitor_rmdir, monitor_mkdir,
        monitor_chdir, monitor_unlink
  <2> QED
    BY <1>5, <2>1 DEF LindPath, Lind, RowFits, Outputs, Inputs, LostOutputs,
        Scrambled, OneBlock, Overruns, Mistaken
<1>6. CASE c \in {"link"}
  <2>1. LindSwitch(c) = LindPath({1, 2})
    BY <1>6 DEF LindSwitch, LindFileSwitch, monitor_link
  <2> QED
    BY <1>6, <2>1 DEF LindPath, Lind, RowFits, Outputs, Inputs, LostOutputs,
        Scrambled, OneBlock, Overruns, Mistaken
<1>7. CASE c \in {"open"}
  <2>1. LindSwitch(c) = [LindPath({1}) EXCEPT !.ret = "fd_or_os"]
    BY <1>7 DEF LindSwitch, LindFileSwitch, monitor_open
  <2> QED
    BY <1>7, <2>1 DEF LindPath, Lind, RowFits, Outputs, Inputs, LostOutputs,
        Scrambled, OneBlock, Overruns, Mistaken
<1>8. CASE c \in {"openat"}
  <2>1. LindSwitch(c) = [LindFd EXCEPT !.paths = {2}]
    BY <1>8 DEF LindSwitch, LindFileSwitch, monitor_openat
  <2> QED
    BY <1>8, <2>1 DEF LindFd, RowFits, Outputs, Inputs, LostOutputs,
        Scrambled, OneBlock, Overruns, Mistaken
<1>9. CASE c \in {"access"}
  <2>1. LindSwitch(c) = [LindFd EXCEPT !.paths = {1}]
    BY <1>9 DEF LindSwitch, LindFileSwitch, monitor_access
  <2> QED
    BY <1>9, <2>1 DEF LindFd, RowFits, Outputs, Inputs, LostOutputs,
        Scrambled, OneBlock, Overruns, Mistaken
<1>10. CASE c \in {"read", "fstat", "fstatfs", "getdents"}
  <2>1. LindSwitch(c) = LindOut({2})
    BY <1>10 DEF LindSwitch, LindFileSwitch, monitor_read, monitor_fstat,
        monitor_fstatfs, monitor_getdents
  <2> QED
    BY <1>10, <2>1 DEF LindOut, Lind, RowFits, Outputs, Inputs, LostOutputs,
        Scrambled, OneBlock, Overruns, Mistaken
<1>11. CASE c \in {"stat", "statfs"}
  <2>1. LindSwitch(c) = [LindOut({2}) EXCEPT !.paths = {1}]
    BY <1>11 DEF LindSwitch, LindFileSwitch, monitor_stat, monitor_statfs
  <2> QED
    BY <1>11, <2>1 DEF LindOut, Lind, RowFits, Outputs, Inputs, LostOutputs,
        Scrambled, OneBlock, Overruns, Mistaken
<1>12. CASE c \in {"write"}
  <2>1. LindSwitch(c) = LindIn({2})
    BY <1>12 DEF LindSwitch, LindFileSwitch, monitor_write
  <2> QED
    BY <1>12, <2>1 DEF LindIn, Lind, RowFits, Outputs, Inputs, LostOutputs,
        Scrambled, OneBlock, Overruns, Mistaken
<1>13. CASE c \in {"pwritev"}
  <2>1. LindSwitch(c) = [LindIn({2}) EXCEPT !.other = {2}]
    BY <1>13 DEF LindSwitch, LindFileSwitch, monitor_pwritev
  <2> QED
    BY <1>13, <2>1 DEF LindIn, Lind, RowFits, Outputs, Inputs, LostOutputs,
        Scrambled, OneBlock, Overruns, Mistaken
<1>14. CASE c \in {"pread64"}
  <2>1. LindSwitch(c) = [LindIn({2}) EXCEPT !.fills = {2}]
    BY <1>14 DEF LindSwitch, LindFileSwitch, monitor_pread64
  <2> QED
    BY <1>14, <2>1 DEF LindIn, Lind, RowFits, Outputs, Inputs, LostOutputs,
        Scrambled, OneBlock, Overruns, Mistaken
<1>15. CASE c \in {"bind", "connect"}
  <2>1. LindSwitch(c) = [LindIn({2}) EXCEPT !.block = {2}, !.wild = {"more"}]
    BY <1>15 DEF LindSwitch, LindFileSwitch, monitor_bind, monitor_connect
  <2> QED
    BY <1>15, <2>1 DEF LindIn, Lind, RowFits, Outputs, Inputs, LostOutputs,
        Scrambled, OneBlock, Overruns, Mistaken
<1>16. CASE c \in {"setsockopt"}
  <2>1. LindSwitch(c) = [LindIn({4}) EXCEPT !.block = {4}, !.wild = {"more"}]
    BY <1>16 DEF LindSwitch, LindFileSwitch, monitor_setsockopt
  <2> QED
    BY <1>16, <2>1 DEF LindIn, Lind, RowFits, Outputs, Inputs, LostOutputs,
        Scrambled, OneBlock, Overruns, Mistaken
<1>17. CASE c \in {"accept"}
  <2>1. LindSwitch(c) = [LindFd EXCEPT !.mems = {2}, !.other = {3}, !.wild = Sizes]
    BY <1>17 DEF LindSwitch, LindFileSwitch, monitor_accept
  <2> QED
    BY <1>17, <2>1 DEF LindFd, RowFits, Outputs, Inputs, LostOutputs,
        Scrambled, OneBlock, Overruns, Mistaken
<1>18. CASE c \in {"sendto"}
  <2>1. LindSwitch(c) = [LindIn({2}) EXCEPT !.other = {5}, !.wild = Sizes]
    BY <1>18 DEF LindSwitch, LindFileSwitch, monitor_sendto
  <2> QED
    BY <1>18, <2>1 DEF LindIn, Lind, RowFits, Outputs, Inputs, LostOutputs,
        Scrambled, OneBlock, Overruns, Mistaken
<1>19. CASE c \in {"recvfrom"}
  <2>1. LindSwitch(c) = [Lind EXCEPT !.other = {6}, !.pokes = {2, 5}, !.wild = Sizes]
    BY <1>19 DEF LindSwitch, LindFileSwitch, monitor_recvfrom
  <2> QED
    BY <1>19, <2>1 DEF Lind, RowFits, Outputs, Inputs, LostOutputs, Scrambled,
        OneBlock, Overruns, Mistaken
<1>20. CASE c \in {"sendmsg"}
  <2>1. LindSwitch(c) = [LindIn({2}) EXCEPT !.other = {2}, !.wild = Sizes]
    BY <1>20 DEF LindSwitch, LindFileSwitch, monitor_sendmsg
  <2> QED
    BY <1>20, <2>1 DEF LindIn, Lind, RowFits, Outputs, Inputs, LostOutputs,
        Scrambled, OneBlock, Overruns, Mistaken
<1>21. CASE c \in {"recvmsg"}
  <2>1. LindSwitch(c) = [LindIn({2}) EXCEPT !.other = {2}, !.pokes = {2}, !.wild = Sizes]
    BY <1>21 DEF LindSwitch, LindFileSwitch, monitor_recvmsg
  <2> QED
    BY <1>21, <2>1 DEF LindIn, Lind, RowFits, Outputs, Inputs, LostOutputs,
        Scrambled, OneBlock, Overruns, Mistaken
<1>22. CASE c \in {"getsockname"}
  <2>1. LindSwitch(c) = monitor_getsockname
    BY <1>22 DEF LindSwitch, LindFileSwitch
  <2> QED
    BY <1>22, <2>1 DEF monitor_getsockname, LindOut, Lind, RowFits, Outputs,
        Inputs, LostOutputs, Scrambled, OneBlock, Overruns, Mistaken
<1>23. CASE c \in {"getsockopt"}
  <2>1. LindSwitch(c) = monitor_getsockopt
    BY <1>23 DEF LindSwitch, LindFileSwitch
  <2> QED
    BY <1>23, <2>1 DEF monitor_getsockopt, LindOut, Lind, RowFits, Outputs,
        Inputs, LostOutputs, Scrambled, OneBlock, Overruns, Mistaken
<1>24. CASE c \in {"socketpair"}
  <2>1. LindSwitch(c) = [LindFd EXCEPT !.mems = {4}, !.fills = {4}]
    BY <1>24 DEF LindSwitch, LindFileSwitch, monitor_socketpair
  <2> QED
    BY <1>24, <2>1 DEF LindFd, RowFits, Outputs, Inputs, LostOutputs,
        Scrambled, OneBlock, Overruns, Mistaken
<1>25. CASE c \in {"select"}
  <2>1. LindSwitch(c) = monitor_select
    BY <1>25 DEF LindSwitch, LindFileSwitch
  <2> QED
    BY <1>25, <2>1 DEF monitor_select, LindIn, Lind, RowFits, Outputs, Inputs,
        LostOutputs, Scrambled, OneBlock, Overruns, Mistaken
<1>26. CASE c \in {"poll"}
  <2>1. LindSwitch(c) = monitor_poll
    BY <1>26 DEF LindSwitch, LindFileSwitch
  <2> QED
    BY <1>26, <2>1 DEF monitor_poll, LindOut, Lind, RowFits, Outputs, Inputs,
        LostOutputs, Scrambled, OneBlock, Overruns, Mistaken
<1>27. CASE c \in {"epoll_ctl"}
  <2>1. LindSwitch(c) = [LindIn({4}) EXCEPT !.block = {4}, !.pokes = {4}]
    BY <1>27 DEF LindSwitch, LindFileSwitch, monitor_epoll_ctl
  <2> QED
    BY <1>27, <2>1 DEF LindIn, Lind, RowFits, Outputs, Inputs, LostOutputs,
        Scrambled, OneBlock, Overruns, Mistaken
<1>28. CASE c \in {"epoll_wait"}
  <2>1. LindSwitch(c) = [LindOut({2}) EXCEPT !.block = {2}]
    BY <1>28 DEF LindSwitch, LindFileSwitch, monitor_epoll_wait
  <2> QED
    BY <1>28, <2>1 DEF LindOut, Lind, RowFits, Outputs, Inputs, LostOutputs,
        Scrambled, OneBlock, Overruns, Mistaken
<1>29. CASE c \in {"getpeername"}
  <2>1. LindSwitch(c) = Native
    BY <1>29 DEF LindSwitch, LindFileSwitch, monitor_getpeername
  <2> QED
    BY <1>29, <2>1 DEF RowFits, Outputs, Inputs, LostOutputs, Scrambled,
        OneBlock, Overruns, Mistaken
<1>30. CASE c \in {"getcwd"}
  <2>1. LindSwitch(c) = monitor_getcwd
    BY <1>30 DEF LindSwitch, LindFileSwitch
  <2> QED
    BY <1>30, <2>1 DEF monitor_getcwd, RowFits, Outputs, Inputs, LostOutputs,
        Scrambled, OneBlock, Overruns, Mistaken
<1>31. CASE c \notin {"getuid", "geteuid", "getgid", "getegid", "getpid",
         "flock", "lseek", "listen", "shutdown", "fcntl", "close", "dup",
         "dup2", "dup3", "socket", "epoll_create", "epoll_create1", "rmdir",
         "mkdir", "chdir", "unlink", "link", "open", "openat", "access",
         "read", "fstat", "fstatfs", "getdents", "stat", "statfs", "write",
         "pwritev", "pread64", "bind", "connect", "setsockopt", "accept",
         "sendto", "recvfrom", "sendmsg", "recvmsg", "getsockname",
         "getsockopt", "socketpair", "select", "poll", "epoll_ctl",
         "epoll_wait", "getpeername", "getcwd"}
  <2>1. LindSwitch(c) = monitor_ns
    BY <1>31 DEF LindSwitch, LindFileSwitch
  <2> QED
    BY <1>31, <2>1 DEF monitor_ns, RowFits
<1> QED
  BY <1>1, <1>2, <1>3, <1>4, <1>5, <1>6, <1>7, <1>8, <1>9, <1>10, <1>11,
     <1>12, <1>13, <1>14, <1>15, <1>16, <1>17, <1>18, <1>19, <1>20, <1>21,
     <1>22, <1>23, <1>24, <1>25, <1>26, <1>27, <1>28, <1>29, <1>30, <1>31

(* Every handler of the ALLOW_OS switch leaves program and result alone.   *)
LEMMA OsRowNative ==
  ASSUME NEW c
  PROVE  /\ OsSwitch(c).ret = "os" /\ OsSwitch(c).signed = {}
         /\ OsSwitch(c).dirty = {} /\ OsSwitch(c).fills = {}
         /\ OsSwitch(c).pokes = {} /\ OsSwitch(c).echoes = {}
BY DEF OsSwitch, monitor_os, monitor_execve, monitor_tgkill, monitor_getcwd,
       monitor_arch_prctl, monitor_munmap, monitor_mmap, monitor_mprotect,
       monitor_gettid, monitor_brk, Native

(* Inputs are behind arguments.                                            *)
LEMMA InputsTyped == ASSUME NEW c PROVE Inputs(c) \subseteq ArgNo
BY DEF Inputs, ArgNo

-----------------------------------------------------------------------------
(* What the kernel's run leaves behind the arguments.                      *)
AsLeft == /\ cur.wrote \subseteq Outputs(cur.call)
          /\ \A i \in ArgNo : /\ ubuf[i].head = Left(i) /\ ubuf[i].rest = Left(i)
                              /\ ubuf[i].beyond = "prog"

(* Parts of an answer: the registers, the outputs, the memory around them, *)
(* and what Lind was given for the inputs.                                 *)
Kept == \A i \in ArgNo : \/ ureg.args[i] = cur.args[i]
                         \/ <<cur.call, i>> \in {<<"mmap", 5>>,
                                                 <<"getsockname", 3>>}
Filled ==
  NeedsLind(cur.call, cur.args) =>
    \A i \in Outputs(cur.call) :
      /\ ubuf[i].head = Found(i)
      /\ cur.size = "more" =>
           ubuf[i].rest = IF <<cur.call, i>> \in OneBlock THEN Left(i) ELSE Found(i)
Spared ==
  \A i \in ArgNo :
    LET written == NeedsLind(cur.call, cur.args) /\ <<cur.call, i>> \in Overruns IN
      /\ i \notin Outputs(cur.call) =>
           /\ ubuf[i].head # "prog" <=> written
           /\ ubuf[i].rest = "prog"
      /\ ubuf[i].beyond # "prog" <=> written /\ cur.size = "less"
Given ==
  cur.linds = 1 =>
    \A i \in Inputs(cur.call) :
      cur.given[i] = "prog" <=>
        /\ i \notin cur.wrote \cup cur.bad
        /\ <<cur.call, i>> \notin Mistaken
        /\ ~(<<cur.call, i>> \in OneBlock /\ cur.size = "more")

(* The answer to the current call is complete.                             *)
Answered == /\ ureg.rax \in Answers /\ Kept /\ Filled /\ Spared /\ Given
            /\ NeedsLind(cur.call, cur.args) => cur.lres # "none"

(* From the entry stop to the answer.                                      *)
AskInv ==
  tr \in {"entry", "kernel"} =>
    /\ Kept /\ AsLeft /\ cur.wrote = {}
    /\ tr = "entry" /\ pc = "dispatch" => regs.args = ureg.args

KernelInv ==
  tr = "exit" /\ pc # "cont" =>
    /\ ureg.rax \in {"os_ok", "os_err"} /\ Kept /\ AsLeft
    /\ pc \in {"dispatch", "path", "lind", "reply"} =>
         regs.rax = ureg.rax /\ regs.args = ureg.args
    /\ pc = "reply" /\ NeedsLind(cur.call, cur.args) =>
         lret = cur.lres /\ lret \in LindResults /\ Given

AnswerInv ==
  \/ tr = "exit" /\ pc = "cont"
  \/ tr \in {"user", "signal"} /\ cur.call # NoCall
  => Answered

LindInv == cur.linds = 0 => cur.lres = "none"

DataInv == AskInv /\ KernelInv /\ AnswerInv /\ LindInv

(* These are about registers, memory and history, and the policy.          *)
LEMMA Frame ==
  ASSUME UNCHANGED <<ubuf, cur, monitor_actions>>,
         ureg'.rax = ureg.rax, ureg'.args = ureg.args
  PROVE  /\ Answered' <=> Answered
         /\ AsLeft' <=> AsLeft
         /\ Kept' <=> Kept
         /\ Given' <=> Given
         /\ NeedsLind(cur.call, cur.args)' <=> NeedsLind(cur.call, cur.args)
<1>1. NeedsLind(cur.call, cur.args)' <=> NeedsLind(cur.call, cur.args)
  BY DEF NeedsLind, Row, Refused, Action
<1>2. (AsLeft' <=> AsLeft) /\ (Kept' <=> Kept) /\ (Given' <=> Given)
  BY DEF AsLeft, Left, Kept, Given
<1>3. (Filled' <=> Filled) /\ (Spared' <=> Spared)
  BY <1>1 DEF Filled, Spared, Found, Left
<1>4. Answers' = Answers
  BY <1>1 DEF Answers, Row, Action
<1> QED
  BY <1>1, <1>2, <1>3, <1>4 DEF Answered

(* No answer is touched by a step that leaves registers, memory and        *)
(* history alone and brings no new state of the tracee in.                 *)
LEMMA Idle ==
  ASSUME DataInv, UNCHANGED <<ureg, ubuf, cur, monitor_actions>>,
         tr' = tr \/ tr' \notin {"entry", "kernel", "exit", "user", "signal"},
         tr' = "entry" => pc' # "dispatch" \/ regs'.args = ureg.args,
         tr' = "exit" => /\ pc # "cont" /\ pc' # "cont"
                         /\ pc' \in {"dispatch", "path", "lind", "reply"} =>
                              regs'.rax = ureg.rax /\ regs'.args = ureg.args
                         /\ pc' # "reply" \/ ~NeedsLind(cur.call, cur.args)
  PROVE  DataInv'
BY Frame DEF DataInv, AskInv, KernelInv, AnswerInv, LindInv

(* A call that is not Lind's has touched nothing but what the kernel wrote.*)
LEMMA Unserved ==
  ASSUME AsLeft, cur.linds = 0, ~NeedsLind(cur.call, cur.args)
  PROVE  Filled /\ Spared /\ Given
BY DEF AsLeft, Left, Filled, Spared, Given

(* Every step keeps what the program has been given.                       *)
LEMMA DataStep == IInv /\ DataInv /\ [Next]_vars => DataInv'
<1> SUFFICES ASSUME IInv, DataInv, [Next]_vars PROVE DataInv'
  OBVIOUS
<1>0. /\ IdleInv /\ EntryInv /\ ExitInv /\ ServeInv /\ EndInv
      /\ tr \in TraceeStates /\ cur \in History /\ ureg \in RegFile
      /\ regs \in RegFile /\ ubuf \in [ArgNo -> Memory]
  BY DEF IInv, TypeOK
<1> USE <1>0 DEF monitorVars, traceeVars
<1>a. ASSUME Crash PROVE DataInv'
  BY <1>a, Idle DEF Crash, Detached
<1>1. CASE StopSelf
  BY <1>1, Idle DEF StopSelf
<1>2. ASSUME NEW c \in Calls, Issue(c) PROVE DataInv'
  <2>1. PICK a \in [ArgNo -> ArgValues], size \in Sizes, bad \in SUBSET ArgNo :
          /\ ureg' = [call |-> c, rax |-> "enosys", args |-> a]
          /\ cur' = [call |-> c, args |-> a, size |-> size, bad |-> bad,
                     osruns |-> 0, linds |-> 0, wrote |-> {}, lres |-> "none",
                     given |-> Nothing]
    BY <1>2, IssuedCall
  <2>3. AsLeft'
    BY <1>2, <2>1 DEF Issue, AsLeft, Left, Own
  <2>2. pc # "dispatch"
    BY <1>2 DEF Issue, IdleInv
  <2> QED
    BY <1>2, <2>1, <2>2, <2>3 DEF Issue, DataInv, AskInv, KernelInv, AnswerInv,
       LindInv, Kept
<1>3. CASE NativeRun
  <2>1. /\ cur'.call = cur.call /\ cur'.args = cur.args
        /\ cur'.linds = cur.linds /\ cur'.lres = cur.lres
        /\ ureg'.args = ureg.args
    BY <1>3, KernelRun
  <2>2. CASE tr' = "exit"
    <3>1. tr = "kernel" /\ pc = "wait" /\ ureg.call = cur.call /\ pc' = pc
      BY <1>3, <2>2 DEF NativeRun, EntryInv, Same
    <3>2. PICK r \in {"os_ok", "os_err"}, w \in SUBSET Outputs(ureg.call) :
            /\ ureg' = [ureg EXCEPT !.rax = r]
            /\ ubuf' = [i \in ArgNo |->
                          IF i \in w THEN [Own EXCEPT !.head = "os", !.rest = "os"]
                          ELSE ubuf[i]]
            /\ cur' = [cur EXCEPT !.osruns = @ + 1, !.wrote = w]
      BY <1>3, <2>2, <3>1 DEF NativeRun
    <3>3. ureg'.rax \in {"os_ok", "os_err"} /\ cur'.wrote = w
      BY <3>2 DEF RegFile, History
    <3>4. AsLeft'
      <4>1. \A i \in ArgNo : /\ ubuf[i].head = "prog" /\ ubuf[i].rest = "prog"
                             /\ ubuf[i].beyond = "prog"
        BY <3>1 DEF DataInv, AskInv, AsLeft, Left
      <4> QED
        BY <2>1, <3>1, <3>2, <3>3, <4>1 DEF AsLeft, Left, Own
    <3> QED
      BY <2>1, <2>2, <3>1, <3>3, <3>4
      DEF DataInv, AskInv, KernelInv, AnswerInv, LindInv, Kept
  <2>3. CASE tr' # "exit"
    <3>1. tr' \in {"event", "reaped", "free"}
      BY <1>3, <2>3 DEF NativeRun
    <3> QED
      BY <2>1, <3>1 DEF DataInv, AskInv, KernelInv, AnswerInv, LindInv
  <2> QED
    BY <2>2, <2>3
<1>4. CASE SignalStop
  <2>1. ureg'.rax = ureg.rax /\ ureg'.args = ureg.args
    BY <1>4 DEF SignalStop, RegFile
  <2> QED
    BY <1>4, <2>1, Frame DEF SignalStop, DataInv, AskInv, KernelInv, AnswerInv,
       LindInv
<1>5. CASE Kill
  BY <1>5, Idle DEF Kill
<1>6. CASE Die
  BY <1>6, Idle DEF Die
<1>7. CASE PythonInit
  BY <1>7, Idle DEF PythonInit, ExitInv
<1>8. CASE FirstWait
  BY <1>8, Idle DEF FirstWait, WaitPid, ExitInv
<1>9. CASE Continue
  BY <1>9, Frame DEF Continue, Resumed, DataInv, AskInv, KernelInv, AnswerInv,
     LindInv, EntryInv, IdleInv
<1>10. CASE Wait
  BY <1>10, Idle DEF Wait, WaitPid, Report
<1>11. CASE get_args
  BY <1>11, Idle DEF get_args, Stopped
<1>12. CASE NoHandler
  <2>1. CASE tr = "exit"
    <3>1. /\ pc = "dispatch" /\ regs.call = cur.call /\ cur.linds = 0
          /\ Action(cur.call) = "NO_VAL"
      BY <1>12, <2>1 DEF NoHandler, AtSyscall, ExitInv, Same
    <3>2. ~NeedsLind(cur.call, cur.args)
      BY <3>1 DEF NeedsLind
    <3>3. ureg.rax \in Answers
      BY <2>1, <3>1, <3>2 DEF Answers, DataInv, KernelInv
    <3>4. Answered
      BY <2>1, <3>1, <3>2, <3>3, Unserved DEF Answered, DataInv, KernelInv
    <3> QED
      BY <1>12, <2>1, <3>4, Frame
      DEF NoHandler, DataInv, AskInv, KernelInv, AnswerInv, LindInv
  <2>2. CASE tr # "exit"
    BY <1>12, <2>2, Idle DEF NoHandler
  <2> QED
    BY <2>1, <2>2
<1>13. CASE monitor_deny
  <2>1. tr' \in {"freecall", "reaped"}
    BY <1>13 DEF monitor_deny, Detached, ExitInv, Same, AtSyscall
  <2> QED
    BY <1>13, <2>1 DEF monitor_deny, DataInv, AskInv, KernelInv, AnswerInv,
       LindInv
<1>14. CASE monitor_exit
  BY <1>14, Idle DEF monitor_exit, AtSyscall, ExitInv, Same
<1>b. ASSUME Handled, entering PROVE tr # "exit"
  BY <1>b DEF Handled, AtSyscall, ExitInv, Same
<1>15. CASE EntryHalf
  BY <1>15, <1>b, Idle DEF EntryHalf
<1>16. CASE ExecveEntry
  BY <1>16, <1>b, Idle DEF ExecveEntry
<1>17. CASE MmapEntry
  <2>1. tr \notin {"exit", "user", "kernel"} /\ pc' = "cont" /\ tr' = tr
    BY <1>17, <1>b DEF MmapEntry, Handled, AtSyscall, IdleInv, EntryInv
  <2>2. CASE tr = "entry"
    <3>1. cur.call = "mmap" /\ regs.args = ureg.args
      BY <1>17, <2>2 DEF MmapEntry, OsCall, Handled, AtSyscall, EntryInv, Same,
         DataInv, AskInv
    <3>2. \A i \in ArgNo \ {5} : ureg'.args[i] = ureg.args[i]
      BY <1>17, <3>1 DEF MmapEntry, set_args, RegFile
    <3> QED
      BY <1>17, <2>1, <2>2, <3>1, <3>2
      DEF MmapEntry, DataInv, AskInv, KernelInv, AnswerInv, LindInv, Kept,
          AsLeft, Left
  <2>3. CASE tr # "entry"
    <3>1. tr # "signal"
      BY <1>17 DEF MmapEntry, Handled, AtSyscall, IdleInv
    <3> QED
      BY <1>17, <2>1, <2>3, <3>1
      DEF MmapEntry, DataInv, AskInv, KernelInv, AnswerInv, LindInv
  <2> QED
    BY <2>2, <2>3
<1>18. CASE MmapCrash
  BY <1>18, <1>a DEF MmapCrash
<1>19. CASE ExitHalf
  <2>1. /\ pc = "dispatch" /\ regs.call = cur.call /\ Toggling(cur.call)
        /\ cur.linds = 0 /\ tr # "entry"
    BY <1>19 DEF ExitHalf, Handled, AtSyscall, ServeInv, Same, Counts
  <2>2. UNCHANGED <<ureg, ubuf, cur, monitor_actions, regs, tr>>
    BY <1>19 DEF ExitHalf
  <2>3. CASE tr = "exit" /\ Refused(regs.call, regs.args)
    <3>1. pc' = "cont"
      BY <1>19, <2>3 DEF ExitHalf
    <3>2. ~NeedsLind(cur.call, cur.args)
      BY <1>0, <2>1, <2>3 DEF NeedsLind, ExitInv, Same
    <3>3. Row(cur.call).ret # "einval"
      <4>1. Row(cur.call).signed # {}
        BY <2>1, <2>3 DEF Refused
      <4> QED
        BY <4>1, OsRowNative, LindRowFits DEF Row, Handler, RowFits
    <3>4. ureg.rax \in Answers
      BY <2>1, <2>3, <3>2, <3>3 DEF Answers, DataInv, KernelInv
    <3>5. Answered
      BY <2>1, <2>3, <3>2, <3>4, Unserved DEF Answered, DataInv, KernelInv
    <3> QED
      BY <2>1, <2>2, <2>3, <3>1, <3>5, Frame
      DEF DataInv, AskInv, KernelInv, AnswerInv, LindInv
  <2>4. CASE tr = "exit" /\ ~Refused(regs.call, regs.args)
    <3>1. pc' \in {"path", "lind", "reply"}
          /\ (pc' = "reply" => ~PerformsLind(Row(cur.call)))
      BY <1>19, <2>1, <2>4 DEF ExitHalf, AfterPaths
    <3>2. regs.rax = ureg.rax /\ regs.args = ureg.args
      BY <2>1, <2>4 DEF DataInv, KernelInv
    <3> QED
      BY <2>1, <2>2, <2>4, <3>1, <3>2, Idle DEF NeedsLind
  <2>5. CASE tr # "exit"
    BY <2>1, <2>2, <2>5, Idle
  <2> QED
    BY <2>3, <2>4, <2>5
<1>20. CASE get_path
  <2>1. UNCHANGED <<ureg, ubuf, cur, monitor_actions, regs, tr>>
    BY <1>20 DEF get_path
  <2>2. CASE pc = "epath"
    BY <1>20, <2>1, <2>2, Idle DEF get_path, ExitInv
  <2>3. CASE pc = "path"
    <3>1. pc' \in {"lind", "reply"} /\ regs.call = cur.call /\ tr # "entry"
          /\ (pc' = "reply" => ~PerformsLind(Row(cur.call)))
      BY <1>20, <2>3 DEF get_path, AfterPaths, ServeInv, Same
    <3>2. tr = "exit" => regs.rax = ureg.rax /\ regs.args = ureg.args
      BY <2>3 DEF DataInv, KernelInv
    <3> QED
      BY <2>1, <2>3, <3>1, <3>2, Idle DEF NeedsLind
  <2> QED
    BY <1>20, <2>2, <2>3 DEF get_path
<1>21. CASE BadPath
  BY <1>21, <1>a DEF BadPath
<1>22. CASE LindCall
  <2>1. /\ cur'.call = cur.call /\ cur'.args = cur.args
        /\ cur'.linds = 1 /\ cur'.lres = lret'
        /\ lret' \in LindResults /\ pc' = "reply"
        /\ regs.call = cur.call /\ Action(cur.call) = "ALLOW_LIND"
        /\ tr \in {"exit", "dying", "event", "zsignaled"}
        /\ UNCHANGED <<ureg, ubuf, monitor_actions, regs, tr>>
    BY <1>22 DEF LindCall, History, LindResults, ServeInv, Same, Counts, NeedsLind
  <2>2. CASE tr = "exit"
    <3>1. AsLeft /\ Kept /\ ureg.rax \in {"os_ok", "os_err"}
          /\ regs.rax = ureg.rax /\ regs.args = ureg.args
      BY <1>22, <2>2 DEF LindCall, DataInv, KernelInv
    <3>2. /\ cur'.size = cur.size /\ cur'.bad = cur.bad /\ cur'.wrote = cur.wrote
          /\ \A i \in ArgNo : cur'.given[i] = Sent(Row(cur.call), i)
      BY <1>22, <2>1 DEF LindCall, History
    <3>3. RowFits(cur.call, Row(cur.call)) /\ Row(cur.call).ret \in LindRets
      BY <1>22, <2>1, LindRowFits
      DEF Row, Handler, LindCall, ServeInv, NeedsLind, PerformsLind
    <3>4. ASSUME NEW i \in Inputs(cur.call)
          PROVE  Sent(Row(cur.call), i) = "prog" <=>
                   /\ i \notin cur.wrote \cup cur.bad
                   /\ <<cur.call, i>> \notin Mistaken
                   /\ ~(<<cur.call, i>> \in OneBlock /\ cur.size = "more")
      <4>1. i \in ArgNo
        BY InputsTyped
      <4>2. InputFits(cur.call, Row(cur.call), i)
            /\ (i \in Row(cur.call).block <=> <<cur.call, i>> \in OneBlock)
        BY <3>3, <4>1 DEF RowFits
      <4> QED
        BY <2>2, <3>1, <4>1, <4>2 DEF Sent, InputFits, AsLeft, Left, Stopped
    <3>5. Given'
      BY <2>1, <3>2, <3>4, InputsTyped DEF Given
    <3>6. AsLeft' /\ Kept'
      BY <2>1, <3>1, <3>2 DEF AsLeft, Left, Kept
    <3> QED
      BY <2>1, <2>2, <3>1, <3>5, <3>6
      DEF DataInv, AskInv, KernelInv, AnswerInv, LindInv
  <2>3. CASE tr # "exit"
    BY <2>1, <2>3 DEF DataInv, AskInv, KernelInv, AnswerInv, LindInv
  <2> QED
    BY <2>2, <2>3
<1>23. CASE LindCrash
  BY <1>23, <1>a DEF LindCrash
<1>24. CASE Reply
  <2> DEFINE row == Row(cur.call)
  <2>1. /\ pc = "reply" /\ pc' = "cont" /\ regs.call = cur.call
        /\ tr \in {"exit", "dying", "event", "zsignaled"}
        /\ ~Refused(cur.call, regs.args) /\ cur.linds = Served
        /\ UNCHANGED <<cur, monitor_actions, tr>>
        /\ Toggling(cur.call)
        /\ Action(cur.call) = "ALLOW_LIND" => regs.args = cur.args
    BY <1>24 DEF Reply, ServeInv, Same, Counts
  <2>2. CASE tr = "exit"
    <3>1. /\ ureg.rax \in {"os_ok", "os_err"} /\ Kept /\ AsLeft
          /\ regs.rax = ureg.rax /\ regs.args = ureg.args
          /\ NeedsLind(cur.call, cur.args) =>
               lret = cur.lres /\ lret \in LindResults /\ Given
      BY <2>1, <2>2 DEF DataInv, KernelInv
    <3>2. CASE Action(cur.call) # "ALLOW_LIND"
      <4>1. row = OsSwitch(cur.call)
        BY <3>2 DEF Row, Handler
      <4>2. ureg' = ureg /\ ~NeedsLind(cur.call, cur.args)
        BY <1>24, <2>1, <3>2, <4>1, OsRowNative DEF Reply, NeedsLind
      <4>3. \A i \in ArgNo : ubuf'[i] = WriteBack(row, i)
        BY <1>24, <2>1, <2>2 DEF Reply, Stopped
      <4>4. \A i \in ArgNo : WriteBack(row, i) = ubuf[i]
        BY <4>1, OsRowNative DEF WriteBack, Poked, Memory
      <4>5. ubuf' = ubuf
        BY <1>0, <1>24, <4>3, <4>4, TypeStep DEF IInv, TypeOK
      <4>6. Answered
        BY <2>1, <3>1, <3>2, <4>2, Unserved DEF Answered, Answers, Served
      <4> QED
        BY <2>1, <2>2, <4>2, <4>5, <4>6, Frame
        DEF DataInv, AskInv, KernelInv, AnswerInv, LindInv
    <3>3. CASE Action(cur.call) = "ALLOW_LIND"
      <4>1. RowFits(cur.call, row)
        BY <3>3, LindRowFits DEF Row, Handler
      <4>2. NeedsLind(cur.call, cur.args) <=> row.ret \in LindRets
        BY <2>1, <3>3 DEF NeedsLind, PerformsLind
      <4>3. ureg'.rax \in Answers
        BY <1>24, <2>1, <2>2, <3>1, <3>3, <4>1, <4>2
        DEF Reply, set_args, Stopped, RetVal, Answers, RowFits, LindRets,
            RetKinds, LindResults
      <4>4. \A i \in ArgNo : ureg'.args[i] = ureg.args[i]
                             \/ <<cur.call, i>> = <<"getsockname", 3>>
        BY <1>24, <2>1, <2>2, <3>1, <4>1 DEF Reply, set_args, Stopped, RowFits
      <4>5. \A i \in ArgNo : ubuf'[i] = WriteBack(row, i)
        BY <1>24, <2>1, <2>2 DEF Reply, Stopped
      <4>6. \A i \in ArgNo :
              /\ ubuf'[i].head = Poked(row, i, Left(i))
              /\ ubuf'[i].rest = IF i \in row.block THEN Left(i)
                                 ELSE Poked(row, i, Left(i))
              /\ ubuf'[i].beyond = IF i \in row.block \cap row.pokes
                                       /\ cur.size = "less" THEN "junk" ELSE "prog"
        <5> SUFFICES ASSUME NEW i \in ArgNo
                     PROVE  /\ ubuf'[i].head = Poked(row, i, Left(i))
                            /\ ubuf'[i].rest = IF i \in row.block THEN Left(i)
                                               ELSE Poked(row, i, Left(i))
                            /\ ubuf'[i].beyond = IF i \in row.block \cap row.pokes
                                                     /\ cur.size = "less"
                                                 THEN "junk" ELSE "prog"
          OBVIOUS
        <5>1. /\ ubuf[i].head = Left(i) /\ ubuf[i].rest = Left(i)
              /\ ubuf[i].beyond = "prog"
          BY <3>1 DEF AsLeft
        <5>2. ubuf'[i] = WriteBack(row, i)
          BY <4>5
        <5> HIDE DEF row
        <5>3. /\ WriteBack(row, i).head = Poked(row, i, Left(i))
              /\ WriteBack(row, i).rest = IF i \in row.block THEN Left(i)
                                          ELSE Poked(row, i, Left(i))
              /\ WriteBack(row, i).beyond = IF i \in row.block \cap row.pokes
                                                /\ cur.size = "less"
                                            THEN "junk" ELSE "prog"
          BY <5>1 DEF WriteBack
        <5> QED
          BY <5>2, <5>3
      <4>7. /\ NeedsLind(cur.call, cur.args)' <=> NeedsLind(cur.call, cur.args)
            /\ Answers' = Answers
            /\ \A i \in ArgNo : Left(i)' = Left(i) /\ Found(i)' = Found(i)
        BY <2>1 DEF NeedsLind, Row, Refused, Action, Answers, Left, Found
      <4>8. Filled'
        <5>1. ASSUME NEW i \in Outputs(cur.call), NeedsLind(cur.call, cur.args)
              PROVE  /\ ubuf'[i].head = Found(i)
                     /\ ubuf'[i].rest = IF <<cur.call, i>> \in OneBlock THEN Left(i)
                                        ELSE Found(i)
          <6>1. i \in ArgNo /\ OutputFits(cur.call, row, i)
                /\ (i \in row.block <=> <<cur.call, i>> \in OneBlock)
            BY <4>1, <4>2, <5>1, OutputsTyped DEF RowFits
          <6>2. Poked(row, i, Left(i)) = Found(i)
            BY <3>1, <5>1, <6>1 DEF Poked, Found, OutputFits, LindResults
          <6> QED
            BY <4>6, <6>1, <6>2
        <5> QED
          BY <2>1, <4>7, <5>1, OutputsTyped DEF Filled
      <4>9. Spared'
        <5>1. ASSUME NEW i \in ArgNo
              PROVE  LET written == NeedsLind(cur.call, cur.args)
                                      /\ <<cur.call, i>> \in Overruns IN
                       /\ i \notin Outputs(cur.call) =>
                            /\ ubuf'[i].head # "prog" <=> written
                            /\ ubuf'[i].rest = "prog"
                       /\ ubuf'[i].beyond # "prog" <=> written /\ cur.size = "less"
          <6>1. i \notin Outputs(cur.call) => Left(i) = "prog"
            BY <3>1 DEF AsLeft, Left
          <6>2. CASE NeedsLind(cur.call, cur.args)
            <7>1. i \in row.block \cap row.pokes <=> <<cur.call, i>> \in Overruns
              BY <4>1, <4>2, <6>2 DEF RowFits
            <7>2. i \notin Outputs(cur.call) =>
                    /\ i \in row.pokes <=> <<cur.call, i>> \in Overruns
                    /\ i \notin row.echoes
              BY <4>1, <4>2, <6>2 DEF RowFits
            <7> QED
              BY <4>6, <6>1, <6>2, <7>1, <7>2 DEF Poked
          <6>3. CASE ~NeedsLind(cur.call, cur.args)
            <7>1. row.pokes = {} /\ row.echoes = {}
              BY <4>1, <4>2, <6>3 DEF RowFits
            <7> QED
              BY <4>6, <6>1, <6>3, <7>1 DEF Poked
          <6> QED
            BY <6>2, <6>3
        <5> QED
          BY <2>1, <4>7, <5>1 DEF Spared
      <4>10. Given' /\ Kept'
        BY <2>1, <3>1, <4>4 DEF Given, Served, Kept
      <4>11. NeedsLind(cur.call, cur.args) => cur.lres # "none"
        BY <3>1 DEF LindResults
      <4> QED
        BY <2>1, <2>2, <4>3, <4>7, <4>8, <4>9, <4>10, <4>11
        DEF DataInv, AskInv, KernelInv, AnswerInv, LindInv, Answered
    <3> QED
      BY <3>2, <3>3
  <2>3. CASE tr # "exit"
    BY <2>1, <2>3 DEF DataInv, AskInv, KernelInv, AnswerInv, LindInv
  <2> QED
    BY <2>2, <2>3
<1>25. CASE UNCHANGED vars
  BY <1>25, Frame DEF vars, DataInv, AskInv, KernelInv, AnswerInv, LindInv
<1> QED
  BY <1>1, <1>2, <1>3, <1>4, <1>5, <1>6, <1>7, <1>8, <1>9, <1>10, <1>11,
     <1>12, <1>13, <1>14, <1>15, <1>16, <1>17, <1>18, <1>19, <1>20, <1>21,
     <1>22, <1>23, <1>24, <1>25
  DEF Next, MonitorStep, LindStep, KernelStep, Terminated

(* What the program has been given is an invariant of the monitor.         *)
LEMMA Delivery == Spec => []DataInv
<1>1. Init => DataInv
  BY DEF Init, DataInv, AskInv, KernelInv, AnswerInv, LindInv
<1> QED
  BY <1>1, DataStep, Invariance, PTL DEF Spec

(* The program gets Lind's result for Lind's calls, the kernel's for the   *)
(* others and EINVAL for those Lind has no handler for: no kill, signal or *)
(* failed request makes set_args deliver the result of another component.  *)
THEOREM ResultIsDelivered == Spec => []ResultDelivered
<1>1. DataInv => ResultDelivered
  BY DEF DataInv, AnswerInv, Answered, ResultDelivered, Returned
<1> QED
  BY <1>1, Delivery, PTL

(* Behind every output of a call of Lind's the program finds exactly what  *)
(* BuffersDelivered says, after a success, an error and an answer that     *)
(* could not be read: Lind's data, uninitialised bytes, or what the        *)
(* kernel's own run has left.                                              *)
THEOREM BuffersAreDelivered == Spec => []BuffersDelivered
<1>1. DataInv => BuffersDelivered
  BY DEF DataInv, AnswerInv, Answered, Filled, BuffersDelivered, Returned
<1> QED
  BY <1>1, Delivery, PTL

(* Memory through which a call returns nothing is changed by the handler   *)
(* of epoll_ctl only, and memory beyond an argument when a block written   *)
(* back is larger than it.                                                 *)
THEOREM MemoryIsSpared == Spec => []NoStrayWrites
<1>1. DataInv => NoStrayWrites
  BY DEF DataInv, AnswerInv, Answered, Spared, NoStrayWrites, Returned
<1> QED
  BY <1>1, Delivery, PTL

(* Lind is given what the program wrote behind an input exactly when the   *)
(* kernel's run has not overwritten it, it is readable, it fits the block  *)
(* the handler copies and the handler does not pass other bytes for it.    *)
THEOREM InputsAreIntact == Spec => []InputsIntact
<1>1. DataInv => InputsIntact
  BY DEF DataInv, AnswerInv, Answered, Given, InputsIntact, Returned
<1> QED
  BY <1>1, Delivery, PTL

(* set_args gives the program its own argument registers back, but for     *)
(* mmap's descriptor and getsockname's length.                             *)
THEOREM ArgumentsArePreserved == Spec => []ArgumentsPreserved
<1>1. DataInv => ArgumentsPreserved
  BY DEF DataInv, AnswerInv, Answered, Kept, ArgumentsPreserved, Returned
<1> QED
  BY <1>1, Delivery, PTL

-----------------------------------------------------------------------------
(* The refinement.  A step of the monitor that neither asks nor answers is *)
(* a stuttering step of the mediation.                                     *)
LEMMA Stutters ==
  ASSUME UNCHANGED <<cur, monitor_actions>>, MedPhase' = MedPhase,
         MedPhase = "idle" => ureg'.rax = ureg.rax
  PROVE  UNCHANGED Med!medVars
BY DEF Med!medVars, MedKind, MedValue, NeedsLind, Row, Refused, Action

(* Every step of the monitor is a step of the mediation or leaves it as it *)
(* was.                                                                    *)
LEMMA MedStep == IInv /\ DataInv /\ [Next]_vars => [Med!MedNext]_(Med!medVars)
<1> SUFFICES ASSUME IInv, DataInv, [Next]_vars
             PROVE  Med!MedNext \/ UNCHANGED Med!medVars
  OBVIOUS
<1>0. /\ IdleInv /\ EntryInv /\ ExitInv /\ ServeInv /\ EndInv
      /\ tr \in TraceeStates /\ cur \in History /\ ureg \in RegFile
      /\ regs \in RegFile /\ ubuf \in [ArgNo -> Memory]
  BY DEF IInv, TypeOK
<1> USE <1>0 DEF monitorVars, traceeVars
(* The program is lost. *)
<1>a. ASSUME MedPhase # "over", MedPhase' = "over" PROVE Med!MedNext
  BY <1>a DEF Med!MedNext, Med!Abandon
<1>b. ASSUME MedPhase = "over", MedPhase' = "over" PROVE UNCHANGED Med!medVars
  BY <1>b DEF Med!medVars
<1>c. ASSUME Crash PROVE Med!MedNext \/ UNCHANGED Med!medVars
  <2>1. MedPhase' = "over"
    BY <1>c DEF Crash, Detached, MedPhase
  <2> QED
    BY <2>1, <1>a, <1>b
<1>d. ASSUME UNCHANGED <<cur, monitor_actions, ureg, tr>>
      PROVE  UNCHANGED Med!medVars
  BY <1>d, Stutters DEF MedPhase
<1>1. CASE StopSelf
  BY <1>1, Stutters DEF StopSelf, MedPhase
<1>2. ASSUME NEW c \in Calls, Issue(c) PROVE Med!MedNext
  <2>1. MedPhase = "idle" /\ MedPhase' = "asked"
    BY <1>2 DEF Issue, MedPhase
  <2>2. cur'.osruns = 0 /\ cur'.lres = "none"
    BY <1>2, IssuedCall
  <2>3. MedKind' \in Med!Kinds
    BY DEF MedKind, Med!Kinds
  <2> QED
    BY <2>1, <2>2, <2>3 DEF Med!MedNext, Med!Ask
<1>3. CASE NativeRun
  <2>1. /\ cur'.call = cur.call /\ cur'.args = cur.args
        /\ cur'.lres = cur.lres /\ cur'.osruns = cur.osruns + 1
    BY <1>3, KernelRun
  <2>2. CASE tr' = "exit"
    <3>1. MedPhase = "asked" /\ MedPhase' = "asked" /\ cur.osruns = 0
      BY <1>3, <2>2 DEF NativeRun, MedPhase, EntryInv, Counts
    <3>2. MedKind' = MedKind
      BY <1>3, <2>1 DEF NativeRun, MedKind, NeedsLind, Row, Refused, Action
    <3> QED
      BY <2>1, <3>1, <3>2 DEF Med!MedNext, Med!RunKernel
  <2>3. CASE tr' # "exit"
    BY <1>3, <2>3, <1>a, <1>b DEF NativeRun, MedPhase
  <2> QED
    BY <2>2, <2>3
<1>4. CASE SignalStop
  <2>1. ureg'.rax = ureg.rax
    BY <1>4 DEF SignalStop, RegFile
  <2> QED
    BY <1>4, <2>1, Stutters DEF SignalStop, MedPhase
<1>5. CASE Kill
  BY <1>5, <1>a, <1>b DEF Kill, MedPhase
<1>6. CASE Die
  BY <1>6, <1>a, <1>b DEF Die, MedPhase
<1>7. CASE PythonInit
  BY <1>7, <1>d DEF PythonInit
<1>8. CASE FirstWait
  BY <1>8, Stutters DEF FirstWait, WaitPid, MedPhase, Zombies
<1>9. CASE Continue
  <2>1. CASE tr = "exit"
    <3>1. /\ MedPhase = "asked" /\ MedPhase' = "idle" /\ ureg' = ureg
          /\ pc = "cont"
      BY <1>9, <2>1 DEF Continue, Resumed, MedPhase
    <3>2. cur.osruns = 1 /\ Action(cur.call) # "DENY_LIND" /\ cur.linds = Served
      BY <2>1, <3>1 DEF ExitInv
    <3>3. ureg.rax \in Answers
      BY <2>1, <3>1 DEF DataInv, AnswerInv, Answered
    <3>4. NeedsLind(cur.call, cur.args) => cur.lres # "none"
      BY <2>1, <3>1 DEF DataInv, AnswerInv, Answered
    <3>5. MedValue' = Med!Answer(MedKind, cur.lres)
      <4>1. MedValue' = MedValue
        BY <3>1 DEF MedValue
      <4>2. CASE NeedsLind(cur.call, cur.args)
        <5>1. cur.lres \in LindResults
          BY <3>4, <4>2 DEF History
        <5>2. Row(cur.call).ret = "fd_or_os" <=> cur.call = "open"
          BY <4>2, LindRowFits DEF NeedsLind, Row, Handler, RowFits
        <5>3. Row(cur.call).ret # "einval"
          BY <4>2 DEF NeedsLind, PerformsLind, LindRets
        <5>4. MedKind = IF cur.call = "open" THEN "fallback" ELSE "lind"
          BY <3>2, <4>2, <5>2, <5>3 DEF MedKind
        <5> QED
          BY <3>3, <4>1, <4>2, <5>1, <5>3, <5>4
          DEF Answers, MedValue, Med!Answer, LindResults
      <4>3. CASE ~NeedsLind(cur.call, cur.args)
        <5>1. CASE Action(cur.call) = "ALLOW_LIND"
                     /\ Row(cur.call).ret = "einval"
          BY <3>2, <3>3, <4>1, <4>3, <5>1
          DEF Answers, MedValue, MedKind, Med!Answer
        <5>2. CASE ~(Action(cur.call) = "ALLOW_LIND"
                       /\ Row(cur.call).ret = "einval")
          BY <3>2, <3>3, <4>1, <4>3, <5>2
          DEF Answers, MedValue, MedKind, Med!Answer
        <5> QED
          BY <5>1, <5>2
      <4> QED
        BY <4>2, <4>3
    <3> QED
      BY <3>1, <3>2, <3>4, <3>5 DEF Med!MedNext, Med!Return, MedKind
  <2>2. CASE tr # "exit"
    BY <1>9, <2>2, Stutters, <1>a, <1>b DEF Continue, Resumed, MedPhase
  <2> QED
    BY <2>1, <2>2
<1>10. CASE Wait
  BY <1>10, Stutters DEF Wait, WaitPid, MedPhase, Zombies
<1>11. CASE get_args
  BY <1>11, <1>d DEF get_args
<1>12. CASE NoHandler
  BY <1>12, <1>d DEF NoHandler
<1>13. CASE monitor_deny
  <2>1. MedPhase' = "over"
    BY <1>13 DEF monitor_deny, Detached, MedPhase
  <2> QED
    BY <2>1, <1>a, <1>b
<1>14. CASE monitor_exit
  BY <1>14, <1>d DEF monitor_exit
<1>15. CASE EntryHalf
  BY <1>15, <1>d DEF EntryHalf
<1>16. CASE ExecveEntry
  BY <1>16, <1>d DEF ExecveEntry
<1>17. CASE MmapEntry
  <2>1. MedPhase # "idle" /\ MedPhase' = MedPhase
    BY <1>17 DEF MmapEntry, Handled, AtSyscall, MedPhase, IdleInv
  <2> QED
    BY <1>17, <2>1, Stutters DEF MmapEntry
<1>18. CASE MmapCrash
  BY <1>18, <1>c DEF MmapCrash
<1>19. CASE ExitHalf
  BY <1>19, <1>d DEF ExitHalf
<1>20. CASE get_path
  BY <1>20, <1>d DEF get_path
<1>21. CASE BadPath
  BY <1>21, <1>c DEF BadPath
<1>22. CASE LindCall
  <2>1. /\ cur'.call = cur.call /\ cur'.args = cur.args
        /\ cur'.osruns = cur.osruns /\ cur'.lres \in LindResults
    BY <1>22 DEF LindCall, History, LindResults
  <2>2. /\ cur.osruns = 1 /\ cur.linds = 0 /\ NeedsLind(cur.call, cur.args)
        /\ tr \in {"exit", "dying", "event", "zsignaled"} /\ tr' = tr
    BY <1>22 DEF LindCall, ServeInv, Counts
  <2>3. cur.lres = "none"
    BY <2>2 DEF DataInv, LindInv
  <2>4. MedKind' = MedKind
    BY <1>22, <2>1 DEF LindCall, MedKind, NeedsLind, Row, Refused, Action
  <2>5. MedKind \in {"lind", "fallback"}
    BY <2>2 DEF MedKind, NeedsLind, PerformsLind, LindRets
  <2>6. MedPhase' = MedPhase /\ MedPhase \in {"asked", "over"}
    BY <2>2 DEF MedPhase
  <2>7. CASE MedPhase = "asked"
    BY <2>1, <2>2, <2>3, <2>4, <2>5, <2>6, <2>7
    DEF Med!MedNext, Med!RunLind, LindResults
  <2> QED
    BY <2>6, <2>7, <1>b
<1>23. CASE LindCrash
  BY <1>23, <1>c DEF LindCrash
<1>24. CASE Reply
  <2>1. MedPhase # "idle" /\ MedPhase' = MedPhase
    BY <1>24 DEF Reply, MedPhase, ServeInv
  <2> QED
    BY <1>24, <2>1, Stutters DEF Reply
<1>25. CASE UNCHANGED vars
  BY <1>25, <1>d DEF vars
<1> QED
  BY <1>1, <1>2, <1>3, <1>4, <1>5, <1>6, <1>7, <1>8, <1>9, <1>10, <1>11,
     <1>12, <1>13, <1>14, <1>15, <1>16, <1>17, <1>18, <1>19, <1>20, <1>21,
     <1>22, <1>23, <1>24, <1>25
  DEF Next, MonitorStep, LindStep, KernelStep, Terminated

(* The stops, registers and flag of the monitor implement the abstract     *)
(* mediation of a call: kernel, then Lind, then one answer, and none once  *)
(* the program is lost.                                                    *)
THEOREM RefinesMediation == Spec => ImplementsMediation
<1>1. Init => Med!MedInit
  BY DEF Init, Med!MedInit, MedPhase, MedValue
<1> QED
  BY <1>1, MedStep, Invariance, Delivery, PTL
  DEF Spec, ImplementsMediation, Med!MedSpec
=============================================================================
