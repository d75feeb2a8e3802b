------------------------------ MODULE Handlers ------------------------------
(***************************************************************************)
(* The system-call handlers of lind_monitor.c.                             *)
(*                                                                         *)
(* Every handler has the same shape: on the entry stop it clears the flag  *)
(* "entering", on the exit stop it serves the call and sets the flag       *)
(* again.  What tells two handlers apart is what the exit half does with   *)
(* the six arguments and with the return value, so the exit half of a      *)
(* handler is a record, named after the C function, of                     *)
(*                                                                         *)
(*   paths   arguments read as strings with get_path, before anything else *)
(*   mems    arguments copied into the monitor with get_mem                *)
(*   other   arguments in whose place the wrapper is given other bytes:    *)
(*           an uninitialised buffer, the bytes of another argument, a     *)
(*           structure that only points to the data, or the tracee's own   *)
(*           address, which means nothing in the monitor                   *)
(*   block   arguments copied or written back as one block of a fixed      *)
(*           size, whatever size the call states                           *)
(*   fills   local buffers the lind_* wrapper fills when Lind succeeds     *)
(*   pokes   arguments written back with set_mem from an uninitialised     *)
(*           local buffer (malloc or the stack)                            *)
(*   echoes  arguments written back with set_mem from their get_mem copy   *)
(*   signed  arguments whose sign decides whether anything is done         *)
(*   dirty   arguments overwritten in regs by a pointer of the monitor     *)
(*   wild    sizes of the argument, compared with the block, for which the *)
(*           outcome is undefined and may be a crash: a tracee address, or *)
(*           a size taken from one, is used as the monitor's own, or the   *)
(*           block is read or filled past its end                          *)
(*   ret     where the value given to the tracee comes from:               *)
(*             "os"        the kernel's result is left alone, no set_args  *)
(*             "einval"    the constant EINVAL                             *)
(*             "lind"      the result of the lind_* wrapper                *)
(*             "fd"        the Lind descriptor, -1 when it is negative     *)
(*             "fd_or_os"  the Lind descriptor, else the kernel's result   *)
(*                                                                         *)
(* The entry halves of monitor_execve, monitor_mmap and monitor_deny do    *)
(* more than clear the flag; they are actions of module Monitor.           *)
(*                                                                         *)
(* The handlers that return a Lind descriptor also call add_mapping, which *)
(* records the native and the Lind descriptor in a table of the Python     *)
(* side.  Only monitor_mmap reads that table; its contents are the subject *)
(* of module Descriptors.                                                  *)
(***************************************************************************)
EXTENDS Integers

ArgNo == 1..6

RetKinds == {"os", "einval", "lind", "fd", "fd_or_os"}

(* The size of an argument compared with the block its handler allows for. *)
Sizes == {"less", "fits", "more"}

Rows == [paths : SUBSET ArgNo, mems : SUBSET ArgNo, other : SUBSET ArgNo,
         block : SUBSET ArgNo, fills : SUBSET ArgNo, pokes : SUBSET ArgNo,
         echoes : SUBSET ArgNo, signed : SUBSET ArgNo, dirty : SUBSET ArgNo,
         wild : SUBSET Sizes, ret : RetKinds]

(* The three bodies most handlers are an instance of.                      *)
Native == [paths |-> {}, mems |-> {}, other |-> {}, block |-> {}, fills |-> {},
           pokes |-> {}, echoes |-> {}, signed |-> {}, dirty |-> {},
           wild |-> {}, ret |-> "os"]
Lind   == [Native EXCEPT !.ret = "lind"]
LindFd == [Native EXCEPT !.ret = "fd"]

LindPath(p) == [Lind EXCEPT !.paths = p]
LindIn(m)   == [Lind EXCEPT !.mems = m]
LindOut(b)  == [Lind EXCEPT !.fills = b, !.pokes = b]

-----------------------------------------------------------------------------
(* Calls the kernel's answer to which is only reported.                    *)

monitor_ns          == [Native EXCEPT !.ret = "einval"]
monitor_os          == Native
monitor_execve      == Native
monitor_mmap        == Native
monitor_tgkill      == Native
monitor_arch_prctl  == Native
monitor_munmap      == Native
monitor_mprotect    == Native
monitor_gettid      == Native
monitor_brk         == Native
monitor_getpeername == Native
monitor_getcwd      == [Native EXCEPT !.paths = {1}]

(* Identity and descriptor calls.                                          *)
monitor_getuid        == Lind
monitor_geteuid       == Lind
monitor_getgid        == Lind
monitor_getegid       == Lind
monitor_getpid        == Lind
monitor_close         == [Lind EXCEPT !.signed = {1}]
monitor_dup           == LindFd
monitor_dup2          == LindFd
monitor_dup3          == LindFd
\* lind_fcntl takes a third argument the handler does not pass
monitor_fcntl         == [Lind EXCEPT !.other = {3}, !.wild = Sizes]
monitor_flock         == Lind
monitor_lseek         == Lind
monitor_epoll_create  == LindFd
monitor_epoll_create1 == LindFd

(* File-system calls.                                                      *)
monitor_open     == [LindPath({1}) EXCEPT !.ret = "fd_or_os"]
monitor_openat   == [LindFd EXCEPT !.paths = {2}]
monitor_access   == [LindFd EXCEPT !.paths = {1}]
monitor_rmdir    == LindPath({1})
monitor_mkdir    == LindPath({1})
monitor_chdir    == LindPath({1})
monitor_unlink   == LindPath({1})
monitor_link     == LindPath({1, 2})
monitor_stat     == [LindOut({2}) EXCEPT !.paths = {1}]
monitor_statfs   == [LindOut({2}) EXCEPT !.paths = {1}]
FstatNotWrittenBack == [Lind EXCEPT !.fills = {2}] \* faulty: no set_mem
monitor_fstat    == LindOut({2})
monitor_fstatfs  == LindOut({2})
monitor_read     == LindOut({2})
monitor_getdents == LindOut({2})
WriteWrittenBack == LindOut({2}) \* faulty: the buffer is an output
\* faulty: the program's pointer is passed on
WriteFromTracee == [Lind EXCEPT !.other = {2}, !.wild = Sizes]
monitor_write    == LindIn({2})
\* the copy is of the first bytes of the iovec array, not of the data
monitor_pwritev  == [LindIn({2}) EXCEPT !.other = {2}]
\* lind_pread fills the get_mem copy, which is not written back
monitor_pread64  == [LindIn({2}) EXCEPT !.fills = {2}]

(* Network and event calls.                                                *)
monitor_socket     == LindFd
monitor_listen     == Lind
monitor_shutdown   == Lind
\* sizeof(struct lind_sockaddr) bytes are copied, the call's length is passed
monitor_bind       == [LindIn({2}) EXCEPT !.block = {2}, !.wild = {"more"}]
monitor_connect    == [LindIn({2}) EXCEPT !.block = {2}, !.wild = {"more"}]
monitor_setsockopt == [LindIn({4}) EXCEPT !.block = {4}, !.wild = {"more"}]
\* *addrlen is read through the tracee's pointer, arg3
monitor_accept     == [LindFd EXCEPT !.mems = {2}, !.other = {3}, !.wild = Sizes]
\* the address is copied from arg2 again and its length is arg5, a pointer
monitor_sendto     == [LindIn({2}) EXCEPT !.other = {5}, !.wild = Sizes]
\* arg6, a pointer, is a size and the destination of the first output block
monitor_recvfrom   == [Lind EXCEPT !.other = {6}, !.pokes = {2, 5}, !.wild = Sizes]
\* msg_iov of the copied header is followed in the monitor, name and control
\* data are uninitialised, and the joined data are passed from where the
\* joining ended, after they were freed
monitor_sendmsg    == [LindIn({2}) EXCEPT !.other = {2}, !.wild = Sizes]
\* likewise, and lind_recvmsg takes no data out of the response
monitor_recvmsg    == [LindIn({2}) EXCEPT !.other = {2}, !.pokes = {2}, !.wild = Sizes]
\* arg3 becomes the address of a get_mem copy and set_args stores it
monitor_getsockname == [LindOut({2}) EXCEPT !.mems = {3}, !.dirty = {3},
                                            !.block = {2}, !.wild = {"more"}]
\* faulty: optlen is copied as getsockname's addrlen is
GetsockoptCopiesLength == [LindOut({4}) EXCEPT !.mems = {5}, !.dirty = {5},
                                               !.block = {4}, !.wild = {"more"}]
\* *optlen is read through the tracee's pointer, arg5; a whole struct
\* lind_sockaddr is written back
monitor_getsockopt == [LindOut({4}) EXCEPT !.other = {5}, !.block = {4},
                                           !.wild = Sizes]
\* the descriptor pair lands in the get_mem copy, which is not written back
monitor_socketpair == [LindFd EXCEPT !.mems = {4}, !.fills = {4}]
monitor_select     == [LindIn({2, 3, 4, 5}) EXCEPT !.fills = {2, 3, 4, 5},
                                                   !.echoes = {2, 3, 4, 5}]
\* an uninitialised lind_pollfd, used as an array of arg2 of them, is sent,
\* filled and written back
monitor_poll       == [LindOut({1}) EXCEPT !.other = {1}, !.block = {1},
                                           !.wild = {"more"}]
\* Lind is given the copy, the tracee a second, uninitialised event
monitor_epoll_ctl  == [LindIn({4}) EXCEPT !.block = {4}, !.pokes = {4}]
\* one event, whatever arg3 says; the wrapper states room for one
monitor_epoll_wait == [LindOut({2}) EXCEPT !.block = {2}]

-----------------------------------------------------------------------------
(* The two switches of intercept_calls.                                    *)

ExitCalls == {"exit", "exit_group"}

(* The switch of an ALLOW_OS call; exit and exit_group, which do not take  *)
(* part in the alternation of the flag, are an action of module Monitor.   *)
OsSwitch(c) ==
  CASE c = "execve"     -> monitor_execve
    [] c = "tgkill"     -> monitor_tgkill
    [] c = "getcwd"     -> monitor_getcwd
    [] c = "arch_prctl" -> monitor_arch_prctl
    [] c = "munmap"     -> monitor_munmap
    [] c = "mmap"       -> monitor_mmap
    [] c = "mprotect"   -> monitor_mprotect
    [] c = "gettid"     -> monitor_gettid
    [] c = "brk"        -> monitor_brk
    [] OTHER            -> monitor_os

(* The first half of the switch of an ALLOW_LIND call: files, descriptors  *)
(* and identities.                                                         *)
LindFileSwitch(c) ==
  CASE c = "getuid"   -> monitor_getuid
    [] c = "read"     -> monitor_read
    [] c = "open"     -> monitor_open
    [] c = "openat"   -> monitor_openat
    [] c = "access"   -> monitor_access
    [] c = "close"    -> monitor_close
    [] c = "rmdir"    -> monitor_rmdir
    [] c = "stat"     -> monitor_stat
    [] c = "statfs"   -> monitor_statfs
    [] c = "fstat"    -> monitor_fstat
    [] c = "fstatfs"  -> monitor_fstatfs
    [] c = "write"    -> monitor_write
    [] c = "mkdir"    -> monitor_mkdir
    [] c = "chdir"    -> monitor_chdir
    [] c = "getcwd"   -> monitor_getcwd
    [] c = "dup"      -> monitor_dup
    [] c = "dup2"     -> monitor_dup2
    [] c = "dup3"     -> monitor_dup3
    [] c = "getpid"   -> monitor_getpid
    [] c = "geteuid"  -> monitor_geteuid
    [] c = "getgid"   -> monitor_getgid
    [] c = "getegid"  -> monitor_getegid
    [] c = "unlink"   -> monitor_unlink
    [] c = "link"     -> monitor_link
    [] c = "fcntl"    -> monitor_fcntl
    [] c = "flock"    -> monitor_flock
    [] c = "getdents" -> monitor_getdents
    [] c = "lseek"    -> monitor_lseek
    [] c = "pread64"  -> monitor_pread64
    [] c = "pwritev"  -> monitor_pwritev
    [] OTHER          -> monitor_ns

(* The whole switch: the network and event calls, then the others.         *)
LindSwitch(c) ==
  CASE c = "listen"        -> monitor_listen
    [] c = "shutdown"      -> monitor_shutdown
    [] c = "socket"        -> monitor_socket
    [] c = "bind"          -> monitor_bind
    [] c = "connect"       -> monitor_connect
    [] c = "accept"        -> monitor_accept
    [] c = "sendto"        -> monitor_sendto
    [] c = "recvfrom"      -> monitor_recvfrom
    [] c = "recvmsg"       -> monitor_recvmsg
    [] c = "sendmsg"       -> monitor_sendmsg
    [] c = "getsockname"   -> monitor_getsockname
    [] c = "getsockopt"    -> monitor_getsockopt
    [] c = "setsockopt"    -> monitor_setsockopt
    [] c = "socketpair"    -> monitor_socketpair
    [] c = "getpeername"   -> monitor_getpeername
    [] c = "select"        -> monitor_select
    [] c = "poll"          -> monitor_poll
    [] c = "epoll_create"  -> monitor_epoll_create
    [] c = "epoll_create1" -> monitor_epoll_create1
    [] c = "epoll_ctl"     -> monitor_epoll_ctl
    [] c = "epoll_wait"    -> monitor_epoll_wait
    [] OTHER               -> LindFileSwitch(c)

(* The handler of call c under action a; only for the two ALLOW actions.   *)
Handler(c, a) == IF a = "ALLOW_LIND" THEN LindSwitch(c) ELSE OsSwitch(c)

LindRets == {"lind", "fd", "fd_or_os"}
PerformsLind(row) == row.ret \in LindRets

-----------------------------------------------------------------------------
(* The kernel's side, external: the arguments through which a successful   *)
(* call may return data to the program; fcntl does so for F_GETLK.         *)
Outputs(c) ==
  CASE c \in {"read", "stat", "fstat", "statfs", "fstatfs", "getdents",
              "pread64", "recvmsg", "epoll_wait"}           -> {2}
    [] c \in {"getcwd", "poll"}                             -> {1}
    [] c \in {"accept", "getsockname", "getpeername"}       -> {2, 3}
    [] c = "fcntl"                                          -> {3}
    [] c = "getsockopt"                                     -> {4, 5}
    [] c = "socketpair"                                     -> {4}
    [] c = "recvfrom"                                       -> {2, 5, 6}
    [] c = "select"                                         -> {2, 3, 4, 5}
    [] OTHER                                                -> {}

(* The arguments, paths included, through which a call is given data of    *)
(* the program.                                                            *)
Inputs(c) ==
  CASE c \in {"open", "access", "rmdir", "mkdir", "chdir", "unlink", "stat",
              "statfs", "poll"}                             -> {1}
    [] c \in {"openat", "write", "pwritev", "bind", "connect", "sendmsg",
              "recvmsg"}                                    -> {2}
    [] c = "link"                                           -> {1, 2}
    [] c \in {"fcntl", "accept", "getsockname"}             -> {3}
    [] c \in {"setsockopt", "epoll_ctl"}                    -> {4}
    [] c = "getsockopt"                                     -> {5}
    [] c = "sendto"                                         -> {2, 5}
    [] c = "recvfrom"                                       -> {6}
    [] c = "select"                                         -> {2, 3, 4, 5}
    [] OTHER                                                -> {}

(* The sizes a program's argument may have, compared with the block of the *)
(* handler: an address or option of any length, one entry or more of poll. *)
(* The kernel's epoll_event has 12 bytes and lind_epoll_event 16, so that  *)
(* one event is less than the block and two are more.                      *)
BlockSizes(c) ==
  CASE c \in {"bind", "connect", "setsockopt", "getsockname", "getsockopt"} -> Sizes
    [] c = "poll"       -> {"fits", "more"}
    [] c = "epoll_wait" -> {"less", "more"}
    [] c = "epoll_ctl"  -> {"less"}
    [] OTHER            -> {"fits"}
=============================================================================
