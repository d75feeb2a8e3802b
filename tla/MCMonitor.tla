------------------------------ MODULE MCMonitor ------------------------------
(* Instances of module Monitor for TLC.                                    *)
EXTENDS Monitor

(* The action of each call in configs/monitor.cfg, for the calls with a    *)
(* handler and one representative of each kind without one: chmod has no   *)
(* case in the ALLOW_LIND switch, futex none in the ALLOW_OS switch, lstat *)
(* is denied and pwrite64 is not in the file.                              *)
OsCalls == {"execve", "arch_prctl", "munmap", "mmap", "mprotect", "brk",
            "exit", "exit_group", "futex"}
DeniedCalls == {"tgkill", "getcwd", "gettid", "lstat"}
LindCalls ==
  {"getuid", "read", "open", "openat", "access", "close", "rmdir", "stat",
   "statfs", "fstat", "fstatfs", "write", "mkdir", "chdir", "dup", "dup2",
   "dup3", "getpid", "geteuid", "getgid", "getegid", "unlink", "link",
   "fcntl", "listen", "shutdown", "flock", "getdents", "lseek", "pread64",
   "pwritev", "socket", "bind", "connect", "accept", "sendto", "recvfrom",
   "recvmsg", "sendmsg", "getsockname", "getsockopt", "setsockopt",
   "socketpair", "getpeername", "select", "poll", "epoll_create",
   "epoll_create1", "epoll_ctl", "epoll_wait", "chmod"}

AllCalls == OsCalls \cup DeniedCalls \cup LindCalls \cup {"pwrite64"}

(* One call for each shape of handler.                                     *)
FewCalls == {"execve", "mmap", "exit_group", "futex", "getcwd", "read", "open",
             "close", "link", "chmod", "getsockname", "accept", "lstat",
             "pwrite64"}

(* Enough for every action of the specification.                           *)
LiveCalls == {"execve", "mmap", "exit_group", "read", "link", "lstat", "pwrite64"}

Shipped(S) == [c \in S |-> CASE c \in OsCalls     -> "ALLOW_OS"
                             [] c \in DeniedCalls -> "DENY_LIND"
                             [] c \in LindCalls   -> "ALLOW_LIND"
                             [] OTHER             -> "NO_VAL"]
Uniform(S, a) == [c \in S |-> a]

(* The actions exchanged, to reach the handlers the shipped policy leaves  *)
(* unused and the Lind default for calls of the OS.                        *)
Exchanged(S) == [c \in S |-> CASE c \in OsCalls     -> "ALLOW_LIND"
                               [] c \in DeniedCalls -> "ALLOW_OS"
                               [] c \in LindCalls   -> "NO_VAL"
                               [] OTHER             -> "DENY_LIND"]

AllPolicies == {Shipped(AllCalls), Exchanged(AllCalls)}
FewPolicies == {Shipped(FewCalls)} \cup {Uniform(FewCalls, a) : a \in Actions}
LivePolicies == {Shipped(LiveCalls)}
ShippedOnly == {Shipped(AllCalls)}
=============================================================================
