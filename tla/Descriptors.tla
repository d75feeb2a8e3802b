----------------------------- MODULE Descriptors -----------------------------
(***************************************************************************)
(* Descriptor numbers under the monitor.                                   *)
(*                                                                         *)
(* Every call runs twice, natively and in Lind, so there are two tables of *)
(* open descriptors, "native" and "lind".  The handlers give the program   *)
(* Lind's number; the kernel interprets that number too, in its own table. *)
(* mmap is not performed by Lind: its entry half translates the program's  *)
(* number into a native one with a third table, kept on the Python side    *)
(* and filled by add_mapping.  Entries are never removed from it.          *)
(*                                                                         *)
(* The tracee is stopped while its call is served, so one call is one      *)
(* step: the kernel, Lind, add_mapping and the return value.  Which free   *)
(* number Lind picks is Lind's choice.                                     *)
(***************************************************************************)
EXTENDS Integers

CONSTANTS
  Objects,    \* files, sockets and epoll instances
  NativeFds,  \* numbers the kernel hands out, besides those of Stdio
  LindFds,    \* numbers Lind hands out
  MaxCalls,   \* bound: calls the program makes
  MaxFaults   \* bound: faults among them

None  == "none"
Std   == "std"  \* the terminal
Stdio == 0      \* open in both tables from the start

ASSUME FdAssumption     == NativeFds \subseteq Nat \ {Stdio} /\ LindFds \subseteq Nat \ {Stdio}
ASSUME ObjectAssumption == None \notin Objects /\ Std \notin Objects
ASSUME BoundAssumption  == MaxCalls \in Nat /\ MaxFaults \in Nat

Fds     == {Stdio} \cup NativeFds \cup LindFds
Failed  == -1   \* Lind's error
Errno   == -9   \* the kernel's, a negative error number such as -EBADF
Things  == Objects \cup {Std, None}

VARIABLES
  native,    \* the kernel's table of the program
  lind,      \* Lind's table
  mapping,   \* the Python side's table, Lind number -> native number
  region,    \* the last mmap: what was asked for, what was mapped
  up,        \* the monitor has not crashed
  calls,     \* calls made so far
  view,      \* history: what the program holds under each number
  estranged, \* history: numbers whose meaning Lind and the program may not share
  paired,    \* history: numbers from an opening call the kernel performed too
  faults     \* history: unreadable answers of Lind, exceptions of
             \* map_native_to_lind, and uses of close and dup2 on a number
             \* that the program does not hold

tables  == <<native, lind, mapping>>
history == <<view, estranged, paired, faults>>
vars    == <<tables, region, up, calls, history>>

OnlyStd == [n \in Fds |-> IF n = Stdio THEN Std ELSE None]

NoRegion == [want |-> None, got |-> None, sure |-> FALSE]

Init ==
  /\ native = OnlyStd /\ lind = OnlyStd /\ view = OnlyStd
  /\ mapping = [n \in Fds |-> Failed]
  /\ region = NoRegion /\ calls = 0
  /\ up = TRUE /\ estranged = {} /\ paired = {} /\ faults = 0

-----------------------------------------------------------------------------
(* External: what the kernel and Lind may answer, each answer with the     *)
(* table it leaves.                                                        *)

Answer(r, t) == [ret |-> r, table |-> t, odd |-> FALSE]
Unreadable(t) == [ret |-> 0, table |-> t, odd |-> TRUE]

(* The kernel takes its lowest free number, or refuses: it has none left,  *)
(* or has no such file.                                                    *)
FreeNative   == {n \in {Stdio} \cup NativeFds : native[n] = None}
NativeOpens(f) ==
  {Answer(Errno, native)} \cup
    {Answer(n, [native EXCEPT ![n] = f]) :
       n \in {m \in FreeNative : \A k \in FreeNative : m <= k}}
NativeDups(x) == IF native[x] = None THEN {Answer(Errno, native)}
                                     ELSE NativeOpens(native[x])
NativeDup2(x, m) == IF native[x] = None THEN {Answer(Errno, native)}
                    ELSE {Answer(m, [native EXCEPT ![m] = native[x]])}

(* Lind may refuse any request, and its answer may be unreadable whether   *)
(* or not the request was carried out: ParseResponse then returns 0.       *)
OrFails(done) ==
  done \cup {Answer(Failed, lind), Unreadable(lind)}
       \cup {Unreadable(a.table) : a \in done}
Opened(f) == {Answer(l, [lind EXCEPT ![l] = f]) : l \in {k \in LindFds : lind[k] = None}}
LindOpens(f) == OrFails(Opened(f))
LindDups(x)  == OrFails(IF lind[x] = None THEN {} ELSE Opened(lind[x]))
LindDup2(x, m) == OrFails(IF lind[x] = None THEN {}
                          ELSE {Answer(m, [lind EXCEPT ![m] = lind[x]])})
LindCloses(n) == OrFails(IF lind[n] = None THEN {}
                         ELSE {Answer(0, [lind EXCEPT ![n] = None])})

-----------------------------------------------------------------------------
(* Faulty variants: an error number is mapped; the arguments are exchanged.*)
AddUnchecked(src, dest) ==
  IF dest < 0 THEN mapping ELSE [mapping EXCEPT ![dest] = src]
AddSwapped(src, dest) ==
  IF src < 0 \/ dest < 0 THEN mapping ELSE [mapping EXCEPT ![src] = dest]

(* add_mapping: a negative number is not mapped.                           *)
add_mapping(src, dest) ==
  IF src < 0 \/ dest < 0 THEN mapping ELSE [mapping EXCEPT ![dest] = src]

(* get_mapping: the native number, -1 for a result that is not a number;   *)
(* without a mapping Python may also raise, and the null result traps.     *)
get_mapping(n) == mapping[n]

-----------------------------------------------------------------------------
(* The next call of the program; what a call other than mmap leaves alone. *)
Call == up /\ calls < MaxCalls /\ calls' = calls + 1
NoMmap == region' = NoRegion /\ UNCHANGED up

(* What the program makes of a return value r that stands for object f,    *)
(* when Lind gave answer a: it holds f under r.                            *)
Lost(a)   == {k \in Fds : a.table[k] # lind[k]}
Holds(r, f) == view' = IF r < 0 THEN view ELSE [view EXCEPT ![r] = f]
Estranges(a, r, known) ==
  estranged' = IF a.odd THEN estranged \cup Lost(a) \cup {Stdio}
               ELSE IF r < 0 THEN estranged
               ELSE IF a.ret = r /\ known THEN estranged \ {r}
               ELSE estranged \cup {r}

(* Faults of this call; an exception in map_native_to_lind is reported and *)
(* ignored, the table stays as it was.                                     *)
Fault(happened) == faults' = (IF happened THEN faults + 1 ELSE faults) /\ faults' <= MaxFaults
Maps(src, dest, happened) ==
  \E raised \in BOOLEAN :
    /\ mapping' = IF raised THEN mapping ELSE add_mapping(src, dest)
    /\ Fault(happened \/ raised)

(* The exit half of a handler that returns a descriptor: lind_fd is passed *)
(* on when it is not negative; otherwise the program gets "other".         *)
Grant(n, a, f, other, known, stray) ==
  LET lind_fd == a.ret
      ret     == IF lind_fd >= 0 THEN lind_fd ELSE other
  IN /\ native' = n.table /\ lind' = a.table
     /\ Maps(n.ret, lind_fd, a.odd \/ stray)
     /\ Holds(ret, f) /\ Estranges(a, ret, known)
     /\ NoMmap

(* Numbers from a call that has opened the object in both tables.          *)
Pairs(n, a) ==
  paired' = IF a.odd \/ a.ret < 0 THEN paired
            ELSE IF n.ret >= 0 THEN paired \cup {a.ret} ELSE paired \ {a.ret}

(* monitor_open: when Lind fails, the kernel's descriptor stays.           *)
Open(f) ==
  /\ Call
  /\ \E n \in NativeOpens(f), a \in LindOpens(f) :
       Grant(n, a, f, n.ret, TRUE, FALSE) /\ Pairs(n, a)

(* A faulty variant: the kernel's descriptor is returned.                  *)
CreateKeepsNative(f) ==
  /\ Call
  /\ \E n \in NativeOpens(f), a \in LindOpens(f) :
       Grant(n, Answer(n.ret, a.table), f, Failed, TRUE, FALSE) /\ Pairs(n, a)

(* monitor_openat, monitor_socket, monitor_accept, monitor_epoll_create    *)
(* and monitor_epoll_create1: -1 when Lind fails.                          *)
Create(f) ==
  /\ Call
  /\ \E n \in NativeOpens(f), a \in LindOpens(f) :
       Grant(n, a, f, Failed, TRUE, FALSE) /\ Pairs(n, a)

(* monitor_access passes Lind's 0 on as if it were a descriptor; as the    *)
(* kernel returns 0 too, it is recorded as the mapping of 0.               *)
access ==
  /\ Call
  /\ \E n \in {0, Errno}, r \in {0, Failed} : Maps(n, r, FALSE)
  /\ NoMmap /\ UNCHANGED <<native, lind, view, estranged, paired>>

(* monitor_dup.  The kernel is given the program's number, Lind's, too.    *)
Dup(x) ==
  /\ Call
  /\ \E n \in NativeDups(x), a \in LindDups(x) :
       /\ Grant(n, a, view[x], Failed, x \notin estranged, FALSE)
       /\ paired' = paired \ {a.ret}

(* monitor_fcntl with F_DUPFD: the same without add_mapping.               *)
fcntl(x) ==
  /\ Call
  /\ \E n \in NativeDups(x), a \in LindDups(x) :
       /\ native' = n.table /\ lind' = a.table
       /\ Holds(a.ret, view[x]) /\ Estranges(a, a.ret, x \notin estranged)
       /\ paired' = paired \ {a.ret} /\ Fault(a.odd)
  /\ NoMmap /\ UNCHANGED mapping

(* monitor_dup2 and monitor_dup3.                                          *)
Dup2(x, m) ==
  /\ Call
  /\ \E n \in NativeDup2(x, m), a \in LindDup2(x, m) :
       /\ Grant(n, a, view[x], Failed, x \notin estranged, view[m] = None)
       /\ paired' = paired \ {m}

(* monitor_close of a number that is not negative: the kernel closes its   *)
(* own descriptor of that number, then Lind is asked.  The program does    *)
(* not use the number again whatever the result.                           *)
Close(n) ==
  /\ Call
  /\ native' = [native EXCEPT ![n] = None]
  /\ \E a \in LindCloses(n) :
       /\ lind' = a.table
       /\ estranged' = IF a.table[n] = None THEN estranged \ {n} ELSE estranged \cup {n}
       /\ Fault(a.odd \/ view[n] = None)
  /\ view' = [view EXCEPT ![n] = None]
  /\ paired' = paired \ {n}
  /\ NoMmap /\ UNCHANGED mapping

(* monitor_socketpair: Lind's pair of numbers lands in a copy of the       *)
(* program's array, so the program finds the kernel's.                     *)
socketpair(f) ==
  /\ Call
  /\ \E n \in NativeOpens(f), a \in LindOpens(f) :
       \E n2 \in {k \in FreeNative \ {n.ret} : \A j \in FreeNative \ {n.ret} : k <= j},
          l2 \in {k \in LindFds \ {a.ret} : lind[k] = None} :
         LET made == n.ret >= 0  taken == ~a.odd /\ a.ret # Failed IN
         /\ native' = IF made THEN [n.table EXCEPT ![n2] = f] ELSE native
         /\ lind' = IF taken THEN [a.table EXCEPT ![l2] = f] ELSE a.table
         /\ Maps(IF made THEN 0 ELSE Errno, IF a.ret < 0 THEN Failed ELSE 0, a.odd)
         /\ IF made /\ a.ret # Failed
            THEN view' = [view EXCEPT ![n.ret] = f, ![n2] = f] ELSE UNCHANGED view
         /\ estranged' = estranged \cup
              {k \in Fds : view'[k] # view[k] \/ lind'[k] # lind[k]}
         /\ paired' = paired
  /\ NoMmap

(* monitor_mmap of descriptor x: its number is translated at the entry     *)
(* stop, and the kernel maps what it has under the result.                 *)
Mmap(x) ==
  /\ Call
  /\ view[x] # None
  /\ \/ LET fd == get_mapping(x) IN
        region' = [want |-> view[x],
                   got  |-> IF fd < 0 THEN None ELSE native[fd],
                   sure |-> faults = 0 /\ x \in paired]
        /\ UNCHANGED up
     \/ get_mapping(x) < 0 /\ up' = FALSE /\ UNCHANGED region
  /\ UNCHANGED <<tables, history>>

-----------------------------------------------------------------------------
Next ==
  \/ \E f \in Objects : Open(f) \/ Create(f) \/ socketpair(f)
  \/ access
  \/ \E x \in Fds : Dup(x) \/ fcntl(x) \/ Close(x) \/ Mmap(x)
  \/ \E x, m \in Fds : Dup2(x, m)

Spec == Init /\ [][Next]_vars

-----------------------------------------------------------------------------
(* Properties.                                                             *)

(* Every variable keeps its type.                                          *)
TypeOK ==
  /\ native \in [Fds -> Things] /\ lind \in [Fds -> Things] /\ view \in [Fds -> Things]
  /\ mapping \in [Fds -> Fds \cup {Failed}]
  /\ region \in [want : Things, got : Things, sure : BOOLEAN]
  /\ estranged \subseteq Fds /\ paired \subseteq Fds
  /\ calls \in 0..MaxCalls /\ up \in BOOLEAN /\ faults \in 0..MaxFaults

(* Whatever the kernel did, a number the program got from a handler means  *)
(* in Lind what the program takes it for; except numbers that are not      *)
(* Lind's (open's fallback, socketpair's pair, the 0 of an unreadable      *)
(* answer), what is duplicated from those, and failed closes.              *)
ViewIsLind == \A n \in Fds \ estranged : view[n] = lind[n]

(* The numbers of the two tables do not meet.                              *)
Disjoint == NativeFds \cap LindFds = {}

(* When Lind and the kernel use different numbers, mmap of a descriptor    *)
(* that an opening call has returned maps what the program opened, for a   *)
(* program that closes and replaces only what it holds.                    *)
MmapRight == Disjoint /\ region.sure => region.got = region.want

(* What test_mmap relies on: mmap maps the file of its descriptor.         *)
MmapMapsFile == region.want \in Objects => region.got \in {region.want, None}
=============================================================================
