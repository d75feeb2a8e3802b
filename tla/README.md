# Lind reference monitor: TLA+ models and proofs

The reference monitor runs a program under `ptrace`, stops it before and after
every system call, and lets the Lind virtual machine (Python/Repy code behind
an embedded interpreter) perform the calls that the policy assigns to it. This
directory holds TLA+ models of the monitor, TLC configurations that check them
on small instances, and TLAPS proofs of the central results for every value of
the constants.

Paths below are relative to the repository; `lind_monitor.c` is
`src/main/lind_monitor/lind_monitor.c`, `lind_platform.c` is
`src/main/platform/lind_platform.c`.

## 1. Inventory of the system

| Component | State | Operations | Correct when |
|---|---|---|---|
| Interception loop (`init_ptrace`, `main`, `intercept_calls`) | `tracee`, `status`, `regs`, `entering` | first wait, resume, wait, decode, dispatch | entry and exit stops are never confused; each call is served once; no stop lasts for ever; the monitor ends with its tracee |
| Handlers (`monitor_*`) | `regs`, `entering`, local buffers | an entry half and an exit half each | the program gets the result and the data of the component the policy names, and nothing else of it changes |
| Tracee memory and registers (`get_path`, `get_mem`, `set_mem`, `get_args`, `set_args`) | buffers, the tracee's memory | word-wise `PEEKDATA`/`POKEDATA` | the right bytes arrive, none outside the buffers, every function ends |
| Policy loader (`load_config`, `get_syscall_num`) | `monitor_actions`, `mact` | read a line, assign, refuse | the table means what the file says |
| Lind call gateway (`MakeLindSysCall`, `ParseResponse`, `CallPythonFunc`, `CopyData*`) | interpreter context, GIL, references | one call into Python | the answer is parsed once and copied within bounds |
| `lind_*` wrappers | file position (`lind_pread`, `lind_pwrite`), gathered vectors | format arguments, copy outputs | pread/pwrite restore the position; vectors are gathered in order |
| Descriptor mapping (`add_mapping`, `get_mapping`) | table on the Python side | add, look up | `mmap` uses the native descriptor of the file the program opened |
| Python runtime (`LindPythonInit`, `LindPythonFinalize`) | `initialized`, `context` | start, stop | no use without a context |
| Utilities, tests | none | strings, environment | – |

Interaction. Tracee and monitor are two processes that the kernel's `ptrace`
interface synchronises: the tracee stops, `waitpid` reports the stop, the
monitor reads and writes registers and memory, and `PTRACE_SYSCALL` resumes it.
The kernel executes **every** call natively between the two stops; the handler
performs the Lind operation at the exit stop and overwrites the result. The
monitor calls Lind synchronously. The policy is loaded once, before the fork.

What is hard: nothing in a stop says whether it is the entry or the exit of a
call, the monitor counts in `entering`, and several stops do not count (calls
without an action, `exit`/`exit_group`, signal stops, exit events); the tracee
can be killed at any instant, also inside a handler, after which every request
fails and the handler runs on with the registers of the previous stop; the
kernel has acted before Lind does; Lind can fail, raise, or answer something
unreadable after the kernel has acted. `PROJECT.json` lists these hazards at
their lines, with the properties that cover them.

## 2. Modules

| Module | Models | Notes |
|---|---|---|
| `Handlers` | every `monitor_*` handler and the two switches of `intercept_calls` | a handler is a record of what its exit half does: strings and memory read, inputs for which it passes other bytes, blocks of a fixed size, buffers Lind fills, buffers written back, registers overwritten, where the return value comes from, use of tracee pointers as the monitor's own. External: which arguments of a call are inputs and outputs, and how long they may be compared with the block |
| `Monitor` | loop, entry and exit halves, `get_args`/`set_args`, `LindPythonInit`, the outcomes of a Lind call; external: tracee and kernel | extends `Handlers` |
| `Mediation` | abstract specification: kernel, then Lind, then one answer; none once the program is lost | refined by `Monitor` (`ImplementsMediation`) |
| `TraceeMemory` | `set_mem`, `get_mem`, `get_path`, one action per request; external: death and other threads of the tracee | sizes are constants |
| `Policy` | `load_config`, one action per chunk that `fgets` returns | |
| `Wrappers` | every `lind_*` wrapper: outputs announced, sizes passed, room the handler has, objects built outside the lock | records, like `Handlers` |
| `LindService` | abstract specification of a wrapper call: asked, served by Lind or lost, answered only if served | refined by `LindGateway` (`ImplementsService`) and by `Monitor` (theorem `UsesService`) |
| `LindGateway` | `MakeLindSysCall`, `CallPythonFunc`, `ParseResponse`, `CopyData`, `add_mapping`/`get_mapping` and `LindPythonInit` as steps; external: other threads of the interpreter, the response | extends `Wrappers` |
| `Descriptors` | descriptor numbers: the kernel's table, Lind's and the mapping table under every handler that makes, copies, closes or maps descriptors | one call is one step |
| `PositionedIO` | `lind_lseek`, `lind_pread`, `lind_pwrite`, with the seek and transfer handlers that share the position | |
| `PositionedFile` | abstract specification: a file whose positioned transfers leave the position alone | refined by `PositionedIO` (`ImplementsFile`) |
| `MC*` | instances for TLC | |
| `*Proofs` | theorems and proofs, section 4 | |

The modules meet at named interfaces. Between the handlers and the Python side
it is a module of its own: `LindService` says what a call of a wrapper may do
(Lind performs it at most once; the wrapper comes back only with the answer to
this call, as a code, −1, or 0 for an answer that cannot be read; a call without
an answer never comes back), `LindGateway` is proved to do nothing else, and
`Monitor`, where a call is the one step `LindCall` or `LindCrash`, to rely on
nothing else. `get_path` and the buffer
steps of `Monitor` are the calls of `TraceeMemory` taken as one step. The table
`monitor_actions` of `Monitor` is what `Policy` leaves. The value that
`Monitor` calls `native` in `mmap`'s fifth argument is the number `Descriptors`
works out.

Definitions whose comment says *faulty variant* are not part of any
specification; each is a plausible bug that breaks a property (the `mutants` of
`PROJECT.json`).

### Monitor

`pc` is the place of the monitor: `init` (before `LindPythonInit`), `wait0`
(first `waitpid`), `cont`, `wait`, `fetch` (`get_args`), `dispatch`, then inside
a handler `epath`/`path` (reading strings), `lind` (in the wrapper), `reply`
(write-back, result, flag); `done` (loop left), `exit` (the two calls of
`exit`), `crashed`. `tr` is the tracee: running (`boot`, `launch`, `user`,
`kernel`), stopped (`bootstop`, `entry`, `exit`, `signal`, `event`), `dying`
(killed, not stopped), a zombie, `reaped`, or going on without a monitor
(`freecall`, `free`). `regs` and `entering` are the program's variables; `ureg`
and `ubuf` are the tracee's registers and the memory behind the six arguments;
`cur` is the current call: what the program chose (call, arguments, size of its
data compared with the handler's block, which strings are bad) and its history
(how often kernel and Lind have run it, behind which arguments the kernel
wrote, what Lind was given and answered).

Data are abstract: a register holds the program's value, a negative value (only
where a handler tests a sign), a pointer of the monitor or a native
descriptor; memory holds what the program, the kernel, Lind or an uninitialised
buffer put there; a result is named by who produced it. Logging is left out.
The memory behind an argument has three parts: `head`, as far as the handler's
block reaches, `rest`, what the argument has past the block, and `beyond`, the
memory after the argument. A handler that transfers one block whatever the call
says leaves the rest alone and writes beyond a shorter argument. Sizes are
*less*, *fits* and *more*: of an address or option (`bind`, `connect`,
`setsockopt`, `getsockname`, `getsockopt`), of an array of `poll` (one entry or
more; without entries the argument stands for no memory) and of `epoll_wait`,
where one event of the kernel (12 bytes) is less than `struct lind_epoll_event`
(16) and two are more. The layouts of such structures are not compared.

A handler is split where another actor can act: a kill may fall between
`waitpid` and `get_args`, before or after reading a path, during the Lind
call, and before the write-back. Requests to a tracee that is not stopped
fail: `set_args` and `set_mem` do nothing, `get_args` leaves `regs` as it was,
`get_path` never finds an end. A bad path of a live tracee is read on to the NUL
of a later mapping and handed to Lind (`get_path`, contents *junk*), or has no
NUL at all and crashes the monitor (`BadPath`); `TraceeMemory` has the details.
A tracee pointer that the monitor follows itself
is undefined behaviour: it goes on or traps (fault `wild`).
`monitor_actions[-1]` (`NoCall`) may hold anything.

The faults are a constant, so a run can say which ones it admits: `kill`,
`signal`, `badpath`, `nolind` (start of Python fails), `raise` (Python raises),
`odd` (answer that `ParseResponse` cannot read), `wild`.

### TraceeMemory

One `PEEKDATA` or `POKEDATA` per step; between steps the tracee may die, and
another of its threads, which the monitor does not trace, may store a byte
(`ThreadWrite`). A byte is named by its origin, so that a byte in a wrong place
shows. Any set of pages is mapped, so that mapped memory may follow a hole; a
peek of a word that is not mapped as a whole fails, a poke stores the part
before the first unmapped byte. `get_path` does not notice a failed peek: it
stores 0xff and goes on, over the hole, to the first NUL it can read
(`PathDelivers` says where the returned bytes come from). `orig` is the
memory as the program itself has left it and `held` the bytes it has had in each
place since the call began: what a copy taken while others store can be
compared with.

### Policy

The file is a sequence of chunks (entry or not, key, value). An unknown key is
index −1; an unrecognised value keeps `mact` from the entry before.
`Means(n, a)` is the reference definition: the action of entry `n` is the last
recognised value up to `n`, `ALLOW_LIND` before the first.

### LindGateway

`LindPythonInit` leaves a usable context, an empty one or none, or ends the
process when `get_repy_path` finds no `REPY_PATH`; `Monitor` starts where it has
come back. `pc` runs through one wrapper call: `sets` (objects of `lind_select`), `lock`,
`build`, `call`, `inlind` (Python runs and may give up the lock), `drop`,
`between` (lock released, response in hand), `attrs`, `copy`, `cleanup`,
`unset`; `map` and `get` are the mapping functions; `crashed` is the end of the
monitor. `gil` is the interpreter's lock, `own` the references the monitor must
give back, `frefs` those that keep the functions of the context alive, of which
the monitor only borrows one. A response is described by which attributes it
has, their types and the length of its data. The conversion of an unsigned size
to `int` is modelled (`ToInt`), with the largest `int` a constant. The lock
functions of CPython are modelled by their documented contract; that
`PyEval_ReleaseLock` leaves a thread state current is outside the model.
The output of `CopyMultiDataVa`, which receives the length of the data as its
number of blocks, is undefined: the step goes on or traps.

### Descriptors

`native`, `lind` and `mapping` are the three tables; `view` is what the program
takes each number for. Each handler's call is one step, since the tracee is
stopped meanwhile: kernel's answer, Lind's answer, `add_mapping`, the value
returned. `estranged` collects the numbers whose meaning Lind and the program
need not share (the fallback of `open`, the pair of `socketpair`, the 0 of an
unreadable answer, copies of those and closes that Lind refused), `paired` those from an
opening call that the kernel performed too. `faults` counts unreadable answers,
exceptions of the mapping function and uses of a number the program does not
hold. `MmapRight` is the positive statement and `MmapMapsFile` what the test of
`mmap` relies on, which does not hold (section 5).

### PositionedIO

`Save`, `SeekTo`, `Move` and `Restore` are the four requests of `lind_pread` and
`lind_pwrite`. Each seek may be refused or answered unreadably, and passes its
offset through an `int`. `fault` records whether that happened. A refinement
mapping makes every call without a fault a step of `PositionedFile`; after a
fault the abstract file promises nothing until the next call (`sound`).

## 3. Runs

| Run | Bounds | Shows |
|---|---|---|
| `calls` | all 50 Lind calls with a handler, all OS handlers, one call of each kind without (`chmod`, `futex`, `lstat`, `pwrite64`); the shipped policy and one with the actions exchanged; every size of argument; kill, signal, badpath, odd | what is behind every output argument, and around it, after every outcome of Lind; which inputs Lind is given as the program wrote them; result and argument registers; a live tracee is left only after a denial or a bad path |
| `faults` | one call per shape of handler, five policies, all faults | phase agreement, exactly-once service, denial, clean end, the inductive invariant (which contains the type invariant), refinement of `Mediation` |
| `live` | one call per action, shipped policy, all faults, `FairSpec` | stops end, and the monitor ends with its tracee |
| `memory` | word 4, chunk 2, pages of 4, any of three pages mapped, path buffer 4 growing to 18 at most, counts 0..9, at most one NUL, one store of another thread | delivery, what `get_path` returns across holes, bounded damage, buffer bounds, termination |
| `policy` | two names and an unknown one, files of up to 4 chunks | the table means the file |
| `descriptors` | two objects, two native and two Lind numbers besides standard input, 4 calls, one fault | a number means in Lind what the program takes it for; `mmap` maps what an opening call opened |
| `gateway` | largest int 3, structures of 2, data up to 3, sizes up to 4, two exceptions | the lock is paired, references balance, functions stay intact, results mean the response, copies fit; refinement of `LindService` |
| `position` | largest int 1, positions and offsets up to 5, counts up to 2 | refinement of `PositionedFile`; the damage of a refused seek is local |
| `denied`, `pread`, `overrun`, `mmap` | as `calls`, `memory` (without other threads), `descriptors` (without faults) | disagreements, section 5 |

In `Monitor`, calls are served one at a time and everything about the call
before is overwritten when the next one is issued, except `entering`, `regs`
and `lret`; the state spaces of its runs are complete (no bound on the number of
calls), so every sequence of calls is covered. So are those of `gateway` (but
for the number of exceptions, after which functions lose references one by one)
and `position`. The word sizes of `memory` keep the proportions of 8, 4 and
4096 and let every alignment, remainder, hole, end of mapping and two doublings
of the path buffer occur; a page of one word is the smallest that a word can be
mapped in, and three let a hole lie between two mappings. Four chunks suffice for an entry, a value carried over a
comment and a duplicate. Four descriptor calls suffice for open, a second
open, a replacement or reuse, and `mmap`. `IntMax` is small so that sizes and
offsets reach and pass it.

Fairness. `FairSpec` of `Monitor` assumes weak fairness of the monitor's own
steps (a process that is scheduled) and of the kernel's part in stopping and
ending a killed tracee. It assumes nothing about Lind or the native call, which
may block for ever (`read`, `accept`), nor about the program; so the
liveness properties exclude waiting for Lind. `TraceeMemory` assumes that the
monitor goes on.

Deadlock is checked except in `descriptors`, where the calls are bounded and
`mmap` of a number without a mapping may end the monitor, and in `gateway`, where the
monitor ends when a call fails.

The exceptions stated inside properties are facts about the code, and each
property is exact: it says what happens in the exceptional cases too.

* `BuffersDelivered`. Eight outputs are never written back (`LostOutputs`: the
  buffer of `pread64`, the pair of `socketpair`, address and length of `accept`,
  the lengths of `recvfrom`, `getsockname` and `getsockopt`, and the lock of
  `fcntl` with `F_GETLK`): the program finds what the native call has left. Three
  are written back from a buffer that Lind never fills (`Scrambled`: data and
  address of `recvfrom`, the header of `recvmsg`). All others hold Lind's data
  after a success and uninitialised bytes after an error or an unreadable
  answer, but for `select`, whose sets come back as they were after an error. Of
  the arrays of `poll` and `epoll_wait` and of a long address or option only one
  block is transferred (`OneBlock`). `select` is modelled with all of its sets
  given.
* `NoStrayWrites`. `epoll_ctl` overwrites its event with uninitialised bytes, and
  the blocks of `Overruns` overwrite what lies behind a shorter argument (16
  bytes over the `int` of `getsockopt`).
* `InputsIntact`. For nine inputs Lind is given other bytes (`Mistaken`): an
  uninitialised entry (`poll`), the iovec array for the data (`pwritev`), the data
  for the address (`sendto`), fresh blocks and pointers followed in the monitor
  (`sendmsg`, `recvmsg`), a length read through the program's pointer or taken
  from it (`accept`, `getsockopt`, `recvfrom`), nothing that was passed (`fcntl`).
  `bind`, `connect` and `setsockopt` copy one block and pass the program's length.
  What the kernel has written before Lind is asked (the sets of `select`, the
  length of `getsockname`) is not the program's any more.
* `ArgumentsPreserved`. `mmap` and `getsockname` change an argument register.
* `ResultDelivered`. `open` falls back to the native descriptor. Calls without a
  handler return positive `EINVAL`, which a C library does not take for an error.

## 4. Proofs

All theorems hold for every value of the constants that satisfies the named
assumptions of the modules; the bounds of the runs do not enter. Proved are all
invariants and action properties of the passing runs, the refinements of the
three abstract specifications, the safety halves of the three liveness
properties, and how far three of the four findings reach.

`MonitorProofs` (policies are functions from calls to actions, `read` and
`execve` are calls, `NoCall` is not):

* `TypeCorrect`, `Invariance` (`[]IInv`), `PhaseCorrect`, `ServedExactlyOnce`,
  `LindAskedForCurrentCall`, `DenialHolds`. `PhaseAgreement` is not inductive:
  it speaks only of the moment of the dispatch. `IInv` says for every state of
  the tracee what the flag and the registers are worth: between calls the flag
  is set and the last call has been performed as the policy says (`IdleInv`);
  from the entry stop on the monitor's registers stand for the current call and
  the flag is cleared exactly if the call toggles (`EntryInv`, `ExitInv`);
  inside an exit half the current call has been run once by the kernel and not
  yet by Lind, even if the tracee has been killed meanwhile, because a failing
  `get_args` leaves the registers of the same call's entry stop (`ServeInv`);
  the end states (`EndInv`).
* `EndsCleanly`, `TracedTillDenied`, from `PartInv`: a tracee that still runs was
  not killed, only its own end is reported as an exit, a missing context and
  an unreadable path come from the fault of that name.
* `DeniedRunsUnmonitored` (`DenialExtent`): Lind never performs a denied call,
  and the kernel only after the monitor has ended.
* `StopsAreShort`, `DeathIsNoticed`, `AlwaysABranch`: the safety halves of
  `StopsAreResumed` and `DeathEndsMonitor`. `Steps` counts the places between
  here and the next resumption; while the tracee is stopped, or dead, every step
  of the system lowers it, and a monitor whose tracee is stopped or dead is
  never without a branch to take. What remains for liveness is that the steps
  are taken, which is the fairness assumed in the run `live`.
* `UsesService`: the handlers' side of the interface `LindService`.

`DeliveryProofs` (on top of `IInv`):

* `ResultIsDelivered`, `BuffersAreDelivered`, `MemoryIsSpared`,
  `InputsAreIntact`, `ArgumentsArePreserved`. Lemma `LindRowFits` goes through
  all handlers and shows what each does with every input, output and block of
  its call (`RowFits`); the lists of exceptions are shown to be complete by it.
  `DataInv` follows the program's registers and memory from the entry stop
  (`AskInv`) through the kernel's run, which leaves its data behind outputs only
  (`AsLeft`), and Lind's (`KernelInv`) to the answer (`AnswerInv`), whose parts
  `Filled`, `Spared` and `Given` are the three memory properties; a dead tracee
  drops out, because no step brings it back.
* `RefinesMediation`: the refinement of `Mediation`, one step of the abstract
  specification or a stutter for every action.

`PolicyProofs`, for files of any length: `TypeCorrect`, `TableMeansFile`,
`NoReassignment`, `OutcomeCorrect`, `DuplicatesRefused`. The strengthening says
that `mact` is the meaning of the chunks read so far. For the last theorem
`KeysTaken` is added, which covers index −1 too: an unknown name is accepted if
the word before the table happens to be `NO_VAL`, a second one never.

`TraceeMemoryProofs`, for every word, chunk, page and buffer size (the path buffer
a multiple of the chunk that `malloc` can provide), set of mapped pages, address, count and number of
stores by other threads: `TypeCorrect`, `SetMemDelivers`, `SetMemDamage`,
`BufferRespected`, `GetMemDelivers`, `GetPathDelivers`, `GetPathEnds`. `Shape` (offsets and lengths are whole words
or chunks) is what keeps stores inside the buffers; `MemHeld` and `OwnHeld`
relate the memory to what the program has had; `GetSoFar`, `PathSoFar` and
`PathMissed` (no NUL that stayed in place has been passed over, and the last
doubling failed beyond half the largest buffer) are the loop invariants.
`DamageStaysInWords` and `ExactOnWords` say how far `set_mem` reaches: to the end
of the last word of the buffer, so not at all behind it when the count is a
multiple of the word size. `RequestsRunOut` and `RequestAlwaysDue` are the safety
half of `EveryCallEnds`: every request lowers `Left`, a natural number, and
neither a death nor a store of another thread raises it.

`LindGatewayProofs`, for every width of `int` and every size: `TypeCorrect`,
`LockPaired`, `ReferencesBalanced`, `FunctionsStayIntact`, `ResultIsMeant`,
`CopyStaysWithin`, `RefinesService` (the refinement of `LindService`, for which
`Answered` adds that the result stands for the answer from `ParseResponse` to the
return of the wrapper). `Held` says for each place in the code exactly which
references are held, `Borrowed` that a function that is called again has lost
none: after a failed call the response is null, and the monitor crashes on it, `Stored` what `ParseResponse` has stored so far.

`DescriptorProofs`, for any objects, numbers and lengths of programs:
`TypeCorrect`, `ViewAgrees`, `MmapFindsFile`. `Pairing` says that for a paired
number the mapping names a native descriptor that stands for the same object
and that the program does not hold itself, so that it can neither close nor
replace it.

`PositionedIOProofs`, for every width of `int`: `TypeCorrect`, `DamageIsLocal`,
`Implementation` (the refinement of `PositionedFile`). `Standing` gives the
position between any two of the four requests and `Intended` what a call
without a fault has done so far.

Only model-checked: the liveness properties (`StopsAreResumed`,
`DeathEndsMonitor`, `EveryCallEnds`), since fairness is out of the prover's reach
and only their safety halves are proved; and the violations.

## 5. Findings

1. `denied`: a call with action `DENY_LIND` is executed. `monitor_deny` exits
   the monitor at the entry stop; the detached tracee runs the call and goes on
   unmonitored, although `monitor.cfg:82` calls these calls forbidden. This is
   the only way: `DeniedRunsUnmonitored`.
2. `pread`: `monitor_pread64` never writes Lind's data to the program's buffer,
   which `test_pread64.c` prints. The other arguments this happens to are those
   of `LostOutputs` and `Scrambled`: `BuffersAreDelivered`.
3. `overrun`: `set_mem` changes up to seven bytes behind the buffer;
   `DamageBounded` shows it is never more, `ExactOnWords` that it is none for
   multiples of eight.
4. `mmap`: `add_mapping` records a native descriptor only when both calls
   succeed, and nothing removes or replaces an old record. After `dup2(10, 11)`
   whose native part failed, 11 stands for another file in Lind than the
   mapping says, and `mmap` of 11 maps the old one, although `test_mmap.c`
   takes it for granted that `mmap` maps the file of its descriptor.

## 6. Not modelled, and what is left

Not modelled:

* the gathering loops of `lind_sendmsg` and `lind_recvmsg`: they use the length
  of the first element as the number of elements, follow pointers of the
  program and send a freed buffer, so that no execution has a defined outcome;
  `Handlers` marks both as wild;
* `CopyMultiDataVa` beyond its being undefined (see `LindGateway`);
* functions nothing calls: `monitor_gscall`, `LindPythonFinalize`,
  `GetHostFdFromLindFd`, `_lind_fcntl_get`, `_lind_fcntl_set`, `CopyMultiData`,
  `trim`, `get_substring`;
* children of the tracee (not traced by the code), logging, the formats of
  arguments, and what Lind's operations do (outside the repository);
* the headers, which hold tables of names and structures without behaviour.

The program is `lind_monitor.c` and `lind_platform.c`; nearly all other C lines
of the repository are inputs that the test harness runs under the monitor
(`lind_test/graphene/single-gcc.c` and `gzip.c`, copies of other programs) and have no
part in it.

Left to do: the composition of `Descriptors` with the faults of `Monitor` (a tracee killed
between `add_mapping` and the return value), should the mapping ever be read
for another purpose than `mmap`.
