---------------------------- MODULE TraceeMemory ----------------------------
(***************************************************************************)
(* get_path, get_mem and set_mem of lind_monitor.c: how the monitor moves  *)
(* bytes between its own buffers and the tracee, one word per ptrace       *)
(* request.  Sizes are parameters; the program runs with WordSize = 8      *)
(* (sizeof(long)), ChunkSize = 4 (sizeof(uint32_t)) and PathMax = 4096.    *)
(*                                                                         *)
(* Any set of pages of the tracee's memory is mapped, with holes between   *)
(* them.  A byte is named by where it comes from, so that a byte in the    *)
(* wrong place shows.                                                      *)
(*                                                                         *)
(* Only the thread that made the call is stopped: threads the program has  *)
(* created run outside the monitor's sight and store to memory meanwhile.  *)
(***************************************************************************)
EXTENDS Integers

CONSTANTS
  WordSize,   \* bytes moved by one PEEKDATA or POKEDATA
  ChunkSize,  \* bytes of a word that get_path uses
  PageSize,   \* bytes of a page, mapped as a whole or not at all
  PathMax,    \* first size of get_path's buffer
  MemLimit,   \* largest buffer realloc can provide
  Top,        \* bound: addresses are below Top
  MaxCount,   \* bound: counts are at most MaxCount
  MaxWrites   \* bound: stores of other threads during a call

ASSUME SizeAssumption ==
  /\ WordSize \in Nat \ {0} /\ ChunkSize \in 1..WordSize
  /\ PageSize \in Nat /\ WordSize <= PageSize
  /\ PathMax \in Nat \ {0} /\ MemLimit \in Nat
  /\ Top \in Nat /\ MaxCount \in Nat /\ MaxWrites \in Nat
ASSUME ChunkAssumption == PathMax % ChunkSize = 0
ASSUME BufferAssumption == PathMax <= MemLimit   \* the first malloc succeeds

Addr    == 0..(Top - 1)
Pages   == 0..((Top - 1) \div PageSize)
Offsets == 0..(MemLimit + MaxCount + 2 * WordSize)
InWord  == 0..(WordSize - 1)

(* ones and zero: bytes 0xff and 0x00.                                     *)
MemByte(a) == <<"mem", a>>
BufByte(k) == <<"buf", k>>
ones == <<"ones", 0>>
zero == <<"zero", 0>>
other == <<"thread", 0>>
none == <<"none", 0>>
Bytes == {MemByte(a) : a \in Addr} \cup {BufByte(k) : k \in 0..(MaxCount - 1)}
           \cup {ones, zero, other}

VARIABLES
  op,     \* the running function: "set", "get" or "path"
  at,     \* "run", "done", or "crash" when realloc has failed
  addr, count,  \* its parameters
  off,    \* bytes handled so far
  ret,    \* set_mem: result of the last POKEDATA, 0 or -1
  len,    \* size of the result buffer of get_mem and get_path
  copy,   \* that buffer
  mem, mapped, alive, \* the tracee: its memory, the addresses it has
  writes, \* stores of other threads so far
  orig,   \* history: its memory as the program itself has left it
  held    \* history: the bytes the program has had in each place

args  == <<op, addr, count, writes, orig, held>>
vars  == <<op, at, addr, count, off, ret, len, copy, mem, mapped, alive,
           writes, orig, held>>

(* The tracee's memory: its own bytes, NUL where "nuls" says.              *)
Memory(nuls) == [a \in Addr |-> IF a \in nuls THEN zero ELSE MemByte(a)]

(* A call of one of the three functions, with malloc of its buffer.        *)
Init ==
  /\ op \in {"set", "get", "path"}
  /\ at = "run" /\ off = 0 /\ ret = -1 /\ alive = TRUE
  /\ addr \in Addr
  /\ \E pages \in SUBSET Pages : mapped = {a \in Addr : a \div PageSize \in pages}
  /\ count \in IF op = "path" THEN {0} ELSE 0..MaxCount
  /\ len = IF op = "set" THEN 0
           ELSE IF op = "get" THEN (count \div WordSize + 1) * WordSize ELSE PathMax
  /\ copy = [k \in Offsets |-> none]
  /\ \E nuls \in IF op = "path" THEN {{}} \cup {{a} : a \in Addr} ELSE {{}} :
       mem = Memory(nuls)
  /\ writes = 0 /\ orig = mem /\ held = [a \in Addr |-> {mem[a]}]

-----------------------------------------------------------------------------
(* External: one ptrace request.                                           *)

(* PEEKDATA of the word at a: all or nothing, -1 on failure.               *)
Readable(a)  == a..(a + WordSize - 1) \subseteq mapped
Reachable(a) == alive /\ Readable(a)
Peek(a) == [k \in InWord |-> IF Reachable(a) THEN mem[a + k] ELSE ones]

(* POKEDATA: the bytes before the first one that is not mapped are stored  *)
(* even when the request fails.                                            *)
Poke(a, word) ==
  /\ mem' = [x \in Addr |-> IF alive /\ x >= a /\ x < a + WordSize /\ a..x \subseteq mapped
                            THEN word[x - a] ELSE mem[x]]
  /\ ret' = IF Reachable(a) THEN 0 ELSE -1

(* The tracee is killed: every request fails from here on.                 *)
Kill ==
  /\ alive /\ alive' = FALSE
  /\ UNCHANGED <<args, at, off, ret, len, copy, mem, mapped>>

(* Another thread of the program stores a byte.                            *)
ThreadWrite ==
  /\ alive /\ at = "run" /\ writes < MaxWrites
  /\ \E a \in Addr, b \in IF op = "path" THEN {other, zero} ELSE {other} :
       /\ a \in mapped
       /\ mem' = [mem EXCEPT ![a] = b] /\ orig' = [orig EXCEPT ![a] = b]
       /\ held' = [held EXCEPT ![a] = @ \cup {b}]
  /\ writes' = writes + 1
  /\ UNCHANGED <<op, at, addr, count, off, ret, len, copy, mapped, alive>>

-----------------------------------------------------------------------------
(* Faulty variants of SetBlock: the remainder counts as a block, the index *)
(* into the buffer is missing, the index is not advanced.                  *)
SetBlockRoundsUp ==
  /\ op = "set" /\ at = "run" /\ off < count
  /\ Poke(addr + off, [k \in InWord |-> BufByte(off + k)])
  /\ off' = off + WordSize
  /\ UNCHANGED <<args, at, len, copy, mapped, alive>>
SetBlockSameWord ==
  /\ op = "set" /\ at = "run" /\ off + WordSize <= count
  /\ Poke(addr + off, [k \in InWord |-> BufByte(k)])
  /\ off' = off + WordSize
  /\ UNCHANGED <<args, at, len, copy, mapped, alive>>
SetBlockStays ==
  /\ op = "set" /\ at = "run" /\ off + WordSize <= count
  /\ Poke(addr + off, [k \in InWord |-> BufByte(off + k)])
  /\ UNCHANGED <<args, at, off, len, copy, mapped, alive>>

(* set_mem: one POKEDATA for a full block...                               *)
SetBlock ==
  /\ op = "set" /\ at = "run" /\ off + WordSize <= count
  /\ Poke(addr + off, [k \in InWord |-> BufByte(off + k)])
  /\ off' = off + WordSize
  /\ UNCHANGED <<args, at, len, copy, mapped, alive>>

(* ... and one for the remainder.  The rest of the last word comes from    *)
(* the result of the previous request, not from the word just read.        *)
TailWord ==
  [k \in InWord |-> IF off + k < count THEN BufByte(off + k)
                    ELSE IF ret = 0 THEN zero ELSE ones]

(* A faulty variant: a remainder of 0 is written too.                      *)
SetTailAlways ==
  /\ op = "set" /\ at = "run" /\ off <= count /\ count < off + WordSize
  /\ Poke(addr + off, TailWord)
  /\ at' = "done"
  /\ UNCHANGED <<args, off, len, copy, mapped, alive>>

SetTail ==
  /\ op = "set" /\ at = "run" /\ off < count /\ count < off + WordSize
  /\ Poke(addr + off, TailWord)
  /\ at' = "done"
  /\ UNCHANGED <<args, off, len, copy, mapped, alive>>

SetReturn ==
  /\ op = "set" /\ at = "run" /\ off = count
  /\ at' = "done"
  /\ UNCHANGED <<args, off, ret, len, copy, mem, mapped, alive>>

(* get_mem: count / WordSize + 1 words.                                    *)
Store(word, n) ==
  copy' = [k \in Offsets |-> IF k >= off /\ k < off + n THEN word[k - off] ELSE copy[k]]

(* A faulty variant: the index is left out of the address.                 *)
GetFirstWord ==
  /\ op = "get" /\ at = "run" /\ off <= count
  /\ Store(Peek(addr), WordSize)
  /\ off' = off + WordSize
  /\ UNCHANGED <<args, at, ret, len, mem, mapped, alive>>

GetWord ==
  /\ op = "get" /\ at = "run" /\ off <= count
  /\ Store(Peek(addr + off), WordSize)
  /\ off' = off + WordSize
  /\ UNCHANGED <<args, at, ret, len, mem, mapped, alive>>

GetReturn ==
  /\ op = "get" /\ at = "run" /\ off > count
  /\ at' = "done"
  /\ UNCHANGED <<args, off, ret, len, copy, mem, mapped, alive>>

(* get_path: the buffer doubles when it is full, ChunkSize bytes of each   *)
(* word are stored, the first one with a NUL is the last.                  *)
PathLenLate == IF off > len THEN 2 * len ELSE len   \* faulty: one chunk late
PathLen == IF off >= len THEN 2 * len ELSE len

(* Faulty variants: a whole word is skipped although a chunk is stored;    *)
(* only the first byte of a chunk is looked at.                            *)
PathStep(step, looked) ==
  /\ op = "path" /\ at = "run" /\ PathLen <= MemLimit
  /\ len' = PathLen
  /\ Store(Peek(addr + off), ChunkSize)
  /\ IF \E k \in 0..(looked - 1) : Peek(addr + off)[k] = zero
     THEN at' = "done" /\ UNCHANGED off
     ELSE off' = off + step /\ UNCHANGED at
  /\ UNCHANGED <<args, ret, mem, mapped, alive>>
PathChunkSkips == PathStep(WordSize, ChunkSize)
PathChunkFirstByte == PathStep(ChunkSize, 1)

PathChunk ==
  /\ op = "path" /\ at = "run" /\ PathLen <= MemLimit
  /\ len' = PathLen
  /\ Store(Peek(addr + off), ChunkSize)
  /\ IF \E k \in 0..(ChunkSize - 1) : Peek(addr + off)[k] = zero
     THEN at' = "done" /\ UNCHANGED off
     ELSE off' = off + ChunkSize /\ UNCHANGED at
  /\ UNCHANGED <<args, ret, mem, mapped, alive>>

(* realloc fails; the copy to the null pointer traps.                      *)
PathOutOfMemory ==
  /\ op = "path" /\ at = "run" /\ PathLen > MemLimit
  /\ at' = "crash"
  /\ UNCHANGED <<args, off, ret, len, copy, mem, mapped, alive>>

Terminated == at \in {"done", "crash"} /\ UNCHANGED vars

Next ==
  \/ SetBlock \/ SetTail \/ SetReturn
  \/ GetWord \/ GetReturn
  \/ PathChunk \/ PathOutOfMemory
  \/ Kill \/ ThreadWrite
  \/ Terminated

Spec == Init /\ [][Next]_vars

(* The monitor is a running process.                                       *)
FairSpec == Spec /\ WF_vars(SetBlock \/ SetTail \/ SetReturn \/ GetWord
                             \/ GetReturn \/ PathChunk \/ PathOutOfMemory)

-----------------------------------------------------------------------------
(* Every variable keeps its type.                                          *)
TypeOK ==
  /\ op \in {"set", "get", "path"} /\ at \in {"run", "done", "crash"}
  /\ addr \in Addr /\ count \in 0..MaxCount /\ off \in Nat
  /\ ret \in {-1, 0} /\ len \in Nat /\ mapped \subseteq Addr /\ alive \in BOOLEAN
  /\ copy \in [Offsets -> Bytes \cup {none}]
  /\ mem \in [Addr -> Bytes] /\ orig \in [Addr -> Bytes]
  /\ writes \in 0..MaxWrites /\ held \in [Addr -> SUBSET Bytes]

(* The start of the unit of n bytes that holds byte k.                     *)
Floor(k, n) == n * (k \div n)

(* While the tracee lives, set_mem has stored the first off bytes of the   *)
(* buffer, each in its place, and when it returns all of them, unless the  *)
(* word a byte belongs to has a hole before it or another thread has       *)
(* stored over it.                                                         *)
SetDelivers ==
  op = "set" /\ alive =>
    \A k \in 0..(count - 1) :
      /\ at = "done" \/ k < off
      /\ (addr + Floor(k, WordSize))..(addr + k) \subseteq mapped
      =>
        \/ mem[addr + k] = BufByte(k)
        \/ mem[addr + k] = orig[addr + k] /\ held[addr + k] # {orig[addr + k]}

(* set_mem changes nothing before the buffer, and beyond it less than one  *)
(* word: elsewhere memory is as the program's threads have left it, so no  *)
(* store of theirs is lost there.                                          *)
DamageBounded ==
  op = "set" => \A a \in Addr : mem[a] # orig[a]
                   => addr <= a /\ a < addr + count + WordSize - 1

(* get_mem copies bytes the program has had in each place during the call, *)
(* except those of a word that is not mapped as a whole.                   *)
GetDelivers ==
  op = "get" /\ at = "done" /\ alive =>
    \A k \in 0..(count - 1) :
      Readable(addr + Floor(k, WordSize)) => copy[k] \in held[addr + k]

(* What get_path returns ends in a NUL that the program has had there.     *)
(* Each byte before it is no NUL and one the program has had in its place, *)
(* even if another thread changes the string while it is read; but where   *)
(* the word could not be read get_path has put 0xff and gone on, so that   *)
(* the NUL may belong to another mapping.                                  *)
FromMemory(k) == IF Readable(addr + Floor(k, ChunkSize))
                 THEN copy[k] \in held[addr + k] ELSE copy[k] = ones

PathDelivers ==
  op = "path" /\ at = "done" =>
    \E n \in Offsets :
      /\ addr + n \in Addr /\ copy[n] = zero
      /\ \A k \in 0..n : FromMemory(k) /\ (copy[k] = zero => k = n)

(* No byte is stored outside the buffer of get_mem or get_path, although   *)
(* get_path compares before it stores several bytes.                       *)
WithinBuffer == \A k \in Offsets : copy[k] # none => k < len

(* get_path runs out of memory only on a dead tracee or when no NUL has    *)
(* been in its place all the time, within half the largest buffer and in a *)
(* chunk whose whole word is mapped.                                       *)
PathEnds ==
  at = "crash" /\ alive =>
    \A a \in Addr : a >= addr /\ 2 * (a - addr) <= MemLimit /\ held[a] = {zero}
      => ~Readable(addr + Floor(a - addr, ChunkSize))

(* Every one of the three returns or crashes.                              *)
EveryCallEnds == <>(at \in {"done", "crash"})

(* set_mem writes the buffer and nothing else.                             *)
SetMemExact ==
  op = "set" => \A a \in Addr : mem[a] # orig[a] => addr <= a /\ a < addr + count
=============================================================================
