------------------------- MODULE TraceeMemoryProofs -------------------------
(***************************************************************************)
(* Proofs about module TraceeMemory, for every size of a word, a chunk and *)
(* a path buffer and any number of stores of other threads.                *)
(***************************************************************************)
EXTENDS TraceeMemory, WellFoundedInduction, TLAPS

USE SizeAssumption

(* Multiples of b: the next one is at most as far as any larger one.       *)
LEMMA NextMultiple ==
  ASSUME NEW b \in Nat \ {0}, NEW i \in Nat, NEW j \in Nat, b * i < b * j
  PROVE  b * i + b <= b * j
<1>1. CASE j <= i
  <2>1. b * j <= b * i
    BY <1>1
  <2> QED BY <2>1
<1>2. CASE i + 1 <= j
  <2>1. b * (i + 1) <= b * j
    BY <1>2
  <2>2. b * (i + 1) = b * i + b
    OBVIOUS
  <2> QED BY <2>1, <2>2
<1> QED BY <1>1, <1>2

(* Division with remainder.                                                *)
LEMMA Division ==
  ASSUME NEW b \in Nat \ {0}, NEW k \in Nat
  PROVE  /\ k \div b \in Nat
         /\ b * (k \div b) <= k /\ k < b * (k \div b) + b
OBVIOUS

(* The unit that holds k is the one that begins at a multiple just before. *)
LEMMA FloorOf ==
  ASSUME NEW b \in Nat \ {0}, NEW i \in Nat, NEW k \in Nat,
         b * i <= k, k < b * i + b
  PROVE  Floor(k, b) = b * i
<1> DEFINE q == k \div b
<1>1. q \in Nat /\ b * q <= k /\ k < b * q + b
  BY Division
<1> HIDE DEF q
<1>2. b * i \in Nat /\ b * q \in Nat
  BY <1>1
<1>3. ~(b * i < b * q)
  BY <1>1, <1>2, NextMultiple
<1>4. ~(b * q < b * i)
  BY <1>1, <1>2, NextMultiple
<1>5. b * q = b * i
  BY <1>2, <1>3, <1>4
<1> QED BY <1>5 DEF Floor, q

-----------------------------------------------------------------------------
(* What the offset and the size of the buffer are multiples of.            *)
Shape ==
  /\ op = "set" => off <= count /\ \E i \in Nat : off = WordSize * i
  /\ op = "get" => /\ \E i \in Nat : off = WordSize * i
                   /\ off <= count + WordSize
                   /\ len = WordSize * (count \div WordSize + 1)
                   /\ at = "done" => off > count
  /\ op = "path" => /\ \E i, j \in Nat : off = ChunkSize * i /\ len = ChunkSize * j
                    /\ off <= len /\ 0 < len /\ len <= MemLimit
  /\ at = "crash" => op = "path"

(* The word PEEKDATA yields.                                               *)
LEMMA PeekType ==
  ASSUME TypeOK, NEW a \in Nat
  PROVE  Peek(a) \in [InWord -> Bytes]
<1> SUFFICES ASSUME NEW k \in InWord
             PROVE  (IF Reachable(a) THEN mem[a + k] ELSE ones) \in Bytes
  BY DEF Peek
<1>1. CASE Reachable(a)
  <2>1. a + k \in a..(a + WordSize - 1)
    BY DEF InWord
  <2>2. a + k \in Addr
    BY <1>1, <2>1 DEF Reachable, Readable, TypeOK
  <2> QED BY <1>1, <2>2 DEF TypeOK
<1>2. CASE ~Reachable(a)
  BY <1>2 DEF Bytes
<1> QED BY <1>1, <1>2

(* Storing a word keeps the type of the buffer.                            *)
LEMMA StoreType ==
  ASSUME TypeOK, NEW w \in [InWord -> Bytes], NEW m \in 0..WordSize, Store(w, m)
  PROVE  copy' \in [Offsets -> Bytes \cup {none}]
<1> SUFFICES ASSUME NEW k \in Offsets
             PROVE  (IF k >= off /\ k < off + m THEN w[k - off] ELSE copy[k])
                       \in Bytes \cup {none}
  BY DEF Store
<1>1. CASE k >= off /\ k < off + m
  <2>1. k - off \in InWord
    BY <1>1 DEF TypeOK, InWord, Offsets
  <2> QED BY <1>1, <2>1
<1>2. CASE ~(k >= off /\ k < off + m)
  BY <1>2 DEF TypeOK
<1> QED BY <1>1, <1>2

(* So does POKEDATA for the tracee's memory.                               *)
LEMMA PokeType ==
  ASSUME TypeOK, NEW a \in Nat, NEW w \in [InWord -> Bytes], Poke(a, w)
  PROVE  mem' \in [Addr -> Bytes] /\ ret' \in {-1, 0}
<1> SUFFICES ASSUME NEW y \in Addr
             PROVE  (IF alive /\ y >= a /\ y < a + WordSize /\ a..y \subseteq mapped
                     THEN w[y - a] ELSE mem[y]) \in Bytes
  BY DEF Poke
<1>1. CASE y >= a /\ y < a + WordSize
  <2>1. y - a \in InWord
    BY <1>1 DEF Addr, InWord
  <2> QED BY <2>1 DEF TypeOK
<1>2. CASE ~(y >= a /\ y < a + WordSize)
  BY <1>2 DEF TypeOK
<1> QED BY <1>1, <1>2

(* The initial state is typed.                                             *)
LEMMA TypeInit == Init => TypeOK
<1> SUFFICES ASSUME Init PROVE TypeOK
  OBVIOUS
<1>1. PICK nuls : mem = Memory(nuls)
  BY DEF Init
<1>2. mem \in [Addr -> Bytes]
  BY <1>1 DEF Memory, Bytes
<1>3. count \in 0..MaxCount
  BY DEF Init
<1>4. len \in Nat
  <2>1. count \div WordSize \in Nat
    BY <1>3, Division
  <2>2. (count \div WordSize + 1) * WordSize \in Nat
    BY <2>1
  <2> QED BY <2>2 DEF Init
<1>5. held \in [Addr -> SUBSET Bytes]
  BY <1>2 DEF Init
<1>6. copy \in [Offsets -> Bytes \cup {none}]
  BY DEF Init
<1>7. mapped \subseteq Addr
  BY DEF Init
<1> QED BY <1>2, <1>3, <1>4, <1>5, <1>6, <1>7 DEF Init, TypeOK

(* Every request keeps the types.                                          *)
LEMMA TypeStep == TypeOK /\ [Next]_vars => TypeOK'
<1> SUFFICES ASSUME TypeOK, [Next]_vars PROVE TypeOK'
  OBVIOUS
<1>a. addr \in Nat /\ off \in Nat /\ addr + off \in Nat /\ count \in Nat
  BY DEF TypeOK, Addr
<1>1. CASE SetBlock
  <2>1. \A k \in InWord : BufByte(off + k) \in Bytes
    <3> SUFFICES ASSUME NEW k \in InWord PROVE BufByte(off + k) \in Bytes
      OBVIOUS
    <3>1. off + k \in 0..(MaxCount - 1)
      BY <1>1, <1>a DEF SetBlock, InWord, TypeOK
    <3> QED BY <3>1 DEF Bytes
  <2>2. [k \in InWord |-> BufByte(off + k)] \in [InWord -> Bytes]
    BY <2>1
  <2>3. mem' \in [Addr -> Bytes] /\ ret' \in {-1, 0}
    BY <1>1, <1>a, <2>2, PokeType DEF SetBlock
  <2>4. off' \in Nat
    BY <1>1, <1>a DEF SetBlock
  <2> QED BY <1>1, <2>3, <2>4 DEF SetBlock, TypeOK, args
<1>2. CASE SetTail
  <2>1. \A k \in InWord : TailWord[k] \in Bytes
    <3> SUFFICES ASSUME NEW k \in InWord PROVE TailWord[k] \in Bytes
      OBVIOUS
    <3>1. off + k < count => off + k \in 0..(MaxCount - 1)
      BY <1>2, <1>a DEF InWord, TypeOK
    <3> QED BY <3>1 DEF Bytes, TailWord
  <2>2. TailWord \in [InWord -> Bytes]
    BY <2>1 DEF TailWord
  <2>3. mem' \in [Addr -> Bytes] /\ ret' \in {-1, 0}
    BY <1>2, <1>a, <2>2, PokeType DEF SetTail
  <2> QED BY <1>2, <2>3 DEF SetTail, TypeOK, args
<1>3. CASE SetReturn \/ GetReturn \/ PathOutOfMemory
  BY <1>3 DEF SetReturn, GetReturn, PathOutOfMemory, TypeOK, args
<1>4. CASE GetWord
  <2>1. copy' \in [Offsets -> Bytes \cup {none}]
    BY <1>4, <1>a, PeekType, StoreType DEF GetWord
  <2>2. off' \in Nat
    BY <1>4, <1>a DEF GetWord
  <2> QED BY <1>4, <2>1, <2>2 DEF GetWord, TypeOK, args
<1>5. CASE PathChunk
  <2>1. copy' \in [Offsets -> Bytes \cup {none}]
    BY <1>5, <1>a, PeekType, StoreType DEF PathChunk
  <2>2. off' \in Nat /\ at' \in {"run", "done", "crash"}
    BY <1>5, <1>a DEF PathChunk, TypeOK
  <2>3. len' \in Nat
    BY <1>5 DEF PathChunk, PathLen, TypeOK
  <2> QED BY <1>5, <2>1, <2>2, <2>3 DEF PathChunk, TypeOK, args
<1>6. CASE Kill
  BY <1>6 DEF Kill, TypeOK, args
<1>7. CASE ThreadWrite
  <2>1. PICK a \in Addr, b \in {other, zero} :
          /\ mem' = [mem EXCEPT ![a] = b] /\ orig' = [orig EXCEPT ![a] = b]
          /\ held' = [held EXCEPT ![a] = @ \cup {b}]
    BY <1>7 DEF ThreadWrite
  <2>2. b \in Bytes
    BY DEF Bytes
  <2>3. mem' \in [Addr -> Bytes] /\ orig' \in [Addr -> Bytes]
    BY <2>1, <2>2 DEF TypeOK
  <2>4. held' \in [Addr -> SUBSET Bytes]
    BY <2>1, <2>2 DEF TypeOK
  <2>5. writes' \in 0..MaxWrites
    BY <1>7 DEF ThreadWrite, TypeOK
  <2> QED BY <1>7, <2>3, <2>4, <2>5 DEF ThreadWrite, TypeOK
<1>8. CASE UNCHANGED vars
  BY <1>8 DEF vars, TypeOK
<1> QED BY <1>1, <1>2, <1>3, <1>4, <1>5, <1>6, <1>7, <1>8 DEF Next, Terminated

-----------------------------------------------------------------------------
(* Initially offsets and lengths are whole words or chunks.                *)
LEMMA ShapeInit == Init => Shape
<1> SUFFICES ASSUME Init PROVE Shape
  OBVIOUS
<1>0. count \in Nat
  BY DEF Init
<1>1. count \in Nat /\ count \div WordSize \in Nat
  BY <1>0, Division
<1>2. op = "get" => len = WordSize * (count \div WordSize + 1)
  BY <1>1 DEF Init
<1>3. off = WordSize * 0 /\ off = ChunkSize * 0
  BY DEF Init
<1>4. \E j \in Nat : PathMax = ChunkSize * j
  <2>1. PathMax = ChunkSize * (PathMax \div ChunkSize) /\ PathMax \div ChunkSize \in Nat
    BY ChunkAssumption, Division
  <2> QED BY <2>1
<1>5. PICK j \in Nat : PathMax = ChunkSize * j
  BY <1>4
<1>6. CASE op = "path"
  <2>1. len = ChunkSize * j /\ off = ChunkSize * 0 /\ off = 0 /\ 0 < len /\ len <= MemLimit
    BY <1>3, <1>5, <1>6, BufferAssumption DEF Init
  <2> QED BY <1>6, <2>1 DEF Shape
<1>7. CASE op # "path"
  <2>1. off = 0 /\ at = "run" /\ 0 \in Nat
    BY DEF Init
  <2> QED BY <1>1, <1>2, <1>3, <1>7, <2>1 DEF Shape
<1> QED BY <1>6, <1>7

(* Every request handles a whole word or chunk.                            *)
LEMMA ShapeStep == TypeOK /\ Shape /\ [Next]_vars => Shape'
<1> SUFFICES ASSUME TypeOK, Shape, [Next]_vars PROVE Shape'
  OBVIOUS
<1>a. off \in Nat /\ count \in Nat /\ len \in Nat
  BY DEF TypeOK
<1>1. CASE SetTail \/ SetReturn
  BY <1>1, <1>a DEF SetTail, SetReturn, Shape, args
<1>2. CASE SetBlock \/ GetWord
  <2>1. PICK i \in Nat : off = WordSize * i
    BY <1>2 DEF SetBlock, GetWord, Shape
  <2>2. off' = WordSize * (i + 1) /\ off' = off + WordSize
    BY <1>2, <2>1 DEF SetBlock, GetWord
  <2>3. i + 1 \in Nat
    OBVIOUS
  <2>4. CASE SetBlock
    BY <1>a, <2>2, <2>3, <2>4 DEF SetBlock, Shape, args
  <2>5. CASE GetWord
    <3>1. op' = "get" /\ count' = count /\ len' = len /\ at' = "run" /\ off' <= count + WordSize
      BY <1>a, <2>2, <2>5 DEF GetWord, args
    <3> QED BY <2>2, <2>3, <2>5, <3>1 DEF GetWord, Shape
  <2> QED BY <1>2, <2>4, <2>5
<1>3. CASE GetReturn \/ PathOutOfMemory \/ Kill \/ ThreadWrite
  BY <1>3 DEF GetReturn, PathOutOfMemory, Kill, ThreadWrite, Shape, args
<1>4. CASE PathChunk
  <2>1. PICK i, j \in Nat : off = ChunkSize * i /\ len = ChunkSize * j
    BY <1>4 DEF PathChunk, Shape
  <2>2. \E l \in Nat : len' = ChunkSize * l
    <3>1. 2 * len = ChunkSize * (2 * j) /\ 2 * j \in Nat
      BY <2>1
    <3> QED BY <1>4, <2>1, <3>1 DEF PathChunk, PathLen
  <2>3. PICK l \in Nat : len' = ChunkSize * l
    BY <2>2
  <2>4. off < len' /\ 0 < len' /\ len' <= MemLimit
    BY <1>4, <1>a DEF PathChunk, PathLen, Shape
  <2>5. off + ChunkSize <= len'
    BY <2>1, <2>3, <2>4, NextMultiple
  <2>6. off' = ChunkSize * i \/ off' = ChunkSize * (i + 1)
    BY <1>4, <2>1 DEF PathChunk
  <2>7. off' <= len'
    <3>1. off' = off \/ off' = off + ChunkSize
      BY <1>4 DEF PathChunk
    <3>2. len' \in Nat
      BY <1>4, <1>a DEF PathChunk, PathLen
    <3> QED BY <1>a, <2>4, <2>5, <3>1, <3>2
  <2>8. op' = "path"
    BY <1>4 DEF PathChunk, args
  <2>9. \E c, d \in Nat : off' = ChunkSize * c /\ len' = ChunkSize * d
    <3>1. i + 1 \in Nat
      OBVIOUS
    <3> QED BY <2>3, <2>6, <3>1
  <2> QED BY <2>4, <2>7, <2>8, <2>9 DEF Shape
<1>5. CASE UNCHANGED vars
  BY <1>5 DEF vars, Shape
<1> QED BY <1>1, <1>2, <1>3, <1>4, <1>5 DEF Next, Terminated

-----------------------------------------------------------------------------
(* set_mem: what POKEDATA leaves in place and what it changes.             *)
LEMMA PokeStores ==
  ASSUME TypeOK, NEW a \in Nat, NEW w, Poke(a, w), NEW y \in Addr
  PROVE  /\ (y < a \/ y >= a + WordSize) => mem'[y] = mem[y]
         /\ alive /\ y >= a /\ y < a + WordSize /\ a..y \subseteq mapped
              => mem'[y] = w[y - a]
BY DEF Poke, Addr

(* No request of set_mem spoils a byte further away.                       *)
LEMMA DamageStep == TypeOK /\ Shape /\ DamageBounded /\ [Next]_vars => DamageBounded'
<1> SUFFICES ASSUME TypeOK, Shape, DamageBounded, [Next]_vars PROVE DamageBounded'
  OBVIOUS
<1>a. off \in Nat /\ count \in Nat /\ addr \in Nat /\ addr + off \in Nat
  BY DEF TypeOK, Addr
<1>1. CASE SetBlock \/ SetTail
  <2>1. /\ op' = "set" /\ op = "set" /\ orig' = orig /\ addr' = addr /\ count' = count
        /\ off < count
    BY <1>1, <1>a DEF SetBlock, SetTail, args
  <2>2. ASSUME NEW y \in Addr, mem'[y] # orig[y]
        PROVE  addr <= y /\ y < addr + count + WordSize - 1
    <3>1. CASE y < addr + off \/ y >= addr + off + WordSize
      <4>1. mem'[y] = mem[y]
        BY <1>1, <1>a, <3>1, PokeStores DEF SetBlock, SetTail
      <4> QED BY <2>1, <2>2, <4>1 DEF DamageBounded
    <3>2. CASE ~(y < addr + off \/ y >= addr + off + WordSize)
      BY <1>a, <2>1, <3>2 DEF Addr
    <3> QED BY <3>1, <3>2
  <2> QED BY <2>1, <2>2 DEF DamageBounded
<1>2. CASE SetReturn \/ GetWord \/ GetReturn \/ PathChunk \/ PathOutOfMemory \/ Kill
  BY <1>2 DEF SetReturn, GetWord, GetReturn, PathChunk, PathOutOfMemory, Kill,
              DamageBounded, args
<1>3. CASE ThreadWrite
  <2>1. PICK a \in Addr, b \in {other, zero} :
          mem' = [mem EXCEPT ![a] = b] /\ orig' = [orig EXCEPT ![a] = b]
    BY <1>3 DEF ThreadWrite
  <2>2. \A y \in Addr : mem'[y] # orig'[y] => mem[y] # orig[y]
    BY <2>1 DEF TypeOK
  <2> QED BY <1>3, <2>2 DEF ThreadWrite, DamageBounded
<1>4. CASE UNCHANGED vars
  BY <1>4 DEF vars, DamageBounded
<1> QED BY <1>1, <1>2, <1>3, <1>4 DEF Next, Terminated

(* While set_mem runs, every place has held the program's own byte; so a   *)
(* store of another thread shows in held.                                  *)
OwnHeld == op = "set" => \A a \in Addr : MemByte(a) \in held[a]

(* The program's own bytes stay among those it has had.                    *)
LEMMA OwnStep == TypeOK /\ OwnHeld /\ [Next]_vars => OwnHeld'
<1> SUFFICES ASSUME TypeOK, OwnHeld, [Next]_vars PROVE OwnHeld'
  OBVIOUS
<1>1. CASE ThreadWrite
  BY <1>1 DEF ThreadWrite, OwnHeld, TypeOK
<1>2. CASE ~ThreadWrite
  <2>1. op' = op /\ held' = held
    BY <1>2 DEF Next, SetBlock, SetTail, SetReturn, GetWord, GetReturn, PathChunk,
                PathOutOfMemory, Kill, Terminated, args, vars
  <2> QED BY <2>1 DEF OwnHeld
<1> QED BY <1>1, <1>2

(* A delivered byte stays delivered.                                       *)
LEMMA DeliverStep == TypeOK /\ Shape /\ OwnHeld /\ SetDelivers /\ [Next]_vars => SetDelivers'
<1> SUFFICES ASSUME TypeOK, Shape, OwnHeld, SetDelivers, [Next]_vars, op' = "set", alive',
                    NEW k \in 0..(count' - 1), at' = "done" \/ k < off',
                    (addr' + Floor(k, WordSize))..(addr' + k) \subseteq mapped'
             PROVE  \/ mem'[addr' + k] = BufByte(k)
                    \/ /\ mem'[addr' + k] = orig'[addr' + k]
                       /\ held'[addr' + k] # {orig'[addr' + k]}
  BY DEF SetDelivers, Floor
<1>a. off \in Nat /\ count \in Nat /\ addr \in Nat /\ addr + off \in Nat
  BY DEF TypeOK, Addr
<1>b0. k \in Nat
  OBVIOUS
<1>b1. addr' = addr /\ count' = count /\ mapped' = mapped
  BY DEF Next, SetBlock, SetTail, SetReturn, GetWord, GetReturn, PathChunk,
         PathOutOfMemory, Kill, ThreadWrite, Terminated, args, vars
<1>b. k \in Nat /\ addr' = addr /\ count' = count /\ mapped' = mapped
  BY <1>b0, <1>b1
<1>c. addr + k \in Addr
  <2>1. Floor(k, WordSize) \in Nat /\ Floor(k, WordSize) <= k
    BY <1>b, Division DEF Floor
  <2>2. addr + k \in (addr + Floor(k, WordSize))..(addr + k)
    BY <1>a, <1>b, <2>1
  <2> QED BY <1>b, <2>2 DEF TypeOK
<1>1. CASE SetBlock \/ SetTail
  <2> DEFINE w == IF SetBlock THEN [m \in InWord |-> BufByte(off + m)] ELSE TailWord
             y == addr + k
  <2>1. op = "set" /\ alive /\ orig' = orig /\ held' = held
    BY <1>1 DEF SetBlock, SetTail, args
  <2>a. SetBlock => k < off' /\ off' = off + WordSize
    BY DEF SetBlock
  <2>2. k < count /\ y \in Addr /\ k < off + WordSize
    <3>1. k < count
      BY <1>a, <1>b
    <3>2. SetBlock => k < off + WordSize
      BY <2>a DEF SetBlock
    <3>3. SetTail => k < off + WordSize
      BY <1>a, <1>b, <3>1 DEF SetTail
    <3> QED BY <1>1, <1>c, <3>1, <3>2, <3>3
  <2>3. Poke(addr + off, w)
    BY <1>1 DEF SetBlock, SetTail
  <2>4. CASE k < off
    <3>1. mem'[y] = mem[y]
      BY <1>a, <1>b, <2>2, <2>3, <2>4, PokeStores
    <3> QED BY <1>b, <2>1, <2>2, <2>4, <3>1 DEF SetDelivers
  <2>5. CASE off <= k
    <3>a. PICK i \in Nat : off = WordSize * i
      BY <2>1 DEF Shape
    <3>b. Floor(k, WordSize) = off
      BY <1>a, <1>b, <2>2, <2>5, <3>a, FloorOf
    <3>c. (addr + off)..y \subseteq mapped
      BY <1>b, <3>b
    <3>1. mem'[y] = w[y - (addr + off)]
      BY <1>a, <1>b, <2>1, <2>2, <2>3, <2>5, <3>c, PokeStores
    <3>2. y - (addr + off) \in InWord /\ off + (y - (addr + off)) = k
      BY <1>a, <1>b, <2>2, <2>5 DEF InWord
    <3>3. w[y - (addr + off)] = BufByte(k)
      BY <2>2, <3>2 DEF TailWord
    <3> QED BY <1>b, <2>1, <3>1, <3>3
  <2> QED BY <1>a, <1>b, <2>4, <2>5
<1>2. CASE SetReturn
  <2>1. /\ k \in 0..(count - 1) /\ k < off /\ op = "set" /\ alive
        /\ UNCHANGED <<mem, orig, held, addr>>
    BY <1>2, <1>a DEF SetReturn, args
  <2> QED BY <1>b, <2>1 DEF SetDelivers
<1>6. CASE Kill
  BY <1>6 DEF Kill
<1>3. CASE GetWord \/ GetReturn \/ PathChunk \/ PathOutOfMemory
  BY <1>3 DEF GetWord, GetReturn, PathChunk, PathOutOfMemory, args
<1>4. CASE ThreadWrite
  <2>1. PICK a \in Addr, b \in {other} :
          /\ mem' = [mem EXCEPT ![a] = b] /\ orig' = [orig EXCEPT ![a] = b]
          /\ held' = [held EXCEPT ![a] = @ \cup {b}]
    BY <1>4 DEF ThreadWrite
  <2> DEFINE y == addr + k
  <2>2. op = "set" /\ alive /\ at' = at /\ off' = off /\ y \in Addr
    BY <1>4, <1>c DEF ThreadWrite
  <2>3. CASE y # a
    <3>1. mem'[y] = mem[y] /\ orig'[y] = orig[y] /\ held'[y] = held[y]
      BY <2>1, <2>2, <2>3 DEF TypeOK
    <3> QED BY <1>b, <2>2, <3>1 DEF SetDelivers
  <2>4. CASE y = a
    <3>1. mem'[y] = b /\ orig'[y] = b /\ held'[y] = held[y] \cup {b}
      BY <2>1, <2>2, <2>4 DEF TypeOK
    <3>2. b = other
      OBVIOUS
    <3>3. MemByte(y) \in held'[y] /\ MemByte(y) # b
      BY <2>2, <3>1, <3>2 DEF OwnHeld, MemByte, other
    <3> QED BY <1>b, <2>2, <3>1, <3>3
  <2> QED BY <2>3, <2>4
<1>5. CASE UNCHANGED vars
  BY <1>b, <1>5 DEF vars, SetDelivers
<1> QED BY <1>1, <1>2, <1>3, <1>4, <1>5, <1>6 DEF Next, Terminated

-----------------------------------------------------------------------------
(* get_mem and get_path: a word is stored within the buffer.               *)
LEMMA BufferStep == TypeOK /\ Shape /\ WithinBuffer /\ [Next]_vars => WithinBuffer'
<1> SUFFICES ASSUME TypeOK, Shape, WithinBuffer, [Next]_vars PROVE WithinBuffer'
  OBVIOUS
<1>a. off \in Nat /\ count \in Nat /\ len \in Nat
  BY DEF TypeOK
<1>1. CASE GetWord
  <2>1. PICK i \in Nat : off = WordSize * i
    BY <1>1 DEF GetWord, Shape
  <2> DEFINE q == count \div WordSize
  <2>2. q \in Nat /\ q + 1 \in Nat /\ count < WordSize * q + WordSize
    BY <1>a, Division
  <2>3. len = WordSize * (q + 1) /\ off <= count
    BY <1>1 DEF GetWord, Shape
  <2> HIDE DEF q
  <2>4. WordSize * (q + 1) = WordSize * q + WordSize
    BY <2>2
  <2>5. off + WordSize <= len
    BY <1>a, <2>1, <2>2, <2>3, <2>4, NextMultiple
  <2> QED BY <1>1, <1>a, <2>5 DEF GetWord, Store, WithinBuffer, Offsets
<1>2. CASE PathChunk
  <2>1. PICK i, j \in Nat : off = ChunkSize * i /\ len = ChunkSize * j
    BY <1>2 DEF PathChunk, Shape
  <2>2. \E l \in Nat : len' = ChunkSize * l
    <3>1. 2 * len = ChunkSize * (2 * j) /\ 2 * j \in Nat
      BY <2>1
    <3> QED BY <1>2, <2>1, <3>1 DEF PathChunk, PathLen
  <2>3. PICK l \in Nat : len' = ChunkSize * l
    BY <2>2
  <2>4. off < len' /\ len <= len' /\ len' \in Nat
    BY <1>2, <1>a DEF PathChunk, PathLen, Shape
  <2>5. off + ChunkSize <= len'
    BY <2>1, <2>3, <2>4, NextMultiple
  <2>6. ASSUME NEW k \in Offsets, copy'[k] # none PROVE k < len'
    <3>1. CASE k >= off /\ k < off + ChunkSize
      BY <1>a, <2>4, <2>5, <3>1 DEF Offsets
    <3>2. CASE ~(k >= off /\ k < off + ChunkSize)
      <4>1. copy[k] # none
        BY <1>2, <2>6, <3>2 DEF PathChunk, Store
      <4>2. k < len
        BY <4>1 DEF WithinBuffer
      <4> QED BY <1>a, <2>4, <4>2 DEF Offsets
    <3> QED BY <3>1, <3>2
  <2> QED BY <2>6 DEF WithinBuffer
<1>3. CASE SetBlock \/ SetTail \/ SetReturn \/ GetReturn \/ PathOutOfMemory \/ Kill \/ ThreadWrite
  BY <1>3 DEF SetBlock, SetTail, SetReturn, GetReturn, PathOutOfMemory, Kill,
              ThreadWrite, WithinBuffer
<1>4. CASE UNCHANGED vars
  BY <1>4 DEF vars, WithinBuffer
<1> QED BY <1>1, <1>2, <1>3, <1>4 DEF Next, Terminated

(* What is in memory has been held there.                                  *)
MemHeld == op # "set" => \A a \in Addr : mem[a] \in held[a]

(* Memory holds bytes the program has had.                                 *)
LEMMA HeldStep ==
  TypeOK /\ MemHeld /\ [Next]_vars =>
    /\ MemHeld' /\ op' = op /\ addr' = addr /\ count' = count /\ mapped' = mapped
    /\ \A a \in Addr : held[a] \subseteq held'[a]
<1> SUFFICES ASSUME TypeOK, MemHeld, [Next]_vars
             PROVE /\ MemHeld' /\ op' = op /\ addr' = addr /\ count' = count
                   /\ mapped' = mapped /\ \A a \in Addr : held[a] \subseteq held'[a]
  OBVIOUS
<1>1. CASE ThreadWrite
  BY <1>1 DEF ThreadWrite, MemHeld, TypeOK
<1>2. CASE ~ThreadWrite
  <2>1. /\ op' = op /\ addr' = addr /\ count' = count /\ mapped' = mapped /\ held' = held
        /\ mem' = mem \/ op = "set"
    BY <1>2 DEF Next, SetBlock, SetTail, SetReturn, GetWord, GetReturn, PathChunk,
                PathOutOfMemory, Kill, Terminated, args, vars
  <2> QED BY <2>1 DEF MemHeld
<1> QED BY <1>1, <1>2

(* get_mem so far.                                                         *)
GetSoFar ==
  op = "get" /\ alive =>
    \A k \in 0..(count - 1) :
      k < off /\ Readable(addr + Floor(k, WordSize)) => copy[k] \in held[addr + k]

(* What get_mem has copied so far are bytes the program has had.           *)
LEMMA GetStep ==
  TypeOK /\ Shape /\ MemHeld /\ GetSoFar /\ [Next]_vars => GetSoFar'
<1> SUFFICES ASSUME TypeOK, Shape, MemHeld, GetSoFar, [Next]_vars, op' = "get", alive',
                    NEW k \in 0..(count' - 1), k < off',
                    Readable(addr + Floor(k, WordSize))'
             PROVE  copy'[k] \in held'[addr' + k]
  BY DEF GetSoFar, Floor
<1>1. /\ op = "get" /\ addr' = addr /\ count' = count /\ mapped' = mapped
      /\ \A a \in Addr : held[a] \subseteq held'[a]
  BY HeldStep
<1>2. off \in Nat /\ count \in Nat /\ addr \in Nat /\ k \in Nat /\ mapped \subseteq Addr
  BY <1>1 DEF TypeOK, Addr
<1> DEFINE f == Floor(k, WordSize)
<1>3. f \in Nat /\ f <= k /\ k < f + WordSize
  BY <1>2, Division DEF Floor
<1> HIDE DEF f
<1>4. addr + k \in Addr /\ k \in Offsets /\ Readable(addr + f)
  <2>1. Readable(addr + f)
    BY <1>1 DEF Readable, Floor, f
  <2>2. addr + k \in (addr + f)..(addr + f + WordSize - 1)
    BY <1>2, <1>3
  <2>3. k \in Offsets
    BY <1>1, <1>2 DEF Offsets, TypeOK
  <2> QED BY <1>2, <2>1, <2>2, <2>3 DEF Readable
<1>5. CASE GetWord
  <2>1. alive /\ held' = held
    BY <1>5 DEF GetWord, args
  <2>2. CASE k < off
    <3>1. copy'[k] = copy[k]
      BY <1>2, <1>4, <1>5, <2>2 DEF GetWord, Store
    <3> QED BY <1>1, <1>4, <2>1, <2>2, <3>1 DEF GetSoFar, f
  <2>3. CASE k >= off
    <3>1. PICK i \in Nat : off = WordSize * i
      BY <1>1 DEF Shape
    <3>2. k < off + WordSize
      BY <1>5 DEF GetWord
    <3>3. f = off
      BY <1>2, <2>3, <3>1, <3>2, FloorOf DEF f
    <3>4. k - off \in InWord /\ addr + off + (k - off) = addr + k
      BY <1>2, <2>3, <3>2 DEF InWord
    <3>5. copy'[k] = Peek(addr + off)[k - off]
      BY <1>2, <1>4, <1>5, <2>3, <3>2 DEF GetWord, Store
    <3>6. Reachable(addr + off)
      BY <1>4, <2>1, <3>3 DEF Reachable
    <3>7. copy'[k] = mem[addr + k]
      BY <3>4, <3>5, <3>6 DEF Peek
    <3> QED BY <1>1, <1>4, <2>1, <3>7 DEF MemHeld
  <2> QED BY <1>2, <2>2, <2>3
<1>6. CASE ~GetWord
  <2>1. copy' = copy /\ off' = off /\ alive
    BY <1>1, <1>6 DEF Next, SetBlock, SetTail, SetReturn, GetReturn, PathChunk,
                PathOutOfMemory, Kill, ThreadWrite, Terminated, args, vars
  <2>2. copy[k] \in held[addr + k]
    BY <1>1, <1>4, <2>1 DEF GetSoFar, f
  <2> QED BY <1>1, <1>4, <2>1, <2>2
<1> QED BY <1>5, <1>6

(* A set of numbers that is not empty has a smallest one.                  *)
LEMMA Smallest ==
  ASSUME NEW T, T \subseteq Nat, T # {}
  PROVE  \E m \in T : \A y \in T : m <= y
<1>1. PICK m \in T : \A y \in T : ~(<<y, m>> \in OpToRel(<, Nat))
  BY NatLessThanWellFounded, WFMin
<1>2. ASSUME NEW y \in T PROVE m <= y
  <2>1. ~(y < m)
    BY <1>1 DEF OpToRel
  <2> QED BY <2>1
<1> QED BY <1>2

(* get_path so far: while the tracee lives, no byte read was NUL and each  *)
(* was held in its place, or is 0xff where the word could not be read.     *)
PathSoFar ==
  op = "path" /\ at = "run" /\ alive =>
    \A k \in 0..(off - 1) : FromMemory(k) /\ copy[k] # zero

(* One chunk, of a word that can be read or not.                           *)
LEMMA ChunkRead ==
  ASSUME TypeOK, Shape, MemHeld, PathSoFar, PathChunk, alive,
         NEW k \in 0..(off + ChunkSize - 1)
  PROVE  /\ k \in Offsets /\ FromMemory(k)'
         /\ k < off => copy'[k] # zero
         /\ k >= off => copy'[k] = Peek(addr + off)[k - off]
<1>1. /\ op = "path" /\ at = "run" /\ held' = held /\ addr' = addr /\ mapped' = mapped
      /\ Store(Peek(addr + off), ChunkSize) /\ PathLen <= MemLimit
  BY DEF PathChunk, args
<1>2. off \in Nat /\ addr \in Nat /\ mapped \subseteq Addr /\ len \in Nat /\ k \in Nat
  BY DEF TypeOK, Addr
<1>3. off <= MemLimit
  BY <1>1, <1>2 DEF PathLen, Shape
<1>4. k \in Offsets
  BY <1>2, <1>3 DEF Offsets
<1>5. Readable(addr + Floor(k, ChunkSize))' <=> Readable(addr + Floor(k, ChunkSize))
  BY <1>1 DEF Readable, Floor
<1>6. CASE k < off
  <2>1. copy'[k] = copy[k]
    BY <1>1, <1>2, <1>4, <1>6 DEF Store
  <2>2. FromMemory(k) /\ copy[k] # zero
    BY <1>1, <1>2, <1>6 DEF PathSoFar
  <2>3. FromMemory(k)'
    BY <1>1, <1>5, <2>1, <2>2 DEF FromMemory
  <2> QED BY <1>2, <1>4, <1>6, <2>1, <2>2, <2>3
<1>7. CASE k >= off
  <2>1. copy'[k] = Peek(addr + off)[k - off]
    BY <1>1, <1>2, <1>4, <1>7 DEF Store
  <2>2. k - off \in InWord /\ addr + off + (k - off) = addr + k
    BY <1>2, <1>7 DEF InWord
  <2>3. PICK i \in Nat : off = ChunkSize * i
    BY <1>1 DEF Shape
  <2>4. Floor(k, ChunkSize) = off
    <3>1. ChunkSize \in Nat \ {0} /\ k < off + ChunkSize
      BY <1>2
    <3> QED BY <1>2, <1>7, <2>3, <3>1, FloorOf
  <2>5. CASE Readable(addr + off)
    <3>1. addr + k \in (addr + off)..(addr + off + WordSize - 1)
      BY <1>2, <1>7
    <3>2. addr + k \in Addr
      BY <1>2, <2>5, <3>1 DEF Readable
    <3>3. copy'[k] = mem[addr + k]
      BY <2>1, <2>2, <2>5 DEF Peek, Reachable
    <3>4. copy'[k] \in held'[addr' + k]
      BY <1>1, <3>2, <3>3 DEF MemHeld
    <3> QED BY <1>4, <1>5, <1>7, <1>2, <2>1, <2>4, <2>5, <3>4 DEF FromMemory
  <2>6. CASE ~Readable(addr + off)
    <3>1. copy'[k] = ones
      BY <2>1, <2>2, <2>6 DEF Peek, Reachable
    <3> QED BY <1>4, <1>5, <1>7, <1>2, <2>1, <2>4, <2>6, <3>1 DEF FromMemory
  <2> QED BY <2>5, <2>6
<1> QED BY <1>2, <1>6, <1>7

(* A byte that has been copied stays justified while copy does not change. *)
LEMMA StillFromMemory ==
  ASSUME TypeOK, NEW k \in Nat, FromMemory(k), copy' = copy, addr' = addr, mapped' = mapped,
         \A a \in Addr : held[a] \subseteq held'[a]
  PROVE  FromMemory(k)'
<1> DEFINE f == Floor(k, ChunkSize)
<1>1. f \in Nat /\ f <= k /\ k < f + ChunkSize /\ addr \in Nat
  <2>1. ChunkSize \in Nat \ {0} /\ addr \in Nat
    BY DEF TypeOK, Addr
  <2> QED BY <2>1, Division DEF Floor
<1>2. Readable(addr + f)' <=> Readable(addr + f)
  BY DEF Readable, Floor
<1> HIDE DEF f
<1>3. Readable(addr + f) => addr + k \in Addr
  <2>1. addr + k \in (addr + f)..(addr + f + WordSize - 1)
    BY <1>1
  <2> QED BY <2>1 DEF Readable, TypeOK
<1> QED BY <1>2, <1>3 DEF FromMemory, f

(* What get_path has read so far holds no NUL and was there.               *)
LEMMA PathGoesOn ==
  TypeOK /\ Shape /\ MemHeld /\ PathSoFar /\ [Next]_vars => PathSoFar'
<1> SUFFICES ASSUME TypeOK, Shape, MemHeld, PathSoFar, [Next]_vars,
                    op' = "path", at' = "run", alive', NEW k \in 0..(off' - 1)
             PROVE  FromMemory(k)' /\ copy'[k] # zero
  BY DEF PathSoFar
<1>1. /\ op = "path" /\ addr' = addr /\ mapped' = mapped
      /\ \A a \in Addr : held[a] \subseteq held'[a]
  BY HeldStep
<1>2. off \in Nat /\ addr \in Nat /\ mapped \subseteq Addr
  BY DEF TypeOK, Addr
<1>3. CASE PathChunk
  <2>1. /\ off' = off + ChunkSize /\ alive
        /\ \A m \in 0..(ChunkSize - 1) : Peek(addr + off)[m] # zero
    BY <1>3 DEF PathChunk
  <2>3. k \in 0..(off + ChunkSize - 1)
    BY <1>2, <2>1
  <2>4. CASE k < off
    BY <1>3, <2>1, <2>3, <2>4, ChunkRead
  <2>5. CASE k >= off
    <3>1. k - off \in 0..(ChunkSize - 1)
      BY <1>2, <2>3, <2>5
    <3> QED BY <1>3, <2>1, <2>3, <2>5, <3>1, ChunkRead
  <2> QED BY <1>2, <2>3, <2>4, <2>5
<1>4. CASE ~PathChunk
  <2>1. copy' = copy /\ off' = off /\ alive /\ at = "run"
    BY <1>1, <1>4 DEF Next, SetBlock, SetTail, SetReturn, GetWord, GetReturn,
                      PathOutOfMemory, Kill, ThreadWrite, Terminated, args, vars
  <2>2. FromMemory(k) /\ copy[k] # zero
    BY <1>1, <2>1 DEF PathSoFar
  <2>3. k \in Nat
    BY <1>2, <2>1
  <2>4. FromMemory(k)'
    BY <1>1, <1>2, <2>1, <2>2, <2>3, StillFromMemory
  <2> QED BY <2>1, <2>2, <2>4
<1> QED BY <1>3, <1>4

(* The chunk that ends the string holds its first NUL.                     *)
LEMMA PathArrives ==
  TypeOK /\ Shape /\ MemHeld /\ PathSoFar /\ PathDelivers /\ [Next]_vars => PathDelivers'
<1> SUFFICES ASSUME TypeOK, Shape, MemHeld, PathSoFar, PathDelivers, [Next]_vars,
                    op' = "path", at' = "done"
             PROVE  PathDelivers'
  BY DEF PathDelivers
<1>1. op = "path" /\ addr' = addr /\ mapped' = mapped
  BY HeldStep
<1>2. off \in Nat /\ addr \in Nat /\ addr + off \in Nat /\ mapped \subseteq Addr
  BY DEF TypeOK, Addr
<1>3. CASE PathChunk
  <2> DEFINE T == {m \in 0..(ChunkSize - 1) : Peek(addr + off)[m] = zero}
  <2>1. T # {} /\ T \subseteq Nat
    BY <1>3 DEF PathChunk
  <2>2. PICK m \in T : \A y \in T : m <= y
    BY <2>1, Smallest
  <2>3. m \in 0..(ChunkSize - 1) /\ m \in InWord /\ Peek(addr + off)[m] = zero
    BY DEF InWord
  <2>4. Reachable(addr + off)
    BY <2>3 DEF Peek, ones, zero
  <2> DEFINE n == off + m
  <2>5. n \in 0..(off + ChunkSize - 1) /\ n - off = m /\ n >= off
    BY <1>2, <2>3
  <2>a. alive
    BY <2>4 DEF Reachable
  <2>b. addr + n \in Addr
    <3>1. addr + n \in (addr + off)..(addr + off + WordSize - 1)
      BY <1>2, <2>3
    <3> QED BY <1>2, <2>4, <3>1 DEF Reachable, Readable
  <2>6. n \in Offsets /\ copy'[n] = zero
    BY <1>3, <2>3, <2>a, <2>5, ChunkRead
  <2>7. ASSUME NEW k \in 0..n
        PROVE  FromMemory(k)' /\ (copy'[k] = zero => k = n)
    <3>1. k \in 0..(off + ChunkSize - 1)
      BY <1>2, <2>3
    <3>2. FromMemory(k)' /\ (k < off => copy'[k] # zero)
      BY <1>3, <2>a, <3>1, ChunkRead
    <3>3. CASE k >= off /\ copy'[k] = zero
      <4>1. k - off \in 0..(ChunkSize - 1)
        BY <1>2, <3>1, <3>3
      <4>2. k - off \in T
        BY <1>3, <2>a, <3>1, <3>3, <4>1, ChunkRead
      <4>3. m <= k - off
        BY <2>2, <4>2
      <4> QED BY <1>2, <2>3, <3>2, <4>1, <4>3
    <3> QED BY <1>2, <3>2, <3>3
  <2> HIDE DEF n
  <2>8. addr' + n \in Addr
    BY <1>1, <2>b
  <2> QED BY <2>6, <2>7, <2>8 DEF PathDelivers
<1>4. CASE ~PathChunk
  <2>1. copy' = copy /\ held' = held /\ at = "done"
    BY <1>1, <1>4 DEF Next, SetBlock, SetTail, SetReturn, GetWord, GetReturn,
                      PathOutOfMemory, Kill, ThreadWrite, Terminated, args, vars
  <2> QED BY <1>1, <2>1 DEF PathDelivers, FromMemory, Readable, Floor
<1> QED BY <1>3, <1>4

(* While the tracee lives, no NUL that was in its place all the time has   *)
(* been passed over, except in a word that is not mapped as a whole; and   *)
(* get_path has given up only beyond half the largest buffer.              *)
PathMissed ==
  op = "path" /\ alive =>
    /\ at # "done" =>
         \A a \in Addr : a >= addr /\ a - addr < off /\ held[a] = {zero}
           => ~Readable(addr + Floor(a - addr, ChunkSize))
    /\ at = "crash" => 2 * off > MemLimit

(* A chunk without a NUL that is read from mapped memory holds none.       *)
LEMMA ChunkMissed ==
  ASSUME TypeOK, Shape, MemHeld, PathChunk, alive, off' = off + ChunkSize,
         \A m \in 0..(ChunkSize - 1) : Peek(addr + off)[m] # zero,
         NEW a \in Addr, a - addr >= off, a - addr < off + ChunkSize, held[a] = {zero}
  PROVE  ~Readable(addr + Floor(a - addr, ChunkSize))
<1> DEFINE k == a - addr
<1>1. off \in Nat /\ addr \in Nat /\ a \in Nat /\ k \in Nat
      /\ op = "path"
  BY DEF TypeOK, Addr, PathChunk
<1>2. PICK i \in Nat : off = ChunkSize * i
  BY <1>1 DEF Shape
<1>3. Floor(k, ChunkSize) = off
  <2>1. ChunkSize \in Nat \ {0} /\ ChunkSize * i <= k /\ k < ChunkSize * i + ChunkSize
    BY <1>1, <1>2
  <2> HIDE DEF k
  <2> QED BY <1>1, <1>2, <2>1, FloorOf
<1>4. k - off \in 0..(ChunkSize - 1) /\ k - off \in InWord /\ addr + off + (k - off) = a
  BY <1>1 DEF InWord
<1>5. ~Reachable(addr + off)
  <2>1. SUFFICES ASSUME Reachable(addr + off) PROVE FALSE
    OBVIOUS
  <2>2. Peek(addr + off)[k - off] = mem[a]
    BY <1>4, <2>1 DEF Peek
  <2>3. mem[a] = zero
    BY <1>1 DEF MemHeld
  <2> QED BY <1>4, <2>2, <2>3
<1> QED BY <1>1, <1>3, <1>5 DEF Reachable

(* get_path passes over no NUL.                                            *)
LEMMA MissedStep ==
  TypeOK /\ Shape /\ MemHeld /\ PathMissed /\ [Next]_vars => PathMissed'
<1> SUFFICES ASSUME TypeOK, Shape, MemHeld, PathMissed, [Next]_vars, op' = "path", alive'
             PROVE  PathMissed'
  BY DEF PathMissed
<1>1. op = "path" /\ addr' = addr /\ mapped' = mapped
      /\ \A a \in Addr : held[a] \subseteq held'[a] /\ mem[a] \in held[a]
  BY HeldStep DEF MemHeld
<1>2. off \in Nat /\ addr \in Nat /\ len \in Nat
  BY DEF TypeOK, Addr
<1>3. alive /\ (at' # "done" => at # "done")
  BY <1>1 DEF Next, SetBlock, SetTail, SetReturn, GetWord, GetReturn, PathChunk,
          PathOutOfMemory, Kill, ThreadWrite, Terminated, args, vars
<1>4. at' = "crash" => 2 * off' > MemLimit
  <2>1. CASE PathOutOfMemory
    BY <1>2, <2>1 DEF PathOutOfMemory, PathLen, Shape
  <2>2. CASE ~PathOutOfMemory
    <3>1. at' = "crash" => at = "crash" /\ off' = off
      BY <1>1, <2>2 DEF Next, SetBlock, SetTail, SetReturn, GetWord, GetReturn, PathChunk,
          Kill, ThreadWrite, Terminated, args, vars
    <3> QED BY <1>1, <1>3, <3>1 DEF PathMissed
  <2> QED BY <2>1, <2>2
<1>5. ASSUME at' # "done", NEW a \in Addr, a >= addr, a - addr < off', held'[a] = {zero}
      PROVE  ~Readable(addr + Floor(a - addr, ChunkSize))
  <2>1. held[a] = {zero}
    BY <1>1, <1>5
  <2>2. CASE a - addr < off
    BY <1>1, <1>3, <1>5, <2>1, <2>2 DEF PathMissed
  <2>3. CASE ~(a - addr < off)
    <3>1. PathChunk
      BY <1>1, <1>5, <2>3 DEF Next, SetBlock, SetTail, SetReturn, GetWord, GetReturn,
          PathOutOfMemory, Kill, ThreadWrite, Terminated, args, vars
    <3>2. /\ off' = off + ChunkSize
          /\ \A m \in 0..(ChunkSize - 1) : Peek(addr + off)[m] # zero
      BY <1>5, <3>1 DEF PathChunk
    <3>3. a - addr >= off
      BY <1>2, <2>3 DEF Addr
    <3> QED BY <1>3, <1>5, <2>1, <3>1, <3>2, <3>3, ChunkMissed
  <2> QED BY <2>2, <2>3
<1> QED BY <1>1, <1>4, <1>5 DEF PathMissed, Floor, Readable

-----------------------------------------------------------------------------
Inv == /\ TypeOK /\ Shape /\ DamageBounded /\ OwnHeld /\ SetDelivers
       /\ WithinBuffer /\ MemHeld /\ GetSoFar /\ PathSoFar /\ PathDelivers
       /\ PathMissed

(* The invariant holds initially.                                          *)
LEMMA InitInv == Init => Inv
<1> SUFFICES ASSUME Init PROVE Inv
  OBVIOUS
<1>1. TypeOK /\ Shape
  BY TypeInit, ShapeInit
<1>2. DamageBounded /\ WithinBuffer
  BY DEF Init, DamageBounded, WithinBuffer
<1>3. MemHeld
  BY DEF Init, MemHeld
<1>4. OwnHeld
  BY DEF Init, OwnHeld, Memory
<1>5. off = 0 /\ at = "run"
  BY DEF Init
<1>6. SetDelivers /\ GetSoFar /\ PathSoFar /\ PathDelivers
  BY <1>5 DEF SetDelivers, GetSoFar, PathSoFar, PathDelivers
<1>7. PathMissed
  BY <1>1, <1>5 DEF PathMissed, TypeOK, Addr
<1> QED BY <1>1, <1>2, <1>3, <1>4, <1>6, <1>7 DEF Inv

(* Every step keeps it.                                                    *)
LEMMA NextInv == Inv /\ [Next]_vars => Inv'
BY TypeStep, ShapeStep, DamageStep, OwnStep, DeliverStep, BufferStep, HeldStep, GetStep,
   PathGoesOn, PathArrives, MissedStep DEF Inv

(* So it is an invariant.                                                  *)
LEMMA Invariance == Spec => []Inv
BY InitInv, NextInv, PTL DEF Spec

(* Every variable keeps its type; in particular no byte is taken from      *)
(* beyond the buffer that set_mem is given.                                *)
THEOREM TypeCorrect == Spec => []TypeOK
<1>1. Inv => TypeOK
  BY DEF Inv
<1> QED BY <1>1, Invariance, PTL

(* set_mem stores every byte of the buffer in its place, for every word    *)
(* size, address and count.                                                *)
THEOREM SetMemDelivers == Spec => []SetDelivers
<1>1. Inv => SetDelivers
  BY DEF Inv
<1> QED BY <1>1, Invariance, PTL

(* The bytes set_mem spoils are fewer than a word, right behind the        *)
(* buffer.                                                                 *)
THEOREM SetMemDamage == Spec => []DamageBounded
<1>1. Inv => DamageBounded
  BY DEF Inv
<1> QED BY <1>1, Invariance, PTL

(* get_mem and get_path never store outside their buffers, for every word  *)
(* and chunk size of which the path buffer is a multiple.                  *)
THEOREM BufferRespected == Spec => []WithinBuffer
<1>1. Inv => WithinBuffer
  BY DEF Inv
<1> QED BY <1>1, Invariance, PTL

(* get_mem returns bytes the program has had in each place.                *)
THEOREM GetMemDelivers == Spec => []GetDelivers
<1>1. Inv => GetDelivers
  <2> SUFFICES ASSUME Inv, op = "get", at = "done", alive, NEW k \in 0..(count - 1),
                      Readable(addr + Floor(k, WordSize))
               PROVE  copy[k] \in held[addr + k]
    BY DEF GetDelivers
  <2>1. k < off
    BY DEF Inv, Shape, TypeOK
  <2> QED BY <2>1 DEF Inv, GetSoFar
<1> QED BY <1>1, Invariance, PTL

(* get_path returns what the program has had in memory up to the first     *)
(* NUL, with 0xff in the place of each word that could not be read,        *)
(* whatever is mapped and whatever other threads store meanwhile.          *)
THEOREM GetPathDelivers == Spec => []PathDelivers
<1>1. Inv => PathDelivers
  BY DEF Inv
<1> QED BY <1>1, Invariance, PTL

(* A living tracee's string that ends within half the largest buffer is    *)
(* read to its end: get_path gives up only where no NUL stayed in place in *)
(* mapped memory, whatever holes lie before it.                            *)
THEOREM GetPathEnds == Spec => []PathEnds
<1>1. Inv => PathEnds
  <2> SUFFICES ASSUME Inv, at = "crash", alive, NEW a \in Addr, a >= addr,
                      2 * (a - addr) <= MemLimit, held[a] = {zero}
               PROVE  ~Readable(addr + Floor(a - addr, ChunkSize))
    BY DEF PathEnds
  <2>1. op = "path"
    BY DEF Inv, Shape
  <2>2. a - addr < off
    <3>1. 2 * off > MemLimit
      BY <2>1 DEF Inv, PathMissed
    <3>2. off \in Nat /\ addr \in Nat /\ a \in Nat
      BY DEF Inv, TypeOK, Addr
    <3> QED BY <3>1, <3>2
  <2> QED BY <2>1, <2>2 DEF Inv, PathMissed
<1> QED BY <1>1, Invariance, PTL
-----------------------------------------------------------------------------
(* How far set_mem reaches: to the end of the word that holds the last     *)
(* byte of the buffer, and no further.                                     *)
DamageInWords ==
  op = "set" => \A a \in Addr : mem[a] # orig[a]
                   => addr <= a /\ a < addr + Floor(count + WordSize - 1, WordSize)

(* Rounding up to whole words.                                             *)
LEMMA RoundUp ==
  ASSUME NEW c \in Nat
  PROVE  /\ Floor(c + WordSize - 1, WordSize) \in Nat
         /\ c <= Floor(c + WordSize - 1, WordSize)
<1> DEFINE k == c + WordSize - 1
           q == k \div WordSize
<1>1. k \in Nat
  OBVIOUS
<1>2. q \in Nat /\ WordSize * q <= k /\ k < WordSize * q + WordSize
  <2> HIDE DEF k
  <2> QED BY <1>1, Division
<1>3. WordSize * q \in Nat
  BY <1>2
<1> HIDE DEF q
<1>4. c <= WordSize * q
  BY <1>2, <1>3
<1> QED BY <1>3, <1>4 DEF Floor, q

(* Every POKEDATA stays within the words that hold the buffer.             *)
LEMMA WordsStep == TypeOK /\ Shape /\ DamageInWords /\ [Next]_vars => DamageInWords'
<1> SUFFICES ASSUME TypeOK, Shape, DamageInWords, [Next]_vars PROVE DamageInWords'
  OBVIOUS
<1> DEFINE r == Floor(count + WordSize - 1, WordSize)
<1>a. off \in Nat /\ count \in Nat /\ addr \in Nat /\ addr + off \in Nat
  BY DEF TypeOK, Addr
<1>b. r \in Nat /\ count <= r
  BY <1>a, RoundUp
<1>1. CASE SetBlock \/ SetTail
  <2>1. /\ op' = "set" /\ op = "set" /\ orig' = orig /\ addr' = addr /\ count' = count
    BY <1>1, <1>a DEF SetBlock, SetTail, args
  <2>2. off + WordSize <= r
    <3>1. CASE SetBlock
      <4>1. off + WordSize <= count
        BY <3>1 DEF SetBlock
      <4> HIDE DEF r
      <4> QED BY <1>a, <1>b, <4>1
    <3>2. CASE SetTail
      <4>1. PICK i \in Nat : off = WordSize * i
        BY <2>1 DEF Shape
      <4>2. off < count /\ count < off + WordSize
        BY <3>2 DEF SetTail
      <4> DEFINE j == i + 1
                 k == count + WordSize - 1
      <4>3. j \in Nat /\ WordSize * j = off + WordSize /\ k \in Nat
        BY <1>a, <4>1
      <4>4. WordSize * j <= k /\ k < WordSize * j + WordSize
        BY <1>a, <4>2, <4>3
      <4>5. Floor(k, WordSize) = WordSize * j
        <5> HIDE DEF j, k
        <5> QED BY <4>3, <4>4, FloorOf
      <4>6. r = off + WordSize
        BY <4>3, <4>5
      <4> QED BY <1>a, <4>6
    <3> QED BY <1>1, <3>1, <3>2
  <2>3. ASSUME NEW y \in Addr, mem'[y] # orig[y]
        PROVE  addr <= y /\ y < addr + r
    <3>1. CASE y < addr + off \/ y >= addr + off + WordSize
      <4>1. mem'[y] = mem[y]
        BY <1>1, <1>a, <3>1, PokeStores DEF SetBlock, SetTail
      <4> QED BY <2>1, <2>3, <4>1 DEF DamageInWords
    <3>2. CASE ~(y < addr + off \/ y >= addr + off + WordSize)
      <4> HIDE DEF r
      <4> QED BY <1>a, <1>b, <2>2, <3>2 DEF Addr
    <3> QED BY <3>1, <3>2
  <2> QED BY <2>1, <2>3 DEF DamageInWords, Floor
<1>2. CASE SetReturn \/ GetWord \/ GetReturn \/ PathChunk \/ PathOutOfMemory \/ Kill
  BY <1>2 DEF SetReturn, GetWord, GetReturn, PathChunk, PathOutOfMemory, Kill,
              DamageInWords, Floor, args
<1>3. CASE ThreadWrite
  <2>1. PICK a \in Addr, b \in {other, zero} :
          mem' = [mem EXCEPT ![a] = b] /\ orig' = [orig EXCEPT ![a] = b]
    BY <1>3 DEF ThreadWrite
  <2>2. \A y \in Addr : mem'[y] # orig'[y] => mem[y] # orig[y]
    BY <2>1 DEF TypeOK
  <2> QED BY <1>3, <2>2 DEF ThreadWrite, DamageInWords, Floor
<1>4. CASE UNCHANGED vars
  BY <1>4 DEF vars, DamageInWords, Floor
<1> QED BY <1>1, <1>2, <1>3, <1>4 DEF Next, Terminated

(* set_mem reaches to the end of the last word of the buffer at most.      *)
THEOREM DamageStaysInWords == Spec => []DamageInWords
<1>1. Init => DamageInWords
  BY DEF Init, DamageInWords
<1>2. Inv /\ DamageInWords /\ [Next]_vars => DamageInWords'
  BY WordsStep DEF Inv
<1> QED BY <1>1, <1>2, Invariance, PTL DEF Spec

(* So set_mem is exact for every size that is a multiple of the word size. *)
THEOREM ExactOnWords == Spec => [](count % WordSize = 0 => SetMemExact)
<1>1. Inv /\ DamageInWords => (count % WordSize = 0 => SetMemExact)
  <2> SUFFICES ASSUME Inv, DamageInWords, count % WordSize = 0 PROVE SetMemExact
    OBVIOUS
  <2> DEFINE q == count \div WordSize
             k == count + WordSize - 1
  <2>1. count \in Nat /\ k \in Nat
    BY DEF Inv, TypeOK
  <2>2. q \in Nat /\ count = WordSize * q
    BY <2>1, Division
  <2>3. WordSize * q <= k /\ k < WordSize * q + WordSize
    BY <2>1, <2>2
  <2>4. Floor(k, WordSize) = count
    <3>1. Floor(k, WordSize) = WordSize * q
      <4> HIDE DEF k, q
      <4> QED BY <2>1, <2>2, <2>3, FloorOf
    <3> QED BY <2>2, <3>1
  <2> QED BY <2>4 DEF DamageInWords, SetMemExact
<1> QED BY <1>1, Invariance, DamageStaysInWords, PTL

-----------------------------------------------------------------------------
(* The safety half of EveryCallEnds: bytes still to handle at most.        *)
Left == IF at = "run" THEN MemLimit + MaxCount + WordSize + 1 - off ELSE 0

(* set_mem never passes the end of the buffer, so while it runs one of its *)
(* three branches is open; the branches of the others are complementary.   *)
RequestDue ==
  at = "run" /\ op = "set" =>
    off + WordSize <= count \/ (off < count /\ count < off + WordSize) \/ off = count

(* The rest is a natural number, positive until the function ends.         *)
LEMMA LeftType ==
  ASSUME TypeOK, Shape
  PROVE  Left \in Nat /\ (at = "run" => Left > 0)
<1>1. off \in Nat /\ count \in 0..MaxCount /\ op \in {"set", "get", "path"} /\ len \in Nat
  BY DEF TypeOK
<1>2. op = "set" => off <= count
  BY DEF Shape
<1>3. op = "get" => off <= count + WordSize
  BY DEF Shape
<1>4. op = "path" => off <= MemLimit
  BY <1>1 DEF Shape
<1>5. off <= MemLimit + MaxCount + WordSize
  BY <1>1, <1>2, <1>3, <1>4
<1> QED BY <1>1, <1>5 DEF Left

(* Each request of the monitor leaves less to do, and neither the death of *)
(* the tracee nor a store of another thread leaves more: get_path, get_mem *)
(* and set_mem make finitely many requests whatever the tracee does.       *)
THEOREM RequestsRunOut == Spec => [][Left' < Left \/ (Left' = Left /\ (Kill \/ ThreadWrite))]_vars
<1>1. Inv /\ [Next]_vars => [Left' < Left \/ (Left' = Left /\ (Kill \/ ThreadWrite))]_vars
  <2> SUFFICES ASSUME Inv, Next, ~UNCHANGED vars
               PROVE  Left' < Left \/ (Left' = Left /\ (Kill \/ ThreadWrite))
    OBVIOUS
  <2>1. off \in Nat /\ TypeOK /\ Shape
    BY DEF Inv, TypeOK
  <2>2. Left \in Nat /\ (at = "run" => Left > 0)
    BY <2>1, LeftType
  <2>3. CASE SetTail \/ SetReturn \/ GetReturn \/ PathOutOfMemory
    BY <2>2, <2>3 DEF SetTail, SetReturn, GetReturn, PathOutOfMemory, Left
  <2>4. CASE SetBlock \/ GetWord
    <3>1. at = "run" /\ at' = "run" /\ off' = off + WordSize
      BY <2>4 DEF SetBlock, GetWord
    <3> QED BY <2>1, <2>4, <3>1 DEF Left
  <2>5. CASE PathChunk
    <3>1. at = "run" /\ (at' = "done" \/ (at' = at /\ off' = off + ChunkSize))
      BY <2>5 DEF PathChunk
    <3> QED BY <2>1, <2>2, <2>5, <3>1 DEF Left
  <2>6. CASE Kill \/ ThreadWrite
    BY <2>6 DEF Kill, ThreadWrite, Left
  <2> QED BY <2>3, <2>4, <2>5, <2>6 DEF Next, Terminated
<1> QED BY <1>1, Invariance, PTL DEF Spec

(* No function stands still before its end: some request is always due,    *)
(* and what is left is bounded.                                            *)
THEOREM RequestAlwaysDue == Spec => [](Left \in Nat /\ RequestDue)
<1>1. Inv => Left \in Nat /\ RequestDue
  <2> SUFFICES ASSUME Inv PROVE Left \in Nat /\ RequestDue
    OBVIOUS
  <2>1. Left \in Nat
    BY LeftType DEF Inv
  <2>2. off \in Nat /\ count \in Nat /\ len \in Nat /\ op \in {"set", "get", "path"}
    BY DEF Inv, TypeOK
  <2>3. op = "set" => off <= count
    BY DEF Inv, Shape
  <2> QED BY <2>1, <2>2, <2>3 DEF RequestDue
<1> QED BY <1>1, Invariance, PTL
=============================================================================
