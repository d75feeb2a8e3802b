-------------------------- MODULE DescriptorProofs --------------------------
(***************************************************************************)
(* Proofs about module Descriptors, for any sets of objects and numbers    *)
(* and any number of calls and faults.                                     *)
(***************************************************************************)
EXTENDS Descriptors, TLAPS

USE FdAssumption, ObjectAssumption, BoundAssumption
USE DEF None, Std, Stdio, Failed, Errno

(* The numbers the kernel hands out.                                       *)
KernelFds == {Stdio} \cup NativeFds

(* Descriptors are numbers.                                                *)
LEMMA FdsAreNumbers == \A y \in Fds : y \in Nat
BY DEF Fds

-----------------------------------------------------------------------------
(* What the answers of the kernel and of Lind come to when g (natively)    *)
(* and h (in Lind) is the object a new number shall stand for.             *)
KernelGives(n, g) ==
  /\ n.odd = FALSE
  /\ \/ n.ret = Errno /\ n.table = native
     \/ /\ n.ret \in KernelFds /\ native[n.ret] = None
        /\ n.table = [native EXCEPT ![n.ret] = g]

LindGives(a, h) ==
  \/ a.odd = FALSE /\ a.ret = Failed /\ a.table = lind
  \/ a.odd = FALSE /\ a.ret \in LindFds /\ a.table = [lind EXCEPT ![a.ret] = h]
  \/ /\ a.odd = TRUE /\ a.ret = 0
     /\ a.table = lind \/ \E l \in LindFds : a.table = [lind EXCEPT ![l] = h]

(* The same when Lind may be told which number to use.                     *)
LindAnswers(a, h) ==
  \/ a.odd = FALSE /\ a.ret = Failed /\ a.table = lind
  \/ a.odd = FALSE /\ a.ret \in Fds /\ a.table = [lind EXCEPT ![a.ret] = h]
  \/ /\ a.odd = TRUE /\ a.ret = 0
     /\ a.table = lind \/ \E l \in Fds : a.table = [lind EXCEPT ![l] = h]

(* What the kernel gives for an opening call.                              *)
LEMMA NativeOpensGive ==
  ASSUME NEW f, NEW n \in NativeOpens(f) PROVE KernelGives(n, f)
BY DEF NativeOpens, Answer, FreeNative, KernelGives, KernelFds

(* What the kernel gives for dup.                                          *)
LEMMA NativeDupsGive ==
  ASSUME NEW x, NEW n \in NativeDups(x)
  PROVE  KernelGives(n, native[x]) /\ (n.ret # Errno => native[x] # None)
<1>1. CASE native[x] = None
  BY <1>1 DEF NativeDups, Answer, KernelGives, KernelFds
<1>2. CASE native[x] # None
  BY <1>2, NativeOpensGive DEF NativeDups
<1> QED BY <1>1, <1>2

(* A call of Lind succeeds, fails, or answers unreadably.                  *)
LEMMA OrFailsGives ==
  ASSUME NEW h, NEW done \in SUBSET Opened(h), NEW a \in OrFails(done)
  PROVE  LindGives(a, h)
BY DEF OrFails, Opened, Answer, Unreadable, LindGives

(* What Lind gives for an opening call.                                    *)
LEMMA LindOpensGive ==
  ASSUME NEW f, NEW a \in LindOpens(f) PROVE LindGives(a, f)
BY OrFailsGives DEF LindOpens

(* What Lind gives for dup.                                                *)
LEMMA LindDupsGive ==
  ASSUME NEW x, NEW a \in LindDups(x) PROVE LindGives(a, lind[x])
BY OrFailsGives DEF LindDups

(* Answers keep the types of the tables.                                   *)
LEMMA KernelTyped ==
  ASSUME TypeOK, NEW n, NEW g \in Things, KernelGives(n, g)
  PROVE  n.ret \in KernelFds \cup {Errno} /\ n.table \in [Fds -> Things]
<1>1. n.ret \in KernelFds \cup {Errno}
  BY DEF KernelGives
<1>2. CASE n.table = native
  BY <1>1, <1>2 DEF TypeOK
<1>3. CASE n.ret \in KernelFds /\ n.table = [native EXCEPT ![n.ret] = g]
  <2>1. n.ret \in Fds
    BY <1>3 DEF KernelFds, Fds
  <2> QED BY <1>1, <1>3, <2>1 DEF TypeOK
<1> QED BY <1>2, <1>3 DEF KernelGives

(* The parts of an answer of Lind are typed.                               *)
LEMMA AnswerTyped ==
  ASSUME TypeOK, NEW a, NEW h \in Things, LindAnswers(a, h)
  PROVE  /\ a.ret \in Fds \cup {Failed} /\ a.table \in [Fds -> Things]
         /\ a.odd \in BOOLEAN
<1>1. 0 \in Fds
  BY DEF Fds
<1>2. a.ret \in Fds \cup {Failed}
  BY <1>1, Zenon DEF LindAnswers
<1>3. a.table \in [Fds -> Things]
  BY DEF LindAnswers, TypeOK
<1>4. a.odd \in BOOLEAN
  BY Zenon DEF LindAnswers
<1> QED BY <1>2, <1>3, <1>4

(* An answer to an opening call is an answer of Lind.                      *)
LEMMA LindTyped ==
  ASSUME TypeOK, NEW a, NEW h \in Things, LindGives(a, h)
  PROVE  /\ a.ret \in LindFds \cup {0, Failed} /\ LindAnswers(a, h)
         /\ a.odd \in BOOLEAN
<1>1. a.ret \in LindFds \cup {0, Failed}
  BY Zenon DEF LindGives
<1>2. LindFds \subseteq Fds
  BY DEF Fds
<1>3. LindAnswers(a, h)
  BY <1>2 DEF LindGives, LindAnswers
<1> QED BY <1>1, <1>3, AnswerTyped

-----------------------------------------------------------------------------
(* The mapping keeps its type, and is either left alone or extended.       *)
LEMMA MapsKeeps ==
  ASSUME TypeOK, NEW src \in Fds \cup {Errno, Failed}, NEW dest \in Fds \cup {Failed},
         NEW happened \in BOOLEAN, Maps(src, dest, happened)
  PROVE  /\ mapping' \in [Fds -> Fds \cup {Failed}]
         /\ faults' \in 0..MaxFaults
         /\ faults' = 0 => /\ faults = 0 /\ ~happened
                           /\ mapping' = add_mapping(src, dest)
<1>1. PICK raised \in BOOLEAN :
        /\ mapping' = IF raised THEN mapping ELSE add_mapping(src, dest)
        /\ Fault(happened \/ raised)
  BY DEF Maps
<1>3. add_mapping(src, dest) \in [Fds -> Fds \cup {Failed}]
  BY FdsAreNumbers DEF add_mapping, TypeOK
<1> QED BY <1>1, <1>3 DEF Fault, TypeOK

(* A handler that returns a number of Lind's, or the kernel's number when  *)
(* Lind fails, keeps the types and Lind's view.                            *)
LEMMA NumberKeeps ==
  ASSUME TypeOK, ViewIsLind, Call,
         NEW n, NEW a, NEW h \in Things, NEW f \in Things,
         NEW ret, NEW known \in BOOLEAN,
         n.ret \in Fds \cup {Errno}, n.table \in [Fds -> Things],
         LindAnswers(a, h), known => h = f,
         ret = a.ret \/ (a.ret = Failed /\ ret \in {Failed, n.ret}),
         native' = n.table, lind' = a.table,
         Holds(ret, f), Estranges(a, ret, known), NoMmap,
         mapping' \in [Fds -> Fds \cup {Failed}], faults' \in 0..MaxFaults,
         paired' \subseteq Fds
  PROVE  (TypeOK /\ ViewIsLind)'
<1>1. /\ a.ret \in Fds \cup {Failed} /\ a.table \in [Fds -> Things]
      /\ a.odd \in BOOLEAN
  BY AnswerTyped
<1>2. view' = IF ret < 0 THEN view ELSE [view EXCEPT ![ret] = f]
  BY DEF Holds
<1>3. ret \in Fds \cup {Failed, Errno}
  BY <1>1
<1>5. estranged' \subseteq Fds
  <2>1. 0 \in Fds /\ Lost(a) \subseteq Fds /\ estranged \subseteq Fds
    BY DEF Fds, Lost, TypeOK
  <2>2. ret >= 0 => ret \in Fds
    BY <1>3
  <2>3. ret \in Int
    BY <1>3, FdsAreNumbers
  <2>4. CASE a.odd
    BY <2>1, <2>4 DEF Estranges
  <2>5. CASE ~a.odd
    BY <2>1, <2>2, <2>3, <2>5 DEF Estranges
  <2> QED BY <2>4, <2>5
<1>6. TypeOK'
  BY <1>1, <1>2, <1>3, <1>5 DEF TypeOK, Call, NoMmap, NoRegion, Things
<1>7. ViewIsLind'
  <2> SUFFICES ASSUME NEW k \in Fds, k \notin estranged' PROVE view'[k] = lind'[k]
    BY DEF ViewIsLind
  <2>1. CASE a.odd = FALSE /\ a.ret = Failed
    BY <1>1, <1>2, <1>3, <2>1, FdsAreNumbers DEF LindAnswers, Estranges, ViewIsLind, TypeOK
  <2>2. CASE a.odd = FALSE /\ a.ret \in Fds
    BY <1>1, <1>2, <1>3, <2>2, FdsAreNumbers DEF LindAnswers, Estranges, ViewIsLind, TypeOK
  <2>3. CASE a.odd = TRUE
    BY <1>1, <1>2, <1>3, <2>3, FdsAreNumbers DEF LindAnswers, Estranges, Lost, ViewIsLind, TypeOK
  <2> QED BY <2>1, <2>2, <2>3 DEF LindAnswers
<1> QED BY <1>6, <1>7

-----------------------------------------------------------------------------
(* Why mmap finds the right file: as long as nothing has gone wrong, a     *)
(* kernel number the program uses as its own is open in the kernel, so     *)
(* the kernel does not hand it out again; and the kernel's number of a     *)
(* paired descriptor is not in the program's hands, so the program can     *)
(* neither close nor replace it.                                           *)
Unshared == \A k \in KernelFds : view[k] # None => native[k] # None
PairKept(l) ==
  /\ l \in LindFds /\ view[l] # None /\ mapping[l] \in KernelFds
  /\ native[mapping[l]] = view[l] /\ view[mapping[l]] = None
Pairing == Disjoint /\ faults = 0 => Unshared /\ \A l \in paired : PairKept(l)

(* New numbers do not disturb the pairs.                                   *)
LEMMA PairingFrame ==
  ASSUME TypeOK, Pairing, Disjoint, faults = 0,
         NEW n, NEW g \in Things, KernelGives(n, g), n.ret # Errno => g # None,
         native' = n.table,
         NEW v \in Fds, v \in LindFds \/ v = n.ret,
         NEW f \in Things, view' = view \/ view' = [view EXCEPT ![v] = f]
  PROVE  /\ Unshared'
         /\ \A l \in paired : l # v /\ mapping'[l] = mapping[l] => PairKept(l)'
<1>1. /\ Unshared /\ \A l \in paired : PairKept(l)
      /\ \A k \in KernelFds : k \in Fds /\ k \notin LindFds
  BY DEF Pairing, Disjoint, KernelFds, Fds
<1>2. \A k \in KernelFds : native'[k] = native[k] \/ (k = n.ret /\ native[k] = None /\ native'[k] # None)
  BY <1>1 DEF KernelGives, TypeOK
<1>3. \A k \in Fds : view'[k] = view[k] \/ k = v
  BY DEF TypeOK
<1>4. v \in KernelFds => v = n.ret
  BY <1>1
<1>5. n.ret \in KernelFds => native[n.ret] = None /\ native'[n.ret] # None
  <2>1. n.ret \in KernelFds => n.ret # Errno /\ n.ret \in Fds
    BY <1>1, FdsAreNumbers
  <2> QED BY <2>1 DEF KernelGives, TypeOK
<1>6. Unshared'
  BY <1>1, <1>2, <1>3, <1>4, <1>5 DEF Unshared
<1>7. ASSUME NEW l \in paired, l # v, mapping'[l] = mapping[l]
      PROVE  PairKept(l)'
  <2>1. /\ l \in LindFds /\ view[l] # None /\ mapping[l] \in KernelFds
        /\ native[mapping[l]] = view[l] /\ view[mapping[l]] = None
    BY <1>1 DEF PairKept
  <2>2. l \in Fds /\ mapping[l] \in Fds /\ mapping[l] # n.ret
    BY <1>1, <1>5, <2>1 DEF Fds
  <2>3. view'[l] = view[l] /\ native'[mapping[l]] = native[mapping[l]]
    BY <1>2, <1>3, <1>7, <2>1, <2>2
  <2>4. view'[mapping[l]] = view[mapping[l]]
    BY <1>3, <1>4, <2>1, <2>2
  <2> QED BY <1>7, <2>1, <2>3, <2>4 DEF PairKept
<1> QED BY <1>6, <1>7

(* Handlers that return a new number keep the pairs.                       *)
LEMMA NumberPairs ==
  ASSUME TypeOK, Pairing,
         NEW n, NEW a, NEW g \in Things, NEW h \in Things, NEW f \in Things,
         NEW ret,
         KernelGives(n, g), LindGives(a, h), n.ret # Errno => g # None,
         ret = a.ret \/ (a.ret = Failed /\ ret \in {Failed, n.ret}),
         native' = n.table, Holds(ret, f),
         faults' = 0 => /\ faults = 0 /\ a.odd = FALSE
                        /\ mapping' \in {mapping, add_mapping(n.ret, a.ret)},
         \/ /\ Pairs(n, a) /\ g = f /\ f # None
            /\ faults' = 0 => mapping' = add_mapping(n.ret, a.ret)
         \/ paired' = paired \ {a.ret}
  PROVE  Pairing'
<1> SUFFICES ASSUME Disjoint, faults' = 0
             PROVE  Unshared' /\ \A l \in paired' : PairKept(l)'
  BY DEF Pairing, Disjoint
<1>1. /\ n.ret \in KernelFds \cup {Errno}
      /\ a.ret \in LindFds \cup {0, Failed} /\ a.odd \in BOOLEAN
  BY KernelTyped, LindTyped
<1>2. /\ \A k \in KernelFds : k \in Fds /\ k \notin LindFds /\ k \in Nat
      /\ \A k \in LindFds : k \in Fds /\ k \in Nat
      /\ 0 \in KernelFds
  BY FdsAreNumbers DEF Disjoint, KernelFds, Fds
<1>4. /\ faults = 0 /\ a.odd = FALSE
      /\ mapping' \in {mapping, add_mapping(n.ret, a.ret)}
  OBVIOUS
<1>5. Unshared /\ \A l \in paired : PairKept(l)
  BY <1>4 DEF Pairing
<1>6. CASE a.ret = Failed
  <2>1. mapping' = mapping /\ paired' \subseteq paired
    BY <1>1, <1>4, <1>6 DEF add_mapping, Pairs
  <2>2. CASE ret < 0
    <3>1. view' = view
      BY <2>2 DEF Holds
    <3>2. CASE n.ret = Errno
      <4>1. native' = native
        BY <1>2, <3>2 DEF KernelGives
      <4> QED BY <1>5, <2>1, <3>1, <4>1 DEF Unshared, PairKept
    <3>3. CASE n.ret \in KernelFds
      <4>1. n.ret \in Fds
        BY <1>2, <3>3
      <4>2. \A l \in paired : l # n.ret
        BY <1>2, <1>5, <3>3 DEF PairKept
      <4> QED BY <1>4, <2>1, <3>1, <4>1, <4>2, PairingFrame
    <3> QED BY <1>1, <3>2, <3>3
  <2>3. CASE ~(ret < 0)
    <3>1. ret = n.ret /\ n.ret \in KernelFds
      BY <1>1, <1>6, <2>3
    <3>2. view' = [view EXCEPT ![n.ret] = f] /\ n.ret \in Fds
      BY <1>2, <2>3, <3>1 DEF Holds
    <3>3. \A l \in paired : l # n.ret
      BY <1>2, <1>5, <3>1 DEF PairKept
    <3> QED BY <1>4, <2>1, <3>1, <3>2, <3>3, PairingFrame
  <2> QED BY <2>2, <2>3
<1>7. CASE a.ret \in LindFds
  <2>1. view' = [view EXCEPT ![a.ret] = f] /\ a.ret \in Fds /\ a.ret \in Nat
    <3>1. a.ret \in Fds /\ a.ret \in Nat
      BY <1>2, <1>7
    <3>2. ret = a.ret /\ ~(a.ret < 0)
      BY <3>1
    <3> QED BY <3>1, <3>2 DEF Holds
  <2>2. \A l \in paired : l # a.ret => mapping'[l] = mapping[l]
    BY <1>4, <2>1 DEF add_mapping, TypeOK
  <2>3. Unshared' /\ \A l \in paired : l # a.ret => PairKept(l)'
    <3>1. a.ret \in LindFds \/ a.ret = n.ret
      BY <1>7
    <3>2. /\ Unshared'
          /\ \A l \in paired : l # a.ret /\ mapping'[l] = mapping[l] => PairKept(l)'
      BY <1>4, <2>1, <3>1, PairingFrame
    <3> QED BY <2>2, <3>2
  <2>4. CASE paired' \subseteq paired \ {a.ret}
    BY <2>3, <2>4
  <2>5. CASE /\ Pairs(n, a) /\ n.ret >= 0 /\ g = f /\ f # None
             /\ mapping' = add_mapping(n.ret, a.ret)
    <3>1. n.ret \in KernelFds /\ paired' = paired \cup {a.ret}
      BY <1>1, <1>4, <2>1, <2>5 DEF Pairs
    <3>2. mapping'[a.ret] = n.ret
      BY <1>2, <2>1, <2>5, <3>1 DEF add_mapping, TypeOK
    <3>3. native[n.ret] = None /\ native'[n.ret] = f
      <4>1. n.ret \in Fds /\ n.ret # Errno
        BY <1>2, <3>1
      <4>2. native[n.ret] = None /\ n.table = [native EXCEPT ![n.ret] = f]
        BY <2>5, <4>1 DEF KernelGives
      <4> QED BY <4>1, <4>2 DEF TypeOK
    <3>4. view'[a.ret] = f /\ view'[n.ret] = view[n.ret]
      BY <1>2, <1>7, <2>1, <3>1 DEF TypeOK
    <3>5. view[n.ret] = None
      BY <1>5, <3>1, <3>3 DEF Unshared
    <3>6. PairKept(a.ret)'
      BY <1>7, <2>5, <3>1, <3>2, <3>3, <3>4, <3>5 DEF PairKept
    <3> QED BY <2>3, <3>1, <3>6
  <2>6. Pairs(n, a) => n.ret >= 0 \/ paired' = paired \ {a.ret}
    BY <1>4, <2>1 DEF Pairs
  <2> QED BY <2>4, <2>5, <2>6
<1>8. a.ret \in LindFds \cup {Failed}
  BY <1>4 DEF LindGives
<1> QED BY <1>6, <1>7, <1>8

-----------------------------------------------------------------------------
Inv == TypeOK /\ ViewIsLind /\ Pairing /\ MmapRight

(* The mapping half of a grant.                                            *)
LEMMA GrantMaps ==
  ASSUME TypeOK, NEW n, NEW a, NEW g \in Things, NEW h \in Things,
         KernelGives(n, g), LindGives(a, h), Maps(n.ret, a.ret, a.odd \/ FALSE)
  PROVE  /\ mapping' \in [Fds -> Fds \cup {Failed}] /\ faults' \in 0..MaxFaults
         /\ faults' = 0 => /\ faults = 0 /\ a.odd = FALSE
                           /\ mapping' = add_mapping(n.ret, a.ret)
<1>1. /\ n.ret \in KernelFds \cup {Errno}
      /\ a.ret \in LindFds \cup {0, Failed} /\ a.odd \in BOOLEAN
  BY KernelTyped, LindTyped
<1>2. n.ret \in Fds \cup {Errno, Failed} /\ a.ret \in Fds \cup {Failed}
  BY <1>1 DEF Fds, KernelFds
<1> QED BY <1>1, <1>2, MapsKeeps

(* monitor_open, monitor_openat and the like, monitor_dup.                 *)
LEMMA GrantKeeps ==
  ASSUME Inv, Call,
         NEW n, NEW a, NEW g \in Things, NEW h \in Things, NEW f \in Things,
         NEW other, NEW known \in BOOLEAN,
         KernelGives(n, g), LindGives(a, h), n.ret # Errno => g # None,
         known => h = f, other \in {Failed, n.ret},
         Grant(n, a, f, other, known, FALSE),
         \/ Pairs(n, a) /\ g = f /\ f # None
         \/ paired' = paired \ {a.ret}
  PROVE  Inv'
<1> DEFINE ret == IF a.ret >= 0 THEN a.ret ELSE other
<1>1. a.ret \in LindFds \cup {0, Failed} /\ (a.ret \in LindFds => a.ret \in Nat /\ a.ret \in Fds)
  BY LindTyped, FdsAreNumbers DEF Inv, Fds
<1>2. ret = a.ret \/ (a.ret = Failed /\ ret \in {Failed, n.ret})
  BY <1>1
<1>3. /\ native' = n.table /\ lind' = a.table
      /\ Maps(n.ret, a.ret, a.odd \/ FALSE) /\ Holds(ret, f) /\ Estranges(a, ret, known)
      /\ NoMmap
  BY DEF Grant
<1>4. /\ mapping' \in [Fds -> Fds \cup {Failed}] /\ faults' \in 0..MaxFaults
      /\ faults' = 0 => /\ faults = 0 /\ a.odd = FALSE
                        /\ mapping' = add_mapping(n.ret, a.ret)
  BY <1>3, GrantMaps DEF Inv
<1>5. paired' \subseteq Fds
  <2>1. a.ret \in Fds \cup {Failed} /\ (a.ret \in Fds <=> ~(a.ret < 0))
    BY <1>1 DEF Fds
  <2> QED BY <2>1 DEF Pairs, Inv, TypeOK
<1> HIDE DEF ret
<1>6. (TypeOK /\ ViewIsLind)'
  <2>1. n.ret \in Fds \cup {Errno} /\ n.table \in [Fds -> Things] /\ LindAnswers(a, h)
    BY KernelTyped, LindTyped DEF Inv, Fds, KernelFds
  <2> QED BY <1>2, <1>3, <1>4, <1>5, <2>1, NumberKeeps DEF Inv
<1>7. Pairing'
  BY <1>2, <1>3, <1>4, NumberPairs DEF Inv
<1>8. MmapRight'
  BY <1>3 DEF NoMmap, NoRegion, MmapRight
<1> QED BY <1>6, <1>7, <1>8 DEF Inv

(* open and the other opening calls keep the invariant.                    *)
LEMMA OpenKeeps ==
  ASSUME Inv, NEW f \in Objects, Open(f) \/ Create(f) PROVE Inv'
<1>1. PICK n \in NativeOpens(f), a \in LindOpens(f) :
        /\ Call /\ Pairs(n, a)
        /\ \E other \in {Failed, n.ret} : Grant(n, a, f, other, TRUE, FALSE)
  BY DEF Open, Create
<1>2. KernelGives(n, f) /\ LindGives(a, f)
  BY NativeOpensGive, LindOpensGive
<1>3. f \in Things /\ f # None
  BY DEF Things
<1> QED BY <1>1, <1>2, <1>3, GrantKeeps

(* dup keeps it.                                                           *)
LEMMA DupKeeps ==
  ASSUME Inv, NEW x \in Fds, Dup(x) PROVE Inv'
<1>1. PICK n \in NativeDups(x), a \in LindDups(x) :
        /\ Call /\ Grant(n, a, view[x], Failed, x \notin estranged, FALSE)
        /\ paired' = paired \ {a.ret}
  BY DEF Dup
<1>2. /\ KernelGives(n, native[x]) /\ (n.ret # Errno => native[x] # None)
      /\ LindGives(a, lind[x])
  BY NativeDupsGive, LindDupsGive
<1>3. native[x] \in Things /\ lind[x] \in Things /\ view[x] \in Things
  BY DEF Inv, TypeOK
<1>4. (x \notin estranged) \in BOOLEAN /\ (x \notin estranged => lind[x] = view[x])
  BY DEF Inv, ViewIsLind
<1> QED BY <1>1, <1>2, <1>3, <1>4, GrantKeeps

(* monitor_fcntl: no mapping.                                              *)
LEMMA FcntlKeeps ==
  ASSUME Inv, NEW x \in Fds, fcntl(x) PROVE Inv'
<1>1. PICK n \in NativeDups(x), a \in LindDups(x) :
        /\ native' = n.table /\ lind' = a.table
        /\ Holds(a.ret, view[x]) /\ Estranges(a, a.ret, x \notin estranged)
        /\ paired' = paired \ {a.ret} /\ Fault(a.odd)
  BY DEF fcntl
<1>2. /\ KernelGives(n, native[x]) /\ (n.ret # Errno => native[x] # None)
      /\ LindGives(a, lind[x])
  BY NativeDupsGive, LindDupsGive
<1>3. native[x] \in Things /\ lind[x] \in Things /\ view[x] \in Things
  BY DEF Inv, TypeOK
<1>4. (x \notin estranged) \in BOOLEAN /\ (x \notin estranged => lind[x] = view[x])
  BY DEF Inv, ViewIsLind
<1>5. Call /\ NoMmap /\ mapping' = mapping
  BY DEF fcntl
<1>6. /\ mapping' \in [Fds -> Fds \cup {Failed}] /\ faults' \in 0..MaxFaults
      /\ faults' = 0 => faults = 0 /\ a.odd = FALSE
      /\ paired' \subseteq Fds
  <2>1. a.odd \in BOOLEAN
    BY <1>2, <1>3, LindTyped DEF Inv
  <2> QED BY <1>1, <1>5, <2>1 DEF Fault, Inv, TypeOK
<1>7. (TypeOK /\ ViewIsLind)'
  <2>1. n.ret \in Fds \cup {Errno} /\ n.table \in [Fds -> Things] /\ LindAnswers(a, lind[x])
    BY <1>2, <1>3, KernelTyped, LindTyped DEF Inv, Fds, KernelFds
  <2> QED BY <1>1, <1>3, <1>4, <1>5, <1>6, <2>1, NumberKeeps DEF Inv
<1>8. Pairing'
  BY <1>1, <1>2, <1>3, <1>5, <1>6, NumberPairs DEF Inv
<1>9. MmapRight'
  BY <1>5 DEF NoMmap, NoRegion, MmapRight
<1> QED BY <1>7, <1>8, <1>9 DEF Inv

(* monitor_access changes the mapping of 0 alone.                          *)
LEMMA AccessKeeps ==
  ASSUME Inv, access PROVE Inv'
<1>1. PICK n \in {0, Errno}, r \in {0, Failed} : Maps(n, r, FALSE)
  BY DEF access
<1>2. Call /\ NoMmap /\ UNCHANGED <<native, lind, view, estranged, paired>>
  BY DEF access
<1>3. n \in Fds \cup {Errno, Failed} /\ r \in Fds \cup {Failed} /\ FALSE \in BOOLEAN
  BY DEF Fds
<1>4. /\ mapping' \in [Fds -> Fds \cup {Failed}] /\ faults' \in 0..MaxFaults
      /\ faults' = 0 => faults = 0 /\ mapping' = add_mapping(n, r)
  BY <1>1, <1>3, MapsKeeps DEF Inv
<1>5. (TypeOK /\ ViewIsLind)'
  BY <1>2, <1>4 DEF Inv, TypeOK, ViewIsLind, Call, NoMmap, NoRegion, Things
<1>6. Pairing'
  <2> SUFFICES ASSUME Disjoint, faults' = 0
               PROVE  Unshared' /\ \A l \in paired' : PairKept(l)'
    BY DEF Pairing, Disjoint
  <2>1. Unshared /\ \A l \in paired : PairKept(l)
    BY <1>4 DEF Inv, Pairing
  <2>2. \A l \in LindFds : l \in Fds /\ l # 0
    BY DEF Fds
  <2>3. \A l \in LindFds : mapping'[l] = mapping[l]
    BY <1>4, <2>2 DEF add_mapping, Inv, TypeOK
  <2> QED BY <1>2, <2>1, <2>3 DEF Unshared, PairKept
<1>7. MmapRight'
  BY <1>2 DEF NoMmap, NoRegion, MmapRight
<1> QED BY <1>5, <1>6, <1>7 DEF Inv

(* A number the program holds is not the kernel's number of a pair: it may *)
(* be closed or replaced.                                                  *)
LEMMA HeldFrame ==
  ASSUME TypeOK, Pairing, Disjoint, faults = 0, NEW m \in Fds, view[m] # None,
         NEW g \in Things, native' = [native EXCEPT ![m] = g],
         NEW f \in Things, view' = [view EXCEPT ![m] = f],
         m \in KernelFds /\ f # None => g # None,
         \A l \in paired : l # m => mapping'[l] = mapping[l],
         paired' = paired \ {m}
  PROVE  Unshared' /\ \A l \in paired' : PairKept(l)'
<1>1. /\ Unshared /\ \A l \in paired : PairKept(l)
      /\ \A k \in KernelFds : k \in Fds
  BY DEF Pairing, KernelFds, Fds
<1>2. /\ \A k \in Fds : k # m => view'[k] = view[k] /\ native'[k] = native[k]
      /\ view'[m] = f /\ native'[m] = g
  BY DEF TypeOK
<1>3. Unshared'
  BY <1>1, <1>2 DEF Unshared
<1>4. ASSUME NEW l \in paired, l # m PROVE PairKept(l)'
  <2>1. /\ l \in LindFds /\ view[l] # None /\ mapping[l] \in KernelFds
        /\ native[mapping[l]] = view[l] /\ view[mapping[l]] = None
    BY <1>1 DEF PairKept
  <2>2. l \in Fds /\ mapping[l] \in Fds /\ mapping[l] # m
    BY <1>1, <2>1 DEF Fds
  <2>3. mapping'[l] = mapping[l]
    BY <1>4
  <2> QED BY <1>2, <1>4, <2>1, <2>2, <2>3 DEF PairKept
<1> QED BY <1>3, <1>4

(* monitor_close.                                                          *)
LEMMA CloseKeeps ==
  ASSUME Inv, NEW x \in Fds, Close(x) PROVE Inv'
<1>1. /\ Call /\ NoMmap /\ mapping' = mapping /\ paired' = paired \ {x}
      /\ native' = [native EXCEPT ![x] = None] /\ view' = [view EXCEPT ![x] = None]
  BY DEF Close
<1>2. PICK a \in LindCloses(x) :
        /\ lind' = a.table
        /\ estranged' = IF a.table[x] = None THEN estranged \ {x} ELSE estranged \cup {x}
        /\ Fault(a.odd \/ view[x] = None)
  BY DEF Close
<1>3. a.odd \in BOOLEAN /\ (a.table = lind \/ a.table = [lind EXCEPT ![x] = None])
  <2> DEFINE done == IF lind[x] = None THEN {}
                     ELSE {Answer(0, [lind EXCEPT ![x] = None])}
  <2>1. a \in done \/ a = Answer(Failed, lind) \/ a = Unreadable(lind)
        \/ \E b \in done : a = Unreadable(b.table)
    BY DEF LindCloses, OrFails
  <2>2. \A b \in done : b = Answer(0, [lind EXCEPT ![x] = None])
    OBVIOUS
  <2> HIDE DEF done
  <2>3. CASE a \in done
    <3>1. a = Answer(0, [lind EXCEPT ![x] = None])
      BY <2>2, <2>3
    <3> QED BY <3>1 DEF Answer
  <2>4. CASE a = Answer(Failed, lind)
    BY <2>4 DEF Answer
  <2>5. CASE a = Unreadable(lind)
    BY <2>5 DEF Unreadable
  <2>6. CASE \E b \in done : a = Unreadable(b.table)
    <3>1. a = Unreadable(Answer(0, [lind EXCEPT ![x] = None]).table)
      BY <2>2, <2>6
    <3> QED BY <3>1 DEF Answer, Unreadable
  <2> QED BY <2>1, <2>3, <2>4, <2>5, <2>6
<1>4. faults' \in 0..MaxFaults /\ (faults' = 0 => faults = 0 /\ view[x] # None)
  BY <1>2, <1>3 DEF Fault, Inv, TypeOK
<1>5. TypeOK'
  <2>1. None \in Things /\ lind' \in [Fds -> Things]
    BY <1>2, <1>3 DEF Inv, TypeOK, Things
  <2>2. estranged' \subseteq Fds
    BY <1>2 DEF Inv, TypeOK
  <2>3. native' \in [Fds -> Things] /\ view' \in [Fds -> Things]
    BY <1>1, <2>1 DEF Inv, TypeOK
  <2> QED BY <1>1, <1>4, <2>1, <2>2, <2>3 DEF Inv, TypeOK, Call, NoMmap, NoRegion, Things
<1>6. ViewIsLind'
  BY <1>1, <1>2, <1>3 DEF Inv, TypeOK, ViewIsLind
<1>7. Pairing'
  <2> SUFFICES ASSUME Disjoint, faults' = 0
               PROVE  Unshared' /\ \A l \in paired' : PairKept(l)'
    BY DEF Pairing, Disjoint
  <2>1. None \in Things
    BY DEF Things
  <2> QED BY <1>1, <1>4, <2>1, HeldFrame DEF Inv
<1>8. MmapRight'
  BY <1>1 DEF NoMmap, NoRegion, MmapRight
<1> QED BY <1>5, <1>6, <1>7, <1>8 DEF Inv

(* monitor_mmap.                                                           *)
LEMMA MmapKeeps ==
  ASSUME Inv, NEW x \in Fds, Mmap(x) PROVE Inv'
<1>1. Call /\ UNCHANGED <<tables, history>>
  BY DEF Mmap
<1>2. region' \in [want : Things, got : Things, sure : BOOLEAN] /\ up' \in BOOLEAN
  <2>1. CASE region' = region /\ up' = FALSE
    BY <2>1 DEF Inv, TypeOK
  <2>2. CASE /\ region' = [want |-> view[x],
                           got  |-> IF mapping[x] < 0 THEN None ELSE native[mapping[x]],
                           sure |-> faults = 0 /\ x \in paired]
             /\ up' = up
    <3>1. mapping[x] \in Fds \cup {Failed} /\ view[x] \in Things /\ None \in Things
      BY DEF Inv, TypeOK, Things
    <3>2. mapping[x] \in Fds => native[mapping[x]] \in Things
      BY DEF Inv, TypeOK
    <3> QED BY <2>2, <3>1, <3>2 DEF Inv, TypeOK
  <2> QED BY <2>1, <2>2 DEF Mmap, get_mapping
<1>3. (TypeOK /\ ViewIsLind /\ Pairing)'
  BY <1>1, <1>2 DEF Inv, TypeOK, ViewIsLind, Pairing, Unshared, PairKept, tables, history, Call, Disjoint
<1>4. MmapRight'
  <2> SUFFICES ASSUME Disjoint, region'.sure, region' # region PROVE region'.got = region'.want
    BY DEF MmapRight, Inv, Disjoint
  <2>1. region' = [want |-> view[x],
                   got  |-> IF mapping[x] < 0 THEN None ELSE native[mapping[x]],
                   sure |-> faults = 0 /\ x \in paired]
    BY DEF Mmap, get_mapping
  <2>2. faults = 0 /\ x \in paired
    BY <2>1
  <2>3. PairKept(x)
    BY <2>2 DEF Inv, Pairing
  <2>4. mapping[x] \in Nat
    BY <2>3, FdsAreNumbers DEF PairKept, KernelFds, Fds
  <2> QED BY <2>1, <2>3, <2>4 DEF PairKept
<1> QED BY <1>3, <1>4 DEF Inv

(* monitor_dup2 and monitor_dup3.                                          *)
LEMMA LindDup2Answers ==
  ASSUME NEW x \in Fds, NEW m \in Fds, NEW a \in LindDup2(x, m)
  PROVE  LindAnswers(a, lind[x]) /\ (a.odd = FALSE => a.ret \in {m, Failed})
<1> DEFINE done == IF lind[x] = None THEN {}
                   ELSE {Answer(m, [lind EXCEPT ![m] = lind[x]])}
<1>1. a \in done \/ a = Answer(Failed, lind) \/ a = Unreadable(lind)
      \/ \E b \in done : a = Unreadable(b.table)
  BY DEF LindDup2, OrFails
<1>2. \A b \in done : b = Answer(m, [lind EXCEPT ![m] = lind[x]])
  OBVIOUS
<1> HIDE DEF done
<1>3. CASE a \in done
  <2>1. a = Answer(m, [lind EXCEPT ![m] = lind[x]])
    BY <1>2, <1>3
  <2> QED BY <2>1 DEF Answer, LindAnswers
<1>4. CASE a = Answer(Failed, lind)
  BY <1>4 DEF Answer, LindAnswers
<1>5. CASE a = Unreadable(lind)
  BY <1>5 DEF Unreadable, LindAnswers
<1>6. CASE \E b \in done : a = Unreadable(b.table)
  <2>1. a = Unreadable(Answer(m, [lind EXCEPT ![m] = lind[x]]).table)
    BY <1>2, <1>6
  <2> QED BY <2>1 DEF Answer, Unreadable, LindAnswers
<1> QED BY <1>1, <1>3, <1>4, <1>5, <1>6

(* dup2 (and dup3) keep it.                                                *)
LEMMA Dup2Keeps ==
  ASSUME Inv, NEW x \in Fds, NEW m \in Fds, Dup2(x, m) PROVE Inv'
<1>1. PICK n \in NativeDup2(x, m), a \in LindDup2(x, m) :
        Grant(n, a, view[x], Failed, x \notin estranged, view[m] = None)
  BY DEF Dup2
<1>2. Call /\ paired' = paired \ {m}
  BY DEF Dup2
<1>3. LindAnswers(a, lind[x]) /\ (a.odd = FALSE => a.ret \in {m, Failed})
  BY LindDup2Answers
<1>4. native[x] \in Things /\ lind[x] \in Things /\ view[x] \in Things
  BY DEF Inv, TypeOK
<1>5. \/ n.ret = Errno /\ n.table = native
      \/ n.ret = m /\ n.table = [native EXCEPT ![m] = native[x]] /\ native[x] # None
  <2>1. CASE native[x] = None
    BY <2>1 DEF NativeDup2, Answer
  <2>2. CASE native[x] # None
    BY <2>2 DEF NativeDup2, Answer
  <2> QED BY <2>1, <2>2
<1>6. /\ a.ret \in Fds \cup {Failed} /\ a.odd \in BOOLEAN
      /\ n.ret \in Fds \cup {Errno} /\ n.table \in [Fds -> Things]
  BY <1>3, <1>4, <1>5, AnswerTyped DEF Inv, TypeOK
<1>7. (IF a.ret >= 0 THEN a.ret ELSE Failed) = a.ret
  BY <1>6, FdsAreNumbers
<1>8. /\ native' = n.table /\ lind' = a.table
      /\ Maps(n.ret, a.ret, a.odd \/ view[m] = None)
      /\ Holds(a.ret, view[x]) /\ Estranges(a, a.ret, x \notin estranged)
      /\ NoMmap
  BY <1>1, <1>7 DEF Grant
<1>9. /\ mapping' \in [Fds -> Fds \cup {Failed}] /\ faults' \in 0..MaxFaults
      /\ faults' = 0 => /\ faults = 0 /\ a.odd = FALSE /\ view[m] # None
                        /\ mapping' = add_mapping(n.ret, a.ret)
  <2>1. (a.odd \/ view[m] = None) \in BOOLEAN /\ n.ret \in Fds \cup {Errno, Failed}
    BY <1>6
  <2> QED BY <1>6, <1>8, <2>1, MapsKeeps DEF Inv
<1>10. (TypeOK /\ ViewIsLind)'
  <2>1. (x \notin estranged) \in BOOLEAN /\ (x \notin estranged => lind[x] = view[x])
    BY DEF Inv, ViewIsLind
  <2>2. paired' \subseteq Fds
    BY <1>2 DEF Inv, TypeOK
  <2> QED BY <1>2, <1>3, <1>4, <1>6, <1>8, <1>9, <2>1, <2>2, NumberKeeps DEF Inv
<1>11. Pairing'
  <2> SUFFICES ASSUME Disjoint, faults' = 0
               PROVE  Unshared' /\ \A l \in paired' : PairKept(l)'
    BY DEF Pairing, Disjoint
  <2>1. /\ faults = 0 /\ view[m] # None /\ a.ret \in {m, Failed}
        /\ mapping' = add_mapping(n.ret, a.ret)
    BY <1>3, <1>9
  <2>2. PICK g \in Things : /\ native' = [native EXCEPT ![m] = g]
                            /\ g = native[m] \/ (native[x] = g /\ g # None)
    <3>1. native = [native EXCEPT ![m] = native[m]] /\ native[m] \in Things
      BY DEF Inv, TypeOK
    <3>2. CASE n.table = native
      <4>1. native' = [native EXCEPT ![m] = native[m]]
        BY <1>8, <3>1, <3>2
      <4> QED BY <3>1, <4>1
    <3>3. CASE n.table = [native EXCEPT ![m] = native[x]] /\ native[x] # None
      BY <1>4, <1>8, <3>3
    <3> QED BY <1>5, <3>2, <3>3
  <2>3. PICK f \in Things : view' = [view EXCEPT ![m] = f]
    <3>1. view = [view EXCEPT ![m] = view[m]] /\ view[m] \in Things
      BY DEF Inv, TypeOK
    <3>2. CASE a.ret = m
      BY <1>4, <1>8, <3>2, FdsAreNumbers DEF Holds
    <3>3. CASE a.ret = Failed
      BY <1>8, <3>1, <3>3 DEF Holds
    <3> QED BY <2>1, <3>2, <3>3
  <2>4. m \in KernelFds => g # None
    BY <2>1, <2>2 DEF Inv, Pairing, Unshared
  <2>5. \A l \in paired : l # m => mapping'[l] = mapping[l]
    BY <2>1 DEF add_mapping, Inv, TypeOK
  <2> QED BY <1>2, <2>1, <2>2, <2>3, <2>4, <2>5, HeldFrame DEF Inv
<1>12. MmapRight'
  BY <1>8 DEF NoMmap, NoRegion, MmapRight
<1> QED BY <1>10, <1>11, <1>12 DEF Inv

(* monitor_socketpair.                                                     *)
LEMMA SocketpairKeeps ==
  ASSUME Inv, NEW f \in Objects, socketpair(f) PROVE Inv'
<1>0. Call /\ NoMmap /\ f \in Things /\ f # None
  BY DEF socketpair, Things
<1>1. PICK n \in NativeOpens(f), a \in LindOpens(f) :
        \E n2 \in {k \in FreeNative \ {n.ret} : \A j \in FreeNative \ {n.ret} : k <= j},
           l2 \in {k \in LindFds \ {a.ret} : lind[k] = None} :
          /\ native' = IF n.ret >= 0 THEN [n.table EXCEPT ![n2] = f] ELSE native
          /\ lind' = IF ~a.odd /\ a.ret # Failed THEN [a.table EXCEPT ![l2] = f] ELSE a.table
          /\ Maps(IF n.ret >= 0 THEN 0 ELSE Errno, IF a.ret < 0 THEN Failed ELSE 0, a.odd)
          /\ IF n.ret >= 0 /\ a.ret # Failed
             THEN view' = [view EXCEPT ![n.ret] = f, ![n2] = f] ELSE UNCHANGED view
          /\ estranged' = estranged \cup {k \in Fds : view'[k] # view[k] \/ lind'[k] # lind[k]}
          /\ paired' = paired
  BY DEF socketpair
<1>2. PICK n2 \in FreeNative \ {n.ret}, l2 \in LindFds :
          /\ native' = IF n.ret >= 0 THEN [n.table EXCEPT ![n2] = f] ELSE native
          /\ lind' = IF ~a.odd /\ a.ret # Failed THEN [a.table EXCEPT ![l2] = f] ELSE a.table
          /\ Maps(IF n.ret >= 0 THEN 0 ELSE Errno, IF a.ret < 0 THEN Failed ELSE 0, a.odd)
          /\ IF n.ret >= 0 /\ a.ret # Failed
             THEN view' = [view EXCEPT ![n.ret] = f, ![n2] = f] ELSE UNCHANGED view
          /\ estranged' = estranged \cup {k \in Fds : view'[k] # view[k] \/ lind'[k] # lind[k]}
          /\ paired' = paired
  BY <1>1
<1>3. KernelGives(n, f) /\ LindGives(a, f)
  BY NativeOpensGive, LindOpensGive
<1>4. /\ n.ret \in KernelFds \cup {Errno} /\ n.table \in [Fds -> Things]
      /\ a.table \in [Fds -> Things] /\ a.odd \in BOOLEAN
  BY <1>0, <1>3, KernelTyped, LindTyped, AnswerTyped DEF Inv
<1>5. /\ n2 \in KernelFds /\ native[n2] = None /\ n2 # n.ret
      /\ KernelFds \subseteq Fds /\ LindFds \subseteq Fds /\ n2 \in Fds /\ l2 \in Fds
  BY <1>2 DEF FreeNative, KernelFds, Fds
<1>6. n.ret >= 0 => /\ n.ret \in KernelFds /\ n.ret \in Fds /\ native[n.ret] = None
                    /\ n.table = [native EXCEPT ![n.ret] = f]
  BY <1>3, <1>4, <1>5 DEF KernelGives
<1>7. /\ mapping' \in [Fds -> Fds \cup {Failed}] /\ faults' \in 0..MaxFaults
      /\ faults' = 0 => /\ faults = 0
                        /\ \A k \in LindFds : mapping'[k] = mapping[k]
  <2> DEFINE src == IF n.ret >= 0 THEN 0 ELSE Errno
             dest == IF a.ret < 0 THEN Failed ELSE 0
  <2>1. src \in {0, Errno} /\ dest \in {0, Failed} /\ 0 \in Fds
    BY DEF Fds
  <2>2. Maps(src, dest, a.odd)
    BY <1>2
  <2> HIDE DEF src, dest
  <2>3. /\ mapping' \in [Fds -> Fds \cup {Failed}] /\ faults' \in 0..MaxFaults
        /\ faults' = 0 => faults = 0 /\ mapping' = add_mapping(src, dest)
    BY <1>4, <2>1, <2>2, MapsKeeps DEF Inv
  <2>4. \A k \in LindFds : k \in Fds /\ k # 0
    BY <1>5
  <2> QED BY <2>1, <2>3, <2>4 DEF add_mapping, Inv, TypeOK
<1>8. TypeOK'
  <2>1. native' \in [Fds -> Things]
    BY <1>0, <1>2, <1>4, <1>5 DEF Inv, TypeOK
  <2>2. lind' \in [Fds -> Things]
    BY <1>0, <1>2, <1>4, <1>5
  <2>3. view' \in [Fds -> Things]
    BY <1>0, <1>2, <1>5, <1>6 DEF Inv, TypeOK
  <2>4. estranged' \subseteq Fds /\ paired' \subseteq Fds
    BY <1>2 DEF Inv, TypeOK
  <2> QED BY <1>0, <1>7, <2>1, <2>2, <2>3, <2>4
          DEF Inv, TypeOK, Call, NoMmap, NoRegion, Things
<1>9. ViewIsLind'
  BY <1>2 DEF Inv, ViewIsLind
<1>10. Pairing'
  <2> SUFFICES ASSUME Disjoint, faults' = 0
               PROVE  Unshared' /\ \A l \in paired' : PairKept(l)'
    BY DEF Pairing, Disjoint
  <2>1. Unshared /\ \A l \in paired : PairKept(l)
    BY <1>7 DEF Inv, Pairing
  <2>2. \A k \in KernelFds : k \notin LindFds
    BY DEF Disjoint, KernelFds
  <2>3. CASE ~(n.ret >= 0)
    <3>1. native' = native /\ view' = view
      BY <1>2, <2>3
    <3> QED BY <1>2, <1>7, <2>1, <3>1 DEF Unshared, PairKept
  <2>4. CASE n.ret >= 0
    <3>1. /\ native'[n.ret] = f /\ native'[n2] = f
          /\ \A k \in Fds \ {n.ret, n2} : native'[k] = native[k]
      BY <1>2, <1>5, <1>6, <2>4 DEF Inv, TypeOK
    <3>2. \A k \in Fds \ {n.ret, n2} : view'[k] = view[k]
      BY <1>2, <1>5, <1>6, <2>4 DEF Inv, TypeOK
    <3>3. Unshared'
      BY <1>0, <1>5, <2>1, <3>1, <3>2 DEF Unshared
    <3>4. ASSUME NEW l \in paired PROVE PairKept(l)'
      <4>1. /\ l \in LindFds /\ view[l] # None /\ mapping[l] \in KernelFds
            /\ native[mapping[l]] = view[l] /\ view[mapping[l]] = None
        BY <2>1 DEF PairKept
      <4>2. l \in Fds \ {n.ret, n2} /\ mapping[l] \in Fds \ {n.ret, n2}
        BY <1>5, <1>6, <2>2, <2>4, <4>1
      <4>3. mapping'[l] = mapping[l]
        BY <1>7, <4>1
      <4> QED BY <3>1, <3>2, <4>1, <4>2, <4>3 DEF PairKept
    <3> QED BY <1>2, <3>3, <3>4
  <2> QED BY <2>3, <2>4
<1>11. MmapRight'
  BY <1>0 DEF NoMmap, NoRegion, MmapRight
<1> QED BY <1>8, <1>9, <1>10, <1>11 DEF Inv

-----------------------------------------------------------------------------
(* The invariant holds initially.                                          *)
LEMMA InvInit == Init => Inv
<1> SUFFICES ASSUME Init PROVE Inv
  OBVIOUS
<1>1. 0 \in Fds /\ KernelFds \subseteq Fds /\ OnlyStd \in [Fds -> Things]
  BY DEF Fds, KernelFds, OnlyStd, Things
<1>2. TypeOK
  BY <1>1 DEF Init, TypeOK, NoRegion, Things
<1>3. ViewIsLind /\ Pairing
  BY <1>1 DEF Init, ViewIsLind, Pairing, Unshared, PairKept
<1>4. MmapRight
  BY DEF Init, MmapRight, NoRegion
<1> QED BY <1>2, <1>3, <1>4 DEF Inv

(* Every call keeps it.                                                    *)
LEMMA InvStep == Inv /\ [Next]_vars => Inv'
<1> SUFFICES ASSUME Inv, [Next]_vars PROVE Inv'
  OBVIOUS
<1>1. CASE UNCHANGED vars
  BY <1>1 DEF vars, tables, history, Inv, TypeOK, ViewIsLind, Pairing, Unshared,
              PairKept, MmapRight, Disjoint
<1> QED BY <1>1, OpenKeeps, SocketpairKeeps, AccessKeeps, DupKeeps, FcntlKeeps,
           CloseKeeps, MmapKeeps, Dup2Keeps DEF Next

(* So it is an invariant.                                                  *)
LEMMA Invariance == Spec => []Inv
BY InvInit, InvStep, PTL DEF Spec

(* The tables, the mapping and the histories keep their types.             *)
THEOREM TypeCorrect == Spec => []TypeOK
BY Invariance, PTL DEF Inv

(* A number a handler has returned means in Lind what the program takes it *)
(* for, except the numbers that are not Lind's.                            *)
THEOREM ViewAgrees == Spec => []ViewIsLind
BY Invariance, PTL DEF Inv

(* mmap maps the file the program opened when the kernel's numbers and     *)
(* Lind's do not meet and nothing has gone wrong.                          *)
THEOREM MmapFindsFile == Spec => []MmapRight
BY Invariance, PTL DEF Inv
=============================================================================
