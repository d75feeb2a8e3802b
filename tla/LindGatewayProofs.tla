------------------------- MODULE LindGatewayProofs -------------------------
(***************************************************************************)
(* Proofs about module LindGateway, for every width of int, size of a      *)
(* structure, length of data and number of exceptions.                     *)
(*                                                                         *)
(* The inductive invariant says of every place in the code which           *)
(* references the monitor holds there (Held), which functions are still    *)
(* intact (Borrowed) and what ParseResponse has stored so far (Stored).    *)
(***************************************************************************)
EXTENDS LindGateway, TLAPS

InCall == {"lock", "build", "call", "inlind", "drop", "between", "attrs", "copy", "cleanup"}

Held ==
  pc # "crashed" =>
    /\ pc \notin {"call", "inlind", "drop", "map", "get"} => own["args"] = 0
    /\ pc \in {"map", "get"} => own["args"] = 1
    /\ pc \notin {"call", "inlind", "drop"} => own["callandarg"] = 0
    /\ pc \notin {"drop", "between", "attrs", "copy", "cleanup"} => own["response"] = 0
    /\ pc \notin {"copy", "cleanup"} => \A o \in Attrs : own[o] = 0
    /\ pc \notin InCall \cup {"unset"} => own["sets"] = 0
    /\ pc \in InCall => own["sets"] = (IF row.sets THEN 1 ELSE 0)
    /\ pc = "unset" => own["sets"] = 1
    /\ pc = "sets" => row.sets

(* LindSyscall has lost a reference only when the call has failed, which   *)
(* the null response tells.                                                *)
Borrowed ==
  pc # "crashed" =>
    /\ frefs["get_lind_map_to_native"] = FuncRefs
    /\ \/ frefs["LindSyscall"] = FuncRefs
       \/ pc \in {"drop", "between", "attrs"} /\ own["response"] = 0

Stored ==
  /\ pc \in {"sets", "lock", "build", "call", "inlind", "drop", "between", "attrs"}
       => ret = "zero" /\ copied = -1
  /\ pc = "copy" => /\ Legible(resp) /\ resp.is_error # "true"
                    /\ ret = "code" /\ copied = -1

Inv == TypeOK /\ GilPaired /\ Held /\ Borrowed /\ Stored /\ ResultMeans /\ CopyWithin

-----------------------------------------------------------------------------
(* A size that is not negative does not grow when it is made an int.       *)
LEMMA ModBound ==
  ASSUME NEW b \in Nat, b > 0, NEW a \in Nat
  PROVE a % b <= a /\ a % b \in Int
<1>1. a % b \in 0..(b - 1)
  OBVIOUS
<1>2. CASE a < b
  BY <1>2, <1>1, SMT
<1>3. CASE a >= b
  BY <1>3, <1>1
<1> QED BY <1>2, <1>3

(* A size made an int is not larger than it was.                           *)
LEMMA ToIntBound ==
  ASSUME NEW x \in Nat PROVE ToInt(x) \in Int /\ ToInt(x) <= x
<1> DEFINE b == 2 * (IntMax + 1)
           a == x + IntMax + 1
<1>1. b \in Nat /\ b > 0 /\ a \in Nat
  BY SizeAssumption
<1> HIDE DEF a, b
<1>2. a % b <= a /\ a % b \in Int
  BY <1>1, ModBound
<1>3. ToInt(x) = (a % b) - (IntMax + 1)
  BY DEF ToInt, a, b
<1> QED BY <1>1, <1>2, <1>3, SizeAssumption DEF a

(* The size of an output is a number.                                      *)
LEMMA SizeNat == ASSUME TypeOK, NEW kind PROVE Size(kind) \in Nat
<1>1. n \in Nat /\ StructSize \in Nat
  BY SizeAssumption DEF TypeOK, Sizes
<1>2. n * StructSize \in Nat
  BY <1>1
<1> QED BY <1>1, <1>2 DEF Size

(* Taking references changes the named counters only.                      *)
LEMMA IncrefAdds ==
  ASSUME own \in [PyObjs -> {0, 1}], NEW S, Incref(S), \A o \in PyObjs : o \in S => own[o] = 0
  PROVE /\ own' \in [PyObjs -> {0, 1}]
        /\ \A o \in PyObjs : own'[o] = IF o \in S THEN 1 ELSE own[o]
BY DEF Incref

(* Giving references back changes the named counters only.                 *)
LEMMA DecrefTakes ==
  ASSUME own \in [PyObjs -> {0, 1}], NEW S, Decref(S), \A o \in PyObjs : o \in S => own[o] = 1
  PROVE /\ own' \in [PyObjs -> {0, 1}]
        /\ \A o \in PyObjs : own'[o] = IF o \in S THEN 0 ELSE own[o]
BY DEF Decref

(* The invariant holds initially.                                          *)
LEMMA InitInv == Init => Inv
<1> SUFFICES ASSUME Init PROVE Inv
  OBVIOUS
<1>1. TypeOK
  <2>1. row \in Rows
    BY DEF Init, Rows, lind_access
  <2>2. resp \in Responses
    BY SizeAssumption DEF Init, Responses, NoResponse
  <2>3. own \in [PyObjs -> {0, 1}] /\ frefs \in [Functions -> Int]
    BY SizeAssumption DEF Init
  <2> QED BY <2>1, <2>2, <2>3, SizeAssumption DEF Init, TypeOK, States, Sizes
<1>2. Held
  BY DEF Init, Held, InCall, PyObjs, Call, Attrs
<1>3. Borrowed
  BY DEF Init, Borrowed, Functions
<1> QED BY <1>1, <1>2, <1>3 DEF Init, Inv, GilPaired, Locked, Stored, ResultMeans, CopyWithin

-----------------------------------------------------------------------------
(* A trap changes nothing but the place.                                   *)
LEMMA CrashInv == Inv /\ Crash => Inv'
<1> SUFFICES ASSUME Inv, Crash PROVE Inv'
  OBVIOUS
<1>1. TypeOK'
  BY DEF Inv, TypeOK, Crash, States, refs, answer
<1> QED BY <1>1 DEF Inv, Crash, GilPaired, Held, Borrowed, Stored, ResultMeans, CopyWithin

(* The steps that leave references and answer alone.                       *)
LEMMA QuietInv ==
  ASSUME Inv, UNCHANGED <<refs, answer, errors>>,
         \/ LindPythonInit \/ Lock \/ CallLind \/ Parse
         \/ ThreadRuns \/ ThreadYields
  PROVE Inv'
<1>1. TypeOK'
  BY DEF Inv, TypeOK, LindPythonInit, Lock, CallLind, Parse, ThreadRuns, ThreadYields,
         Take, Release, States, Locked, refs, answer
<1>2. GilPaired'
  BY DEF Inv, TypeOK, GilPaired, LindPythonInit, Lock, CallLind, Parse, ThreadRuns,
         ThreadYields, Take, Release, Locked
<1>3. Held'
  BY DEF Inv, Held, LindPythonInit, Lock, CallLind, Parse, ThreadRuns, ThreadYields,
         InCall, refs
<1>4. Borrowed'
  BY DEF Inv, Borrowed, LindPythonInit, Lock, CallLind, Parse, ThreadRuns, ThreadYields, refs
<1>5. Stored' /\ ResultMeans' /\ CopyWithin'
  BY DEF Inv, Stored, ResultMeans, CopyWithin, LindPythonInit, Lock, CallLind, Parse,
         ThreadRuns, ThreadYields, answer, Size, Legible
<1> QED BY <1>1, <1>2, <1>3, <1>4, <1>5 DEF Inv

(* A handler enters a wrapper.                                             *)
LEMMA EnterInv == Inv /\ Enter => Inv'
<1> SUFFICES ASSUME Inv, Enter PROVE Inv'
  OBVIOUS
<1>1. TypeOK'
  <2>1. n' \in Sizes
    BY SizeAssumption DEF Enter, Sizes
  <2>2. resp' \in Responses
    BY SizeAssumption DEF Enter, Responses, NoResponse
  <2> QED BY <2>1, <2>2 DEF Inv, TypeOK, States, Locked, refs, Enter
<1>2. GilPaired'
  BY DEF Inv, TypeOK, GilPaired, Locked, Release, Take, Enter
<1>3. Held'
  BY DEF Inv, TypeOK, Held, InCall, PyObjs, Call, Attrs, refs, Enter
<1>4. Borrowed'
  BY DEF Inv, TypeOK, Borrowed, Held, Functions, PyObjs, Call, Attrs, refs, Enter
<1>5. Stored' /\ ResultMeans' /\ CopyWithin'
  BY DEF Inv, Stored, ResultMeans, CopyWithin, Size, Legible, answer, Enter
<1> QED BY <1>1, <1>2, <1>3, <1>4, <1>5 DEF Inv

(* lind_select builds its arguments.                                       *)
LEMMA BuildSetsInv == Inv /\ BuildSets => Inv'
<1> SUFFICES ASSUME Inv, BuildSets PROVE Inv'
  OBVIOUS
<1>o. /\ own' \in [PyObjs -> {0, 1}]
      /\ \A o \in PyObjs : own'[o] = IF o \in {"sets"} THEN 1 ELSE own[o]
  BY IncrefAdds DEF Inv, TypeOK, Held, PyObjs, Call, Attrs, InCall, BuildSets
<1>1. TypeOK'
  BY <1>o DEF Inv, TypeOK, States, Locked, Release, Take, refs, answer, BuildSets
<1>2. GilPaired'
  BY <1>o DEF Inv, TypeOK, GilPaired, Locked, Release, Take, BuildSets
<1>3. Held'
  BY <1>o DEF Inv, TypeOK, Held, InCall, PyObjs, Call, Attrs, refs, BuildSets
<1>4. Borrowed'
  BY <1>o DEF Inv, TypeOK, Borrowed, Held, Functions, PyObjs, Call, Attrs, refs, BuildSets
<1>5. Stored' /\ ResultMeans' /\ CopyWithin'
  BY <1>o DEF Inv, Stored, ResultMeans, CopyWithin, Size, Legible, answer, BuildSets
<1> QED BY <1>1, <1>2, <1>3, <1>4, <1>5 DEF Inv

(* lind_select gives its arguments back.                                   *)
LEMMA DropSetsInv == Inv /\ DropSets => Inv'
<1> SUFFICES ASSUME Inv, DropSets PROVE Inv'
  OBVIOUS
<1>o. /\ own' \in [PyObjs -> {0, 1}]
      /\ \A o \in PyObjs : own'[o] = IF o \in {"sets"} THEN 0 ELSE own[o]
  BY DecrefTakes DEF Inv, TypeOK, Held, PyObjs, Call, Attrs, InCall, DropSets
<1>1. TypeOK'
  BY <1>o DEF Inv, TypeOK, States, Locked, Release, Take, refs, answer, DropSets
<1>2. GilPaired'
  BY <1>o DEF Inv, TypeOK, GilPaired, Locked, Release, Take, DropSets
<1>3. Held'
  BY <1>o DEF Inv, TypeOK, Held, InCall, PyObjs, Call, Attrs, refs, DropSets
<1>4. Borrowed'
  BY <1>o DEF Inv, TypeOK, Borrowed, Held, Functions, PyObjs, Call, Attrs, refs, DropSets
<1>5. Stored' /\ ResultMeans' /\ CopyWithin'
  BY <1>o DEF Inv, Stored, ResultMeans, CopyWithin, Size, Legible, answer, DropSets
<1> QED BY <1>1, <1>2, <1>3, <1>4, <1>5 DEF Inv

(* The call into Python fails.                                             *)
LEMMA CallFailsInv == Inv /\ CallFails => Inv'
<1> SUFFICES ASSUME Inv, CallFails PROVE Inv'
  OBVIOUS
<1>1. TypeOK'
  BY DEF Inv, TypeOK, States, Locked, Release, Take, refs, answer, CallFails, Functions
<1>2. GilPaired'
  BY DEF Inv, TypeOK, GilPaired, Locked, Release, Take, CallFails
<1>3. Held'
  BY DEF Inv, TypeOK, Held, InCall, PyObjs, Call, Attrs, refs, CallFails
<1>4. Borrowed'
  BY DEF Inv, TypeOK, Borrowed, Held, Functions, PyObjs, Call, Attrs, refs, CallFails
<1>5. Stored' /\ ResultMeans' /\ CopyWithin'
  BY DEF Inv, Stored, ResultMeans, CopyWithin, Size, Legible, answer, CallFails
<1> QED BY <1>1, <1>2, <1>3, <1>4, <1>5 DEF Inv

(* MakeLindSysCall gives its references back.                              *)
LEMMA DropInv == Inv /\ Drop => Inv'
<1> SUFFICES ASSUME Inv, Drop PROVE Inv'
  OBVIOUS
<1>o. /\ own' \in [PyObjs -> {0, 1}]
      /\ \A o \in PyObjs : own'[o] = IF o \in {x \in Call : own[x] > 0} THEN 0 ELSE own[o]
  BY DecrefTakes DEF Inv, TypeOK, Held, PyObjs, Call, Attrs, InCall, Drop
<1>1. TypeOK'
  BY <1>o DEF Inv, TypeOK, States, Locked, Release, Take, refs, answer, Drop
<1>2. GilPaired'
  BY <1>o DEF Inv, TypeOK, GilPaired, Locked, Release, Take, Drop
<1>3. Held'
  BY <1>o DEF Inv, TypeOK, Held, InCall, PyObjs, Call, Attrs, refs, Drop
<1>4. Borrowed'
  BY <1>o DEF Inv, TypeOK, Borrowed, Held, Functions, PyObjs, Call, Attrs, refs, Drop
<1>5. Stored' /\ ResultMeans' /\ CopyWithin'
  BY <1>o DEF Inv, Stored, ResultMeans, CopyWithin, Size, Legible, answer, Drop
<1> QED BY <1>1, <1>2, <1>3, <1>4, <1>5 DEF Inv

(* ParseResponse gives its references back.                                *)
LEMMA CleanupInv == Inv /\ Cleanup => Inv'
<1> SUFFICES ASSUME Inv, Cleanup PROVE Inv'
  OBVIOUS
<1>o. /\ own' \in [PyObjs -> {0, 1}]
      /\ \A o \in PyObjs : own'[o] = IF o \in {x \in Attrs \cup {"response"} : own[x] > 0} THEN 0 ELSE own[o]
  BY DecrefTakes DEF Inv, TypeOK, Held, PyObjs, Call, Attrs, InCall, Cleanup
<1>1. TypeOK'
  BY <1>o DEF Inv, TypeOK, States, Locked, Release, Take, refs, answer, Cleanup
<1>2. GilPaired'
  BY <1>o DEF Inv, TypeOK, GilPaired, Locked, Release, Take, Cleanup
<1>3. Held'
  BY <1>o DEF Inv, TypeOK, Held, InCall, PyObjs, Call, Attrs, refs, Cleanup
<1>4. Borrowed'
  BY <1>o DEF Inv, TypeOK, Borrowed, Held, Functions, PyObjs, Call, Attrs, refs, Cleanup
<1>5. Stored' /\ ResultMeans' /\ CopyWithin'
  BY <1>o DEF Inv, Stored, ResultMeans, CopyWithin, Size, Legible, answer, Cleanup
<1> QED BY <1>1, <1>2, <1>3, <1>4, <1>5 DEF Inv

(* A handler enters add_mapping or get_mapping.                            *)
LEMMA EnterMappingInv == Inv /\ EnterMapping => Inv'
<1> SUFFICES ASSUME Inv, EnterMapping PROVE Inv'
  OBVIOUS
<1>o. /\ own' \in [PyObjs -> {0, 1}]
      /\ \A o \in PyObjs : own'[o] = IF o \in {"args"} THEN 1 ELSE own[o]
  BY IncrefAdds DEF Inv, TypeOK, Held, PyObjs, Call, Attrs, InCall, EnterMapping
<1>1. TypeOK'
  BY <1>o DEF Inv, TypeOK, States, Locked, Release, Take, refs, answer, EnterMapping
<1>2. GilPaired'
  BY <1>o DEF Inv, TypeOK, GilPaired, Locked, Release, Take, EnterMapping
<1>3. Held'
  BY <1>o DEF Inv, TypeOK, Held, InCall, PyObjs, Call, Attrs, refs, EnterMapping
<1>4. Borrowed'
  BY <1>o DEF Inv, TypeOK, Borrowed, Held, Functions, PyObjs, Call, Attrs, refs, EnterMapping
<1>5. Stored' /\ ResultMeans' /\ CopyWithin'
  BY <1>o DEF Inv, Stored, ResultMeans, CopyWithin, Size, Legible, answer, EnterMapping
<1> QED BY <1>1, <1>2, <1>3, <1>4, <1>5 DEF Inv

(* A mapping function returns.                                             *)
LEMMA MappingInv == Inv /\ Mapping => Inv'
<1> SUFFICES ASSUME Inv, Mapping PROVE Inv'
  OBVIOUS
<1>o. /\ own' \in [PyObjs -> {0, 1}]
      /\ \A o \in PyObjs : own'[o] = IF o \in {"args"} THEN 0 ELSE own[o]
  BY DecrefTakes DEF Inv, TypeOK, Held, PyObjs, Call, Attrs, InCall, Mapping
<1>1. TypeOK'
  BY <1>o DEF Inv, TypeOK, States, Locked, Release, Take, refs, answer, Mapping
<1>2. GilPaired'
  BY <1>o DEF Inv, TypeOK, GilPaired, Locked, Release, Take, Mapping
<1>3. Held'
  BY <1>o DEF Inv, TypeOK, Held, InCall, PyObjs, Call, Attrs, refs, Mapping
<1>4. Borrowed'
  BY <1>o DEF Inv, TypeOK, Borrowed, Held, Functions, PyObjs, Call, Attrs, refs, Mapping
<1>5. Stored' /\ ResultMeans' /\ CopyWithin'
  BY <1>o DEF Inv, Stored, ResultMeans, CopyWithin, Size, Legible, answer, Mapping
<1> QED BY <1>1, <1>2, <1>3, <1>4, <1>5 DEF Inv

(* A mapping function raises.                                              *)
LEMMA MappingRaisesInv == Inv /\ MappingRaises => Inv'
<1> SUFFICES ASSUME Inv, MappingRaises PROVE Inv'
  OBVIOUS
<1>o. /\ own' \in [PyObjs -> {0, 1}]
      /\ \A o \in PyObjs : own'[o] = IF o \in {"args"} THEN 0 ELSE own[o]
  BY DecrefTakes DEF Inv, TypeOK, Held, PyObjs, Call, Attrs, InCall, MappingRaises
<1>1. TypeOK'
  <2>1. errors' \in 0..MaxErrors
    BY SizeAssumption DEF Inv, TypeOK, MappingRaises
  <2>2. frefs' \in [Functions -> Int]
    BY DEF Inv, TypeOK, MappingRaises, MapFunction, Functions
  <2> QED BY <1>o, <2>1, <2>2 DEF Inv, TypeOK, States, answer, MappingRaises
<1>2. GilPaired'
  BY <1>o DEF Inv, TypeOK, GilPaired, Locked, Release, Take, MappingRaises
<1>3. Held'
  BY <1>o DEF Inv, TypeOK, Held, InCall, PyObjs, Call, Attrs, refs, MappingRaises
<1>4. Borrowed'
  BY <1>o DEF Inv, TypeOK, Borrowed, Held, Functions, PyObjs, Call, Attrs, refs, MappingRaises, MapFunction
<1>5. Stored' /\ ResultMeans' /\ CopyWithin'
  BY <1>o DEF Inv, Stored, ResultMeans, CopyWithin, Size, Legible, answer, MappingRaises
<1> QED BY <1>1, <1>2, <1>3, <1>4, <1>5 DEF Inv

(* MakeLindSysCall builds its arguments.                                   *)
LEMMA BuildInv == Inv /\ Build => Inv'
<1> SUFFICES ASSUME Inv, Build PROVE Inv'
  OBVIOUS
<1>o. PICK made \in {{}, {"args"}, Call} : Incref(made)
  BY DEF Build
<1>p. /\ own' \in [PyObjs -> {0, 1}]
      /\ \A o \in PyObjs : own'[o] = IF o \in made THEN 1 ELSE own[o]
  BY <1>o, IncrefAdds DEF Inv, TypeOK, Held, Build, Call
<1>q. \A o \in made : o \in Call
  BY <1>o DEF Call
<1>1. TypeOK'
  BY <1>p DEF Inv, TypeOK, States, Locked, answer, Build
<1>2. GilPaired'
  BY DEF Inv, GilPaired, Locked, Build
<1>3. Held'
  BY <1>p, <1>q DEF Inv, Held, InCall, PyObjs, Call, Attrs, Build
<1>4. Borrowed'
  BY DEF Inv, Borrowed, Build
<1>5. Stored' /\ ResultMeans' /\ CopyWithin'
  BY DEF Inv, Stored, ResultMeans, CopyWithin, answer, Build
<1> QED BY <1>1, <1>2, <1>3, <1>4, <1>5 DEF Inv

(* LindSyscall returns a response.                                         *)
LEMMA LindReturnsInv == Inv /\ LindReturns => Inv'
<1> SUFFICES ASSUME Inv, LindReturns PROVE Inv'
  OBVIOUS
<1>2. GilPaired'
  BY DEF Inv, GilPaired, Locked, Take, LindReturns
<1>5. Stored' /\ ResultMeans' /\ CopyWithin'
  BY DEF Inv, Stored, ResultMeans, CopyWithin, LindReturns
<1>6. CASE /\ resp' \in Responses /\ Incref({"response"}) /\ UNCHANGED frefs
  <2>o. /\ own' \in [PyObjs -> {0, 1}]
        /\ \A o \in PyObjs : own'[o] = IF o \in {"response"} THEN 1 ELSE own[o]
    BY <1>6, IncrefAdds DEF Inv, TypeOK, Held, LindReturns, PyObjs
  <2>1. TypeOK'
    BY <1>6, <2>o DEF Inv, TypeOK, States, Locked, Take, LindReturns
  <2>3. Held'
    BY <2>o DEF Inv, Held, InCall, PyObjs, Call, Attrs, LindReturns
  <2>4. Borrowed'
    BY <1>6 DEF Inv, Borrowed, LindReturns
  <2> QED BY <2>1, <1>2, <2>3, <2>4, <1>5 DEF Inv
<1>7. CASE /\ frefs' = [frefs EXCEPT !["LindSyscall"] = @ - 1] /\ UNCHANGED <<own, resp>>
  <2>1. TypeOK'
    BY <1>7 DEF Inv, TypeOK, States, Locked, Take, LindReturns, Functions
  <2>3. Held'
    BY <1>7 DEF Inv, Held, InCall, LindReturns
  <2>4. Borrowed'
    BY <1>7 DEF Inv, TypeOK, Held, Borrowed, LindReturns, Functions
  <2> QED BY <2>1, <1>2, <2>3, <2>4, <1>5 DEF Inv
<1> QED BY <1>6, <1>7 DEF LindReturns

(* ParseResponse reads the attributes.                                     *)
LEMMA GetAttrsInv == Inv /\ GetAttrs => Inv'
<1> SUFFICES ASSUME Inv, GetAttrs PROVE Inv'
  OBVIOUS
<1>g. \A o \in Got(resp) : o \in Attrs
  BY DEF Got, Attrs
<1>o. /\ own' \in [PyObjs -> {0, 1}]
      /\ \A o \in PyObjs : own'[o] = IF o \in Got(resp) THEN 1 ELSE own[o]
  BY <1>g, IncrefAdds DEF Inv, TypeOK, Held, GetAttrs
<1>1. TypeOK'
  BY <1>o DEF Inv, TypeOK, States, Locked, GetAttrs
<1>2. GilPaired'
  BY DEF Inv, GilPaired, Locked, GetAttrs
<1>3. Held'
  BY <1>g, <1>o DEF Inv, Held, InCall, PyObjs, Call, Attrs, GetAttrs
<1>4. Borrowed'
  BY DEF Inv, Borrowed, GetAttrs
<1>5. Stored' /\ ResultMeans'
  BY DEF Inv, Stored, ResultMeans, GetAttrs, Legible
<1>6. CopyWithin'
  <2>1. copied' = -1
    BY DEF Inv, Stored, GetAttrs
  <2>2. Size(row.room) \in Nat
    BY SizeNat DEF Inv
  <2>3. Size(row.room)' = Size(row.room)
    BY DEF GetAttrs, Size
  <2> QED BY <2>1, <2>2, <2>3 DEF CopyWithin
<1> QED BY <1>1, <1>2, <1>3, <1>4, <1>5, <1>6 DEF Inv

(* ParseResponse copies the data.                                          *)
LEMMA CopyInv == Inv /\ Copy => Inv'
<1> SUFFICES ASSUME Inv, Copy PROVE Inv'
  OBVIOUS
<1> DEFINE m == Size(row.max)
           c == CopyData(ToInt(m), resp.len)
<1>s. m \in Nat /\ resp.len \in Nat
  BY SizeNat, SizeAssumption DEF Inv, TypeOK, Responses
<1>t. ToInt(m) \in Int /\ ToInt(m) <= m
  BY <1>s, ToIntBound
<1> HIDE DEF m
<1>c. c \in Int /\ c <= m /\ c <= resp.len /\ (c = resp.len \/ c = ToInt(m))
  BY <1>s, <1>t DEF CopyData
<1> HIDE DEF c
<1>u. copied' = -1 \/ copied' = c
  BY DEF Copy, Inv, Stored, c, m
<1>v. row.num = 1 => copied' = c
  BY DEF Copy, c, m
<1>w. m' = m /\ ToInt(m)' = ToInt(m) /\ (row.max = row.room => Size(row.room)' = m)
  BY DEF Copy, m, Size, ToInt
<1>1. TypeOK'
  BY <1>c, <1>u DEF Inv, TypeOK, States, Locked, refs, Copy
<1>2. GilPaired'
  BY DEF Inv, GilPaired, Locked, Copy
<1>3. Held'
  BY DEF Inv, Held, InCall, refs, Copy
<1>4. Borrowed'
  BY DEF Inv, Borrowed, refs, Copy
<1>5. Stored'
  BY DEF Inv, Stored, Copy
<1>6. ResultMeans'
  <2>1. /\ Legible(resp)' /\ resp'.is_error # "true" /\ ret' = "code"
    BY DEF Inv, Stored, Legible, Copy
  <2>2. row' = row /\ resp' = resp
    BY DEF Copy
  <2>3. row'.num = 1 => copied' <= resp'.len /\ (copied' = resp'.len \/ copied' = ToInt(Size(row.max))')
    BY <2>2, <1>c, <1>v, <1>w DEF m
  <2> QED BY <2>1, <2>3 DEF ResultMeans
<1>7. CopyWithin'
  <2>1. row' = row
    BY DEF Copy
  <2> QED BY <2>1, <1>c, <1>v, <1>w DEF CopyWithin
<1> QED BY <1>1, <1>2, <1>3, <1>4, <1>5, <1>6, <1>7 DEF Inv

-----------------------------------------------------------------------------
(* Every step preserves the invariant.                                     *)
LEMMA NextInv == Inv /\ [Next]_vars => Inv'
<1> SUFFICES ASSUME Inv, [Next]_vars PROVE Inv'
  OBVIOUS
<1>1. CASE SetsTrap \/ ArgTraps \/ CallTraps \/ NullResponse \/ MappingTraps
  BY <1>1, CrashInv DEF SetsTrap, ArgTraps, CallTraps, NullResponse, MappingTraps
<1>2. CASE LindPythonInit \/ Lock \/ CallLind \/ Parse \/ ThreadRuns \/ ThreadYields
  <2>1. UNCHANGED <<refs, answer, errors>>
    BY <1>2 DEF LindPythonInit, Lock, CallLind, Parse, ThreadRuns, ThreadYields
  <2> QED BY <1>2, <2>1, QuietInv
<1>3. CASE Enter \/ BuildSets \/ DropSets \/ Build \/ CallFails \/ LindReturns \/ Drop
  BY <1>3, EnterInv, BuildSetsInv, DropSetsInv, BuildInv, CallFailsInv, LindReturnsInv, DropInv
<1>4. CASE GetAttrs \/ Copy \/ Cleanup \/ EnterMapping \/ Mapping \/ MappingRaises
  BY <1>4, GetAttrsInv, CopyInv, CleanupInv, EnterMappingInv, MappingInv, MappingRaisesInv
<1>5. CASE UNCHANGED vars
  <2>1. UNCHANGED <<pc, gil, context, row, n, own, frefs, resp, ret, copied, errors>>
    BY <1>5 DEF vars, refs, answer
  <2>2. TypeOK' /\ GilPaired' /\ Held' /\ Borrowed' /\ Stored'
    BY <2>1 DEF Inv, TypeOK, GilPaired, Held, Borrowed, Stored
  <2>3. ResultMeans' /\ CopyWithin'
    BY <2>1 DEF Inv, ResultMeans, CopyWithin, Size
  <2> QED BY <2>2, <2>3 DEF Inv
<1> QED BY <1>1, <1>2, <1>3, <1>4, <1>5 DEF Next, MonitorStep

(* So Inv is an invariant.                                                 *)
LEMMA Invariance == Spec => []Inv
BY InitInv, NextInv, PTL DEF Spec

(* Every variable keeps its type; in particular no reference is given back *)
(* twice or taken twice.                                                   *)
THEOREM TypeCorrect == Spec => []TypeOK
<1>1. Inv => TypeOK
  BY DEF Inv
<1> QED BY <1>1, Invariance, PTL

(* MakeLindSysCall and ParseResponse release the interpreter lock on every *)
(* path, and work on Python objects only while they hold it.               *)
THEOREM LockPaired == Spec => []GilPaired
<1>1. Inv => GilPaired
  BY DEF Inv
<1> QED BY <1>1, Invariance, PTL

(* On every path of MakeLindSysCall, ParseResponse, lind_select and the    *)
(* mapping functions the references taken are given back exactly once.     *)
THEOREM ReferencesBalanced == Spec => []RefsBalanced
<1>1. Inv => RefsBalanced
  <2> SUFFICES ASSUME Inv PROVE RefsBalanced
    OBVIOUS
  <2>1. \A o \in PyObjs : own[o] >= 0
    BY DEF Inv, TypeOK
  <2>2. pc = "idle" => \A o \in PyObjs : own[o] = 0
    BY DEF Inv, Held, PyObjs, Call, InCall
  <2>3. pc = "between" => \A o \in Call \cup Attrs : own[o] = 0
    BY DEF Inv, Held, Call
  <2> QED BY <2>1, <2>2, <2>3 DEF RefsBalanced
<1> QED BY <1>1, Invariance, PTL

(* The reference CallPythonFunc's error path gives away never costs a      *)
(* function that is called again.                                          *)
THEOREM FunctionsStayIntact == Spec => []FunctionIntact
<1>1. Inv => FunctionIntact
  BY DEF Inv, Borrowed, FunctionIntact
<1> QED BY <1>1, Invariance, PTL

(* ParseResponse's result and copy mean what the response says.            *)
THEOREM ResultIsMeant == Spec => []ResultMeans
<1>1. Inv => ResultMeans
  BY DEF Inv
<1> QED BY <1>1, Invariance, PTL

(* For every width of int and every size the program passes, CopyData      *)
(* stays within the room of an output whose wrapper states that room.      *)
THEOREM CopyStaysWithin == Spec => []CopyWithin
<1>1. Inv => CopyWithin
  BY DEF Inv
<1> QED BY <1>1, Invariance, PTL
-----------------------------------------------------------------------------
(* The refinement of LindService.  Lind runs only with its functions       *)
(* loaded, and after ParseResponse the result stands for the answer.       *)
Answered ==
  /\ pc = "inlind" => context = "ready"
  /\ pc \in {"cleanup", "unset"} =>
       /\ ret = Service!Value(Outcome(resp))
       /\ Outcome(resp) # "ok" => copied = -1

(* The result is settled by ParseResponse and kept to the end of the call. *)
LEMMA AnsweredStep == Inv' /\ Answered /\ [Next]_vars => Answered'
<1> SUFFICES ASSUME Inv', Answered, [Next]_vars PROVE Answered'
  OBVIOUS
<1>1. pc' = "inlind" => context' = "ready"
  BY DEF Answered, Next, MonitorStep, LindPythonInit, BuildSets, DropSets, SetsTrap,
         ArgTraps, Lock, Build, CallLind, Callable, CallFails, CallTraps, Drop, Parse, NullResponse,
         GetAttrs, Copy, Cleanup, Mapping, MappingRaises, MappingTraps, Crash, Enter,
         EnterMapping, LindReturns, ThreadRuns, ThreadYields, vars
<1>2. CASE pc' = "cleanup"
  <2>1. /\ ret' = Service!Value(Outcome(resp'))
        /\ Outcome(resp') # "ok" => copied' = -1
    BY <1>2 DEF Inv, ResultMeans, Outcome, Service!Value, Legible
  <2> QED BY <1>1, <1>2, <2>1 DEF Answered, Outcome, Legible
<1>3. CASE pc' = "unset"
  <2>1. pc \in {"cleanup", "unset"} /\ UNCHANGED answer
    BY <1>3 DEF Next, MonitorStep, LindPythonInit, BuildSets, DropSets, SetsTrap,
         ArgTraps, Lock, Build, CallLind, CallFails, CallTraps, Drop, Parse, NullResponse,
         GetAttrs, Copy, Cleanup, Mapping, MappingRaises, MappingTraps, Crash, Enter,
         EnterMapping, LindReturns, ThreadRuns, ThreadYields, vars
  <2> QED BY <1>3, <2>1 DEF Answered, answer, Outcome, Legible, Service!Value
<1> QED BY <1>1, <1>2, <1>3 DEF Answered

(* The stage of a call, place by place.                                    *)
LEMMA Stages ==
  ASSUME TypeOK
  PROVE  /\ Stage = "asked" <=> pc \in {"sets", "lock", "build", "call", "inlind"}
         /\ Stage = "mapping" <=> pc \in {"map", "get"}
         /\ Stage = "idle" <=> pc = "idle"
         /\ Stage = "off" <=> pc = "start"
         /\ Stage = "crashed" <=> pc = "crashed"
         /\ Stage = "lost" <=> pc \in {"drop", "between", "attrs"} /\ own["response"] = 0
         /\ Stage = "served" <=> \/ pc \in {"copy", "cleanup", "unset"}
                                 \/ pc \in {"drop", "between", "attrs"} /\ own["response"] = 1
         /\ Back <=> Stage \in {"off", "idle", "mapping"}
         /\ Outcome(resp) \in {"ok", "err", "odd"}
<1>1. own["response"] \in {0, 1}
  BY DEF TypeOK, PyObjs
<1>2. pc \in {"start", "idle", "sets", "lock", "inlind", "between", "unset", "map",
              "get", "crashed", "build", "call", "drop", "attrs", "copy", "cleanup"}
  BY DEF TypeOK, States, Locked
<1> QED BY <1>1, <1>2 DEF Stage, Back, Outcome

(* A trap is a crash.                                                      *)
LEMMA CrashImplements ==
  ASSUME Inv, Inv', Crash, pc \notin {"start", "idle", "crashed"}
  PROVE  Service!Crash
<1>1. Stage' = "crashed" /\ ~Back' /\ context' = context
  BY Stages DEF Inv, Crash, Stage, Back
<1>2. Stage \in {"asked", "served", "lost", "mapping"}
  BY Stages DEF Stage
<1> QED BY <1>1, <1>2 DEF Service!Crash

(* A step inside a stage is no step of the abstract specification.         *)
LEMMA Inside ==
  ASSUME Stage' = Stage, context' = context, Stage \notin {"off", "idle", "mapping"},
         Stage = "served" => Outcome(resp') = Outcome(resp)
  PROVE  UNCHANGED Service!vars
<1>1. ~Back /\ ~Back'
  BY DEF Back
<1> QED BY <1>1 DEF Service!vars, Outcome, Legible
(* Every step of the gateway is a step of LindService or leaves it alone.  *)
LEMMA ServiceStep ==
  Inv /\ Inv' /\ Answered /\ [Next]_vars => [Service!Next]_(Service!vars)
<1> SUFFICES ASSUME Inv, Inv', Answered, [Next]_vars
             PROVE  Service!Next \/ UNCHANGED Service!vars
  OBVIOUS
<1>a. TypeOK /\ TypeOK' /\ Held /\ Held'
  BY DEF Inv
<1>b. own["response"] \in {0, 1} /\ own'["response"] \in {0, 1}
  BY <1>a DEF TypeOK, PyObjs
<1>1. CASE LindPythonInit
  <2>1. CASE pc' = "idle"
    <3>1. Stage = "off" /\ Stage' = "idle" /\ Back /\ Back'
      BY <1>1, <2>1 DEF LindPythonInit, Stage, Back
    <3>2. Service!Start
      BY <1>1, <2>1, <3>1 DEF LindPythonInit, Service!Start, answer
    <3> QED BY <3>2 DEF Service!Next
  <2>2. CASE pc' = "crashed" /\ UNCHANGED context
    <3>1. Stage = "off" /\ Stage' = "crashed" /\ ~Back'
      BY <1>1, <2>2 DEF LindPythonInit, Stage, Back
    <3>2. Service!Crash
      BY <2>2, <3>1 DEF Service!Crash
    <3> QED BY <3>2 DEF Service!Next
  <2> QED BY <1>1, <2>1, <2>2 DEF LindPythonInit
<1>2. CASE Enter
  <2>1. Stage = "idle" /\ Stage' = "asked" /\ Back /\ ~Back' /\ context' = context
    BY <1>2 DEF Enter, Stage, Back
  <2>2. Service!Ask
    BY <2>1 DEF Service!Ask
  <2> QED BY <2>2 DEF Service!Next
<1>3. CASE BuildSets \/ Lock \/ Build \/ CallLind
  <2>1. Stage = "asked" /\ Stage' = "asked" /\ context' = context
    BY <1>3 DEF BuildSets, Lock, Build, CallLind, Stage
  <2> QED BY <2>1, Inside
<1>4. CASE CallFails
  <2>1. own'["response"] = 0
    BY <1>4, <1>a DEF CallFails, Held
  <2>2. Stage = "asked" /\ Stage' = "lost" /\ context' = context /\ ~Back /\ ~Back'
    BY <1>4, <2>1 DEF CallFails, Stage, Back
  <2>3. Service!Lose
    BY <2>2 DEF Service!Lose
  <2> QED BY <2>3 DEF Service!Next
<1>5. CASE LindReturns
  <2>1. Stage = "asked" /\ pc' = "drop" /\ context' = context /\ context = "ready" /\ ~Back
    BY <1>5 DEF LindReturns, Stage, Back, Answered
  <2>2. CASE own'["response"] = 0
    <3>1. Stage' = "lost" /\ ~Back'
      BY <2>1, <2>2 DEF Stage, Back
    <3>2. Service!Lose
      BY <2>1, <3>1 DEF Service!Lose
    <3> QED BY <3>2 DEF Service!Next
  <2>3. CASE own'["response"] = 1
    <3>1. Stage' = "served" /\ ~Back'
      BY <2>1, <2>3 DEF Stage, Back
    <3>2. Outcome(resp') \in {"ok", "err", "odd"}
      BY DEF Outcome
    <3>3. Service!Serve
      BY <2>1, <3>1, <3>2 DEF Service!Serve, Service!Answers, Outcome, Legible
    <3> QED BY <3>3 DEF Service!Next
  <2> QED BY <1>b, <2>2, <2>3
<1>6. CASE Drop
  <2>1. own'["response"] = own["response"]
    BY <1>6 DEF Drop, Decref, PyObjs, Call
  <2>2. Stage' = Stage /\ Stage \in {"lost", "served"} /\ context' = context /\ resp' = resp
    BY <1>6, <2>1 DEF Drop, Stage, answer
  <2> QED BY <2>2, Inside
<1>7. CASE Parse
  <2>1. Stage' = Stage /\ Stage \in {"lost", "served"} /\ context' = context /\ resp' = resp
    BY <1>7 DEF Parse, Stage, refs, answer
  <2> QED BY <2>1, Inside
<1>8. CASE GetAttrs
  <2>1. Stage' = Stage /\ Stage = "served" /\ context' = context /\ resp' = resp
    BY <1>8 DEF GetAttrs, Stage
  <2> QED BY <2>1, Inside
<1>9. CASE Copy
  <2>1. pc = "copy" /\ pc' \in {"cleanup", "crashed"} /\ context' = context /\ resp' = resp
    BY <1>9 DEF Copy
  <2>2. Stage = "served"
    BY <2>1 DEF Stage
  <2>3. CASE pc' = "cleanup"
    <3>1. Stage' = "served"
      BY <2>3 DEF Stage
    <3> QED BY <2>1, <2>2, <3>1, Inside
  <2>4. CASE pc' = "crashed"
    <3>1. Stage' = "crashed" /\ ~Back'
      BY <2>4 DEF Stage, Back
    <3>2. Service!Crash
      BY <2>1, <2>2, <3>1 DEF Service!Crash
    <3> QED BY <3>2 DEF Service!Next
  <2> QED BY <2>1, <2>3, <2>4
<1>10. CASE Cleanup \/ DropSets
  <2>1. /\ pc \in {"cleanup", "unset"} /\ pc' \in {"unset", "idle"}
        /\ context' = context /\ UNCHANGED <<resp, ret, copied>>
    BY <1>10 DEF Cleanup, DropSets, answer
  <2>2. Stage = "served" /\ ~Back
    BY <2>1 DEF Stage, Back
  <2>3. CASE pc' = "unset"
    <3>1. Stage' = "served"
      BY <2>3 DEF Stage
    <3> QED BY <2>1, <2>2, <3>1, Inside
  <2>4. CASE pc' = "idle"
    <3>1. Stage' = "idle" /\ Back'
      BY <2>4 DEF Stage, Back
    <3>2. /\ ret' = Service!Value(Outcome(resp))
          /\ Outcome(resp) # "ok" => copied' = -1
      BY <2>1 DEF Answered
    <3>3. Service!Reply
      BY <2>1, <2>2, <3>1, <3>2 DEF Service!Reply
    <3> QED BY <3>3 DEF Service!Next
  <2> QED BY <2>1, <2>3, <2>4
<1>11. CASE EnterMapping
  <2>1. Stage = "idle" /\ Stage' = "mapping" /\ Back /\ Back' /\ context' = context
    BY <1>11 DEF EnterMapping, Stage, Back
  <2>2. Service!Map
    BY <1>11, <2>1 DEF EnterMapping, Service!Map, answer
  <2> QED BY <2>2 DEF Service!Next
<1>12. CASE Mapping \/ MappingRaises
  <2>1. Stage = "mapping" /\ Stage' = "idle" /\ Back /\ Back' /\ context' = context
    BY <1>12 DEF Mapping, MappingRaises, Stage, Back
  <2>2. Service!Mapped
    BY <1>12, <2>1 DEF Mapping, MappingRaises, Service!Mapped, answer
  <2> QED BY <2>2 DEF Service!Next
<1>13. CASE SetsTrap \/ ArgTraps \/ CallTraps \/ NullResponse \/ MappingTraps
  <2>1. Crash /\ pc \notin {"start", "idle", "crashed"}
    BY <1>13 DEF SetsTrap, ArgTraps, CallTraps, NullResponse, MappingTraps
  <2> QED BY <2>1, CrashImplements DEF Service!Next
<1>14. CASE ThreadRuns \/ ThreadYields \/ UNCHANGED vars
  <2>1. UNCHANGED <<pc, own, context, resp, ret, copied>>
    BY <1>14 DEF ThreadRuns, ThreadYields, vars, refs, answer
  <2> QED BY <2>1 DEF Service!vars, Stage, Back, Outcome, Legible
<1> QED BY <1>1, <1>2, <1>3, <1>4, <1>5, <1>6, <1>7, <1>8, <1>9, <1>10, <1>11, <1>12,
           <1>13, <1>14 DEF Next, MonitorStep

(* MakeLindSysCall, CallPythonFunc and ParseResponse implement LindService *)
(* for every width of int and whatever Lind answers: Lind performs a call  *)
(* at most once, a wrapper returns only with the answer to its own call,   *)
(* and after a null response none returns.                                 *)
THEOREM RefinesService == Spec => ImplementsService
<1>1. Init => Service!Init /\ Answered
  BY DEF Init, Service!Init, Stage, Back, Answered
<1> QED BY <1>1, Invariance, AnsweredStep, ServiceStep, PTL
        DEF Spec, ImplementsService, Service!Spec
=============================================================================
