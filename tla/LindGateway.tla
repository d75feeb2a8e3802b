----------------------------- MODULE LindGateway -----------------------------
(***************************************************************************)
(* The way of a call into the Python side and back: MakeLindSysCall,       *)
(* CallPythonFunc, ParseResponse and CopyData of lind_platform.c, the      *)
(* mapping functions, which go the same way without the interpreter's      *)
(* lock, and LindPythonInit.                                               *)
(*                                                                         *)
(* The interpreter lock (GIL) is shared with the threads of the Python     *)
(* side.  LindPythonInit gives it up; MakeLindSysCall and ParseResponse    *)
(* take and release it, so that other threads run between the two, and     *)
(* while LindSyscall runs.                                                 *)
(*                                                                         *)
(* A reference to a Python object the monitor must give back is counted in *)
(* "own"; "frefs" counts the references that keep the functions of the     *)
(* context alive, of which the monitor only borrows one.                   *)
(***************************************************************************)
EXTENDS Wrappers, Integers

CONSTANTS
  IntMax,      \* the largest int; sizes are unsigned and may exceed it
  StructSize,  \* sizeof of an output structure
  MaxLen,      \* bound: length of the data in a response
  FuncRefs,    \* references to each function when the context is set up
  MaxErrors    \* bound: exceptions of the mapping functions

ASSUME SizeAssumption ==
  /\ IntMax \in Nat /\ StructSize \in 0..IntMax /\ MaxLen \in 0..IntMax
  /\ FuncRefs \in Nat \ {0} /\ MaxErrors \in Nat

Sizes == 0..(IntMax + 1)
Functions == {"LindSyscall", "map_native_to_lind", "get_lind_map_to_native"}

(* Objects the monitor owns a reference to for a time; "sets" stands for   *)
(* the four arguments lind_select builds.                                  *)
Call    == {"args", "callandarg"}
Attrs   == {"is_error", "return_code", "data"}
PyObjs  == Call \cup Attrs \cup {"response", "sets"}

(* A response: what its attributes turn out to be, and the length of its   *)
(* data (or message).                                                      *)
Responses == [is_error : {"absent", "true", "false"},
              code : {"absent", "bad", "int"},
              data : {"absent", "bad", "string"}, len : 0..MaxLen]
NoResponse == [is_error |-> "absent", code |-> "absent", data |-> "absent", len |-> 0]

Locked == {"build", "call", "drop", "attrs", "copy", "cleanup"}
States == {"start", "idle", "sets", "lock", "inlind", "between", "unset", "map",
           "get", "crashed"} \cup Locked

VARIABLES
  pc,       \* where the monitor is
  gil,      \* "free", "monitor" or "thread"
  context,  \* "null", "empty" (no Lind functions) or "ready"
  row, n,   \* the running wrapper and its size argument
  own,      \* references the monitor holds
  frefs,    \* references to the functions of the context
  resp,     \* the response
  ret,      \* ParseResponse's retval: "zero", "code" or "minus1"
  copied,   \* bytes it has copied to the caller's buffer, -1 for none
  errors    \* exceptions of the mapping functions so far

refs   == <<own, frefs>>
answer == <<resp, ret, copied>>
vars   == <<pc, gil, context, row, n, refs, answer, errors>>

Init ==
  /\ pc = "start" /\ gil = "free" /\ context = "null"
  /\ row = Plain /\ n = 0
  /\ own = [o \in PyObjs |-> 0] /\ frefs = [f \in Functions |-> FuncRefs]
  /\ resp = NoResponse /\ ret = "zero" /\ copied = -1 /\ errors = 0

-----------------------------------------------------------------------------
Incref(objs) == own' = [o \in PyObjs |-> IF o \in objs THEN own[o] + 1 ELSE own[o]]
Decref(objs) == own' = [o \in PyObjs |-> IF o \in objs THEN own[o] - 1 ELSE own[o]]

Take == gil = "free" /\ gil' = "monitor"   \* PyGILState_Ensure
Release == gil' = "free"                   \* PyGILState_Release

(* The external side: another thread of the interpreter.                   *)
ThreadRuns ==
  /\ context # "null"
  /\ gil = "free" /\ gil' = "thread"
  /\ UNCHANGED <<pc, context, row, n, refs, answer, errors>>

ThreadYields ==
  /\ gil = "thread" /\ gil' = "free"
  /\ UNCHANGED <<pc, context, row, n, refs, answer, errors>>

(* The monitor uses a null pointer or freed memory.                        *)
Crash ==
  /\ pc' = "crashed"
  /\ UNCHANGED <<gil, context, row, n, refs, answer, errors>>

-----------------------------------------------------------------------------
(* LindPythonInit: Py_Initialize takes the lock, every way out releases    *)
(* it.  A failure leaves no context, or one without the Lind functions;    *)
(* main goes on in either case.  Without REPY_PATH get_repy_path ends the  *)
(* process.                                                                *)
LindPythonInit ==
  /\ pc = "start"
  /\ \/ context' \in {"null", "empty", "ready"} /\ pc' = "idle"
     \/ UNCHANGED context /\ pc' = "crashed"
  /\ UNCHANGED <<gil, row, n, refs, answer, errors>>

(* A handler calls a wrapper.                                              *)
Enter ==
  /\ pc = "idle"
  /\ row' \in Rows /\ n' \in (IF row'.max \in {"size", "units"} THEN Sizes ELSE {0})
  /\ pc' = IF row'.sets THEN "sets" ELSE "lock"
  /\ resp' = NoResponse /\ ret' = "zero" /\ copied' = -1
  /\ UNCHANGED <<gil, context, refs, errors>>

(* lind_select makes its four arguments and gives them back without the    *)
(* lock: a trap when another thread is in the interpreter.                 *)
BuildSets ==
  /\ pc = "sets"
  /\ Incref({"sets"})
  /\ pc' = "lock"
  /\ UNCHANGED <<gil, context, row, n, frefs, answer, errors>>

DropSets ==
  /\ pc = "unset"
  /\ Decref({"sets"})
  /\ pc' = "idle"
  /\ UNCHANGED <<gil, context, row, n, frefs, answer, errors>>

SetsTrap ==
  /\ pc \in {"sets", "unset"} /\ gil = "thread"
  /\ Crash

(* A wild wrapper reads its arguments.                                     *)
ArgTraps ==
  /\ pc \in {"lock", "build"} /\ row.wild
  /\ Crash

(* MakeLindSysCall, up to the call.                                        *)
Lock ==
  /\ pc = "lock"
  /\ Take
  /\ pc' = "build"
  /\ UNCHANGED <<context, row, n, refs, answer, errors>>

(* Building the arguments fails or not; callandarg is null when args is.   *)
Build ==
  /\ pc = "build"
  /\ \E made \in {{}, {"args"}, Call} : Incref(made)
  /\ pc' = "call"
  /\ UNCHANGED <<gil, context, row, n, frefs, answer, errors>>

(* CallPythonFunc with LindSyscall: a missing context traps in             *)
(* PyDict_GetItemString; a missing function or argument is an error.       *)
Callable == context = "ready" /\ own["callandarg"] = 1
CallLind ==
  /\ pc = "call" /\ Callable
  /\ Release /\ pc' = "inlind"
  /\ UNCHANGED <<context, row, n, refs, answer, errors>>
(* The error path gives back a reference that was only borrowed.           *)
CallFails ==
  /\ pc = "call" /\ context # "null" /\ ~Callable
  /\ frefs' = [frefs EXCEPT !["LindSyscall"] = IF context = "ready" THEN @ - 1 ELSE @]
  /\ pc' = "drop"
  /\ UNCHANGED <<gil, context, row, n, own, answer, errors>>
CallTraps ==
  /\ pc = "call" /\ (context = "null" \/ (Callable /\ frefs["LindSyscall"] <= 0))
  /\ Crash

(* External: LindSyscall returns a response or raises, the interpreter     *)
(* lock taken again.                                                       *)
LindReturns ==
  /\ pc = "inlind"
  /\ Take
  /\ \/ \E r \in Responses : resp' = r /\ Incref({"response"}) /\ UNCHANGED frefs
     \/ frefs' = [frefs EXCEPT !["LindSyscall"] = @ - 1] /\ UNCHANGED <<own, resp>>
  /\ pc' = "drop"
  /\ UNCHANGED <<context, row, n, ret, copied, errors>>

(* A faulty variant: the inner argument list is forgotten.                 *)
DropForgetsArgs ==
  /\ pc = "drop"
  /\ Decref({o \in {"callandarg"} : own[o] > 0})
  /\ Release /\ pc' = "between"
  /\ UNCHANGED <<context, row, n, frefs, answer, errors>>
(* A faulty variant: the lock is kept when there is no response.           *)
DropKeepsLock ==
  /\ pc = "drop"
  /\ Decref({o \in Call : own[o] > 0})
  /\ gil' = IF own["response"] = 0 THEN gil ELSE "free"
  /\ pc' = "between"
  /\ UNCHANGED <<context, row, n, frefs, answer, errors>>

(* The end of MakeLindSysCall.                                             *)
Drop ==
  /\ pc = "drop"
  /\ Decref({o \in Call : own[o] > 0})
  /\ Release /\ pc' = "between"
  /\ UNCHANGED <<context, row, n, frefs, answer, errors>>

-----------------------------------------------------------------------------
(* ParseResponse.                                                          *)
Parse ==
  /\ pc = "between"
  /\ Take /\ pc' = "attrs"
  /\ UNCHANGED <<context, row, n, refs, answer, errors>>

(* A faulty variant: a null response is an unreadable one.                 *)
NullUnreadable ==
  /\ pc = "attrs" /\ own["response"] = 0
  /\ pc' = "cleanup"
  /\ UNCHANGED <<gil, context, row, n, refs, answer, errors>>

(* The null response of a failed call traps.                               *)
NullResponse ==
  /\ pc = "attrs" /\ own["response"] = 0
  /\ Crash

(* The attributes, in the order they are asked for; the first that is      *)
(* absent, and after that a code or text of the wrong type, is an error.   *)
(* Missing data are noticed by the exception still pending when the code   *)
(* is read.                                                                *)
Got(r) ==
  IF r.is_error = "absent" THEN {}
  ELSE IF r.code = "absent" THEN {"is_error"}
  ELSE IF r.data = "absent" THEN {"is_error", "return_code"} ELSE Attrs
Legible(r) == r.is_error # "absent" /\ r.code = "int" /\ r.data = "string"

(* A faulty variant: missing data are not noticed.                         *)
GetAttrsLoose ==
  /\ pc = "attrs" /\ own["response"] = 1
  /\ Incref(Got(resp))
  /\ IF resp.is_error # "absent" /\ resp.code = "int" /\ resp.data # "bad"
     THEN /\ ret' = IF resp.is_error = "true" THEN "minus1" ELSE "code"
          /\ pc' = IF resp.is_error = "true" THEN "cleanup" ELSE "copy"
     ELSE ret' = ret /\ pc' = "cleanup"
  /\ UNCHANGED <<gil, context, row, n, frefs, resp, copied, errors>>

GetAttrs ==
  /\ pc = "attrs" /\ own["response"] = 1
  /\ Incref(Got(resp))
  /\ IF Legible(resp)
     THEN /\ ret' = IF resp.is_error = "true" THEN "minus1" ELSE "code"
          /\ pc' = IF resp.is_error = "true" THEN "cleanup" ELSE "copy"
     ELSE ret' = ret /\ pc' = "cleanup"
  /\ UNCHANGED <<gil, context, row, n, frefs, resp, copied, errors>>

(* Conversion of an unsigned size to int.                                  *)
ToInt(x) == ((x + IntMax + 1) % (2 * (IntMax + 1))) - (IntMax + 1)
Size(kind) == IF kind = "struct" THEN StructSize
              ELSE IF kind = "size" THEN n
              ELSE IF kind = "units" THEN n * StructSize ELSE 0

(* A faulty variant: the data decide how much is copied.                   *)
CopyUnclipped(maxlen, srclen) == srclen
(* CopyData: the number of bytes given to memcpy.                          *)
CopyData(maxlen, srclen) == IF maxlen < srclen THEN maxlen ELSE srclen

(* A negative number of bytes is a huge one for memcpy, which traps.  For  *)
(* more than one output CopyMultiDataVa is given the length of the data as *)
(* the number of outputs: with any data at all it reads lengths beyond     *)
(* them and takes buffers from beyond the argument list.                   *)
Copy ==
  /\ pc = "copy"
  /\ \/ /\ row.num = 0 \/ (row.num > 1 /\ resp.len = 0)
        /\ pc' = "cleanup" /\ UNCHANGED copied
     \/ /\ row.num = 1
        /\ copied' = CopyData(ToInt(Size(row.max)), resp.len)
        /\ pc' = IF copied' < 0 THEN "crashed" ELSE "cleanup"
     \/ /\ row.num > 1 /\ resp.len > 0
        /\ pc' \in {"cleanup", "crashed"} /\ UNCHANGED copied
  /\ UNCHANGED <<gil, context, row, n, refs, resp, ret, errors>>

(* A faulty variant: only the good way out gives the attributes back.      *)
CleanupLeaks ==
  /\ pc = "cleanup"
  /\ Decref({o \in {"response"} \cup (IF Legible(resp) THEN Attrs ELSE {}) : own[o] > 0})
  /\ Release /\ pc' = IF row.sets THEN "unset" ELSE "idle"
  /\ UNCHANGED <<context, row, n, frefs, answer, errors>>

(* Both ways out; lind_select gives its arguments back after that.         *)
Cleanup ==
  /\ pc = "cleanup"
  /\ Decref({o \in Attrs \cup {"response"} : own[o] > 0})
  /\ Release /\ pc' = IF row.sets THEN "unset" ELSE "idle"
  /\ UNCHANGED <<context, row, n, frefs, answer, errors>>

-----------------------------------------------------------------------------
(* add_mapping and get_mapping: CallPythonFunc without the lock.  Another  *)
(* thread that runs meanwhile may see and leave anything (a trap).         *)
EnterMapping ==
  /\ pc = "idle"
  /\ pc' \in {"map", "get"}
  /\ Incref({"args"})
  /\ UNCHANGED <<gil, context, row, n, frefs, answer, errors>>

MapFunction == IF pc = "map" THEN "map_native_to_lind" ELSE "get_lind_map_to_native"

Mapping ==
  /\ pc \in {"map", "get"}
  /\ context = "ready"
  /\ Decref({"args"}) /\ pc' = "idle"
  /\ UNCHANGED <<gil, context, row, n, frefs, answer, errors>>

(* An exception, or no such function: add_mapping reports it and goes on.  *)
MappingRaises ==
  /\ pc = "map" /\ context # "null"
  /\ IF context = "ready"
     THEN /\ errors < MaxErrors /\ errors' = errors + 1
          /\ frefs' = [frefs EXCEPT ![MapFunction] = @ - 1]
     ELSE UNCHANGED <<errors, frefs>>
  /\ Decref({"args"}) /\ pc' = "idle"
  /\ UNCHANGED <<gil, context, row, n, answer>>

(* A null context, get_mapping's test of a null result, a function that    *)
(* has been freed, a thread inside the interpreter.                        *)
MappingTraps ==
  /\ pc \in {"map", "get"}
  /\ \/ context = "null" \/ pc = "get" \/ gil = "thread"
     \/ frefs[MapFunction] <= 0
  /\ Crash

-----------------------------------------------------------------------------
MonitorStep ==
  \/ LindPythonInit \/ BuildSets \/ DropSets \/ SetsTrap \/ ArgTraps \/ Lock \/ Build \/ CallLind \/ CallFails
  \/ CallTraps \/ Drop \/ Parse \/ NullResponse \/ GetAttrs \/ Copy \/ Cleanup
  \/ Mapping \/ MappingRaises \/ MappingTraps

Next == MonitorStep \/ Enter \/ EnterMapping \/ LindReturns \/ ThreadRuns \/ ThreadYields

Spec == Init /\ [][Next]_vars

-----------------------------------------------------------------------------
(* Properties.                                                             *)

(* Every variable keeps its type.                                          *)
TypeOK ==
  /\ pc \in States /\ gil \in {"free", "monitor", "thread"}
  /\ context \in {"null", "empty", "ready"}
  /\ row \in Rows /\ n \in Sizes
  /\ own \in [PyObjs -> {0, 1}] /\ frefs \in [Functions -> Int]
  /\ resp \in Responses /\ ret \in {"zero", "code", "minus1"}
  /\ copied \in Int /\ errors \in 0..MaxErrors

(* The monitor is inside the interpreter with the lock in its hand and     *)
(* never keeps the lock when it leaves, on any path, errors included;      *)
(* lind_select's arguments and the mapping functions go without it.        *)
GilPaired == pc # "crashed" => (pc \in Locked <=> gil = "monitor")

(* Between calls the monitor holds no reference, between the two halves of *)
(* a call only the response (and lind_select's arguments), and it never    *)
(* gives back what it does not hold.                                       *)
RefsBalanced ==
  /\ \A o \in PyObjs : own[o] >= 0
  /\ pc = "idle" => \A o \in PyObjs : own[o] = 0
  /\ pc = "between" => \A o \in Call \cup Attrs : own[o] = 0

(* CallPythonFunc gives back a reference it does not own when a call       *)
(* fails; yet LindSyscall and get_lind_map_to_native are intact whenever   *)
(* they are called, because after such a failure nothing is called again.  *)
FunctionIntact ==
  pc \in {"call", "get"} =>
    /\ frefs["LindSyscall"] = FuncRefs
    /\ frefs["get_lind_map_to_native"] = FuncRefs

(* What a wrapper's caller gets: -1 for an error response, the code and as *)
(* much of the data as the output takes for a success, and 0 with nothing  *)
(* copied for a response that lacks an attribute or has one of a wrong     *)
(* type.                                                                   *)
ResultMeans ==
  pc = "cleanup" =>
    IF ~Legible(resp) THEN ret = "zero" /\ copied = -1
    ELSE IF resp.is_error = "true" THEN ret = "minus1" /\ copied = -1
    ELSE /\ ret = "code"
         /\ row.num = 1 => /\ copied <= resp.len
                           /\ copied = resp.len \/ copied = ToInt(Size(row.max))

(* Data never run over the room the handler has for them, unless the       *)
(* program may claim more room than there is (getsockname, getsockopt,     *)
(* poll) or the wrapper announces several outputs (recvfrom).              *)
CopyWithin ==
  pc = "cleanup" /\ row.num = 1 /\ row.max = row.room => copied <= Size(row.room)
(* What Lind has answered, as its caller may tell it.                      *)
Outcome(r) == IF ~Legible(r) THEN "odd" ELSE IF r.is_error = "true" THEN "err" ELSE "ok"

(* The states of LindService: the answer exists from the return of         *)
(* LindSyscall on, the wrapper's result counts once it is back.            *)
Stage ==
  IF pc = "start" THEN "off"
  ELSE IF pc \in {"idle", "crashed"} THEN pc
  ELSE IF pc \in {"map", "get"} THEN "mapping"
  ELSE IF pc \in {"sets", "lock", "build", "call", "inlind"} THEN "asked"
  ELSE IF pc \in {"drop", "between", "attrs"} /\ own["response"] = 0 THEN "lost"
  ELSE "served"
Back == Stage \in {"off", "idle", "mapping"}

Service == INSTANCE LindService WITH
  st     <- Stage,
  ready  <- context = "ready",
  answer <- IF Stage = "served" THEN Outcome(resp) ELSE "none",
  back   <- IF Back THEN ret ELSE "zero",
  filled <- Back /\ copied # -1

(* The gateway implements LindService: Lind is asked once per call, and a  *)
(* wrapper returns only with the answer to this call; when CallPythonFunc  *)
(* has returned a null pointer no wrapper returns at all.                  *)
ImplementsService == Service!Spec
=============================================================================
