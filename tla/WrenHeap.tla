------------------------------ MODULE WrenHeap ------------------------------
(***************************************************************************)
(* The heap of the VM: its collector (wrenCollectGarbage in wren_vm.c, the *)
(* blacken functions and wrenFreeObj in wren_value.c), the handles and     *)
(* temporary roots, and the functions that allocate several objects.       *)
(*                                                                         *)
(* Every allocation may run the collector, which knows the values on the   *)
(* stack of the current fiber, the modules, the handles and the temporary  *)
(* roots, and nothing of the pointers in the C functions that are running. *)
(* So a C function is a straight-line program here (a task), over          *)
(* registers that stand for its C variables; the collector may run at each *)
(* of its allocations.                                                     *)
(*                                                                         *)
(* Abstracted: sizes (any allocation may be the one that passes nextGC),   *)
(* the order of marking, and values that are not objects.  What is never   *)
(* collected is not an object here: built-in classes, and the names of     *)
(* classes and modules, which are constants of the running code.  The links*)
(* between fibers are in WrenFibers and WrenScheduler.                     *)
(***************************************************************************)
EXTENDS Naturals, Sequences, FiniteSets, SequencesExt

CONSTANTS
  Objects,       (* Memory for the objects of a run.                       *)
  None,          (* No object, or one that is never collected.             *)
  MaxTempRoots,  (* WREN_MAX_TEMP_ROOTS, 5                                 *)
  MaxElements,   (* Bound on the number of elements of a list.             *)
  MaxHandles,    (* Bound on the number of handles.                        *)
  KeepsClasses,  (* Whether foreign classes stay in their variables, and   *)
                 (* other classes while they are being inherited from.     *)
  ModulesGrow    (* Whether a module is imported that makes vm->modules    *)
                 (* grow: the 13th, the 25th, and so on.                   *)

ASSUME HeapAssumption ==
  /\ None \notin Objects
  /\ MaxTempRoots \in Nat /\ MaxElements \in Nat /\ MaxHandles \in Nat
  /\ KeepsClasses \in BOOLEAN /\ ModulesGrow \in BOOLEAN

VARIABLES
  heap,        (* The list from vm->first: allocated objects, newest first.*)
  kind,        (* Obj.type; "foreignClass" is a class of foreign objects.  *)
  links,       (* The objects each object points at.                       *)
  stack,       (* The objects on the stack of vm->fiber.                   *)
  modules,     (* The objects in vm->modules.                              *)
  handles,     (* The objects that vm->handles hold.                       *)
  tempRoots,   (* vm->tempRoots                                            *)
  task,        (* What the running C function has still to do.             *)
  register,    (* Its C variables.                                         *)
  sweeping,    (* The objects that a collection has still to free.         *)
  phase        (* "running", or "freed" once wrenFreeVM was called.        *)

objects == <<heap, kind, links>>
roots == <<stack, modules, handles, tempRoots>>
vars == <<objects, roots, task, register, sweeping, phase>>

Kinds ==
  {"string", "list", "class", "foreignClass", "instance", "foreign", "module",
   "fn", "closure"}
Registers ==
  {"value", "list", "name", "metaclassName", "metaclass", "class", "superclass",
   "object", "module", "fn", "closure"}

Allocated == ToSet(heap)

-----------------------------------------------------------------------------
(***************************************************************************)
(* The steps of C functions.                                               *)
(***************************************************************************)
Step(name, r, s, k, from) == [do |-> name, r |-> r, s |-> s, kind |-> k, from |-> from]

(* Allocate an object that points at the objects in the registers from.    *)
New(r, k, from) == Step("new", r, r, k, from)
(* Allocate memory that is not an object, such as a buffer, and then read  *)
(* through the pointers in the registers from.                             *)
Grow(from) == Step("grow", "value", "value", "string", from)
(* wrenPushRoot and wrenPopRoot *)
Push(r) == Step("push", r, r, "string", {})
Pop == Step("pop", "value", "value", "string", {})
(* Make r point at s, or no longer.                                        *)
Link(r, s) == Step("link", r, s, "string", {})
Unlink(r, s) == Step("unlink", r, s, "string", {})
(* Put on the stack of the fiber, or take off it when it is the only       *)
(* reference to the object.                                                *)
Keep(r) == Step("keep", r, r, "string", {})
Take(r) == Step("take", r, r, "string", {})
(* Enter a module in vm->modules; hold an object with a handle.            *)
Enter(r) == Step("enter", r, r, "string", {})
Hold(r) == Step("hold", r, r, "string", {})

Allocates(step) == step.do \in {"new", "grow"}

(* The registers that a step uses. *)
Reads(step) ==
  CASE Allocates(step) -> step.from
    [] step.do = "pop" -> {}
    [] OTHER -> {step.r, step.s}

(* wrenNewList: "Allocate this before the list object in case it triggers  *)
(* a GC which would free the list."                                        *)
NewListCode == <<Grow({}), New("list", "list", {}), Keep("list")>>

(* list_add: wrenValueBufferWrite; wrenListInsert pushes the value.        *)
ListInsertCode == <<Push("value"), Grow({}), Pop, Link("list", "value")>>

(* wrenListRemoveAt; wrenMapRemoveKey has the same form.                   *)
ListRemoveCode ==
  <<Unlink("list", "value"), Push("value"), Grow({}), Pop, Keep("value")>>

(* wrenMakeHandle *)
MakeHandleCode == <<Push("value"), Grow({}), Pop, Hold("value")>>

(* wrenNewSingleClass.  It makes the class a root while its tables are     *)
(* initialised, which allocates nothing.                                   *)
NewSingleClassCode(r, name, k) == <<New(r, k, {name})>>

(* wrenBindSuperclass: the methods of the superclass are copied into a     *)
(* buffer that grows.                                                      *)
BindSuperclassCode(r, superclass) ==
  <<Link(r, superclass), Grow({superclass})>>

(* Mutation: the metaclass is not pushed while the class is allocated.     *)
NewClassCodeUnrooted(k) ==
  <<New("metaclassName", "string", {}), Push("metaclassName")>>
    \o NewSingleClassCode("metaclass", "metaclassName", "class")
    \o <<Pop, Grow({"metaclass"})>>
    \o NewSingleClassCode("class", "name", k)
    \o <<Push("class"), Link("class", "metaclass")>>
    \o BindSuperclassCode("class", "superclass")
    \o <<Pop>>

(* wrenNewClass.  The superclass of the metaclass is Class.                *)
NewClassCode(k) ==
  <<New("metaclassName", "string", {}), Push("metaclassName")>>
    \o NewSingleClassCode("metaclass", "metaclassName", "class")
    \o <<Pop, Push("metaclass"), Grow({})>>
    \o NewSingleClassCode("class", "name", k)
    \o <<Push("class"), Link("class", "metaclass")>>
    \o BindSuperclassCode("class", "superclass")
    \o <<Pop, Pop>>

(* createClass: the slot of the superclass is given up before the class is *)
(* made.  For a foreign class, bindForeignClass adds symbols and methods.  *)
CreateClassCode(k) ==
  <<Take("superclass")>> \o NewClassCode(k) \o <<Keep("class"), Grow({})>>

(* CODE_CONSTRUCT, and CODE_FOREIGN_CONSTRUCT with an allocator that calls *)
(* wrenSetSlotNewForeign(vm, 0, 0, size): the object takes the slot of its *)
(* class.                                                                  *)
ConstructCode(k) == <<New("object", k, {"class"}), Take("class"), Keep("object")>>

(* compileInModule: wrenNewModule, wrenMapSet into vm->modules, the        *)
(* variables of the core module.  Compiled code does not point at its      *)
(* module for the collector (blackenFn).                                   *)
NewModuleCode ==
  <<New("module", "module", {})>>
    \o (IF ModulesGrow THEN <<Grow({})>> ELSE <<>>)
    \o <<Enter("module"), Grow({"module"})>>

(* importModule, to the closure that runs the module ...                   *)
ImportCode ==
  <<Push("name")>> \o NewModuleCode
    \o <<New("fn", "fn", {}), Push("fn"), New("closure", "closure", {"fn"}), Pop,
         Pop, Keep("closure")>>

(* Mutation: the error path does not pop the name.                         *)
ImportFailsCodeUnpopped(found) ==
  <<Push("name")>> \o (IF found THEN NewModuleCode ELSE <<>>)
    \o <<New("value", "string", {}), Keep("value")>>

(* ... or to the error that it was not found, or does not compile.         *)
ImportFailsCode(found) ==
  <<Push("name")>> \o (IF found THEN NewModuleCode ELSE <<>>)
    \o <<New("value", "string", {}), Pop, Keep("value")>>

-----------------------------------------------------------------------------
Init ==
  /\ heap = <<>>
  /\ kind = [o \in Objects |-> "string"] /\ links = [o \in Objects |-> {}]
  /\ stack = {} /\ modules = {} /\ handles = {} /\ tempRoots = <<>>
  /\ task = <<>> /\ register = [r \in Registers |-> None]
  /\ sweeping = {}
  /\ phase = "running"

IsClass(o) == kind[o] \in {"class", "foreignClass"}

(* What the blacken functions mark from o: everything it points at, except *)
(* that blackenForeign does not mark the class.                            *)
Blackened(o) == IF kind[o] = "foreign" THEN {} ELSE links[o]

Roots == (modules \cup ToSet(tempRoots) \cup stack \cup handles) \ {None}

(* The objects that are marked from the objects of S. *)
Marked(S) ==
  LET Closed(T) == \A o \in T : Blackened(o) \subseteq T
  IN {o \in Objects : \A T \in SUBSET Objects : S \subseteq T /\ Closed(T) => o \in T}

(* Wren code, or the host, is about to do something. *)
Idle == phase = "running" /\ task = <<>> /\ sweeping = {}

(* Bound: a C function runs when there is memory for what it allocates,    *)
(* once the collector has run.                                             *)
HasMemory(code) ==
  Len(SelectSeq(code, LAMBDA step : step.do = "new"))
    <= Cardinality(Objects \ Marked(Roots))

(* A C function starts, with the objects args in its variables. *)
Start(code, args) ==
  /\ Idle /\ HasMemory(code)
  /\ task' = code
  /\ register' = [r \in Registers |-> IF r \in DOMAIN args THEN args[r] ELSE None]
  /\ UNCHANGED <<objects, roots, sweeping, phase>>

(* A string, or any other object that comes into being on its own. *)
NewString == Start(<<New("value", "string", {}), Keep("value")>>, [value |-> None])

NewList == Start(NewListCode, [list |-> None])

(* Bound: lists of strings. *)
ListInsert(l, o) ==
  /\ kind[l] = "list" /\ kind[o] = "string" /\ {l, o} \subseteq stack
  /\ Cardinality(links[l]) < MaxElements
  /\ Start(ListInsertCode, [list |-> l, value |-> o])

ListRemove(l, o) ==
  /\ kind[l] = "list" /\ l \in stack /\ o \in links[l]
  /\ Start(ListRemoveCode, [list |-> l, value |-> o])

CreateClass(superclass, k) ==
  /\ \/ superclass = None
     \/ superclass \in stack /\ kind[superclass] = "class"
  /\ Start(CreateClassCode(k), [superclass |-> superclass])

Construct(c) ==
  /\ c \in stack /\ IsClass(c)
  /\ Start(ConstructCode(IF kind[c] = "class" THEN "instance" ELSE "foreign"),
           [class |-> c])

Import ==
  \/ Start(ImportCode, [name |-> None])
  \/ \E found \in BOOLEAN : Start(ImportFailsCode(found), [name |-> None])

MakeHandle(o) ==
  /\ o \in stack \ handles /\ Cardinality(handles) < MaxHandles
  /\ Start(MakeHandleCode, [value |-> o])

ReleaseHandle(o) ==
  /\ Idle /\ o \in handles
  /\ handles' = handles \ {o}
  /\ UNCHANGED <<objects, stack, modules, tempRoots, task, register, sweeping,
                 phase>>

(* A value goes out of scope. *)
Drop(o) ==
  /\ Idle /\ o \in stack
  /\ ~(KeepsClasses /\ kind[o] = "foreignClass")
  /\ stack' = stack \ {o}
  /\ UNCHANGED <<objects, modules, handles, tempRoots, task, register, sweeping,
                 phase>>

-----------------------------------------------------------------------------
(***************************************************************************)
(* The running C function.                                                 *)
(***************************************************************************)

(* Mutation: new objects go to the end of the list.                        *)
ListedLast(o) == heap \o <<o>>

(* initObj: a new object is the first of the list. *)
Listed(o) == <<o>> \o heap

(* The objects in the registers rs; a C variable may be NULL. *)
InRegisters(rs) == {register[r] : r \in rs} \ {None}

(* The registers that the steps after this one use. *)
RegistersInUse(code) == UNION {Reads(code[i]) : i \in DOMAIN code}

(* A C variable that is not used again is as good as cleared. *)
Needed(registers) ==
  [r \in Registers |-> IF r \in RegistersInUse(Tail(task)) THEN registers[r] ELSE None]

DoNew(step) ==
  \E o \in Objects \ Allocated :
    /\ heap' = Listed(o)
    /\ kind' = [kind EXCEPT ![o] = step.kind]
    /\ links' = [links EXCEPT ![o] = InRegisters(step.from)]
    /\ register' = Needed([register EXCEPT ![step.r] = o])

SetLinks(o, S) == links' = [links EXCEPT ![o] = S]

Execute ==
  /\ sweeping = {} /\ task # <<>>
  /\ task' = Tail(task)
  /\ LET step == Head(task)
         o    == register[step.r]
     IN /\ IF step.do = "new" THEN DoNew(step)
           ELSE /\ UNCHANGED <<heap, kind>> /\ register' = Needed(register)
                /\ CASE step.do = "link" -> SetLinks(o, links[o] \cup InRegisters({step.s}))
                     [] step.do = "unlink" -> SetLinks(o, links[o] \ InRegisters({step.s}))
                     [] OTHER -> UNCHANGED links
        /\ stack' = CASE step.do = "keep" -> stack \cup {o}
                      [] step.do = "take" /\ ~KeepsClasses -> stack \ {o}
                      [] OTHER -> stack
        /\ modules' = IF step.do = "enter" THEN modules \cup {o} ELSE modules
        /\ handles' = IF step.do = "hold" THEN handles \cup {o} ELSE handles
        /\ tempRoots' = CASE step.do = "push" -> Append(tempRoots, o)
                          [] step.do = "pop" -> Front(tempRoots)
                          [] OTHER -> tempRoots
  /\ UNCHANGED <<sweeping, phase>>

-----------------------------------------------------------------------------
(***************************************************************************)
(* The collector.                                                          *)
(***************************************************************************)

(* The objects that the sweep frees. *)
Unmarked(marked) == Allocated \ marked

(* wrenReallocate runs the collector before it allocates. *)
Collect ==
  /\ sweeping = {} /\ task # <<>> /\ Allocates(Head(task))
  /\ Unmarked(Marked(Roots)) # {}
  /\ sweeping' = Unmarked(Marked(Roots))
  /\ UNCHANGED <<objects, roots, task, register, phase>>

(* wrenFreeVM, when the host has released its handles. *)
FreeVM ==
  /\ Idle /\ handles = {}
  /\ phase' = "freed" /\ sweeping' = Allocated
  /\ stack' = {} /\ modules' = {}
  /\ UNCHANGED <<objects, handles, tempRoots, task, register>>

(* Both go along the list from vm->first: where the next object to free is.*)
SweepComesTo(i) == heap[i] \in sweeping /\ \A j \in 1 .. i - 1 : heap[j] \notin sweeping

(* wrenFreeObj of that object.                                             *)
Free ==
  \E i \in DOMAIN heap :
    /\ SweepComesTo(i)
    /\ heap' = RemoveAt(heap, i)
    /\ kind' = [kind EXCEPT ![heap[i]] = "string"]
    /\ links' = [links EXCEPT ![heap[i]] = {}]
    /\ sweeping' = sweeping \ {heap[i]}
    /\ UNCHANGED <<roots, task, register, phase>>

Ended == phase = "freed" /\ sweeping = {} /\ UNCHANGED vars

Next ==
  \/ NewString \/ NewList \/ Import
  \/ \E o \in Objects :
       \/ Construct(o) \/ MakeHandle(o) \/ ReleaseHandle(o) \/ Drop(o)
       \/ \E p \in Objects : ListInsert(o, p) \/ ListRemove(o, p)
  \/ \E o \in Objects \cup {None}, k \in {"class", "foreignClass"} : CreateClass(o, k)
  \/ Execute \/ Collect \/ Free \/ FreeVM \/ Ended

Spec == Init /\ [][Next]_vars

-----------------------------------------------------------------------------
TypeOK ==
  /\ heap \in Seq(Objects) /\ IsInjective(heap)
  /\ kind \in [Objects -> Kinds]
  /\ links \in [Objects -> SUBSET Objects]
  /\ \A S \in {stack, modules, handles, sweeping} : S \subseteq Objects
  /\ register \in [Registers -> Objects \cup {None}]
  /\ tempRoots \in Seq(Objects \cup {None})
  /\ Len(tempRoots) <= MaxTempRoots

(* The objects that a C function will still use: registers that a later    *)
(* step reads.                                                             *)
InUse == InRegisters(RegistersInUse(task))

(* "After a handle is acquired, and until it is released, this ensures the *)
(* garbage collector will not reclaim the object it references." (wren.h), *)
(* and the same of whatever Wren code can reach and of the variables of    *)
(* the C functions, at every allocation they make: nothing that is used    *)
(* again, nor what it points at, is freed.                                 *)
NothingInUseIsFreed ==
  \A o \in Marked(Roots \cup InUse) : {o} \cup links[o] \subseteq Allocated

(* wrenFinalizeForeign looks the finalizer up in the class of the object:  *)
(* when the sweep comes to a foreign object, its class is still there,     *)
(* also when the whole VM is freed.                                        *)
FinalizerFindsClass ==
  \A i \in DOMAIN heap :
    SweepComesTo(i) /\ kind[heap[i]] = "foreign" => links[heap[i]] \subseteq Allocated

(* Temporary roots have stack semantics: each C function releases the ones *)
(* it pushed, on its error paths too.  A root that stays would keep its    *)
(* object for good, and in the end overflow vm->tempRoots ("Too many       *)
(* temporary roots.").                                                     *)
TempRootsBalanced == task = <<>> => tempRoots = <<>>

=============================================================================
