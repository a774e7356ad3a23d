--------------------------- MODULE WrenInterpreter ---------------------------
(***************************************************************************)
(* The bytecode interpreter of wren_vm.c on one fiber: runInterpreter with   *)
(* an action per kind of instruction, over closures, upvalues, classes,      *)
(* instances and modules.  Programs are compiled by the constant Compiler,    *)
(* WrenCompiler in the runs, the main module first and an imported one when   *)
(* IMPORT_MODULE asks for it.                                                 *)
(*                                                                           *)
(* A pointer into the stack of the fiber is <<base, index>>: base changes     *)
(* when growing the stack moves it, and what an old pointer reads is Garbage.  *)
(* An error ends the run, as it does on a root fiber; WrenFibers has the rest. *)
(***************************************************************************)
EXTENDS WrenObjects

CONSTANTS
    Programs,        \* the programs to run
    Source(_, _),    \* the text of a module of a program, <<>> if the host has none
    Compiler(_, _, _, _, _),   \* Compile of WrenCompiler
    Binder(_, _, _, _),        \* BindMethodCode of WrenCompiler
    View(_, _, _),   \* a view of a function that is called with some number of values
    Meaning(_),      \* what a program has to print and how it has to end
    Moves            \* whether growing the stack may move it: a set of booleans

ASSUME InterpreterAssumption == Moves \subseteq BOOLEAN /\ Moves /= {}

VARIABLES
    program,   \* the program that runs
    vm,        \* modules, lastModule, methodNames, output and result
    fiber      \* stack, base, capacity, frames and openUpvalues

vars == <<program, heap, vm, fiber>>

Garbage == <<"garbage", 0>>
NoModule == "no module"

-----------------------------------------------------------------------------
\* The state.

CoreVariables ==
    [i \in DOMAIN CoreClasses |-> <<CoreClasses[i].name, <<"class", i>> >>]

Init ==
    /\ program \in Programs
    /\ heap = [fns |-> <<>>, closures |-> <<>>, upvalues |-> <<>>, classes |-> <<>>,
               objects |-> <<>>]
    /\ vm = [modules |-> [m \in {} |-> <<>>], lastModule |-> NoModule,
             methodNames |-> <<>>, output |-> <<>>, result |-> "ready"]
    /\ fiber = [stack |-> <<>>, base |-> 0, capacity |-> 1, frames |-> <<>>,
                openUpvalues |-> <<>>]

Frame == Last(fiber.frames)
Closure == heap.closures[Frame.closure]
Function == heap.fns[Closure.fn]
Instruction == Function.code[Frame.ip + 1]
Byte(n) == Function.code[Frame.ip + 1 + n][2]
Short(n) == ReadShort(Function.code, Frame.ip + n)

Running(ops) == vm.result = "running" /\ Instruction[1] \in ops

\* Push, drop and replace on the stack, moving on by n bytes of code.
Advanced(n) == [fiber.frames EXCEPT ![Len(fiber.frames)].ip = @ + n]
Stacked(stack, n) == fiber' = [fiber EXCEPT !.stack = stack, !.frames = Advanced(n)]
Dropped(n) == SubSeq(fiber.stack, 1, Len(fiber.stack) - n)
Peek == Last(fiber.stack)
Peek2 == fiber.stack[Len(fiber.stack) - 1]

\* A pointer into the stack.
Read(p) ==
    IF p[1] = fiber.base /\ p[2] < Len(fiber.stack) THEN fiber.stack[p[2] + 1] ELSE Garbage
Written(p, v) ==
    IF p[1] = fiber.base /\ p[2] < Len(fiber.stack)
    THEN [fiber.stack EXCEPT ![p[2] + 1] = v] ELSE fiber.stack
Slot(n) == <<Frame.start[1], Frame.start[2] + n>>

Stop(result) ==
    /\ vm' = [vm EXCEPT !.result = result]
    /\ UNCHANGED <<program, heap, fiber>>
RuntimeError == Stop("error")
AssertionFails == Stop("assertion failed")

-----------------------------------------------------------------------------
\* Calls.

PowerOf2Ceil(n) ==
    LET power[k \in 0..n] == IF k <= 1 THEN 1 ELSE 2 * power[(k + 1) \div 2]
    IN  power[n]

\* wrenEnsureStack: every pointer into a stack that moved is corrected.
Moved(p, base) == <<base, p[2]>>
EnsureStack(f, needed, moves) ==
    IF f.capacity >= needed THEN f
    ELSE LET base == IF moves THEN f.base + 1 ELSE f.base
         IN  [f EXCEPT !.capacity = PowerOf2Ceil(needed), !.base = base,
                       !.frames = [i \in DOMAIN @ |->
                                      [@[i] EXCEPT !.start = Moved(f.frames[i].start, base)]]]
\* Mutation: leaves the upvalues pointing into the old stack.
MoveUpvaluesNot(h, f, base) == h
MoveUpvalues(h, f, base) ==
    [h EXCEPT !.upvalues = [u \in DOMAIN @ |->
        IF Contains(f.openUpvalues, u)
        THEN [@[u] EXCEPT !.at = Moved(h.upvalues[u].at, base)] ELSE @[u]]]

NewClosure(h, fn, upvalues) ==
    [h EXCEPT !.closures = Append(@, [fn |-> fn, upvalues |-> upvalues])]

\* Mutation: makes room for the function alone.
CallFunctionShort(h, f, closure, numArgs, moves) ==
    LET size == Len(f.stack)
        grown == EnsureStack(f, h.fns[h.closures[closure].fn].maxSlots, moves)
    IN  /\ heap' = MoveUpvalues(h, f, grown.base)
        /\ fiber' = [grown EXCEPT !.frames = Append(@,
                        [closure |-> closure, ip |-> 0, size |-> size,
                         start |-> <<grown.base, size - numArgs>>])]
\* wrenCallFunction on top of fiber f, whose numArgs arguments are pushed.  size
\* is kept for StackFits only: the slots in use when the frame was made.
CallFunction(h, f, closure, numArgs, moves) ==
    LET size == Len(f.stack)
        grown == EnsureStack(f, size + h.fns[h.closures[closure].fn].maxSlots, moves)
    IN  /\ heap' = MoveUpvalues(h, f, grown.base)
        /\ fiber' = [grown EXCEPT !.frames = Append(@,
                        [closure |-> closure, ip |-> 0, size |-> size,
                         start |-> <<grown.base, size - numArgs>>])]

-----------------------------------------------------------------------------
\* Modules.

\* compileInModule: the module is registered before it is compiled, and has the
\* variables of the core module.
CompileInModule(name) ==
    LET existing == IF name \in DOMAIN vm.modules THEN vm.modules[name] ELSE CoreVariables
    IN  Compiler(Source(program, name), name, existing, heap.fns, vm.methodNames)
Compiled(name, c) ==
    [vm EXCEPT !.modules = [m \in DOMAIN @ \cup {name} |-> IF m = name THEN c.vars ELSE @[m]],
               !.methodNames = c.methodNames]
Failure(c) == IF c.misread THEN "assertion failed" ELSE "compile error"
\* The heap with the function of a module and its closure, both the last ones.
WithClosure(c) == NewClosure([heap EXCEPT !.fns = c.fns], Len(c.fns), <<>>)

\* wrenInterpret compiles the main module and makes a fiber for it.
Interpret ==
    LET closure == Len(heap.closures) + 1
    IN  /\ vm.result = "ready"
        /\ UNCHANGED program
        /\ \E c \in {CompileInModule("main")} :
           IF c.err \/ c.misread
           THEN /\ vm' = [Compiled("main", c) EXCEPT !.result = Failure(c)]
                /\ UNCHANGED <<heap, fiber>>
           ELSE /\ vm' = [Compiled("main", c) EXCEPT !.result = "running"]
                /\ heap' = WithClosure(c)
                /\ fiber' = [fiber EXCEPT
                        !.stack = << <<"closure", closure>> >>,
                        !.capacity = PowerOf2Ceil(Last(c.fns).maxSlots + 1),
                        !.frames = <<[closure |-> closure, ip |-> 0, size |-> 1,
                                      start |-> <<0, 0>>]>>]

ConstantAt(i) == Function.constants[i + 1]
ModuleNamed(i) == ConstantAt(i)[2][1]

\* IMPORT_MODULE runs the body of a module that is not loaded yet.
ImportModule ==
    LET name == ModuleNamed(Short(1))
        closure == Len(heap.closures) + 1
        pushed == [fiber EXCEPT !.stack = Append(@, <<"closure", closure>>),
                                !.frames = Advanced(3)]
    IN  /\ Running({"IMPORT_MODULE"})
        /\ IF name \in DOMAIN vm.modules
           THEN /\ Stacked(Append(fiber.stack, <<"module", name>>), 3)
                /\ vm' = [vm EXCEPT !.lastModule = name]
                /\ UNCHANGED <<program, heap>>
           ELSE IF Source(program, name) = <<>> THEN RuntimeError
           ELSE \E c \in {CompileInModule(name)} :
           IF c.err \/ c.misread
           THEN /\ vm' = [Compiled(name, c) EXCEPT
                             !.result = IF c.misread THEN "assertion failed" ELSE "error"]
                /\ UNCHANGED <<program, heap, fiber>>
           ELSE /\ vm' = Compiled(name, c)
                /\ \E moves \in Moves : CallFunction(WithClosure(c), pushed, closure, 1, moves)
                /\ UNCHANGED program

EndModule ==
    /\ Running({"END_MODULE"})
    /\ Stacked(Append(fiber.stack, Null), 1)
    /\ vm' = [vm EXCEPT !.lastModule = Function.module]
    /\ UNCHANGED <<program, heap>>

ImportVariable ==
    LET variables == vm.modules[vm.lastModule]
        found == {i \in DOMAIN variables : variables[i][1] = ModuleNamed(Short(1))}
    IN  /\ Running({"IMPORT_VARIABLE"})
        /\ IF vm.lastModule = NoModule THEN AssertionFails
           ELSE IF found = {} THEN RuntimeError
           ELSE /\ Stacked(Append(fiber.stack, variables[Max(found)][2]), 3)
                /\ UNCHANGED <<program, heap, vm>>

-----------------------------------------------------------------------------
\* Variables.

Push(ops, v, n) ==
    /\ Running(ops)
    /\ Stacked(Append(fiber.stack, v), n)
    /\ UNCHANGED <<program, heap, vm>>

Literals == [op \in {"NULL", "FALSE", "TRUE"} |->
                IF op = "NULL" THEN Null ELSE <<"bool", op = "TRUE">>]
LoadConstant ==
    \/ Push({"CONSTANT"}, ConstantAt(Short(1)), 3)
    \/ Push(DOMAIN Literals, Literals[Instruction[1]], 1)
LoadLocalVariable ==
    \/ Push({"LOAD_LOCAL_n"}, Read(Slot(Instruction[2])), 1)
    \/ Push({"LOAD_LOCAL"}, Read(Slot(Byte(1))), 2)
StoreLocalVariable ==
    /\ Running({"STORE_LOCAL"})
    /\ Stacked(Written(Slot(Byte(1)), Peek), 2)
    /\ UNCHANGED <<program, heap, vm>>

LoadModuleVariable ==
    Push({"LOAD_MODULE_VAR"}, vm.modules[Function.module][Short(1) + 1][2], 3)
StoreModuleVariable ==
    /\ Running({"STORE_MODULE_VAR"})
    /\ Stacked(fiber.stack, 3)
    /\ vm' = [vm EXCEPT !.modules[Function.module][Short(1) + 1][2] = Peek]
    /\ UNCHANGED <<program, heap>>

\* An upvalue is open while the variable is on the stack, at a pointer.
Upvalue(n) == heap.upvalues[Closure.upvalues[n + 1]]
LoadUpvalue ==
    Push({"LOAD_UPVALUE"},
         IF Upvalue(Byte(1)).open THEN Read(Upvalue(Byte(1)).at) ELSE Upvalue(Byte(1)).closed, 2)
StoreUpvalue ==
    LET upvalue == Upvalue(Byte(1))
    IN  /\ Running({"STORE_UPVALUE"})
        /\ Stacked(IF upvalue.open THEN Written(upvalue.at, Peek) ELSE fiber.stack, 2)
        /\ heap' = IF upvalue.open THEN heap
                   ELSE [heap EXCEPT !.upvalues[Closure.upvalues[Byte(1) + 1]].closed = Peek]
        /\ UNCHANGED <<program, vm>>

\* A field of an instance, with the two assertions of the field instructions.
IsInstance(v) == v[1] = "obj" /\ ClassId(v) > Len(CoreClasses)
ValidField(v, n) == IsInstance(v) /\ n < ClassAt(ClassId(v)).numFields
LoadField ==
    LET this == Running({"LOAD_FIELD_THIS"})
        receiver == IF this THEN Read(Slot(0)) ELSE Peek
    IN  /\ Running({"LOAD_FIELD", "LOAD_FIELD_THIS"})
        /\ IF ~ValidField(receiver, Byte(1)) THEN AssertionFails
           ELSE /\ Stacked(Append(IF this THEN fiber.stack ELSE Dropped(1),
                                  heap.objects[receiver[2]].elements[Byte(1) + 1]), 2)
                /\ UNCHANGED <<program, heap, vm>>
StoreField ==
    LET this == Running({"STORE_FIELD_THIS"})
        receiver == IF this THEN Read(Slot(0)) ELSE Peek
    IN  /\ Running({"STORE_FIELD", "STORE_FIELD_THIS"})
        /\ IF ~ValidField(receiver, Byte(1)) THEN AssertionFails
           ELSE /\ Stacked(IF this THEN fiber.stack ELSE Dropped(1), 2)
                /\ heap' = [heap EXCEPT !.objects[receiver[2]].elements[Byte(1) + 1] =
                                IF this THEN Peek ELSE Peek2]
                /\ UNCHANGED <<program, vm>>

-----------------------------------------------------------------------------
\* Closures.

\* The list of open upvalues goes down the stack: how many of them lead it at
\* index q or above.
NumFrom(h, list, q) ==
    Cardinality({i \in DOMAIN list : \A j \in 1..i : h.upvalues[list[j]].at[2] >= q})

\* captureUpvalue walks the list to the place of the slot and makes an upvalue
\* when there is none.
Capture(c, p) ==
    LET above == NumFrom(c.heap, c.open, p[2] + 1)
        new == Len(c.heap.upvalues) + 1
    IN  IF above < Len(c.open) /\ c.heap.upvalues[c.open[above + 1]].at = p
        THEN [c EXCEPT !.captured = Append(@, c.open[above + 1])]
        ELSE [heap |-> [c.heap EXCEPT !.upvalues =
                           Append(@, [open |-> TRUE, at |-> p, closed |-> Null])],
              open |-> InsertAt(c.open, above + 1, new), captured |-> Append(c.captured, new)]

\* A closure captures a local of this function or takes over an upvalue of it.
CaptureOne(c, k) ==
    LET index == CapturedIndex(Function, Frame.ip, k)
    IN  IF CapturesLocal(Function, Frame.ip, k) THEN Capture(c, Slot(index))
        ELSE [c EXCEPT !.captured = Append(@, Closure.upvalues[index + 1])]
CaptureAll(n) ==
    LET after[k \in 0..n] ==
            IF k = 0 THEN [heap |-> heap, open |-> fiber.openUpvalues, captured |-> <<>>]
            ELSE CaptureOne(after[k - 1], k)
    IN  after[n]
MakeClosure ==
    LET n == NumCaptured(heap.fns, Function, Frame.ip)
        c == CaptureAll(n)
    IN  /\ Running({"CLOSURE"})
        /\ heap' = NewClosure(c.heap, ConstantAt(Short(1))[2], c.captured)
        /\ fiber' = [fiber EXCEPT
                        !.stack = Append(@, <<"closure", Len(heap.closures) + 1>>),
                        !.frames = Advanced(3 + 2 * n), !.openUpvalues = c.open]
        /\ UNCHANGED <<program, vm>>

\* closeUpvalues from a slot up: the upvalues keep the values of their variables.
Closing(p) == NumFrom(heap, fiber.openUpvalues, p[2])
CloseUpvalues(p) ==
    [heap EXCEPT !.upvalues = [u \in DOMAIN @ |->
        IF \E i \in 1..Closing(p) : fiber.openUpvalues[i] = u
        THEN [@[u] EXCEPT !.open = FALSE, !.closed = Read(heap.upvalues[u].at)]
        ELSE @[u]]]
StillOpen(p) == SubSeq(fiber.openUpvalues, Closing(p) + 1, Len(fiber.openUpvalues))

CloseUpvalue ==
    LET top == <<fiber.base, Len(fiber.stack) - 1>>
    IN  /\ Running({"CLOSE_UPVALUE"})
        /\ heap' = CloseUpvalues(top)
        /\ fiber' = [fiber EXCEPT !.stack = Dropped(1), !.frames = Advanced(1),
                                  !.openUpvalues = StillOpen(top)]
        /\ UNCHANGED <<program, vm>>
Pop ==
    /\ Running({"POP"})
    /\ Stacked(Dropped(1), 1)
    /\ UNCHANGED <<program, heap, vm>>

-----------------------------------------------------------------------------
\* Control.

JumpTo(stack, n) ==
    /\ fiber' = [fiber EXCEPT !.stack = stack, !.frames = Advanced(3 + n)]
    /\ UNCHANGED <<program, heap, vm>>
Jump ==
    \/ Running({"JUMP"}) /\ JumpTo(fiber.stack, Short(1))
    \/ Running({"LOOP"}) /\ JumpTo(fiber.stack, -Short(1))
    \/ Running({"JUMP_IF"}) /\ JumpTo(Dropped(1), IF Truthy(Peek) THEN 0 ELSE Short(1))
AndOr ==
    \/ /\ Running({"AND"})
       /\ IF Truthy(Peek) THEN JumpTo(Dropped(1), 0) ELSE JumpTo(fiber.stack, Short(1))
    \/ /\ Running({"OR"})
       /\ IF Truthy(Peek) THEN JumpTo(fiber.stack, Short(1)) ELSE JumpTo(Dropped(1), 0)

\* The arguments of a call, the receiver first.
NumArgs == Instruction[2] + 1
Args == SubSeq(fiber.stack, Len(fiber.stack) - NumArgs + 1, Len(fiber.stack))
\* How a super call differs: its methods are those of the class in a constant.
MethodTable ==
    IF Instruction[1] = "CALL" THEN MethodsOf(Args[1])
    ELSE ClassAt(ConstantAt(Short(3))[2]).methods
CallLength == IF Instruction[1] = "CALL" THEN 3 ELSE 5
CallSymbol == vm.methodNames[Short(1) + 1]

CallBlock ==
    /\ Running({"CALL", "SUPER"})
    /\ CallSymbol \in DOMAIN MethodTable
    /\ MethodTable[CallSymbol][1] = "block"
    /\ \E moves \in Moves :
          CallFunction(heap, [fiber EXCEPT !.frames = Advanced(CallLength)],
                       MethodTable[CallSymbol][2], NumArgs, moves)
    /\ UNCHANGED <<program, vm>>

\* Fn.call runs the function on the arguments it is given, the extra ones too.
CallFn ==
    LET arity == heap.fns[heap.closures[Args[1][2]].fn].arity
    IN  IF arity > NumArgs - 1 THEN RuntimeError
        ELSE /\ \E moves \in Moves :
                   CallFunction(heap, [fiber EXCEPT !.frames = Advanced(CallLength)],
                                Args[1][2], NumArgs, moves)
             /\ UNCHANGED <<program, vm>>
CallPrimitive ==
    LET name == MethodTable[CallSymbol][2]
        outcome == Primitive(name, Args)
    IN  /\ Running({"CALL", "SUPER"})
        /\ CallSymbol \in DOMAIN MethodTable
        /\ MethodTable[CallSymbol][1] = "primitive"
        /\ IF name = "call" THEN CallFn
           ELSE IF ~outcome.ok THEN RuntimeError
           ELSE /\ Stacked(Append(Dropped(NumArgs), outcome.value), CallLength)
                /\ heap' = [heap EXCEPT !.objects = outcome.objects]
                /\ vm' = IF name = "print" THEN [vm EXCEPT !.output = Append(@, Pieces(Args[2]))]
                         ELSE vm
                /\ UNCHANGED program
MethodNotFound ==
    /\ Running({"CALL", "SUPER"})
    /\ CallSymbol \notin DOMAIN MethodTable
    /\ RuntimeError

\* An END that is reached is wrong code.
Return ==
    /\ Running({"RETURN", "END"})
    /\ IF Instruction[1] = "END" THEN AssertionFails
       ELSE /\ heap' = CloseUpvalues(Frame.start)
            /\ UNCHANGED program
            /\ IF Len(fiber.frames) = 1
               THEN /\ fiber' = [fiber EXCEPT !.stack = <<Peek>>, !.frames = <<>>,
                                              !.openUpvalues = StillOpen(Frame.start)]
                    /\ vm' = [vm EXCEPT !.result = "success"]
               ELSE /\ fiber' = [fiber EXCEPT
                                    !.stack = Append(SubSeq(@, 1, Frame.start[2]), Peek),
                                    !.frames = Front(@), !.openUpvalues = StillOpen(Frame.start)]
                    /\ UNCHANGED vm

-----------------------------------------------------------------------------
\* Classes.

\* createClass: the class inherits the methods and the fields of its superclass.
MakeClass ==
    LET numFields == Byte(1)
        super == Peek
        superclass == ClassAt(super[2])
        valid == /\ super[1] = "class"
                 /\ super[2] \notin Sealed
                 /\ superclass.numFields + numFields <= MaxFields
        class == [name |-> Peek2[2][1], superclass |-> super[2],
                  numFields |-> superclass.numFields + numFields,
                  methods |-> superclass.methods,
                  statics |-> CoreClasses[CoreId("Class")].methods]
        id == Len(CoreClasses) + Len(heap.classes) + 1
    IN  /\ Running({"CLASS"})
        /\ IF ~valid THEN RuntimeError
           ELSE /\ heap' = [heap EXCEPT !.classes = Append(@, class)]
                /\ Stacked(Append(Dropped(2), <<"class", id>>), 2)
                /\ UNCHANGED <<program, vm>>

\* bindMethod: the code of the method is patched for the class.  A static method
\* belongs to the metaclass, which has no fields and inherits from Class.
BindMethod ==
    LET static == Instruction[1] = "METHOD_STATIC"
        id == Peek[2]
        k == id - Len(CoreClasses)
        closure == Peek2[2]
        super == IF static THEN CoreId("Class") ELSE ClassAt(id).superclass
        bound == Binder(heap.fns, heap.closures[closure].fn,
                        ClassAt(super).numFields, <<"class", super>>)
        method == vm.methodNames[Short(1) + 1] :> <<"block", closure>>
        class == heap.classes[k]
    IN  /\ Running({"METHOD_INSTANCE", "METHOD_STATIC"})
        /\ IF bound.misread THEN AssertionFails
           ELSE /\ heap' = [heap EXCEPT !.fns = bound.fns, !.classes[k] =
                              IF static THEN [class EXCEPT !.statics = method @@ @]
                              ELSE [class EXCEPT !.methods = method @@ @]]
                /\ Stacked(Dropped(2), 3)
                /\ UNCHANGED <<program, vm>>

Construct ==
    LET class == Read(Slot(0))
        instance == [class |-> class[2],
                     elements |-> [i \in 1..ClassAt(class[2]).numFields |-> Null]]
    IN  /\ Running({"CONSTRUCT"})
        /\ IF class[1] /= "class" THEN AssertionFails
           ELSE /\ heap' = [heap EXCEPT !.objects = Append(@, instance)]
                /\ Stacked(Written(Slot(0), <<"obj", Len(heap.objects) + 1>>), 1)
                /\ UNCHANGED <<program, vm>>

-----------------------------------------------------------------------------
\* The program has ended.
Ended ==
    /\ vm.result \notin {"ready", "running"}
    /\ UNCHANGED vars

Next ==
    \/ Interpret \/ ImportModule \/ EndModule \/ ImportVariable
    \/ LoadConstant \/ LoadLocalVariable \/ StoreLocalVariable
    \/ LoadModuleVariable \/ StoreModuleVariable \/ LoadUpvalue \/ StoreUpvalue
    \/ LoadField \/ StoreField \/ MakeClosure \/ CloseUpvalue \/ Pop
    \/ Jump \/ AndOr \/ CallBlock \/ CallPrimitive \/ MethodNotFound \/ Return
    \/ MakeClass \/ BindMethod \/ Construct \/ Ended

Spec == Init /\ [][Next]_vars

-----------------------------------------------------------------------------
\* Properties.

\* The state has the shape of the C structures: every frame stands at an
\* instruction of its function, never in the middle of one, in a module that is
\* loaded, and with the part of the stack below the frames above it.
FrameOK(i) ==
    LET frame == fiber.frames[i]
        fn == heap.fns[heap.closures[frame.closure].fn]
    IN  /\ frame.ip \in 0..(Len(fn.code) - 1)
        /\ fn.code[frame.ip + 1][1] /= "byte"
        /\ fn.module \in DOMAIN vm.modules
        /\ frame.start[1] = fiber.base
        /\ frame.start[2] < Len(fiber.stack)
        /\ i > 1 => frame.start[2] >= fiber.frames[i - 1].start[2]
TypeOK ==
    /\ vm.result \in {"ready", "running", "success", "error", "compile error", "assertion failed"}
    /\ vm.lastModule \in DOMAIN vm.modules \cup {NoModule}
    /\ vm.result = "running" => fiber.frames /= <<>>
    /\ \A i \in DOMAIN fiber.frames : FrameOK(i)

\* No push writes past the stack: what the compiler counted as the slots of a
\* function (maxSlots) is enough for each path through it, and wrenEnsureStack
\* made room for that when the call began.  No pop goes below the frame, and no
\* instruction names a local in a slot that is not in use.
StackFits ==
    vm.result = "running" =>
        LET depth == Len(fiber.stack) - Frame.start[2]
        IN  /\ Len(fiber.stack) <= fiber.capacity
            /\ Len(fiber.stack) <= Frame.size + Function.maxSlots
            /\ Taken(Instruction[1], Instruction[2]) <= depth
            /\ LocalsNamed(heap.fns, Function, Frame.ip) \subseteq 0..(depth - 1)

\* Each variable that closures share has one upvalue: the list of open upvalues
\* goes strictly down the stack and each points to a slot in use, of the stack as
\* it is now; an upvalue that is not in the list has its value itself.
UpvaluesSound ==
    LET open == fiber.openUpvalues
    IN  /\ \A i \in DOMAIN open :
              /\ heap.upvalues[open[i]].at[1] = fiber.base
              /\ heap.upvalues[open[i]].at[2] < Len(fiber.stack)
              /\ i > 1 => heap.upvalues[open[i]].at[2] < heap.upvalues[open[i - 1]].at[2]
        /\ \A u \in DOMAIN heap.upvalues : heap.upvalues[u].open <=> Contains(open, u)

\* What the interpreter takes for granted of the code that it is given: the
\* function of each call is verified bytecode of a loaded module, for the number
\* of values it is called with, and it stays that when modules are compiled and
\* methods bound while it is on the stack of calls.
FunctionOf(h, frame) == h.closures[frame.closure].fn
NumValues(frame) == frame.size - frame.start[2]
ViewOf(h, frame) == View(h.fns, FunctionOf(h, frame), NumValues(frame))
FrameVerified(h, modules, frame) ==
    /\ frame.closure \in DOMAIN h.closures
    /\ Verifies(h.fns, FunctionOf(h, frame), NumValues(frame), ViewOf(h, frame))
    /\ h.fns[FunctionOf(h, frame)].module \in DOMAIN modules
SameCode(h1, h2, frame) ==
    /\ ViewOf(h2, frame) = ViewOf(h1, frame)
    /\ h2.fns[FunctionOf(h2, frame)].maxSlots = h1.fns[FunctionOf(h1, frame)].maxSlots
VerifiedStep ==
    /\ Len(fiber.frames') > Len(fiber.frames) =>
          FrameVerified(heap', vm'.modules, Last(fiber.frames'))
    /\ heap.fns' /= heap.fns =>
          \A i \in DOMAIN fiber.frames :
              /\ FrameVerified(heap', vm'.modules, fiber.frames[i])
              /\ SameCode(heap, heap', fiber.frames[i])
CodeStaysVerified == [][VerifiedStep]_vars

\* A program computes what it means: when it has ended it has printed what the
\* language says it prints, in order, and has ended as the language says, with
\* success, a runtime error, or a compile error before anything ran.
ComputesMeaning ==
    vm.result \notin {"ready", "running"} =>
        [output |-> vm.output, result |-> vm.result] = Meaning(program)
=============================================================================
