# Wrenegade in TLA+

Wrenegade is a Haxe toolkit that embeds the Wren virtual machine: a macro
generates C++ bindings for Haxe classes, a small runtime moves values between
Haxe and Wren, and a copy of Wren (the VM, a command line program with an event
loop, and the modules `scheduler`, `timer`, `io`, `os` and `repl`) lives in
`lib/wren`. This directory models that system in TLA+, checks the models with
TLC and proves the main facts with TLAPS.

## Inventory

| Component | State | Operations | Correct when |
|---|---|---|---|
| Fibers and the interpreter loop (`wren_core.c`, `wren_vm.c`) | `vm->fiber`, `vm->apiStack`; per fiber frames, `caller`, `error`, `state`, slots | `Fiber.new/call/try/transfer/transferError/yield/suspend/abort`, runtime errors, RETURN, foreign calls, `wrenInterpret`, `wrenCall`, `wrenEnsureSlots` | only fibers that can run get control; an error reaches the nearest `try`; callers form a chain; the host finds its slots in `vm->fiber` |
| Heap and garbage collector (`wren_vm.c`, `wren_value.c`) | the list of objects, their marks, temporary roots, handles, `nextGC` | allocate, push and pop roots, make and release handles, mark, blacken, sweep, finalize | nothing reachable is freed, everything unreachable is; a finalizer sees its class |
| Maps (`wren_value.c`) | entries, capacity, count, tombstones | find, insert, resize, remove, clear, iterate | a map is a finite function; a probe ends; resizing loses nothing |
| Lists, strings, ranges (`wren_value.c`, `wren_core.c`) | buffers with count and capacity | insert, remove, index, find, slice | contents follow the abstract sequence, indices stay in bounds |
| Upvalues (`wren_vm.c`) | per fiber the sorted list of open upvalues | capture, close, stack relocation | one open upvalue per captured variable, closed before its slot goes |
| Modules (`wren_vm.c`) | the module map, variables, `lastModule` | import, compile, define and look up variables | a module body runs once; imports see defined variables |
| Classes and methods (`wren_vm.c`, `wren_value.c`) | method tables, superclass, field counts | create, inherit, bind, dispatch | fields of a subclass do not overlap; tables are complete |
| Compiler (`wren_compiler.c`) | scopes, locals, upvalues, loops, code | declare, resolve, emit, patch | a slot belongs to one local, jumps land on instructions |
| C API (`wren.h`) | slots, handles, call handles | get and set slots, handles, lists | slots stay in range, handles are released once |
| Scheduler and event loop (`scheduler.c`, `scheduler.wren`, `timer.c`, `cli/vm.c`) | the queue of scheduled fibers, pending requests and the fiber handles they hold | add, sleep, resume, timer and I/O callbacks, shutdown | each request resumes its fiber once; a ready fiber eventually runs; every handle is released |
| Files and standard input (`io.c`, `io.wren`) | descriptors, pending requests, the waiting reader, buffered input | open, read, write, close, stat, the stdin callback | a closed file is not used; a reader gets each byte once |
| REPL, `os`, `random`, `meta` | little state | line editing, process arguments, random numbers, compile and run | not modelled: pure functions and I/O |
| Wrenegade runtime (`Value.hx`, `VM.hx`, `wrenegade_helper.cpp`, `linc_wren.cpp`) | the slots during a foreign call, the handles of `Value` objects | call a method, read and write slots, bind classes and methods | arguments are read from the slots they were passed in, every handle is released before the VM is freed |
| Wrenegade generator (`Wrenegade.hx`) | lists of modules, classes and signatures | bind, create paths, generate files | each bound class is in the generated module once |
| libuv, hxcpp, the C library | - | - | external; modelled from how the code uses them |

Interactions: Wren code runs inside `runInterpreter`, which calls primitives (C
functions that may switch fibers) and foreign methods (C functions of the CLI or
of generated bindings that see the API slots). A foreign method that starts an
asynchronous operation keeps a handle to the calling fiber and the Wren side
suspends; the libuv callback later enters the interpreter again with `wrenCall`,
which transfers to that fiber. The heap is shared by all of them: any allocation
can collect garbage, so every C function must keep its objects reachable.

## Modules

In the order in which they build on each other:

| Module | Models | Runs |
|---|---|---|
| `WrenFibers` | fibers, the switch of fibers in the interpreter loop, the entry points of the API | `FibersTransfer`, `FibersCalls`, `FibersFinishedResumed` |
| `FiberStack` | abstract: coroutines as a stack, with `try` | - |
| `WrenFibersStack` | the refinement mapping from `WrenFibers` to `FiberStack` | `FibersCalls` |
| `WrenScheduler` | the command line host over `WrenFibers`: Scheduler, parking operations, event loop, exit | `Scheduler`, `SchedulerResumes` |
| `IoStdin` | the buffered standard input | `Stdin` |
| `IoFile` | File objects over asynchronous descriptor operations | `Files` |
| `WrenMap` | the hash table | `Map` |
| `Dictionary` | abstract: a map as a function | `Map` |
| `WrenHeap` | collector, handles, temporary roots, and the functions that allocate | `Heap` |
| `WrenLexer`, `WrenCompiler` | the lexer and the single pass compiler, as operators | `Programs`, `ExtraArguments` |
| `WrenBytecode` | the instructions: lengths, stack effects, what a CLOSURE captures; and when bytecode is verified | `Programs`, `ExtraArguments` |
| `WrenSequences`, `WrenObjects` | indexes, ranges and string search; core classes and primitives | `Programs`, `ExtraArguments` |
| `WrenInterpreter` | the bytecode interpreter on one fiber, with closures, classes and modules | `Programs`, `ExtraArguments` |
| `WrenSyntax`, `WrenSemantics` | abstract: trees of programs, how they are written, what they mean | `Programs`, `ExtraArguments` |
| `WrenegadeBindings` | the macro that generates bindings, and what it generates | `Wrenegade` |
| `WrenegadeCalls` | scripts that call generated bindings, over slots | `Wrenegade` |
| `WrenFibersProofs`, `WrenSchedulerProofs`, `WrenInterpreterProofs`, `IoFileProofs`, `IoStdinProofs`, `WrenHeapProofs`, `WrenMapProofs`, with `SmallestNatural` | theorems | - |

Each `MC...` module extends one of these and defines what its runs need: the
symmetry set, or the programs.

What is left, most useful first:

1. Parking in module bodies and in fibers: `WrenInterpreter` on several fibers,
   with the switches of `WrenFibers`. `vm->lastModule` is the state that a
   module body that parks would find changed.
2. The calls from Haxe into Wren (`Value.hx`, `VM.hx`): their slots depend on
   `vm->apiStack` after `wrenCall`, which `WrenFibers` has.
3. Foreign classes and methods in the compiler and in the interpreter, from
   their declaration to `wrenBindForeignClass`.
4. Proofs: that the compiler emits verified bytecode, which is an induction over
   the recursive parser and out of the prover's reach as it is written. A
   compiler given as the sequence of its emissions would be a start.

## How the models correspond to the code

### WrenFibers

The state is `vm->fiber`, `vm->apiStack` (as the fiber whose stack it points
into) and, per fiber, the number of call frames, `caller`, whether there is an
error, and `state` (`FIBER_TRY`, `FIBER_ROOT`, `FIBER_OTHER`). `status` says
whether the host or the interpreter has control. One action stands for one
primitive of class Fiber up to the point where the interpreter goes on, with the
error path (`RuntimeError`) as part of it; `Return` is the RETURN instruction,
`CallFunction` and `CallForeign` are what moves frames and API slots in between,
`Interpret`, `Call` and `EnsureSlots` are the API. Reading a call frame that does
not exist is undefined behaviour in C and ends the run as `"undefined"`.

Abstracted: the values passed between fibers, texts of errors, the binding of
parameters, all bytecode but RETURN and calls, the position in a frame. `shifted`
notes frames with a slot too many; it is not tracked for aborted fibers.
A fiber that transfers to itself loses its stored position in the code; the
model treats that as going on.

Two constants split programs into classes. `Transfers`: whether the program uses
`transfer` and `transferError`. `MixedEntry`: whether the host calls
`wrenInterpret` while the slots of a `wrenCall` are in place.

### WrenScheduler

It extends `WrenFibers` and its actions call those of `WrenFibers`. A fiber parks
as `Timer.sleep` does it: a request with a handle to the fiber, then
`runNextScheduled_`. The operations of `File`, `Directory` and `Stat` park the
same way. A completion has the stages of the C code, because the collector and
errors can come between them: the libuv callback fires (`Complete`),
`schedulerResume` makes slots (`EnsureResumeSlots`), stores the fiber and releases
the handle and `wrenCall`s (`CallResume`), Wren transfers (`ResumeTarget`), and
the result is looked at (`CallbackReturns`). libuv is external: any outstanding
request may complete next, and a stopped loop may still make the callbacks of
its iteration. The program calls and tries every fiber that it can refer to, which
`Fiber.current` makes every fiber that has run, those of `Scheduler.add` included;
only a fiber that is still in the Scheduler's own list is out of its reach. `runFiber`
refuses a fiber with a caller, but the Scheduler transfers to its fibers, which have
none: one of them may be called while it runs, while it is parked, or while it waits for a
callee. Whether a program does this is the constant `BusyCalls`. A fiber called that
way may get control again behind its last `runNextScheduled_`; `ended` tells for whom
that call has been made. Fibers are a finite pool that the collector refills; it runs when
at most one unused fiber is left, and a program leaves that one to the host. Of
the fibers that nothing marks, one that others of them refer to is collected
after those, so that no field of a fiber names a fiber that is in use again.

### IoStdin

`read_` and the callback `onData_` are single steps, since fibers only give
control away inside `read_`. The input arrives in chunks of up to `MaxChunk`
bytes, cut anywhere; `input` and `output` are ghosts for what arrived and what
was consumed. Read errors other than end of file are left out (a TODO in the
code). `ResultsFit` does not require a byte from a `readByte` at end of file:
there the code returns an empty string.

### IoFile

A request carries the descriptor number it read from the File when it was
submitted. The thread pool executes requests in any order (`Execute`), the loop
completes them in any order. The kernel is a table of descriptors, lowest free
one first. `Held` are the Files that parked fibers keep alive; a File outside
may be finalised at any time.

### WrenMap

`entries` is the array, with empty slots and tombstones as in `MapEntry`.
`hash` is chosen when a key is used first, so that one run covers all
collisions. `FindEntry`, `InsertEntry` and `Resized` are the probing, insertion and
resizing of the code, with the load arithmetic in its integer divisions.
`MapIterate` is `map_iterate`; after a change of the map the model starts the
iteration over, where the program would continue with an index that no longer
means anything. `MinCapacity` is 16 in the code and 4 in the run.

### WrenHeap

A C function is a straight-line program of steps over registers that stand for
its variables. `Execute` carries out the next step; `Collect` may run before each
step that allocates: what it marks is the least set that holds the roots the code
marks from and what its members point at (`Marked`), and the other objects are to
be freed (`sweeping`). The sweep frees them one at a time in the order of `vm->first`
(`SweepComesTo`, `Free`), since finalisers look at other objects while it goes on. Which steps push and pop roots is transcribed
from `wrenNewClass`, `wrenListInsert`, `wrenListRemoveAt`, `wrenMakeHandle`,
`compileInModule` and `importModule`. Names of classes and modules are constants
of running code, hence never collected, and not objects in the model.

### WrenLexer and WrenCompiler

The source of a program is a sequence of symbols, so that words and the digits
of a number are not taken apart; everything else is read character by
character, as `nextToken` does. The C functions of the compiler that change
state are operators from a compilation state to the next one: the tokens and
how many are consumed, `hasError`, the chain of compilers with their locals,
upvalues, scopes and loops, the finished functions, the symbol table of
signatures, and the variables of the module. The grammar rules are the table
`rules` of the C code, with the same precedences and the same parser functions.
Bytecode is a sequence of one byte cells with the offsets of the C code, so that
jumps, the scan of `endLoop` for breaks and `wrenBindMethodCode` work on what
was emitted; a scan that takes an argument for an instruction sets `misread`.
After the first error the C code goes on to report more of them and discards the
result; the model keeps `hasError` only.

### WrenInterpreter, WrenBytecode, WrenObjects and WrenSequences

`WrenInterpreter` has one action per kind of instruction, on one fiber. A pointer into the stack is
`<<base, index>>`: whenever `wrenEnsureStack` grows the stack, it may move, and
whatever still has the old base reads `Garbage`. The stack begins with
room for the module's own function, as in the code, so that calls make it grow.
An error ends the run, as it does on a root fiber;
errors that are caught are the matter of `WrenFibers`. `WrenObjects` has the
core classes with the tables that `wrenInitializeCore` fills, and the
primitives; `WrenSequences` the arithmetic of indexes, ranges and the string
search. Strings are sequences of pieces that stand for their bytes, numbers are
integers.

The interpreter checks nothing that the compiler is to guarantee: it trusts that
the stack is large enough, that a pop finds something of its own frame, that a
jump lands on an instruction, and that a scope closes the upvalues of its locals
before it drops them. `WrenBytecode` states this contract. A view of a function
says for every offset that can be reached how many slots are in use there and which
of them an open upvalue may point to; `Verifies` says that each instruction is one,
takes only values that it may take, names only slots in use, stays within
`maxSlots`, and leads to offsets where the view says what it leaves. The
views of the runs are those that `FlowView` computes by following the jumps.
`CodeStaysVerified` is the promise of `wrenCompile` and `bindMethod` to
`runInterpreter`: each function that is called is verified, for the number of
values it is called with, extra arguments included, and the functions on the
stack of calls stay so when `bindMethod` patches code and a module is compiled.

Not in these modules: foreign classes and methods, bit operations, division and
remainder, fractions, exponents, hexadecimal digits, escapes with digits, and
the methods that are written in Wren and do not appear in the programs.

### WrenSyntax and WrenSemantics

The abstract specification. A program is a tree; `WrenSyntax` writes it with as
few parentheses as the precedence table of `doc/site/syntax.markdown` permits,
and `WrenSemantics` evaluates it as the pages of `doc/site` describe the
language: variables are cells that environments name, methods are looked up
along the superclasses, a field belongs to the class whose code names it. It
shares no definition with the compiler, and knows of no slots, upvalues,
bytecode or symbol tables. `ComputesMeaning` compares: the text goes through the
lexer, the compiler and the interpreter, and what it prints and how it ends
must be what the tree means; a failed assertion is no such end.
`WrenInterpreter` takes the compiler, the binding of methods, the views and the
meaning as constants, to which `Programs.cfg` gives `Compile`, `BindMethodCode`,
`FlowView` and `ProgramMeaning`.

### WrenegadeBindings and WrenegadeCalls

The state of the generator is that of the macro: `maps` are its static maps
while it treats one class, `packages` the classes it knows per package, `code`
and `files` what it has written. `Bind` is one run of the macro, with the reset
at its end; superclasses are typed first, the rest in any order. `Fails` and
`Compiles` say when the macro stops with an error, never ends, or writes C++
that does not compile: these programs end in stage `"failed"`, and the
properties are about the others. Names are words, lower-cased where the code
does so, hence names that only the joining with `_` confuses stay apart.

A script then imports the modules and calls what they declare. `Import` is
`importModule` with `loadModuleFn` and the binding of methods in the module body.
`LoadModule` has three outcomes, since `loadModuleFn` reads the path of a generated module from
a string that it has destroyed (`linc_wren.cpp:88`) and copies the source without its
terminating zero (line 107): the source, nothing, or the source and something after
it that does not compile. Another existing file, and bytes after the source that are Wren
code, are left out. `FunctionFor` and
`AllocateFor` are the lookup functions of the generated code, `GetFromSlot` and
`SaveToSlot` those of the helper over a sequence of slots, `Invoke` and
`Construct` a call with all of this. Scripts pass any argument to anything: numbers,
strings, objects of a Haxe class (a second one, besides the receiver), lists, lists
in lists, objects of a Wren class. The Haxe side is a map from the properties of objects to
values. A script ends with an import that fails, with a call that throws or fails an
assertion of the API, and with a setter that, in a build without assertions, overwrites
an object that is not foreign; it catches no errors. External: hxcpp, which keeps objects as they are, and
checks casts. That it does not know of the references in foreign objects, and may collect
what they refer to, is left out.

## Runs

| Run | Bounds | Shows |
|---|---|---|
| `FibersTransfer` | 3 fibers of 2 frames, any program | the links that the error path dereferences are there, a root has no caller, an aborted fiber is unhooked |
| `FibersCalls` | 3 fibers of 2 frames, no transfers, one entry at a time | callers form a chain without cycles that ends at a root, each callee waited for once; no finished or aborted fiber runs, API slots are in `vm->fiber`; refines `FiberStack` |
| `FibersFinishedResumed` | with transfers | violated: a finished fiber is resumed |
| `Scheduler` | 5 fibers, one request each, no calls of busy fibers | a parked fiber runs only through its own request and is alive until then, a scheduled fiber starts once, nothing undefined happens |
| `SchedulerResumes` | 3 fibers, one request each, calls of busy fibers, fairness | handles are accounted for; a completed request reaches its fiber unless the process fails; an uncaught error ends the process with 70 |
| `Stdin` | 2 readers, 5 bytes in chunks of 2, fairness | no byte lost, repeated or reordered; reads get what they asked for; the stream runs for a parked fiber; that fiber goes on |
| `Files` | 2 fibers, 2 files, 2 descriptors, shared Files | every descriptor has one owner; only an operation in flight when its File is closed can meet another file; nothing is submitted for a closed File |
| `Map` | 5 keys, 2 values, 3 hash values | the table is a dictionary at every step, each key is found where the search looks for it, and the load stays within its bounds |
| `Heap` | 4 objects, lists of 2 strings, 1 handle | nothing in use is freed at any allocation, finalisers find their class, roots are balanced |
| `Programs` | 2040 programs, 11 locals, 3 fields, 3 parameters, 2 nested interpolations | each program computes what it means, or is refused where it has to be; no assertion fails; all code that is called is verified bytecode; the stack is large enough, open upvalues are sound wherever the stack moves |
| `ExtraArguments` | one program | violated: arguments that a function has no parameters for overwrite its locals |
| `Wrenegade` | 1316 sets of up to three classes, seven arguments | module files declare what the classes have; each declared method reaches its member or nothing, and with arguments that it can take reaches it with them in place |

Why the bounds are enough. Three fibers are a caller, a callee and a third that
interferes, with two frames each to tell a finished call from a finished fiber;
the scheduler adds the main fiber's callee, a scheduled fiber and the host's own
fiber, which makes five. Parking beyond that repeats, since fibers are reused. A fiber that is called while
it is parked could park again, with two requests out at once: `MaxRequests` bounds them,
to one in the runs. `ParkedIsResumed` is checked of one fiber (`Watched`); no definition
names a fiber, so that what holds of one holds of each. In
`Stdin` five bytes hold two lines and a rest, cut at every place by chunks of one
and two. Two descriptors are enough for one to be closed and reopened under a
request. Five keys make the table grow from 4 to 8 slots and shrink
again; the hash values 0, 3 and 7 give two home slots at capacity 4 and three at
8, with wrap-around. Four objects are a class with its metaclass, the name of that, and
an instance; a subclass and its superclass at once would need six, and this is the
reason why `KeepsClasses` names that case instead of leaving it to the bound.

`Programs` has no bound on the length of a run: every program ends. The limits
of the C code that a program can reach are constants, small enough for programs
to go one past each of them: 11 locals for 256, 3 fields for 255, 3 parameters for
16, 2 nested interpolations for 8; `ByteRange` is that of the code. Limits on
constants, module variables and jump distances are not reached. The families are:
all pairs of binary operators on the same or on neighbouring levels of the
precedence table, grouped either way, over a class whose operators say how they
were applied, which is enough for a table of precedences; operands of `&&`, `||`;
closures over three locals captured in any order, with five ways of leaving their
scope, run before and after; fields of a class and its subclass used in methods
and in closures inside them; chains of three classes that override each other's
methods and call the one above; every index and range around the bounds of lists of
up to two elements; every search of a text of up to three symbols, two different ones, in
one of up to four; texts in several layouts; programs of several modules, with
cycles, failures and missing names; programs and texts to be refused; and one
program for each construct that the others leave out. The stack grows at a
power of two, and each growth either moves it or does not.

`Wrenegade` has every set of the eight kinds of fields that the macro tells apart,
with no constructor or one of up to two parameters; each class with a superclass
and up to one field of its own, in a package and in a nested one, next to a class of
another package; and the two forms of inheritance that the macro treats in a way of
its own, overriding and three levels. Members beyond that are treated one by one
by the same loop. Properties named `settings` and `getter` do not compile, since the
macro cuts every `_get` and `_set` from the name of the function (`Wrenegade.hx:503`, 528).

`CHECK_DEADLOCK` is on everywhere; a process that has ended stutters explicitly.

### Exclusions

What the code gets wrong is excluded from the passing runs, so that they can say
that nothing else is wrong. For the first runs constants do that; setting each
the other way shows the failure.

- `KeepsClasses = FALSE` in `Heap.cfg` violates `FinalizerFindsClass` and
  `NothingInUseIsFreed`: `blackenForeign` (`wren_value.c:1095`) does not mark the
  class, which may be freed while an object of it lives; `createClass`
  (`wren_vm.c:593`) takes the superclass off the stack before it allocates.
- `ModulesGrow = TRUE` in `Heap.cfg` violates `NothingInUseIsFreed`: a new module
  is unrooted while `wrenMapSet` grows `vm->modules` (`wren_vm.c:446`).
- `BusyCalls = TRUE` in `Scheduler.cfg` violates `ParkedWaitsForItsRequest`,
  `ScheduledWaitersAreLive` and `ScheduledNeverUndefined`: a fiber of `Scheduler.add` may be
  called while it is parked, and is resumed before its request completes; or by
  itself, and becomes its own caller (`wren_core.c:89`). A scheduled fiber that calls
  itself breaks `WaitersAreLive` at once; further tries let an aborted fiber run, and after
  20 steps `RETURN` reads the frame before the first. `ParkedIsResumed`,
  `UncaughtErrorExits` and `HandlesAccounted` are checked with `BusyCalls = TRUE`.
- `Transfers` and `MixedEntry` in the fiber runs (see the violated run and the
  next section).
- `MultiByte = TRUE` in `Stdin.cfg` violates `InputInOrder`: the buffer is sliced
  by code point (`wren_value.c:731`) at places that chunks of bytes cut.

The programs of `Programs` do not do the following. With each of the first three,
compiled code differs from what the program means, or an assertion fails.

- Arguments beyond the parameters of a function: run `ExtraArguments`.
- An `import` with variables in a loop that has a `break`, or in a method:
  `getNumArguments` says that IMPORT_VARIABLE has four argument bytes and two are
  emitted (`wren_compiler.c:2839`), so that the scans of bytecode go astray.
- A class with inherited fields that is defined twice, by a class definition in a
  function that runs twice: the numbers of its fields are shifted at each
  binding (`wren_compiler.c:3501`).
- `return` at the top level of a module leaves it before END_MODULE, so that
  `lastModule` stays that of another; `while (true) break` there, without a
  block, fails the assertion on the scope depth.
- A string that the source ends in after `%` or a backslash: the lexer goes past the
  terminating zero.
- Jumps of exactly 65536 bytes (`MAX_JUMP`), and locals of a loop and upvalues
  beyond their limits, which are not counted against them.
- `return` in a constructor, and `super` without a name in a subscript method.

The classes of `Wrenegade` leave out the following; each was seen to violate one of
the two properties when it was put in.

- Two unrelated classes in a package: only the last one stays in the module file
  (`Wrenegade.hx:908`).
- A superclass in another package: its declaration goes to the module of the
  subclass, whose switch does not know it. A superclass with static methods,
  or whose constructor has parameters: it is declared without them.
- Names that differ in case only (`Wrenegade.hx:290`), and modifiers in another order than the
  macro lists, such as `public override`: the member is not bound.

Public static variables are not bound, which `Bindable` takes as meant: the macro binds
those variables only that are exactly `public` (`Wrenegade.hx:366`).

What the generated functions do with arguments that they cannot take is in the run, and
`CallsReachTheirMembers` demands of it only that the call reaches its own member or
none (`Takeable` says which arguments these are; see the next section).

A getter of a value that is an object leaves the receiver in slot 0, which
`CallsReachTheirMembers` does not demand otherwise.

### Disagreements without a run of their own

Seen while modelling. The first ones are states of `WrenFibers`, then of the
scheduler, of standard input and of files; the last ones are read off the source.

- A fiber that aborted may be resumed after transfers (RETURN, `wren_vm.c:1167`,
  against "it can no longer be used", `fiber.markdown:164`).
- A call of a finished fiber fails but sets its caller, so the next attempt
  reports "already been called" (`wren_core.c:100`, against
  `test/core/fiber/call_done.wren:6`).
- `wrenCall` reports success without API slots when the method suspends or
  yields to the host (`wren_vm.c:1396`, against `wren.h:315`), and
  `wrenInterpret` after `wrenCall` keeps the old slots (`wren_vm.c:1449`, against the
  assertion at 373).
- `isDone` goes back to false when `wrenCall` reuses a finished fiber
  (`wren_vm.c:1391`, against `fiber.markdown:149`).
- `freeVM` leaves the handles of parked requests (`cli/vm.c:286`, against the
  assertion of `wren_vm.c:104`).
- A second reader of standard input replaces the first, which is never resumed
  (`io.wren:259`, against `stdin.markdown:38`).
- At the end of input `readByte` returns `""` once the buffer was emptied
  (`io.wren:272`, against `stdin.markdown:30`), and reading a closed stdin aborts
  instead of returning null (`io.wren:278`, against `stdin.markdown:41`).
- A fiber that yields a value to the host resumes with a slot too many
  (`wren_core.c:231`, against the comment at 226): `ResumesAligned` of
  `WrenFibers`, added to `FibersCalls.cfg`, is violated.
- Two appends that overlap overwrite each other, since the size is read before
  (`io.wren:142`, against `file.markdown:125`): `AppendsAreKept` of `IoFile`, added to
  `Files.cfg` with a larger `MaxLength`, is violated.
- Characters of several bytes in standard input (`wren_value.c:731`, against
  `stdin.markdown:27`): `MultiByte` above.
- A module that does not compile stays registered, so that a second import
  finds it without variables (`wren_vm.c:466`, a TODO there). The meaning in
  `Programs` has it that way.
- `Value.call` makes a call handle per signature that nothing releases
  (`Value.hx:21`), while `wrenFreeVM` asserts that none is left
  (`wren_vm.c:104`); if the method suspends, its result is read from slot 0 of
  no slots (`Value.hx:37`). Results of bound methods, other than getters, are
  never stored in a slot, so that they return their receiver.
- Setters take objects of Haxe classes only: the generated function asks for a foreign
  object before it reads the value (`Wrenegade.hx:535`), while `README.md:229` and
  `src/test/main.wren:29` assign strings. With any other value it fails an assertion of the
  API; without assertions it writes into the string before it sets the property.
- Lists as arguments of instance methods and constructors, and lists in lists: each
  element is read through slot 0, where the receiver is, the new object, or the list
  (`wrenegade_helper.cpp:166`). A method is then called on the last element, if that is
  an object of the class.
- The import of a generated module depends on memory that has been freed
  (`linc_wren.cpp:88`) or that was never written (line 107).
- The generated `bindClass` leaves `allocate` uninitialised for a class without a
  constructor.

## Fairness

`FairSchedulerSpec` assumes weak fairness of the C code between two callbacks,
which is sequential and cannot be disabled from outside; strong fairness of the
completion of each fiber's requests, because libuv serves every request while
the loop runs, although each callback interrupts it; strong fairness of the end
of the loop for the same reason; and weak fairness of the collector where the
host's allocation waits for it. Nothing is assumed of the program: both liveness
properties have "the program gives control back again and again" as their
hypothesis. In `IoStdin` the end of the stream is strongly fair (a stream that
is read from delivers or ends), nothing else is.

## Proofs

The theorems hold for every value of the constants that the modules' assumptions
admit: `NoFiber` is no fiber and `MaxFrames` is a positive number; the least
capacity of a map is positive, maps grow by a factor of at least two, and the load
leaves a slot empty at every capacity (`MapAssumption`); the flags are Boolean.
Some have hypotheses on the constants:

- The theorems about chains of callers in `WrenFibersProofs` assume no transfers
  and no mixed entries, as run `FibersCalls` does. The two about the chain as a
  stack also assume finitely many fibers, since the depth of a stack is a number
  and a heap is finite. Those of `WrenSchedulerProofs` assume none of this.
- `ParkedWaitsForItsRequest`, `ScheduledWaitersAreLive` and `ScheduledNeverUndefined`
  assume that the program calls no busy fiber (`~BusyCalls`); without that they are false
  (Exclusions).
- `NothingInUseIsFreed` and `FinalizerFindsClass` assume `KeepsClasses` and no
  `ModulesGrow`; without them they are false (Exclusions). The types of the heap
  assume room for two temporary roots, of the five there are.
- Those about standard input assume that no character takes several bytes.

Those about the interpreter have a hypothesis on the behaviour, `CodeStaysVerified`,
which speaks of the code that is called and of nothing else in the state; the
compiler, the binding of methods and the views are constants there. Run `Programs`
checks that hypothesis of the compiler of this repository.

Induction inside proofs goes by the least counterexample: a nonempty set of
natural numbers has a least element (`SmallestNatural`), from which the search for
a line end, the choice of the lowest free descriptor, the reinsertion of entries
in a larger table and the walk along callers are argued.

**`WrenFibersProofs`**, in three parts. The first is about the links between
fibers: `TypeCorrect` and the properties of run `FibersTransfer`. The inductive
invariant is `LinkInv`: the types, that the running fiber has a frame, and the
links (`Links`): a live tried fiber has a caller, a root fiber has none, an
aborted fiber that was not tried has none, an unused fiber has nothing. The
properties alone are not inductive: the step that returns through `caller` needs
to know of unused fibers and of the frames of the running one. The lemmas about
`Reached`, the set of fibers an error visits, carry the error path: it is closed
under the walk, it is the least such set, and each of its members but the first is
the caller of another.

The second part is about chains: `NeverUndefined`, `AbortedNeverRuns`,
`WaitersAreLive` and `ApiStackInPlace`. `Chains` says of a set of fibers, the
ends, that they wait for nobody, that each live fiber waits for a live one that no
other waits for, and `Control` that the interpreter runs an end of a chain, or
that the host finds a finished fiber behind its slots. Both speak of the ends as a
parameter, with the fibers `H` that a host holds on to and will transfer to, so
that each lemma on a step (a call, a return, a yield, an error) serves the
scheduler too. In `WrenFibers` alone `H` is empty. An error may only abort the top
of the chain: no fiber outside the set that it reaches waits for one inside.

The third part is about the one chain that there is then: `CallersFormChain`, and
that `WrenFibers` implements `FiberStack`. `StackInv` adds to the chain that it is
a sequence of live fibers, all different, each called by the one before it;
`ChainIsStack` shows that the refinement mapping reads this sequence off the
callers. Then each operation is one of the stack: a call pushes, a return or a
yield pops, and an error pops exactly down to the nearest tried fiber
(`ErrorOnStack`), because the part of the stack above it is closed under the walk
and is the least such set.

**`WrenSchedulerProofs`**: every invariant of runs `Scheduler` and `SchedulerResumes`, for
any number of fibers, requests and scheduled fibers, in two parts. The first holds of every
program, whatever fibers it calls: `SchedulerInv` has the types, the links of
`WrenFibersProofs`, `HandlesInv` and `QueueInv`. `HandlesInv` counts the handles; what
fibers do in between does not matter there, since only `StartRequest`, `Complete`
and `CallResume` touch the counts. `QueueInv` says that a fiber in the queue is there once, and
that no fiber has it as its caller, nor it another: nothing but `runNextScheduled_` can start it.

The second part is about programs that call no busy fiber, and needs the transfers: the set `Held` of
fibers that wait for a request or are scheduled is the `H` of the chains. The
scheduler only transfers to a fiber that leaves `Held` with the transfer, the
program adds to it the end of the chain that parks or a fiber nobody has started,
and the collector takes only fibers that no other refers to. A fiber that the program calls
is neither held, nor running, nor awaited: this is what `~BusyCalls` gives, and where the
argument breaks without it. So a parked fiber is
alive, waits for nobody and gets no control until its request is done, and no
dereference meets a missing fiber, in spite of the transfers. A fiber that has ended and is called
once more only returns.

**`WrenMapProofs`**: every property of run `Map`, for any keys, values, hash
codes, capacities and load. `MapInv` says of the array that each key has at most
one entry and no empty slot before it on its search (`Sound`), that `count` is the
number of entries in use, and that the load is within its bounds, so that every
search ends. Removal keeps this because it leaves a tombstone, resizing because
entries are reinserted one by one into an array that has room, insertion because
it takes the first tombstone only when the key is not found behind it. What each
operation does to the set of entries is then what it does to a dictionary, hence
the refinement of `Dictionary`.

**`WrenHeapProofs`**: every property of run `Heap`, for any number of objects,
elements and handles, and that no C function of `WrenHeap` holds more than two
temporary roots (`TwoTempRootsSuffice`; the compiler, which has roots of its own,
is left out). The code of each C function is followed once: a view says, between
two steps, which registers the temporary roots are from, which ones may hold an
object that nothing else reaches, which ones hold a foreign object or its class,
and which ones are used later. `Does` is what one step does to a view, and `Runs`
that code leads from a view to another; at a step that allocates, what is loose
and used again must be a temporary root. `HeapInv` says that the rest of the
running function leads on from a view that fits the registers (`Fits`), and, where
nothing is excluded, that what is in use is allocated and is not among what a
sweep has still to free (`Safe`). A collection keeps whatever the view needs,
since marking is closed under links. For finalisers the invariant has that a class
comes after its objects in the list from `vm->first` (`ClassesLast`), so that the
sweep frees it after them.

**`WrenInterpreterProofs`**: verified bytecode is safe. `VerifiedCodeTypeOK`,
`VerifiedCodeFits` and `VerifiedCodeUpvalues` are `TypeOK`, `StackFits` and
`UpvaluesSound` of run `Programs` for every program, every compiler and any values,
as long as the code that is called is verified. The three are not inductive: what
an instruction may do depends on what the frames below it will do when they get
control back. The invariant `IInv` says of every frame, not only of the one on top,
that it stands at an offset of its view and has exactly the slots in use that the
view says, up to where the next frame begins, and one for the result of the call
it waits for (`FrameFits`); that the room of its function, `size` and `maxSlots`, is
still there; that the frames ascend; and that an open upvalue points to a slot that
the view of the frame it lies in lets be captured (`OnlyCaptured`), in a list that
goes strictly down (`OpenList`). `StepInFrame` carries it over a step of the frame
on top, from what the instruction leads to in its view; the lemmas on the
instructions show that each does to the stack, the position and the upvalues what
its view says. RETURN closes the upvalues from the frame's first slot up, and the
frame below finds its result on a stack of the depth that its call promised.
CLOSE_UPVALUE and POP differ in the view: a slot that may be captured cannot be
popped. `captureUpvalue` inserts where the walk down the list ends (`NumFromIsAHead`,
`CaptureKeeps`), which keeps the list descending in whatever order locals are
captured. A call (`CallStep`) may move the stack: every frame and open upvalue
follows to the new base, and `wrenPowerOf2Ceil` yields enough (`PowerIsEnough`).

The module also has `RangeStaysInside`, every element that an accepted
range selects is an element of the list or string, for all lengths and ends; and
`SlideSkipsNoMatch`, when the string search slides its window on, no place that it
passes over is a match, for all strings without the byte 255, for which the shift
table of the code has no entry. From the second, with the fact that the table
holds the distance of a byte's last place in the needle, follows that a needle
that is there is found; `Programs` checks the loop around it.

**`IoFileProofs`**: every property of run `Files`, for any number of fibers, paths
and descriptors. `DescriptorsOwned` counts the owners of a descriptor, and a count
says nothing of who they are; `FileInv` says instead that an open descriptor has
an owner (`SomeOwner`), never two (`OneOwner`), and that the kernel has the
owner's file behind it (`OwnersFile`). It also needs `RequestsKeepFiles`: a
request keeps its File from being finalised, so that the file it was started on is
the one it completes on. `OwnersAreCounted` goes back to the count.

**`IoStdinProofs`**: `InputInOrder`, `ReadingForTheWaiter` and `ResultsFit`, for
any input, chunks of any length and any number of fibers that take turns.
`StdinInv` adds the types and `HandlerOfTheWaiter`: the installed data handler
belongs to the read of the fiber that waits. `ServedBytes` carries the order: the
value handed out, the separator and the rest of the buffer are the buffer.

Only model-checked:

- liveness, which is fairness and ENABLED and out of the prover's reach:
  `ParkedIsResumed`, `UncaughtErrorExits`, `WaiterGoesOn`;
- standard input with characters of several bytes, where `InputInOrder` fails;
- of `Programs` that the compiler emits verified bytecode (`CodeStaysVerified`) and
  that a program computes what it means (`ComputesMeaning`): the parser, the
  scan that binds methods and the meaning are RECURSIVE operators, which leave the
  prover without arithmetic, and both properties are inductions over programs;
- all of `Wrenegade`, whose modules follow the recursion of values in slots with
  RECURSIVE operators too.

## Not modelled

The REPL, `os`, `random`, `meta` and paths are text processing, input and output,
or pure functions without a state that others share. Numbers other than integers,
iteration of strings by code point, foreign classes in the compiler, and the
recovery from compile errors are left out of `Programs`. The calls from Haxe
into Wren are left out of `Wrenegade`, with classes without a package, several
classes in a Haxe file and names with underscores. libuv, hxcpp and the kernel are
external: what they may do is what their callers must expect. Allocation
failure, and the sizes that decide when the collector runs, are abstracted: it
may run at any allocation.
