----------------------------- MODULE WrenBytecode -----------------------------
(***************************************************************************)
(* The bytecode of Wren (wren_opcodes.h): what the compiler that emits it and  *)
(* the interpreter that runs it agree on, and when a function keeps to it.     *)
(*                                                                           *)
(* Bytecode is a sequence of one byte cells: an opcode is <<name, n>>, with   *)
(* n the number that the opcode itself carries (the arity of CALL_n, the     *)
(* slot of LOAD_LOCAL_n), an argument is <<"byte", n>>.  Offsets are those    *)
(* of the C code, from 0.                                                    *)
(***************************************************************************)
EXTENDS Integers, Sequences

CONSTANTS
    ByteRange,       \* the values of one byte of bytecode, 256
    MaxFields,       \* MAX_FIELDS
    MaxParameters    \* MAX_PARAMETERS

ASSUME BytecodeAssumption ==
    /\ {ByteRange, MaxFields, MaxParameters} \subseteq Nat \ {0}
    /\ MaxFields < ByteRange

Null == <<"null", 0>>

StackEffect(op, n) ==
    CASE op \in {"CALL", "SUPER"} -> -n
      [] op \in {"CONSTANT", "NULL", "FALSE", "TRUE", "LOAD_LOCAL_n",
                 "LOAD_LOCAL", "LOAD_UPVALUE", "LOAD_MODULE_VAR",
                 "LOAD_FIELD_THIS", "CLOSURE", "END_MODULE",
                 "IMPORT_MODULE", "IMPORT_VARIABLE"} -> 1
      [] op \in {"STORE_LOCAL", "STORE_UPVALUE", "STORE_MODULE_VAR",
                 "STORE_FIELD_THIS", "LOAD_FIELD", "JUMP", "LOOP", "RETURN",
                 "CONSTRUCT", "END"} -> 0
      [] op \in {"STORE_FIELD", "POP", "JUMP_IF", "AND", "OR",
                 "CLOSE_UPVALUE", "CLASS"} -> -1
      [] op \in {"METHOD_INSTANCE", "METHOD_STATIC"} -> -2

ReadShort(code, ip) == code[ip + 1][2] * ByteRange + code[ip + 2][2]

\* The number of upvalues of the function that a CLOSURE at ip makes a closure
\* of, and the k-th of them: whether it is a local of this function, and which.
NumCaptured(fns, fn, ip) == fns[fn.constants[ReadShort(fn.code, ip + 1) + 1][2]].numUpvalues
CapturesLocal(fn, ip, k) == fn.code[ip + 2 + 2 * k][2] = 1
CapturedIndex(fn, ip, k) == fn.code[ip + 3 + 2 * k][2]

\* The number of bytes of arguments of the instruction at ip.
NumArguments(fns, fn, ip) ==
    LET op == fn.code[ip + 1][1]
    IN  CASE op \in {"LOAD_LOCAL", "STORE_LOCAL", "LOAD_UPVALUE",
                     "STORE_UPVALUE", "LOAD_FIELD_THIS", "STORE_FIELD_THIS",
                     "LOAD_FIELD", "STORE_FIELD", "CLASS"} -> 1
          [] op \in {"CONSTANT", "LOAD_MODULE_VAR", "STORE_MODULE_VAR",
                     "CALL", "JUMP", "LOOP", "JUMP_IF", "AND", "OR",
                     "METHOD_INSTANCE", "METHOD_STATIC", "IMPORT_MODULE"} -> 2
          [] op \in {"SUPER", "IMPORT_VARIABLE"} -> 4
          [] op = "CLOSURE" -> 2 + 2 * NumCaptured(fns, fn, ip)
          [] OTHER -> 0

-----------------------------------------------------------------------------
(***************************************************************************)
(* Verified bytecode.  A view of a function says for every instruction that   *)
(* can be reached how many slots of its frame are in use there (depth) and     *)
(* which of them an open upvalue may point to (captured).  It is to hold on    *)
(* every path: each instruction leads to where the view says what it leaves.   *)
(***************************************************************************)

\* Where the instruction after the one at ip is: IMPORT_VARIABLE has two bytes
\* of arguments, of the four that getNumArguments counts.
Following(fns, fn, ip) ==
    IF fn.code[ip + 1][1] = "IMPORT_VARIABLE" THEN ip + 3
    ELSE ip + (1 + NumArguments(fns, fn, ip))

\* How many values an instruction takes from the stack, at least.
Taken(op, n) ==
    CASE op \in {"CALL", "SUPER"} -> n + 1
      [] op \in {"CLASS", "METHOD_INSTANCE", "METHOD_STATIC", "STORE_FIELD"} -> 2
      [] op \in {"POP", "JUMP_IF", "AND", "OR", "LOAD_FIELD", "CLOSE_UPVALUE", "RETURN"} -> 1
      [] OTHER -> 0

\* The locals that a CLOSURE captures, and those that an instruction names.
LocalsCaptured(fns, fn, ip) ==
    IF fn.code[ip + 1][1] /= "CLOSURE" THEN {}
    ELSE {CapturedIndex(fn, ip, k) :
             k \in {k \in 1..NumCaptured(fns, fn, ip) : CapturesLocal(fn, ip, k)}}
LocalsNamed(fns, fn, ip) ==
    CASE fn.code[ip + 1][1] = "LOAD_LOCAL_n" -> {fn.code[ip + 1][2]}
      [] fn.code[ip + 1][1] \in {"LOAD_LOCAL", "STORE_LOCAL"} -> {fn.code[ip + 2][2]}
      [] OTHER -> LocalsCaptured(fns, fn, ip)

\* The slots that can still be captured when the instruction at ip takes its
\* values: closing takes one of them out.
StillCaptured(fn, ip, p) ==
    IF fn.code[ip + 1][1] = "CLOSE_UPVALUE" THEN p.captured \ {p.depth - 1} ELSE p.captured

\* Where the instruction at ip leads from point p: pairs of an offset and a point.
Leads(fns, fn, ip, p) ==
    LET op == fn.code[ip + 1][1]
        short == ReadShort(fn.code, ip + 1)
        after == [depth |-> p.depth + StackEffect(op, fn.code[ip + 1][2]),
                  captured |-> StillCaptured(fn, ip, p) \cup LocalsCaptured(fns, fn, ip)]
    IN  CASE op = "RETURN" -> {}
          [] op = "JUMP" -> {<<ip + (3 + short), after>>}
          [] op = "LOOP" -> {<<ip + (3 - short), after>>}
          [] op = "JUMP_IF" -> {<<ip + 3, after>>, <<ip + (3 + short), after>>}
          [] op \in {"AND", "OR"} -> {<<ip + 3, after>>, <<ip + (3 + short), p>>}
          [] OTHER -> {<<Following(fns, fn, ip), after>>}

\* The instruction at ip does what the view says: it is one, it takes only
\* values of its frame that no upvalue points to, names slots in use, and the
\* frame has room for what it leaves.
InstructionVerified(fns, fn, n, view, ip) ==
    LET p == view[ip]
        taken == Taken(fn.code[ip + 1][1], fn.code[ip + 1][2])
    IN  /\ ip \in 0..(Len(fn.code) - 1)
        /\ fn.code[ip + 1][1] \notin {"byte", "END"}
        /\ fn.code[ip + 1][2] \in Nat
        /\ fn.code[ip + 1][1] = "CLOSURE" => NumCaptured(fns, fn, ip) \in Nat
        /\ p.depth \in 1..(n + fn.maxSlots)
        /\ taken <= p.depth
        /\ StillCaptured(fn, ip, p) \subseteq 0..(p.depth - taken - 1)
        /\ p.captured \subseteq 0..(p.depth - 1)
        /\ LocalsNamed(fns, fn, ip) \subseteq 0..(p.depth - 1)
        /\ \A q \in Leads(fns, fn, ip, p) :
              /\ q[1] \in DOMAIN view
              /\ view[q[1]].depth = q[2].depth
              /\ q[2].captured \subseteq view[q[1]].captured

\* View is a view of function f when it is called with n values, its receiver
\* and its arguments.
Verifies(fns, f, n, view) ==
    /\ fns[f].maxSlots \in Nat
    /\ 0 \in DOMAIN view /\ view[0].depth = n
    /\ \A ip \in DOMAIN view : InstructionVerified(fns, fns[f], n, view, ip)
=============================================================================
