---------------------------- MODULE WrenCompiler ----------------------------
(***************************************************************************)
(* The single pass compiler of wren_compiler.c: a Pratt parser that emits   *)
(* bytecode while it consumes tokens.  The C functions that change the      *)
(* parser and the chain of compilers are operators from a compilation state *)
(* s to the next one:                                                       *)
(*                                                                          *)
(*   toks, pos    the tokens of WrenLexer and how many are consumed          *)
(*   err          parser->hasError                                          *)
(*   cs           the chain of compilers, the innermost one last            *)
(*   fns          the functions of the virtual machine, finished ones only  *)
(*   methodNames  the symbol table of the signatures                        *)
(*   vars         the variables of the module, each <<name, value>>         *)
(*   module       its name                                                  *)
(*                                                                          *)
(* What follows the first error is not modelled: the                        *)
(* functions being compiled are discarded then (endCompiler), so only        *)
(* hasError matters.  misread is TRUE once a scan of the bytecode has taken  *)
(* an argument for an instruction; what the C code does next depends on the *)
(* byte, and the model stops.  Foreign classes and methods are left out.    *)
(***************************************************************************)
EXTENDS WrenBytecode, WrenLexer, FiniteSetsExt, Functions

CONSTANTS
    LocalNames,      \* the names that begin with a lowercase letter
    MaxLocals        \* MAX_LOCALS

ASSUME CompilerAssumption == MaxLocals \in 1..ByteRange

\* The largest jump that patchJump accepts.
MaxJump == ByteRange * ByteRange

-----------------------------------------------------------------------------
\* The tokens.

Prev(s) == s.toks[s.pos]
Cur(s) == s.toks[IF s.pos < Len(s.toks) THEN s.pos + 1 ELSE s.pos]
At(s, type) == Cur(s)[1] = type
Name(s) == Prev(s)[2]

Error(s) == [s EXCEPT !.err = TRUE]
ErrorIf(s, cond) == IF cond THEN Error(s) ELSE s

Next1(s) == IF s.err \/ s.pos = Len(s.toks) THEN s ELSE [s EXCEPT !.pos = @ + 1]
Consume(s, type) == IF At(s, type) THEN Next1(s) ELSE Error(s)
Skip(s, type) == IF At(s, type) THEN Next1(s) ELSE s

RECURSIVE IgnoreNewlines(_)
IgnoreNewlines(s) ==
    IF ~s.err /\ At(s, "LINE") THEN IgnoreNewlines(Next1(s)) ELSE s

ConsumeLine(s) == IgnoreNewlines(Consume(s, "LINE"))

-----------------------------------------------------------------------------
\* The instructions.

\* The depth of the innermost compiler, and the compiler.
Inner(s) == Len(s.cs)
Top(s) == Last(s.cs)

EmitByteIn(s, k, b) ==
    [s EXCEPT !.cs[k].fn.code = Append(@, <<"byte", b>>)]
EmitOpIn(s, k, op, n) ==
    [s EXCEPT !.cs[k] =
        LET slots == @.numSlots + StackEffect(op, n)
        IN  [@ EXCEPT !.fn.code = Append(@, <<op, n>>),
                      !.numSlots = slots,
                      !.fn.maxSlots = IF slots > @ THEN slots ELSE @]]
EmitShortIn(s, k, n) ==
    EmitByteIn(EmitByteIn(s, k, n \div ByteRange), k, n % ByteRange)
EmitShortArgIn(s, k, op, n, arg) == EmitShortIn(EmitOpIn(s, k, op, n), k, arg)

EmitOp(s, op) == EmitOpIn(s, Inner(s), op, 0)
EmitByteArg(s, op, arg) == EmitByteIn(EmitOp(s, op), Inner(s), arg)
EmitShortArg(s, op, arg) == EmitShortArgIn(s, Inner(s), op, 0, arg)

Count(s) == Len(Top(s).fn.code)

\* A jump with a placeholder for its offset, which is at JumpOffset after it.
EmitJump(s, op) ==
    LET placeholder == ByteRange - 1
    IN  EmitByteIn(EmitByteArg(s, op, placeholder), Inner(s), placeholder)
JumpOffset(s) == Count(s) - 2

\* Mutation: counts the two bytes of the offset as one.
PatchJumpShort(s, offset) ==
    LET jump == Count(s) - offset - 1
    IN  IF jump > MaxJump THEN Error(s)
        ELSE [s EXCEPT !.cs[Inner(s)].fn.code =
                 [@ EXCEPT ![offset + 1] =
                               <<"byte", (jump \div ByteRange) % ByteRange>>,
                           ![offset + 2] = <<"byte", jump % ByteRange>>]]
PatchJump(s, offset) ==
    LET jump == Count(s) - offset - 2
    IN  IF jump > MaxJump THEN Error(s)
        ELSE [s EXCEPT !.cs[Inner(s)].fn.code =
                 [@ EXCEPT ![offset + 1] =
                               <<"byte", (jump \div ByteRange) % ByteRange>>,
                           ![offset + 2] = <<"byte", jump % ByteRange>>]]

\* The index of a constant, which is added when the function has not got it.
AddConstantIn(s, k, value) ==
    IF Contains(s.cs[k].constants, value) THEN s
    ELSE [s EXCEPT !.cs[k].constants = Append(@, value),
                   !.cs[k].fn.constants = Append(@, value)]
ConstantIndexIn(s, k, value) ==
    (CHOOSE i \in DOMAIN s.cs[k].constants : s.cs[k].constants[i] = value) - 1

EmitWithConstant(s, op, value) ==
    LET t == AddConstantIn(s, Inner(s), value)
    IN  EmitShortArg(t, op, ConstantIndexIn(t, Inner(s), value))
EmitConstant(s, value) == EmitWithConstant(s, "CONSTANT", value)

\* The symbol of a signature [type, name, arity], which is added to methodNames
\* when it is new.
Signature(type, name, arity) == <<type, name, arity>>
EnsureSymbol(s, sig) ==
    IF Contains(s.methodNames, sig) THEN s
    ELSE [s EXCEPT !.methodNames = Append(@, sig)]
Symbol(s, sig) == (CHOOSE i \in DOMAIN s.methodNames : s.methodNames[i] = sig) - 1

EmitCall(s, op, sig) ==
    LET t == EnsureSymbol(s, sig)
    IN  EmitShortArgIn(t, Inner(t), op, sig[3], Symbol(t, sig))

\* A super call has a constant for the superclass, which is null until the
\* method is bound to its class.
CallSignature(s, op, sig) ==
    LET t == EmitCall(s, op, sig)
        u == AddConstantIn(t, Inner(t), Null)
    IN  IF op = "SUPER"
        THEN EmitShortIn(u, Inner(u), ConstantIndexIn(u, Inner(u), Null))
        ELSE t
CallMethod(s, type, name, arity) == EmitCall(s, "CALL", Signature(type, name, arity))

-----------------------------------------------------------------------------
\* Variables and scopes.

NoClass == <<>>
Local(name, depth) == [name |-> name, depth |-> depth, isUpvalue |-> FALSE]

InitCompiler(s, isMethod) ==
    [s EXCEPT !.cs = Append(@,
        [locals |-> <<Local(IF isMethod THEN "this" ELSE "", -1)>>,
         upvalues |-> <<>>, constants |-> <<>>, loops |-> <<>>,
         numSlots |-> 1, enclosingClass |-> NoClass,
         scopeDepth |-> IF Len(@) = 0 THEN -1 ELSE 0,
         fn |-> [code |-> <<>>, constants |-> <<>>, maxSlots |-> 1, arity |-> 0,
                 numUpvalues |-> 0, module |-> s.module]])]

AddLocal(s, name) ==
    [s EXCEPT !.cs[Inner(s)].locals = Append(@, Local(name, Top(s).scopeDepth))]

HasVariable(s, name) == \E i \in DOMAIN s.vars : s.vars[i][1] = name
ModuleSymbol(s, name) ==
    IF HasVariable(s, name)
    THEN (CHOOSE i \in DOMAIN s.vars : s.vars[i][1] = name) - 1 ELSE -1

\* A use before the definition leaves a number, which the definition replaces.
Implicit == <<"num", 0>>
DefineModuleVariable(s, name) ==
    LET symbol == ModuleSymbol(s, name)
    IN  IF symbol = -1 THEN [s EXCEPT !.vars = Append(@, <<name, Null>>)]
        ELSE IF s.vars[symbol + 1][2][1] = "num"
        THEN [s EXCEPT !.vars[symbol + 1][2] = Null]
        ELSE Error(s)

DeclareVariableIn(s, k, name) ==
    LET c == s.cs[k]
    IN  IF c.scopeDepth = -1 THEN DefineModuleVariable(s, name)
        ELSE IF \/ \E i \in DOMAIN c.locals : /\ c.locals[i].depth >= c.scopeDepth
                                              /\ c.locals[i].name = name
                \/ Len(c.locals) = MaxLocals
        THEN Error(s)
        ELSE [s EXCEPT !.cs[k].locals = Append(@, Local(name, c.scopeDepth))]
DeclareVariable(s, name) == DeclareVariableIn(s, Inner(s), name)
DeclareNamedVariable(s) == LET t == Consume(s, "NAME") IN DeclareVariable(t, Name(t))

\* The value of a local is in its slot already.
DefineVariableIn(s, k, name) ==
    IF s.err \/ s.cs[k].scopeDepth >= 0 THEN s
    ELSE EmitOpIn(EmitShortArgIn(s, k, "STORE_MODULE_VAR", 0, ModuleSymbol(s, name)),
                  k, "POP", 0)
DefineVariable(s, name) == DefineVariableIn(s, Inner(s), name)

PushScope(s) == [s EXCEPT !.cs[Inner(s)].scopeDepth = @ + 1]

\* The locals at depth or greater, which are the last ones, the innermost first.
Discarded(s, depth) ==
    SelectSeq(Reverse(Top(s).locals), LAMBDA l : l.depth >= depth)
\* Mutation: forgets which locals are captured.
DiscardLocalsUnclosed(s, depth) ==
    [s EXCEPT !.cs[Inner(s)].fn.code = @ \o [i \in DOMAIN Discarded(s, depth) |-> <<"POP", 0>>]]
DiscardLocals(s, depth) ==
    [s EXCEPT !.cs[Inner(s)].fn.code =
        @ \o [i \in DOMAIN Discarded(s, depth) |->
                 <<IF Discarded(s, depth)[i].isUpvalue THEN "CLOSE_UPVALUE" ELSE "POP", 0>>]]
PopScope(s) ==
    LET popped == Len(Discarded(s, Top(s).scopeDepth))
        t == DiscardLocals(s, Top(s).scopeDepth)
    IN  [t EXCEPT !.cs[Inner(t)] =
            [@ EXCEPT !.locals = SubSeq(@, 1, Len(@) - popped),
                      !.numSlots = @ - popped, !.scopeDepth = @ - 1]]

\* Mutation: finds the outermost local of that name.
ResolveLocalOuter(s, k, name) ==
    LET slots == {i \in DOMAIN s.cs[k].locals : s.cs[k].locals[i].name = name}
    IN  IF slots = {} THEN -1 ELSE Min(slots) - 1
\* The slot of the innermost local with the name in compiler k, -1 for none.
ResolveLocal(s, k, name) ==
    LET slots == {i \in DOMAIN s.cs[k].locals : s.cs[k].locals[i].name = name}
    IN  IF slots = {} THEN -1 ELSE Max(slots) - 1

AddUpvalue(s, k, isLocal, index) ==
    LET up == <<isLocal, index>>
        ups == s.cs[k].upvalues
    IN  IF Contains(ups, up)
        THEN [s |-> s, index |-> (CHOOSE i \in DOMAIN ups : ups[i] = up) - 1]
        ELSE [s |-> [s EXCEPT !.cs[k].upvalues = Append(@, up)], index |-> Len(ups)]

RECURSIVE FindUpvalue(_, _, _)
FindUpvalue(s, k, name) ==
    IF k = 1 \/ (name \notin StaticNames /\ s.cs[k - 1].enclosingClass /= NoClass)
    THEN [s |-> s, index |-> -1]
    ELSE LET local == ResolveLocal(s, k - 1, name)
             outer == FindUpvalue(s, k - 1, name)
         IN  IF local /= -1
             THEN AddUpvalue([s EXCEPT !.cs[k - 1].locals[local + 1].isUpvalue = TRUE],
                             k, 1, local)
             ELSE IF outer.index /= -1
             THEN AddUpvalue(outer.s, k, 0, outer.index)
             ELSE outer

\* The variable [s, scope, index] that a name refers to in the innermost
\* compiler, index -1 when there is none; the state has the upvalues it needs.
ResolveNonmodule(s, name) ==
    LET local == ResolveLocal(s, Inner(s), name)
        up == FindUpvalue(s, Inner(s), name)
    IN  IF local /= -1 THEN [s |-> s, scope |-> "LOCAL", index |-> local]
        ELSE [s |-> up.s, scope |-> "UPVALUE", index |-> up.index]
ResolveName(s, name) ==
    LET v == ResolveNonmodule(s, name)
    IN  IF v.index /= -1 THEN v
        ELSE [s |-> v.s, scope |-> "MODULE", index |-> ModuleSymbol(s, name)]

LoadLocal(s, slot) ==
    IF slot <= 8 THEN EmitOpIn(s, Inner(s), "LOAD_LOCAL_n", slot)
    ELSE EmitByteArg(s, "LOAD_LOCAL", slot)
LoadVariable(s, v) ==
    CASE v.scope = "LOCAL" -> LoadLocal(s, v.index)
      [] v.scope = "UPVALUE" -> EmitByteArg(s, "LOAD_UPVALUE", v.index)
      [] v.scope = "MODULE" -> EmitShortArg(s, "LOAD_MODULE_VAR", v.index)
StoreVariable(s, v) ==
    CASE v.scope = "LOCAL" -> EmitByteArg(s, "STORE_LOCAL", v.index)
      [] v.scope = "UPVALUE" -> EmitByteArg(s, "STORE_UPVALUE", v.index)
      [] v.scope = "MODULE" -> EmitShortArg(s, "STORE_MODULE_VAR", v.index)
LoadThis(s) == LET v == ResolveNonmodule(s, "this") IN LoadVariable(v.s, v)
LoadCoreVariable(s, name) == EmitShortArg(s, "LOAD_MODULE_VAR", ModuleSymbol(s, name))


\* The function is finished: it becomes a constant of the parent, which gets
\* the code to make a closure of it.
RECURSIVE EmitUpvalues(_, _)
EmitUpvalues(s, ups) ==
    IF ups = <<>> THEN s
    ELSE EmitUpvalues(EmitByteIn(EmitByteIn(s, Inner(s), Head(ups)[1]),
                                 Inner(s), Head(ups)[2]), Tail(ups))
EndCompiler(s) ==
    LET ended == Top(EmitOp(s, "END"))
        fn == [ended.fn EXCEPT !.numUpvalues = Len(ended.upvalues)]
        t == [s EXCEPT !.cs = Front(@), !.fns = Append(@, fn)]
    IN  IF s.err THEN [s EXCEPT !.cs = Front(@)]
        ELSE IF t.cs = <<>> THEN t
        ELSE EmitUpvalues(EmitWithConstant(t, "CLOSURE", <<"fn", Len(t.fns)>>),
                          ended.upvalues)

\* The compiler of the nearest class around the code being compiled, 0 for none.
ClassCompiler(s) ==
    LET classes == {k \in DOMAIN s.cs : s.cs[k].enclosingClass /= NoClass}
    IN  IF classes = {} THEN 0 ELSE Max(classes)
EnclosingClass(s) == s.cs[ClassCompiler(s)].enclosingClass

-----------------------------------------------------------------------------
\* The grammar.

LOWEST == 1
ASSIGNMENT == 2
CONDITIONAL == 3
LOGICAL_OR == 4
LOGICAL_AND == 5
UNARY == 16
CALL == 17

\* The precedences of the infix rules; a token without one has PREC_NONE, 0.
InfixPrecedence ==
       [t \in {"?"} |-> ASSIGNMENT]
    @@ [t \in {"||"} |-> LOGICAL_OR] @@ [t \in {"&&"} |-> LOGICAL_AND]
    @@ [t \in {"==", "!="} |-> 6] @@ [t \in {"is"} |-> 7]
    @@ [t \in {"<", ">", "<=", ">="} |-> 8]
    @@ [t \in {"|"} |-> 9] @@ [t \in {"^"} |-> 10] @@ [t \in {"&"} |-> 11]
    @@ [t \in {"<<", ">>"} |-> 12] @@ [t \in {"..", "..."} |-> 13]
    @@ [t \in {"+", "-"} |-> 14] @@ [t \in {"*", "/", "%"} |-> 15]
    @@ [t \in {"[", "."} |-> CALL]
Precedence(type) ==
    IF type \in DOMAIN InfixPrecedence THEN InfixPrecedence[type] ELSE 0

PrefixTokens ==
    {"(", "[", "{", "-", "!", "~", "true", "false", "null", "super", "this",
     "FIELD", "STATIC_FIELD", "NAME", "NUMBER", "STRING", "INTERPOLATION"}

RECURSIVE ParsePrecedence(_, _), Infixes(_, _), Prefix(_, _), Infix(_, _),
          FinishParameterList(_, _), FinishArgumentList(_, _),
          ListElements(_), MapEntries(_), Parts(_), Definition(_),
          Definitions(_), Statement(_), Methods(_, _), PatchBreaks(_, _),
          ImportVariables(_), TopLevel(_)

Expression(s) == ParsePrecedence(s, LOWEST)
ParsePrecedence(s, precedence) ==
    LET t == Next1(s)
    IN  IF s.err THEN s
        ELSE IF Prev(t)[1] \notin PrefixTokens THEN Error(t)
        ELSE Infixes(Prefix(t, precedence <= CONDITIONAL), precedence)
Infixes(s, precedence) ==
    IF s.err \/ precedence > Precedence(Cur(s)[1]) THEN s
    ELSE Infixes(Infix(Next1(s), precedence <= CONDITIONAL), precedence)

\* A block after its "{": value tells whether its code leaves a value.
FinishBlock(s) ==
    LET t == IgnoreNewlines(s)
    IN  IF At(s, "}") THEN [s |-> Next1(s), value |-> FALSE]
        ELSE IF ~At(s, "LINE")
        THEN [s |-> Consume(Expression(s), "}"), value |-> TRUE]
        ELSE IF At(t, "}") THEN [s |-> Next1(t), value |-> FALSE]
        ELSE [s |-> Consume(Definitions(t), "}"), value |-> FALSE]
Definitions(s) ==
    LET t == ConsumeLine(Definition(s))
    IN  IF t.err \/ At(t, "}") \/ At(t, "EOF") THEN t ELSE Definitions(t)

FinishBody(s, isInitializer) ==
    LET b == FinishBlock(s)
        t == IF isInitializer
             THEN LoadLocal(IF b.value THEN EmitOp(b.s, "POP") ELSE b.s, 0)
             ELSE IF b.value THEN b.s ELSE EmitOp(b.s, "NULL")
    IN  EmitOp(t, "RETURN")

FinishParameterList(s, n) ==
    LET t == DeclareNamedVariable(ErrorIf(IgnoreNewlines(s), n = MaxParameters))
    IN  IF ~t.err /\ At(t, ",") THEN FinishParameterList(Next1(t), n + 1)
        ELSE [s |-> t, arity |-> n + 1]
FinishArgumentList(s, n) ==
    LET t == Expression(ErrorIf(IgnoreNewlines(s), n = MaxParameters))
    IN  IF ~t.err /\ At(t, ",") THEN FinishArgumentList(Next1(t), n + 1)
        ELSE [s |-> IgnoreNewlines(t), arity |-> n + 1]

\* A function in braces, the last argument of a call.
BlockArgument(s) ==
    LET t == InitCompiler(s, FALSE)
        p == FinishParameterList(Next1(t), 0)
        u == IF At(t, "|")
             THEN [Consume(p.s, "|") EXCEPT !.cs[Inner(t)].fn.arity = p.arity] ELSE t
    IN  EndCompiler(FinishBody(u, FALSE))

MethodCall(s, op, sig) ==
    LET parens == At(s, "(")
        args == IF parens /\ ~At(Next1(s), ")") THEN FinishArgumentList(Next1(s), 0)
                ELSE [s |-> Skip(s, "("), arity |-> 0]
        t == IF parens THEN Consume(args.s, ")") ELSE s
        block == At(t, "{")
        u == IF block THEN BlockArgument(Next1(t)) ELSE t
        type == IF parens \/ block THEN "METHOD" ELSE "GETTER"
        arity == args.arity + (IF block THEN 1 ELSE 0)
    IN  IF sig[1] = "INITIALIZER"
        THEN CallSignature(ErrorIf(u, type = "GETTER"), op,
                           Signature("INITIALIZER", sig[2], arity))
        ELSE CallSignature(u, op, Signature(type, sig[2], arity))

NamedCall(s, canAssign, op) ==
    IF canAssign /\ At(s, "=")
    THEN CallSignature(Expression(IgnoreNewlines(Next1(s))), op,
                       Signature("SETTER", Name(s), 1))
    ELSE MethodCall(s, op, Signature("GETTER", Name(s), 0))

BareName(v, canAssign) ==
    IF canAssign /\ At(v.s, "=") THEN StoreVariable(Expression(Next1(v.s)), v)
    ELSE LoadVariable(v.s, v)

\* A field: directly in a method the receiver is in slot 0, in a function
\* inside it the receiver is captured.
Field(s, canAssign) ==
    LET k == ClassCompiler(s)
        fields == EnclosingClass(s).fields
        ensured == IF Contains(fields, Name(s)) THEN fields ELSE Append(fields, Name(s))
        index == (CHOOSE i \in DOMAIN ensured : ensured[i] = Name(s)) - 1
        t == [s EXCEPT !.cs[k].enclosingClass.fields = ensured]
        isLoad == ~(canAssign /\ At(s, "="))
        u == IF isLoad THEN t ELSE Expression(Next1(t))
    IN  IF k = 0 \/ (k /= 0 /\ EnclosingClass(s).inStatic) THEN Error(s)
        ELSE IF index >= MaxFields THEN Error(t)
        ELSE IF k = Inner(s) - 1
        THEN EmitByteArg(u, IF isLoad THEN "LOAD_FIELD_THIS" ELSE "STORE_FIELD_THIS", index)
        ELSE EmitByteArg(LoadThis(u), IF isLoad THEN "LOAD_FIELD" ELSE "STORE_FIELD", index)

\* A static field is a local of the code around the class, made at its first use.
StaticField(s, canAssign) ==
    LET k == ClassCompiler(s)
        t == IF ResolveLocal(s, k, Name(s)) /= -1 THEN s
             ELSE DefineVariableIn(EmitOpIn(DeclareVariableIn(s, k, Name(s)), k, "NULL", 0),
                                   k, Name(s))
    IN  IF k = 0 THEN Error(s) ELSE BareName(ResolveName(t, Name(s)), canAssign)

NameExpression(s, canAssign) ==
    LET v == ResolveNonmodule(s, Name(s))
        t == IF HasVariable(v.s, Name(s)) THEN v.s
             ELSE [v.s EXCEPT !.vars = Append(@, <<Name(s), Implicit>>)]
    IN  IF v.index /= -1 THEN BareName(v, canAssign)
        ELSE IF Name(s) \in LocalNames /\ ClassCompiler(s) /= 0
        THEN NamedCall(LoadThis(v.s), canAssign, "CALL")
        ELSE IF Name(s) \in LocalNames /\ ~HasVariable(s, Name(s)) THEN Error(s)
        ELSE BareName([s |-> t, scope |-> "MODULE", index |-> ModuleSymbol(t, Name(s))],
                      canAssign)

\* Literals: a list, a map and a string with interpolations are built by calls.
NewOf(s, class) == CallMethod(LoadCoreVariable(s, class), "METHOD", "new", 0)
ListElements(s) ==
    LET t == IgnoreNewlines(s)
        u == CallMethod(Expression(t), "METHOD", "addCore_", 1)
    IN  IF t.err \/ At(t, "]") THEN t
        ELSE IF ~u.err /\ At(u, ",") THEN ListElements(Next1(u)) ELSE u
MapEntries(s) ==
    LET t == IgnoreNewlines(s)
        key == Consume(ParsePrecedence(t, UNARY), ":")
        u == CallMethod(Expression(IgnoreNewlines(key)), "METHOD", "addCore_", 2)
    IN  IF t.err \/ At(t, "}") THEN t
        ELSE IF ~u.err /\ At(u, ",") THEN MapEntries(Next1(u)) ELSE u
Literal(s) ==
    EmitConstant(s, <<IF Prev(s)[1] = "NUMBER" THEN "num" ELSE "str", Name(s)>>)
AddPart(s) == CallMethod(s, "METHOD", "addCore_", 1)
Parts(s) ==
    LET t == IgnoreNewlines(AddPart(Expression(IgnoreNewlines(AddPart(Literal(s))))))
    IN  IF ~t.err /\ At(t, "INTERPOLATION") THEN Parts(Next1(t))
        ELSE AddPart(Literal(Consume(t, "STRING")))

Super(s, canAssign) ==
    LET t == LoadThis(s)
    IN  IF ClassCompiler(s) = 0 THEN Error(s)
        ELSE IF At(t, ".")
        THEN NamedCall(Consume(Next1(t), "NAME"), canAssign, "SUPER")
        ELSE MethodCall(t, "SUPER", EnclosingClass(s).signature)

Prefix(s, canAssign) ==
    LET type == Prev(s)[1]
    IN  CASE type = "(" -> Consume(Expression(s), ")")
          [] type = "[" -> Consume(IgnoreNewlines(ListElements(NewOf(s, "List"))), "]")
          [] type = "{" -> Consume(IgnoreNewlines(MapEntries(NewOf(s, "Map"))), "}")
          [] type \in {"-", "!", "~"} ->
                 CallMethod(ParsePrecedence(IgnoreNewlines(s), UNARY + 1), "GETTER", type, 0)
          [] type = "true" -> EmitOp(s, "TRUE")
          [] type = "false" -> EmitOp(s, "FALSE")
          [] type = "null" -> EmitOp(s, "NULL")
          [] type = "super" -> Super(s, canAssign)
          [] type = "this" -> IF ClassCompiler(s) = 0 THEN Error(s) ELSE LoadThis(s)
          [] type = "FIELD" -> Field(s, canAssign)
          [] type = "STATIC_FIELD" -> StaticField(s, canAssign)
          [] type = "NAME" -> NameExpression(s, canAssign)
          [] type \in {"NUMBER", "STRING"} -> Literal(s)
          [] type = "INTERPOLATION" ->
                 CallMethod(Parts(NewOf(s, "List")), "METHOD", "join", 0)

Subscript(s, canAssign) ==
    LET args == FinishArgumentList(s, 0)
        t == Consume(args.s, "]")
        value == Expression(ErrorIf(Next1(t), args.arity = MaxParameters))
    IN  IF canAssign /\ At(t, "=")
        THEN CallSignature(value, "CALL", Signature("SUBSCRIPT_SETTER", "", args.arity + 1))
        ELSE CallSignature(t, "CALL", Signature("SUBSCRIPT", "", args.arity))

\* && and || skip their right operand.
ShortCircuit(s, op, precedence) ==
    LET t == EmitJump(IgnoreNewlines(s), op)
    IN  PatchJump(ParsePrecedence(t, precedence), JumpOffset(t))

Conditional(s) ==
    LET t == EmitJump(IgnoreNewlines(s), "JUMP_IF")
        then == IgnoreNewlines(Consume(ParsePrecedence(t, CONDITIONAL), ":"))
        u == EmitJump(then, "JUMP")
        else == ParsePrecedence(PatchJump(u, JumpOffset(t)), ASSIGNMENT)
    IN  PatchJump(else, JumpOffset(u))

InfixOp(s, op) ==
    CallSignature(ParsePrecedence(IgnoreNewlines(s), Precedence(op) + 1), "CALL",
                  Signature("METHOD", op, 1))

Infix(s, canAssign) ==
    LET type == Prev(s)[1]
    IN  CASE type = "[" -> Subscript(s, canAssign)
          [] type = "." -> NamedCall(Consume(IgnoreNewlines(s), "NAME"), canAssign, "CALL")
          [] type = "&&" -> ShortCircuit(s, "AND", LOGICAL_AND)
          [] type = "||" -> ShortCircuit(s, "OR", LOGICAL_OR)
          [] type = "?" -> Conditional(s)
          [] OTHER -> InfixOp(s, type)

-----------------------------------------------------------------------------
\* Statements.

InnerLoop(s) == Last(Top(s).loops)

StartLoop(s) ==
    [s EXCEPT !.cs[Inner(s)].loops =
        Append(@, [start |-> Count(s) - 1, exitJump |-> 0, body |-> 0,
                   scopeDepth |-> Top(s).scopeDepth])]
TestExitLoop(s) ==
    LET t == EmitJump(s, "JUMP_IF")
    IN  [t EXCEPT !.cs[Inner(t)].loops[Len(Top(t).loops)].exitJump = JumpOffset(t)]
LoopBody(s) ==
    Statement([s EXCEPT !.cs[Inner(s)].loops[Len(Top(s).loops)].body = Count(s)])

\* Every END from offset i on is the placeholder of a break.
PatchBreaks(s, i) ==
    LET op == Top(s).fn.code[i + 1][1]
    IN  IF s.err \/ i >= Count(s) THEN s
        ELSE IF op = "byte" THEN [s EXCEPT !.misread = TRUE]
        ELSE IF op = "END"
        THEN PatchBreaks(PatchJump([s EXCEPT !.cs[Inner(s)].fn.code[i + 1] = <<"JUMP", 0>>],
                                   i + 1), i + 3)
        ELSE PatchBreaks(s, i + 1 + NumArguments(s.fns, Top(s).fn, i))
EndLoop(s) ==
    LET loop == InnerLoop(s)
        t == PatchJump(EmitShortArg(s, "LOOP", Count(s) - loop.start + 2), loop.exitJump)
        u == PatchBreaks(t, loop.body)
    IN  [u EXCEPT !.cs[Inner(u)].loops = Front(@)]

\* for (name in sequence) body keeps the sequence and the iterator in two
\* hidden locals and has a fresh variable for each iteration.
Advance(s, seqSlot, method) ==
    CallMethod(LoadLocal(LoadLocal(s, seqSlot), seqSlot + 1), "METHOD", method, 1)
ForStatement(s) ==
    LET header == Consume(Consume(PushScope(s), "("), "NAME")
        seq == AddLocal(Expression(IgnoreNewlines(Consume(header, "in"))), "seq ")
        seqSlot == Len(Top(seq).locals) - 1
        iter == Consume(AddLocal(EmitOp(seq, "NULL"), "iter "), ")")
        test == TestExitLoop(EmitByteArg(Advance(StartLoop(iter), seqSlot, "iterate"),
                                         "STORE_LOCAL", seqSlot + 1))
        body == AddLocal(PushScope(Advance(test, seqSlot, "iteratorValue")), Name(header))
    IN  PopScope(EndLoop(PopScope(LoopBody(body))))

IfStatement(s) ==
    LET t == EmitJump(Consume(Expression(Consume(s, "(")), ")"), "JUMP_IF")
        then == Statement(t)
        u == EmitJump(Next1(then), "JUMP")
        else == Statement(PatchJump(u, JumpOffset(t)))
    IN  IF At(then, "else") THEN PatchJump(else, JumpOffset(u))
        ELSE PatchJump(then, JumpOffset(t))

WhileStatement(s) ==
    LET condition == Consume(Expression(Consume(StartLoop(s), "(")), ")")
    IN  EndLoop(LoopBody(TestExitLoop(condition)))

BreakStatement(s) ==
    IF Top(s).loops = <<>> THEN Error(s)
    ELSE EmitJump(DiscardLocals(s, InnerLoop(s).scopeDepth + 1), "END")

BlockStatement(s) ==
    LET b == FinishBlock(PushScope(s))
    IN  PopScope(IF b.value THEN EmitOp(b.s, "POP") ELSE b.s)

Statement(s) ==
    LET t == Next1(s)
    IN  IF s.err THEN s
        ELSE CASE At(s, "break") -> BreakStatement(t)
          [] At(s, "for") -> ForStatement(t)
          [] At(s, "if") -> IfStatement(t)
          [] At(s, "return") ->
                 EmitOp(IF At(t, "LINE") THEN EmitOp(t, "NULL") ELSE Expression(t), "RETURN")
          [] At(s, "while") -> WhileStatement(t)
          [] At(s, "{") -> BlockStatement(t)
          [] OTHER -> EmitOp(Expression(s), "POP")

-----------------------------------------------------------------------------
\* Classes.

InfixOperators == DOMAIN InfixPrecedence \ {"?", "||", "&&", ".", "["}

OneParameter(s) == Consume(DeclareNamedVariable(Consume(s, "(")), ")")
ParameterList(s) ==
    LET p == FinishParameterList(Next1(s), 0)
    IN  IF At(Next1(s), ")") THEN [s |-> Next1(Next1(s)), arity |-> 0]
        ELSE [s |-> Consume(p.s, ")"), arity |-> p.arity]
MaybeSetter(s, plain, setter, arity) ==
    IF At(s, "=") THEN [s |-> OneParameter(Next1(s)), sig |-> <<setter, arity + 1>>]
    ELSE [s |-> s, sig |-> <<plain, arity>>]

\* The signature <<type, arity>> of a method that begins with a token of this type.
MethodSignature(s, type) ==
    LET p == ParameterList(s)
        subscript == FinishParameterList(s, 0)
        construct == ParameterList(Consume(s, "NAME"))
    IN  CASE type = "NAME" /\ At(s, "(") -> [s |-> p.s, sig |-> <<"METHOD", p.arity>>]
          [] type = "NAME" /\ ~At(s, "(") -> MaybeSetter(s, "GETTER", "SETTER", 0)
          [] type = "construct" ->
                 [s |-> ErrorIf(construct.s, ~At(Consume(s, "NAME"), "(")),
                  sig |-> <<"INITIALIZER", construct.arity>>]
          [] type = "[" -> MaybeSetter(Consume(subscript.s, "]"), "SUBSCRIPT",
                                       "SUBSCRIPT_SETTER", subscript.arity)
          [] type \in {"!", "~"} \/ (type = "-" /\ ~At(s, "(")) ->
                 [s |-> s, sig |-> <<"GETTER", 0>>]
          [] type \in InfixOperators /\ ~(type = "-" /\ ~At(s, "(")) ->
                 [s |-> OneParameter(s), sig |-> <<"METHOD", 1>>]

MethodName(s, type) ==
    CASE type = "construct" -> Cur(s)[2] [] type = "[" -> "" [] OTHER -> Name(s)

\* The class is loaded for each method: static fields can lie on top of it.
DefineMethod(s, classVariable, isStatic, sig) ==
    EmitShortArg(LoadVariable(s, classVariable),
                 IF isStatic THEN "METHOD_STATIC" ELSE "METHOD_INSTANCE", Symbol(s, sig))

\* The static method of a constructor: make the instance, run the initializer.
CreateConstructor(s, initializer) ==
    LET t == EmitOp(InitCompiler(s, TRUE), "CONSTRUCT")
    IN  EndCompiler(EmitOp(EmitCall(t, "CALL", initializer), "RETURN"))

DeclareMethod(s, k, sig) ==
    LET class == s.cs[k].enclosingClass
        methods == IF class.inStatic THEN class.staticMethods ELSE class.methods
        t == EnsureSymbol(ErrorIf(s, sig \in methods), sig)
    IN  [t EXCEPT !.cs[k].enclosingClass =
            [@ EXCEPT !.signature = sig,
                      !.methods = IF class.inStatic THEN @ ELSE @ \cup {sig},
                      !.staticMethods = IF class.inStatic THEN @ \cup {sig} ELSE @]]

Method(s, classVariable) ==
    LET k == Inner(s)
        isStatic == At(s, "static")
        t == [Skip(s, "static") EXCEPT !.cs[k].enclosingClass.inStatic = isStatic]
        type == Cur(t)[1]
        u == Next1(t)
        m == MethodSignature(InitCompiler(u, TRUE), type)
        sig == Signature(m.sig[1], MethodName(u, type), m.sig[2])
        isInitializer == sig[1] = "INITIALIZER"
        d == DeclareMethod(ErrorIf(m.s, isStatic /\ isInitializer), k, sig)
        body == EndCompiler(FinishBody(Consume(d, "{"), isInitializer))
        defined == DefineMethod(body, classVariable, isStatic, sig)
        allocator == Signature("METHOD", sig[2], sig[3])
        c == EnsureSymbol(defined, allocator)
    IN  IF type \notin InfixOperators \cup {"NAME", "construct", "[", "!", "~"} THEN Error(u)
        ELSE IF ~isInitializer \/ defined.err THEN defined
        ELSE DefineMethod(CreateConstructor(c, sig), classVariable, TRUE, allocator)
Methods(s, classVariable) ==
    LET t == Method(s, classVariable)
    IN  IF s.err THEN s
        ELSE IF At(s, "}") THEN Next1(s)
        ELSE IF t.err THEN t
        ELSE IF At(t, "}") THEN Next1(t)
        ELSE Methods(ConsumeLine(t), classVariable)

ClassDefinition(s) ==
    LET k == Inner(s)
        declared == DeclareNamedVariable(s)
        name == Name(declared)
        variable == IF s.cs[k].scopeDepth = -1
                    THEN [scope |-> "MODULE", index |-> ModuleSymbol(declared, name)]
                    ELSE [scope |-> "LOCAL", index |-> ResolveLocal(declared, k, name)]
        named == EmitConstant(declared, <<"str", <<name>> >>)
        super == IF At(named, "is") THEN ParsePrecedence(Next1(named), CALL)
                 ELSE LoadCoreVariable(named, "Object")
        made == EmitByteArg(super, "CLASS", ByteRange - 1)
        scope == PushScope(DefineVariable(made, name))
        inside == [scope EXCEPT !.cs[k].enclosingClass =
                      [fields |-> <<>>, methods |-> {}, staticMethods |-> {},
                       inStatic |-> FALSE, signature |-> <<>>]]
        body == Methods(IgnoreNewlines(Consume(inside, "{")), variable)
        numFields == Len(body.cs[k].enclosingClass.fields)
    IN  IF declared.err THEN declared
        ELSE PopScope([body EXCEPT
                 !.cs[k] = [@ EXCEPT !.fn.code[Count(made)] = <<"byte", numFields>>,
                                     !.enclosingClass = NoClass]])

-----------------------------------------------------------------------------
\* Definitions.

ImportVariables(s) ==
    LET t == DeclareNamedVariable(IgnoreNewlines(s))
        u == DefineVariable(EmitWithConstant(t, "IMPORT_VARIABLE", <<"str", <<Name(t)>> >>),
                            Name(t))
    IN  IF ~u.err /\ At(u, ",") THEN ImportVariables(Next1(u)) ELSE u
Import(s) ==
    LET t == Consume(IgnoreNewlines(s), "STRING")
        u == EmitOp(EmitWithConstant(t, "IMPORT_MODULE", <<"str", Name(t)>>), "POP")
    IN  IF At(u, "for") THEN ImportVariables(Next1(u)) ELSE u

\* The variable is not in scope in its own initializer.
VariableDefinition(s) ==
    LET t == Consume(s, "NAME")
        u == IF At(t, "=") THEN Expression(IgnoreNewlines(Next1(t))) ELSE EmitOp(t, "NULL")
    IN  DefineVariable(DeclareVariable(u, Name(t)), Name(t))

Definition(s) ==
    CASE s.err -> s
      [] ~s.err /\ At(s, "class") -> ClassDefinition(Next1(s))
      [] ~s.err /\ At(s, "import") -> Import(Next1(s))
      [] ~s.err /\ At(s, "var") -> VariableDefinition(Next1(s))
      [] OTHER -> Statement(s)

TopLevel(s) ==
    LET t == Definition(s)
    IN  IF s.err \/ At(s, "EOF") THEN s
        ELSE IF ~t.err /\ At(t, "LINE") THEN TopLevel(IgnoreNewlines(t))
        ELSE Consume(t, "EOF")

\* wrenCompile: the state after the module is compiled, its function the last
\* one of fns unless err or misread.
Compile(text, module, vars, fns, methodNames) ==
    LET lexed == Tokens(text)
        s == InitCompiler([toks |-> lexed.toks, pos |-> 0, err |-> lexed.err, misread |-> FALSE,
                           cs |-> <<>>, fns |-> fns, methodNames |-> methodNames,
                           vars |-> vars, module |-> module], FALSE)
        body == EmitOp(EmitOp(TopLevel(IgnoreNewlines(s)), "END_MODULE"), "RETURN")
        undefined == \E i \in DOMAIN body.vars : i > Len(vars) /\ body.vars[i][2] = Implicit
    IN  EndCompiler(ErrorIf(body, undefined))

-----------------------------------------------------------------------------
(***************************************************************************)
(* wrenBindMethodCode: when a method is bound to its class, the fields of    *)
(* its code move past the inherited ones and its super calls get the         *)
(* superclass, also in the functions inside it.  The functions are patched   *)
(* in place.                                                                 *)
(***************************************************************************)
RECURSIVE BindFrom(_, _, _, _, _)
BindFrom(b, id, ip, inherited, superclass) ==
    LET fn == b.fns[id]
        op == fn.code[ip + 1][1]
        constant == fn.constants[ReadShort(fn.code, ip + 1) + 1][2]
        bound ==
            CASE op \in {"LOAD_FIELD", "STORE_FIELD", "LOAD_FIELD_THIS", "STORE_FIELD_THIS"} ->
                    [b EXCEPT !.fns[id].code[ip + 2][2] = (@ + inherited) % ByteRange]
              [] op = "SUPER" ->
                    [b EXCEPT !.fns[id].constants[ReadShort(fn.code, ip + 3) + 1] = superclass]
              [] op = "CLOSURE" -> BindFrom(b, constant, 0, inherited, superclass)
              [] OTHER -> b
    IN  CASE op = "END" -> b
          [] op = "byte" -> [b EXCEPT !.misread = TRUE]
          [] OTHER -> BindFrom(bound, id, ip + 1 + NumArguments(b.fns, fn, ip),
                               inherited, superclass)
BindMethodCode(fns, id, inherited, superclass) ==
    BindFrom([fns |-> fns, misread |-> FALSE], id, 0, inherited, superclass)
=============================================================================
