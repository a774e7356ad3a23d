---------------------------- MODULE WrenSemantics ----------------------------
(***************************************************************************)
(* What a program means, independent of how it is compiled: an evaluator of   *)
(* the trees of WrenSyntax by the pages of doc/site (variables, functions,    *)
(* classes, control-flow, method-calls, modularity).  Variables are cells     *)
(* that environments name; an instance keeps its fields by the class whose    *)
(* code names them; a method is looked up along the superclasses; a for loop  *)
(* runs over a mathematical sequence.                                         *)
(*                                                                          *)
(* A store st = [program, cells, objects, classes, modules, output].  A result is       *)
(* [st, v, exit], exit one of "none", "break", "return" and "error"; that of a *)
(* statement has the environment of the next one also.                        *)
(***************************************************************************)
EXTENDS Integers, Sequences, SequencesExt, FiniteSetsExt, TLC

CONSTANTS
    Lowercase,       \* the names that can be methods of this
    Tree(_, _)       \* the statements of a module of a program, <<>> if there is none

Nothing == <<"null", 0>>
Boolean(b) == <<"bool", b>>
IsTrue(v) == v /= Boolean(FALSE) /\ v /= Nothing

Result(st, v) == [st |-> st, v |-> v, exit |-> "none"]
Fault(st) == [st |-> st, v |-> Nothing, exit |-> "error"]
\* What comes after a step that may not have gone through.
Then(r, F(_)) == IF r.exit = "none" THEN F(r) ELSE r
WithEnv(r, env) == [st |-> r.st, v |-> r.v, exit |-> r.exit, env |-> env]

-----------------------------------------------------------------------------
\* The store.

CoreNames == << "Object", "Class", "Bool", "Fn", "Null", "Num", "Range", "String",
                "List", "Map", "System" >>
CoreNumber(name) == CHOOSE i \in DOMAIN CoreNames : CoreNames[i] = name
NoMethods == [sig \in {} |-> <<>>]
NewClass(name, super) ==
    [name |-> name, super |-> super, methods |-> NoMethods, statics |-> NoMethods,
     fields |-> [f \in {} |-> Nothing]]
EmptyStore(program) ==
    [program |-> program, cells |-> <<>>, objects |-> <<>>, modules |-> [m \in {} |-> Nothing], output |-> <<>>,
     classes |-> [i \in DOMAIN CoreNames |->
                     NewClass(CoreNames[i], IF i = 1 THEN 0 ELSE 1)]]

\* The class of a value, and the methods that its class has or inherits.
ClassOf(st, v) ==
    CASE v[1] \in {"instance", "List", "Map"} -> st.objects[v[2]].class
      [] v[1] = "num" -> CoreNumber("Num")
      [] v[1] = "bool" -> CoreNumber("Bool")
      [] v[1] = "null" -> CoreNumber("Null")
      [] v[1] = "str" -> CoreNumber("String")
      [] v[1] = "range" -> CoreNumber("Range")
      [] v[1] = "fn" -> CoreNumber("Fn")
      [] v[1] = "class" -> CoreNumber("Class")

RECURSIVE Found(_, _, _), IsA(_, _, _)
Found(st, class, sig) ==
    IF class = 0 THEN <<>>
    ELSE IF sig \in DOMAIN st.classes[class].methods THEN st.classes[class].methods[sig]
    ELSE Found(st, st.classes[class].super, sig)
IsA(st, class, base) ==
    class /= 0 /\ (class = base \/ IsA(st, st.classes[class].super, base))
MethodOf(st, v, sig) ==
    IF v[1] = "class"
    THEN IF sig \in DOMAIN st.classes[v[2]].statics THEN st.classes[v[2]].statics[sig] ELSE <<>>
    ELSE Found(st, ClassOf(st, v), sig)

\* The text of a value.
RECURSIVE Shown(_, _)
Shown(st, v) ==
    CASE v[1] = "num" -> <<ToString(v[2])>>
      [] v[1] = "bool" -> <<IF v[2] THEN "true" ELSE "false">>
      [] v[1] = "null" -> <<"null">>
      [] v[1] = "str" -> v[2]
      [] v[1] = "range" -> <<ToString(v[2]), v[4], ToString(v[3])>>
      [] v[1] = "class" -> <<st.classes[v[2]].name>>
      [] v[1] = "fn" -> <<"<fn>">>
      [] OTHER -> <<"instance of ", st.classes[ClassOf(st, v)].name>>

-----------------------------------------------------------------------------
\* The methods of the core classes.

Arithmetic(op, a, b) ==
    CASE op = "+" -> <<"num", a + b>> [] op = "-" -> <<"num", a - b>>
      [] op = "*" -> <<"num", a * b>> [] op = "<" -> Boolean(a < b)
      [] op = ">" -> Boolean(a > b)   [] op = "<=" -> Boolean(a <= b)
      [] op = ">=" -> Boolean(a >= b) [] op \in {"..", "..."} -> <<"range", a, b, op>>
Operations == {"+", "-", "*", "<", ">", "<=", ">=", "..", "..."}

\* The numbers of a range, in order.
Counted(v) ==
    LET last == IF v[4] = ".." THEN v[3] ELSE IF v[2] < v[3] THEN v[3] - 1 ELSE v[3] + 1
    IN  IF v[4] = "..." /\ v[2] = v[3] THEN <<>>
        ELSE IF v[2] <= last /\ v[2] <= v[3] THEN [i \in 1..(last - v[2] + 1) |-> <<"num", v[2] + i - 1>>]
        ELSE [i \in 1..(v[2] - last + 1) |-> <<"num", v[2] - i + 1>>]

Items(st, v) == st.objects[v[2]].items
Alter(st, v, items) == [st EXCEPT !.objects[v[2]].items = items]
MakeObject(st, kind, class, items) ==
    Result([st EXCEPT !.objects = Append(@, [class |-> class, items |-> items,
                                             fields |-> [f \in {} |-> Nothing]])],
           <<kind, Len(st.objects) + 1>>)

\* The position of an index that may count from the end, 0 for none.
Position(v, n) ==
    IF v[1] /= "num" \/ v[2] \notin (-n)..(n - 1) THEN 0
    ELSE IF v[2] < 0 THEN n + v[2] + 1 ELSE v[2] + 1
KeyPositions(items, key) == {i \in DOMAIN items : items[i][1] = key}

\* The positions that a range selects among n, each of which has to be there; the
\* range from the end to -1, or to the end without it, selects none.
Selects(r, n) ==
    LET wrapped(i) == IF i < 0 THEN n + i ELSE i
        counted == Counted(<<"range", wrapped(r[2]), wrapped(r[3]), r[4]>>)
        positions == [i \in DOMAIN counted |-> counted[i][2] + 1]
        nothing == r[2] = n /\ r[3] = (IF r[4] = ".." THEN -1 ELSE n)
    IN  IF nothing THEN [ok |-> TRUE, at |-> <<>>]
        ELSE [ok |-> wrapped(r[2]) \in 0..(n - 1) /\ Range(positions) \subseteq 1..n,
              at |-> positions]

ListOperation(st, v, sig, args) ==
    LET items == Items(st, v)
        n == Len(items)
        at == Position(args[1], n)
        place == Position(args[1], n + 1)
        selects == Selects(args[1], n)
        without == [i \in 1..(n - 1) |-> items[IF i < at THEN i ELSE i + 1]]
    IN  CASE sig = <<"GETTER", "count", 0>> -> Result(st, <<"num", n>>)
          [] sig = <<"METHOD", "add", 1>> -> Result(Alter(st, v, Append(items, args[1])), args[1])
          [] sig = <<"METHOD", "clear", 0>> -> Result(Alter(st, v, <<>>), Nothing)
          [] sig = <<"METHOD", "insert", 2>> ->
                 IF place = 0 THEN Fault(st)
                 ELSE Result(Alter(st, v, SubSeq(items, 1, place - 1) \o <<args[2]>>
                                              \o SubSeq(items, place, n)), args[2])
          [] sig = <<"METHOD", "removeAt", 1>> ->
                 IF at = 0 THEN Fault(st) ELSE Result(Alter(st, v, without), items[at])
          [] sig = <<"SUBSCRIPT", "", 1>> /\ args[1][1] = "range" ->
                 IF ~selects.ok THEN Fault(st)
                 ELSE MakeObject(st, "List", CoreNumber("List"),
                                 [i \in DOMAIN selects.at |-> items[selects.at[i]]])
          [] sig = <<"SUBSCRIPT", "", 1>> /\ args[1][1] /= "range" ->
                 IF at = 0 THEN Fault(st) ELSE Result(st, items[at])
          [] sig = <<"SUBSCRIPT_SETTER", "", 2>> ->
                 IF at = 0 THEN Fault(st)
                 ELSE Result(Alter(st, v, [items EXCEPT ![at] = args[2]]), args[2])
          [] OTHER -> Fault(st)

\* The first place of a text in another one, from a position on.
FirstPlace(text, search, start) ==
    LET places == {i \in start..(Len(text) - Len(search)) :
                      \A k \in DOMAIN search : text[i + k] = search[k]}
    IN  IF places = {} THEN -1 ELSE Min(places)
StringOperation(st, v, sig, args) ==
    LET text == v[2]
        n == Len(text)
        search == IF args[1][1] = "str" THEN args[1][2] ELSE <<>>
        at == Position(args[IF sig[3] = 2 THEN 2 ELSE 1], n)
        selects == Selects(args[1], n)
    IN  CASE sig = <<"GETTER", "toString", 0>> -> Result(st, v)
          [] sig = <<"SUBSCRIPT", "", 1>> /\ args[1][1] = "range" ->
                 IF ~selects.ok THEN Fault(st)
                 ELSE Result(st, <<"str", [i \in DOMAIN selects.at |-> text[selects.at[i]]]>>)
          [] sig = <<"SUBSCRIPT", "", 1>> /\ args[1][1] /= "range" ->
                 IF at = 0 THEN Fault(st) ELSE Result(st, <<"str", <<text[at]>> >>)
          [] sig[1] = "METHOD" /\ args[1][1] /= "str" -> Fault(st)
          [] sig = <<"METHOD", "+", 1>> -> Result(st, <<"str", text \o search>>)
          [] sig = <<"METHOD", "contains", 1>> ->
                 Result(st, Boolean(FirstPlace(text, search, 0) /= -1))
          [] sig = <<"METHOD", "startsWith", 1>> ->
                 Result(st, Boolean(IsPrefix(search, text)))
          [] sig = <<"METHOD", "endsWith", 1>> ->
                 Result(st, Boolean(IsSuffix(search, text)))
          [] sig = <<"METHOD", "indexOf", 1>> ->
                 Result(st, <<"num", FirstPlace(text, search, 0)>>)
          [] sig = <<"METHOD", "indexOf", 2>> ->
                 IF at = 0 THEN Fault(st)
                 ELSE Result(st, <<"num", FirstPlace(text, search, at - 1)>>)
          [] OTHER -> Fault(st)
Entered(items, key, value) ==
    LET at == KeyPositions(items, key)
    IN  IF at = {} THEN Append(items, <<key, value>>)
        ELSE [items EXCEPT ![Max(at)] = <<key, value>>]
IsKey(v) == v[1] \notin {"instance", "List", "Map", "fn"}
MapOperation(st, v, sig, args) ==
    LET items == Items(st, v)
        at == KeyPositions(items, args[1])
    IN  CASE sig = <<"GETTER", "count", 0>> -> Result(st, <<"num", Len(items)>>)
          [] sig = <<"METHOD", "clear", 0>> -> Result(Alter(st, v, <<>>), Nothing)
          [] sig[3] > 0 /\ ~IsKey(args[1]) -> Fault(st)
          [] sig = <<"METHOD", "containsKey", 1>> -> Result(st, Boolean(at /= {}))
          [] sig = <<"METHOD", "remove", 1>> ->
                 IF at = {} THEN Result(st, Nothing)
                 ELSE Result(Alter(st, v, SelectSeq(items, LAMBDA p : p[1] /= args[1])),
                             items[Max(at)][2])
          [] sig = <<"SUBSCRIPT", "", 1>> ->
                 Result(st, IF at = {} THEN Nothing ELSE items[Max(at)][2])
          [] sig = <<"SUBSCRIPT_SETTER", "", 2>> ->
                 Result(Alter(st, v, Entered(items, args[1], args[2])), args[2])
          [] OTHER -> Fault(st)

\* A call of a method that no class of the program defines.
CoreCall(st, v, sig, args) ==
    CASE sig = <<"METHOD", "==", 1>> -> Result(st, Boolean(v = args[1]))
      [] sig = <<"METHOD", "!=", 1>> -> Result(st, Boolean(v /= args[1]))
      [] sig = <<"GETTER", "!", 0>> -> Result(st, Boolean(~IsTrue(v)))
      [] sig = <<"METHOD", "is", 1>> ->
             IF args[1][1] /= "class" THEN Fault(st)
             ELSE Result(st, Boolean(IsA(st, ClassOf(st, v), args[1][2])))
      [] v[1] = "num" /\ sig = <<"GETTER", "-", 0>> -> Result(st, <<"num", -v[2]>>)
      [] v[1] = "num" /\ sig \in {<<"METHOD", op, 1>> : op \in Operations} ->
             IF args[1][1] /= "num" THEN Fault(st)
             ELSE Result(st, Arithmetic(sig[2], v[2], args[1][2]))
      [] v[1] = "str" -> StringOperation(st, v, sig, args)
      [] v[1] = "List" -> ListOperation(st, v, sig, args)
      [] v[1] = "Map" -> MapOperation(st, v, sig, args)
      [] v = <<"class", CoreNumber("System")>> /\ sig = <<"METHOD", "print", 1>> ->
             Result([st EXCEPT !.output = Append(@, Shown(st, args[1]))], args[1])
      [] v = <<"class", CoreNumber("Fn")>> /\ sig = <<"METHOD", "new", 1>> ->
             IF args[1][1] = "fn" THEN Result(st, args[1]) ELSE Fault(st)
      [] OTHER -> Fault(st)

-----------------------------------------------------------------------------
\* Environments: cells, module and, in a method, this, its class and its signature.

NoThis == <<"no this">>
ModuleEnv(module) ==
    [cells |-> [x \in {} |-> 0], module |-> module, top |-> TRUE, this |-> NoThis,
     class |-> 0, sig |-> <<>>]
Declared(r, env, x, v) ==
    IF env.top THEN WithEnv([r EXCEPT !.st.modules[env.module] = (x :> v) @@ @], env)
    ELSE WithEnv([r EXCEPT !.st.cells = Append(@, v)],
                 [env EXCEPT !.cells = (x :> Len(r.st.cells) + 1) @@ @])
RECURSIVE BindAll(_, _, _, _)
BindAll(r, env, params, args) ==
    IF params = <<>> THEN WithEnv(r, env)
    ELSE LET d == Declared(r, env, Head(params), Head(args))
         IN  BindAll(Result(d.st, Nothing), d.env, Tail(params), Tail(args))

\* The variables of a module are null until they are defined.
ModuleNames(stmts) ==
    UNION {CASE stmts[i][1] \in {"var", "class"} -> {stmts[i][2]}
             [] stmts[i][1] = "import" -> Range(stmts[i][3])
             [] OTHER -> {} : i \in DOMAIN stmts}
ModuleVariables(stmts) ==
    [x \in ModuleNames(stmts) |-> Nothing]
        @@ [x \in Range(CoreNames) |-> <<"class", CoreNumber(x)>>]

-----------------------------------------------------------------------------
\* Evaluation.

RECURSIVE Eval(_, _, _), EvalAll(_, _, _), Exec(_, _, _), ExecAll(_, _, _),
          Repeat(_, _, _), Over(_, _, _, _), OverList(_, _, _, _, _), Protocol(_, _, _, _, _),
          EvalPairs(_, _, _), Call(_, _, _, _), Imported(_, _, _, _)

\* A body that is one expression has its value, another one null or what it returns.
RunBody(body, r) ==
    LET e == ExecAll(body[2], r.env, r.st)
    IN  IF body[1] = "expr" THEN Eval(body[2], r.env, r.st)
        ELSE [st |-> e.st, v |-> IF e.exit = "return" THEN e.v ELSE Nothing,
              exit |-> IF e.exit = "error" THEN "error" ELSE "none"]

RunMethod(st, v, m, args) ==
    LET env == [ModuleEnv(m.module) EXCEPT !.top = FALSE, !.this = v, !.class = m.class,
                                           !.sig = m.sig]
        body == RunBody(m.body, BindAll(Result(st, Nothing), env, m.params, args))
        new == MakeObject(st, "instance", v[2], <<>>)
    IN  CASE m.sig[1] = "INITIALIZER" -> Then(body, LAMBDA r : Result(r.st, v))
          [] m.sig[1] = "ALLOCATOR" ->
                 Call(new.st, new.v, <<"INITIALIZER", m.sig[2], m.sig[3]>>, args)
          [] OTHER -> body

Call(st, v, sig, args) ==
    LET method == MethodOf(st, v, sig)
        f == st.objects[v[2]]
    IN  IF method /= <<>> THEN RunMethod(st, v, method, args)
        ELSE IF v[1] = "fn" /\ sig[1] = "METHOD" /\ sig[2] = "call"
        THEN IF Len(args) < Len(f.params) THEN Fault(st)
             ELSE RunBody(f.body, BindAll(Result(st, Nothing), f.env, f.params, args))
        ELSE CoreCall(st, v, sig, args)

SuperCall(st, env, sig, args) ==
    LET method == Found(st, IF env.this[1] = "class" THEN 0 ELSE st.classes[env.class].super, sig)
    IN  IF method /= <<>> THEN RunMethod(st, env.this, method, args)
        ELSE CoreCall(st, env.this, sig, args)

\* The values of expressions, from left to right.
EvalAll(es, env, st) ==
    IF es = <<>> THEN Result(st, <<>>)
    ELSE Then(Eval(Head(es), env, st), LAMBDA first :
              Then(EvalAll(Tail(es), env, first.st), LAMBDA rest :
                   Result(rest.st, <<first.v>> \o rest.v)))
EvalPairs(pairs, env, r) ==
    IF pairs = <<>> THEN r
    ELSE Then(EvalAll(Head(pairs), env, r.st), LAMBDA p :
              IF ~IsKey(p.v[1]) THEN Fault(p.st)
              ELSE EvalPairs(Tail(pairs), env,
                             Result(Alter(p.st, r.v, Entered(Items(p.st, r.v), p.v[1], p.v[2])),
                                    r.v)))

\* A call whose receiver and arguments are expressions.
Send(e, sig, args, env, st) ==
    Then(EvalAll(<<e>> \o args, env, st),
         LAMBDA r : Call(r.st, Head(r.v), sig, Tail(r.v)))

\* What a name refers to: a variable of the code around it in the same method,
\* else a getter of this for a lowercase name in a class, else a module variable.
ReadName(x, env, st) ==
    IF x \in DOMAIN env.cells THEN Result(st, st.cells[env.cells[x]])
    ELSE IF env.class /= 0 /\ x \in Lowercase THEN Call(st, env.this, <<"GETTER", x, 0>>, <<>>)
    ELSE Result(st, st.modules[env.module][x])
WriteName(x, env, r) ==
    IF x \in DOMAIN env.cells THEN [r EXCEPT !.st.cells[env.cells[x]] = r.v]
    ELSE IF env.class /= 0 /\ x \in Lowercase
    THEN Call(r.st, env.this, <<"SETTER", x, 1>>, <<r.v>>)
    ELSE [r EXCEPT !.st.modules[env.module][x] = r.v]

\* The fields of this that the code of its class names, and those of the class.
ReadFrom(fields, key) == IF key \in DOMAIN fields THEN fields[key] ELSE Nothing

Closure(st, params, body, env) ==
    Result([st EXCEPT !.objects = Append(@, [params |-> params, body |-> body,
                                             env |-> [env EXCEPT !.top = FALSE]])],
           <<"fn", Len(st.objects) + 1>>)

Eval(e, env, st) ==
    CASE e[1] = "num" -> Result(st, e)
      [] e[1] = "str" -> Result(st, <<"str", e[2]>>)
      [] e[1] \in {"true", "false"} -> Result(st, Boolean(e[1] = "true"))
      [] e[1] = "null" -> Result(st, Nothing)
      [] e[1] = "this" -> Result(st, env.this)
      [] e[1] = "name" -> ReadName(e[2], env, st)
      [] e[1] = "set" -> Then(Eval(e[3], env, st), LAMBDA r : WriteName(e[2], env, r))
      [] e[1] = "field" ->
             Result(st, ReadFrom(st.objects[env.this[2]].fields, <<env.class, e[2]>>))
      [] e[1] = "setfield" ->
             Then(Eval(e[3], env, st), LAMBDA r :
                  [r EXCEPT !.st.objects[env.this[2]].fields =
                       (<<env.class, e[2]>> :> r.v) @@ @])
      [] e[1] = "static" -> Result(st, ReadFrom(st.classes[env.class].fields, e[2]))
      [] e[1] = "setstatic" ->
             Then(Eval(e[3], env, st), LAMBDA r :
                  [r EXCEPT !.st.classes[env.class].fields = (e[2] :> r.v) @@ @])
      [] e[1] = "un" -> Send(e[3], <<"GETTER", e[2], 0>>, <<>>, env, st)
      [] e[1] = "bin" /\ e[2] \in {"&&", "||"} ->
             Then(Eval(e[3], env, st), LAMBDA r :
                  IF IsTrue(r.v) = (e[2] = "&&") THEN Eval(e[4], env, r.st) ELSE r)
      [] e[1] = "bin" /\ e[2] \notin {"&&", "||"} ->
             Send(e[3], <<"METHOD", e[2], 1>>, <<e[4]>>, env, st)
      [] e[1] = "cond" ->
             Then(Eval(e[2], env, st), LAMBDA r :
                  Eval(IF IsTrue(r.v) THEN e[3] ELSE e[4], env, r.st))
      [] e[1] = "get" -> Send(e[2], <<"GETTER", e[3], 0>>, <<>>, env, st)
      [] e[1] = "put" -> Send(e[2], <<"SETTER", e[3], 1>>, <<e[4]>>, env, st)
      [] e[1] = "call" -> Send(e[2], <<"METHOD", e[3], Len(e[4])>>, e[4], env, st)
      [] e[1] = "fncall" ->
             Send(e[2], <<"METHOD", e[3], Len(e[4]) + 1>>,
                  Append(e[4], <<"closure", e[5], e[6]>>), env, st)
      [] e[1] = "closure" -> Closure(st, e[2], e[3], env)
      [] e[1] = "send" -> Send(<<"this">>, <<"METHOD", e[2], Len(e[3])>>, e[3], env, st)
      [] e[1] = "index" -> Send(e[2], <<"SUBSCRIPT", "", Len(e[3])>>, e[3], env, st)
      [] e[1] = "setindex" ->
             Send(e[2], <<"SUBSCRIPT_SETTER", "", Len(e[3]) + 1>>, Append(e[3], e[4]), env, st)
      [] e[1] = "super" ->
             Then(EvalAll(e[2], env, st), LAMBDA r :
                  SuperCall(r.st, env, <<env.sig[1], env.sig[2], Len(e[2])>>, r.v))
      [] e[1] = "superget" -> SuperCall(st, env, <<"GETTER", e[2], 0>>, <<>>)
      [] e[1] = "superput" ->
             Then(Eval(e[3], env, st), LAMBDA r :
                  SuperCall(r.st, env, <<"SETTER", e[2], 1>>, <<r.v>>))
      [] e[1] = "supercall" ->
             Then(EvalAll(e[3], env, st), LAMBDA r :
                  SuperCall(r.st, env, <<"METHOD", e[2], Len(e[3])>>, r.v))
      [] e[1] = "list" ->
             Then(EvalAll(e[2], env, st), LAMBDA r :
                  MakeObject(r.st, "List", CoreNumber("List"), r.v))
      [] e[1] = "map" ->
             EvalPairs(e[2], env, MakeObject(st, "Map", CoreNumber("Map"), <<>>))
      [] e[1] = "interp" ->
             Then(EvalAll(e[3], env, st), LAMBDA r :
                  Result(r.st, <<"str", FlattenSeq([i \in DOMAIN e[2] |->
                                     e[2][i] \o Shown(r.st, r.v[i])]) \o e[4]>>))

-----------------------------------------------------------------------------
\* Statements.

Scoped(s, env, st) == WithEnv(Exec(s, [env EXCEPT !.top = FALSE], st), env)

ExecAll(stmts, env, st) ==
    IF stmts = <<>> THEN WithEnv(Result(st, Nothing), env)
    ELSE Then(Exec(Head(stmts), env, st), LAMBDA r : ExecAll(Tail(stmts), r.env, r.st))

\* Loops: a break ends the loop, everything else that ends a body goes on outward.
Broken(r) == IF r.exit = "break" THEN Result(r.st, Nothing) ELSE r
Repeat(s, env, st) ==
    Then(Eval(s[2], env, st), LAMBDA c :
         IF ~IsTrue(c.v) THEN c
         ELSE Then(Scoped(s[3], env, c.st), LAMBDA r : Repeat(s, env, r.st)))
\* Each turn of a for loop has a variable of its own.
Turn(s, env, r) == LET d == Declared(r, [env EXCEPT !.top = FALSE], s[2], r.v)
                   IN  Scoped(s[4], d.env, d.st)
Over(s, env, st, values) ==
    IF values = <<>> THEN Result(st, Nothing)
    ELSE Then(Turn(s, env, Result(st, Head(values))),
              LAMBDA r : Over(s, env, r.st, Tail(values)))
OverList(s, env, st, list, i) ==
    IF i > Len(Items(st, list)) THEN Result(st, Nothing)
    ELSE Then(Turn(s, env, Result(st, Items(st, list)[i])),
              LAMBDA r : OverList(s, env, r.st, list, i + 1))
\* The protocol of sequences that classes of the program implement.
Protocol(s, env, st, seq, iter) ==
    Then(Call(st, seq, <<"METHOD", "iterate", 1>>, <<iter>>), LAMBDA i :
         IF ~IsTrue(i.v) THEN i
         ELSE Then(Call(i.st, seq, <<"METHOD", "iteratorValue", 1>>, <<i.v>>), LAMBDA v :
                   Then(Turn(s, env, v), LAMBDA r : Protocol(s, env, r.st, seq, i.v))))
Looped(s, env, r) ==
    CASE r.v[1] = "range" -> Over(s, env, r.st, Counted(r.v))
      [] r.v[1] = "List" -> OverList(s, env, r.st, r.v, 1)
      [] OTHER -> Protocol(s, env, r.st, r.v, Nothing)

\* A class: the methods are those of its own code, the rest is found along the
\* superclasses.  A constructor is a pair of methods.
Method(m, class, module) ==
    [sig |-> <<m[2], IF m[2] \in {"SUBSCRIPT", "SUBSCRIPT_SETTER"} THEN "" ELSE m[3], Len(m[4])>>,
     params |-> m[4], body |-> m[5], class |-> class, module |-> module]
Methods(ms, class, module) ==
    [sig \in {Method(m, class, module).sig : m \in ms} |->
        CHOOSE x \in {Method(m, class, module) : m \in ms} : x.sig = sig]
Allocators(ms, class, module) ==
    LET constructs == {m \in ms : m[2] = "INITIALIZER"}
    IN  [sig \in {<<"METHOD", m[3], Len(m[4])>> : m \in constructs} |->
            [sig |-> <<"ALLOCATOR", sig[2], sig[3]>>, params |-> <<>>, body |-> <<>>,
             class |-> class, module |-> module]]
Uninheritable == {CoreNumber(x) : x \in {"Class", "Fn", "List", "Map", "Range", "String"}}
DefineClass(s, env, r) ==
    LET id == Len(r.st.classes) + 1
        ms == Range(s[3])
        class == [NewClass(s[2], r.v[2]) EXCEPT
                     !.methods = Methods({m \in ms : ~m[1]}, id, env.module),
                     !.statics = Methods({m \in ms : m[1]}, id, env.module)
                                     @@ Allocators(ms, id, env.module)]
    IN  IF r.v[1] /= "class" \/ r.v[2] \in Uninheritable THEN WithEnv(Fault(r.st), env)
        ELSE Declared([r EXCEPT !.st.classes = Append(@, class)], env, s[2], <<"class", id>>)

\* A module runs once, before what follows its first import.
Imported(r, env, module, names) ==
    IF r.exit /= "none" \/ names = <<>> THEN WithEnv(r, env)
    ELSE IF Head(names) \notin DOMAIN r.st.modules[module] THEN WithEnv(Fault(r.st), env)
    ELSE LET d == Declared(r, env, Head(names), r.st.modules[module][Head(names)])
         IN  Imported(Result(d.st, Nothing), d.env, module, Tail(names))
RunModule(module, st) ==
    LET stmts == Tree(st.program, module)
        r == ExecAll(stmts, ModuleEnv(module),
                     [st EXCEPT !.modules = (module :> ModuleVariables(stmts)) @@ @])
    IN  IF stmts = <<>> THEN Fault(st) ELSE r

Exec(s, env, st) ==
    CASE s[1] = "do" -> WithEnv(Eval(s[2], env, st), env)
      [] s[1] = "var" ->
             Then(IF Len(s) = 2 THEN Result(st, Nothing) ELSE Eval(s[3], env, st),
                  LAMBDA r : Declared(r, env, s[2], r.v))
      [] s[1] = "block" ->
             WithEnv(ExecAll(s[2], [env EXCEPT !.top = FALSE], st), env)
      [] s[1] = "if" ->
             Then(Eval(s[2], env, st), LAMBDA c :
                  IF IsTrue(c.v) THEN Scoped(s[3], env, c.st)
                  ELSE IF Len(s) = 4 THEN Scoped(s[4], env, c.st)
                  ELSE WithEnv(c, env))
      [] s[1] = "while" -> WithEnv(Broken(Repeat(s, env, st)), env)
      [] s[1] = "for" ->
             WithEnv(Broken(Then(Eval(s[3], env, st), LAMBDA r : Looped(s, env, r))), env)
      [] s[1] = "break" -> [st |-> st, v |-> Nothing, exit |-> "break"]
      [] s[1] = "return" ->
             Then(IF Len(s) = 1 THEN Result(st, Nothing) ELSE Eval(s[2], env, st),
                  LAMBDA r : [r EXCEPT !.exit = "return"])
      [] s[1] = "class" ->
             Then(IF Len(s) = 3 THEN Result(st, <<"class", CoreNumber("Object")>>)
                  ELSE Eval(s[4], env, st),
                  LAMBDA r : DefineClass(s, env, r))
      [] s[1] = "import" ->
             LET known == s[2] \in DOMAIN st.modules
                 r == IF known THEN Result(st, Nothing)
                      ELSE Then(RunModule(s[2], st),
                                LAMBDA q : Result(q.st, Nothing))
             IN  Imported(r, env, s[2], s[3])

\* What a program prints and whether it succeeds.
MeaningOf(program) ==
    LET r == RunModule("main", EmptyStore(program))
    IN  [output |-> r.st.output, result |-> IF r.exit = "error" THEN "error" ELSE "success"]
=============================================================================
