-------------------------- MODULE MCWrenInterpreter --------------------------
(***************************************************************************)
(* Programs for WrenInterpreter, as trees, in families whose members differ   *)
(* in what the compiler and the interpreter treat differently.  Modelled      *)
(* after the programs of test/language and test/core.                         *)
(***************************************************************************)
EXTENDS WrenInterpreter, WrenCompiler

Syntax == INSTANCE WrenSyntax

-----------------------------------------------------------------------------
\* Shorthands for trees.

Num(n) == <<"num", n>>
X(x) == <<"name", x>>
Str(text) == <<"str", <<text>> >>
Do(e) == <<"do", e>>
Var(x, e) == <<"var", x, e>>
Assign(x, e) == <<"set", x, e>>
Bin(op, a, b) == <<"bin", op, a, b>>
Add(a, b) == Bin("+", a, b)
Invoke(e, name, args) == <<"call", e, name, args>>
Say(e) == Do(Invoke(X("System"), "print", <<e>>))
Get(e, name) == <<"get", e, name>>
Fun(params, body) == <<"fncall", X("Fn"), "new", <<>>, params, body>>
Is(e) == <<"expr", e>>
Block(stmts) == <<"block", stmts>>
Meth(type, name, params, body) == <<FALSE, type, name, params, body>>
Stat(type, name, params, body) == <<TRUE, type, name, params, body>>
Getter(name, e) == Meth("GETTER", name, <<>>, Is(e))
Class(name, methods) == <<"class", name, methods>>
Subclass(name, methods, super) == <<"class", name, methods, X(super)>>
New(class, args) == Invoke(X(class), "new", args)
This == <<"this">>
True == <<"true">>
False == <<"false">>
ReadField(f) == <<"field", f>>
SetField(f, e) == Do(<<"setfield", f, e>>)
Ret(e) == <<"return", e>>
If(e, s) == <<"if", e, s>>
While(e, stmts) == <<"while", e, Block(stmts)>>
For(x, e, stmts) == <<"for", x, e, Block(stmts)>>
ListOf(es) == <<"list", es>>
Index(e, i) == <<"index", e, <<i>> >>
Upto(a, b) == Bin("..", Num(a), Num(b))

-----------------------------------------------------------------------------
(***************************************************************************)
(* Operators: two of them over instances of a class whose operators say how  *)
(* they were applied.  The pairs are all those on the same or on neighbouring *)
(* levels of the table, grouped either way.                                   *)
(***************************************************************************)
BinaryOperators ==
    UNION {Syntax!Table[i] : i \in DOMAIN Syntax!Table} \ {"=", "?:", "unary", "."}
Near(a, b) == Syntax!Tightness(a) - Syntax!Tightness(b) \in {-1, 0, 1}
OperatorMethod(op) ==
    Meth("METHOD", op, <<"o">>,
         Is(New("V", << <<"interp", << <<"(">>, <<op>> >>, <<ReadField("_t"), Get(X("o"), "t")>>, <<")">> >> >>)))
Operators(op1, op2, left) ==
    LET a == New("V", <<Str("a")>>)
        b == New("V", <<Str("b")>>)
        c == New("V", <<Str("c")>>)
        tree == IF left THEN Bin(op2, Bin(op1, a, b), c) ELSE Bin(op1, a, Bin(op2, b, c))
    IN  << Class("V", << Meth("INITIALIZER", "new", <<"t">>, Block(<<SetField("_t", X("t"))>>)),
                         Getter("t", ReadField("_t")) >>
                      \o SetToSeq({OperatorMethod(op) : op \in {op1, op2} \ {"&&", "||"}})),
           Say(Get(tree, "t")) >>

\* Which operands of && and || are evaluated, and what is the result.
Logic(op1, op2, left, v1, v2) ==
    LET truth(v) == IF v THEN True ELSE False
        leaf(v, text) == Invoke(X("leaf"), "call", <<truth(v), Str(text)>>)
        tree == IF left THEN Bin(op2, Bin(op1, leaf(v1, "a"), leaf(v2, "b")), leaf(TRUE, "c"))
                ELSE Bin(op1, leaf(v1, "a"), Bin(op2, leaf(v2, "b"), leaf(FALSE, "c")))
    IN  << Var("leaf", Fun(<<"v", "t">>, Block(<<Say(X("t")), Ret(X("v"))>>))),
           Say(tree), Say(<<"cond", tree, Num(1), <<"cond", truth(v1), Num(2), Num(3)>> >>) >>

-----------------------------------------------------------------------------
(***************************************************************************)
(* Captures: closures over three locals, captured in any order and more than *)
(* once, which change them, run while the locals live and after the scope is  *)
(* left in different ways.                                                    *)
(***************************************************************************)
Change(x) == Fun(<<>>, Is(Assign(x, Add(X(x), Num(10)))))
Keep(x) == Do(Invoke(X("fns"), "add", <<Change(x)>>))
RunAll == For("f", X("fns"), <<Say(Invoke(X("f"), "call", <<>>))>>)
Captures(order, exit) ==
    LET keeps == [i \in DOMAIN order |-> Keep(order[i])]
        body == <<Var("a", Num(1)), Var("b", Num(2)), Var("c", Num(3))>>
        ending == <<Do(Assign("b", Add(X("b"), Num(100)))), RunAll>>
        closed == Fun(<<>>, Block(keeps))
    IN  <<Var("fns", ListOf(<<>>))>>
        \o (CASE exit = "block" -> <<Block(body \o keeps \o ending)>>
              [] exit = "break" ->
                    <<While(True, body \o keeps \o ending
                                      \o << If(X("a"), Block(<<Var("d", Num(4)), Keep("d"),
                                                               <<"break">> >>)) >>)>>
              [] exit = "return" ->
                    <<Do(Invoke(Fun(<<"p">>, Block(body \o keeps \o ending
                                        \o <<Keep("p"), Ret(Num(0))>>)),
                                "call", <<Num(5)>>))>>
              [] exit = "nested" ->
                    <<Block(body \o <<Do(Invoke(closed, "call", <<>>))>> \o ending)>>
              [] exit = "turns" -> <<For("i", Upto(1, 2), body \o keeps \o <<Keep("i")>>)>>)
        \o <<RunAll>>

-----------------------------------------------------------------------------
(***************************************************************************)
(* Classes: fields of a class and its subclass, used in methods and in        *)
(* closures inside them; methods that override each other along a chain of   *)
(* three classes and call the one above.                                      *)
(***************************************************************************)
FieldName == <<"_x", "_y", "_z">>
GetterName(class) == IF class = "A" THEN <<"xa", "ya", "za">> ELSE <<"xb", "yb", "zb">>
FieldMethods(class, n, first, closed) ==
    [i \in 1..n |-> Getter(GetterName(class)[i],
                           IF closed THEN Invoke(Fun(<<>>, Is(ReadField(FieldName[i]))), "call", <<>>)
                           ELSE ReadField(FieldName[i]))]
    \o << Meth("INITIALIZER", "new", <<>>,
               Block((IF class = "B" THEN <<Do(<<"super", <<>> >>)>> ELSE <<>>)
                     \o [i \in 1..n |-> SetField(FieldName[i], Num(first + i))])) >>
    \o << Meth("SETTER", "all", <<"v">>,
               Block([i \in 1..n |->
                   IF closed
                   THEN Do(Invoke(Fun(<<>>, Is(<<"setfield", FieldName[i], X("v")>>)), "call", <<>>))
                   ELSE SetField(FieldName[i], X("v"))])) >>
Fields(na, nb, closed) ==
    LET show == [i \in 1..na |-> Say(Get(X("b"), GetterName("A")[i]))]
                    \o [i \in 1..nb |-> Say(Get(X("b"), GetterName("B")[i]))]
    IN  << Class("A", FieldMethods("A", na, 0, closed)),
           Subclass("B", FieldMethods("B", nb, 10, closed), "A"),
           Var("b", New("B", <<>>)), Var("a", New("A", <<>>)) >> \o show
        \o <<Do(<<"put", X("b"), "all", Num(7)>>), Do(<<"put", X("a"), "all", Num(8)>>)>> \o show

Chain(defining, calling, static) ==
    LET method(c) ==
            <<static, "METHOD", "m", <<"v">>,
              Block(<<Say(Str(c)), Say(X("v"))>>
                    \o (IF c \in calling
                        THEN <<Say(<<"supercall", "m", <<Add(X("v"), Num(1))>> >>)>> ELSE <<>>)
                    \o <<Ret(X("v"))>>)>>
        methods(c) == <<Meth("INITIALIZER", "new", <<>>, Block(<<>>))>>
                          \o (IF c \in defining THEN <<method(c)>> ELSE <<>>)
    IN  << Class("A", methods("A")), Subclass("B", methods("B"), "A"),
           Subclass("C", methods("C"), "B"),
           Say(Invoke(IF static THEN X("C") ELSE New("C", <<>>), "m", <<Num(1)>>)) >>

-----------------------------------------------------------------------------
(***************************************************************************)
(* Lists and strings: every index and range around the bounds of a list of n  *)
(* elements, whether it works or not, and every search of a short text in     *)
(* another one.                                                               *)
(***************************************************************************)
Number(n) == IF n < 0 THEN <<"un", "-", Num(-n)>> ELSE Num(n)
ShowList(name) == For("e", X(name), <<Say(X("e"))>>)
Slices(n, from, to, inclusive) ==
    LET range == Bin(IF inclusive THEN ".." ELSE "...", Number(from), Number(to))
    IN  << Var("l", ListOf([i \in 1..n |-> Num(i)])), Var("m", Index(X("l"), range)),
           Do(Invoke(X("m"), "add", <<Num(9)>>)), ShowList("m"), ShowList("l") >>
Places(n, i, method) ==
    LET change == IF method = "insert" THEN Invoke(X("l"), "insert", <<Number(i), Num(9)>>)
                  ELSE Invoke(X("l"), "removeAt", <<Number(i)>>)
    IN  <<Var("l", ListOf([k \in 1..n |-> Num(k)])), Say(change), ShowList("l")>>

Texts(n) == UNION {[1..k -> {"+", "-"}] : k \in 0..n}
Searches(text, needle) ==
    LET find(args) == Say(Invoke(X("s"), "indexOf", << <<"str", needle>> >> \o args))
    IN  << Var("s", <<"str", text>>), find(<<>>),
           Say(Invoke(X("s"), "contains", << <<"str", needle>> >>)),
           Say(Invoke(X("s"), "endsWith", << <<"str", needle>> >>)) >>
        \o [i \in 1..(2 * Len(text)) |-> find(<<Number(i - 1 - Len(text))>>)]

-----------------------------------------------------------------------------
\* Programs of their own.

Counter == Class("Counter",
    << Stat("GETTER", "next", <<>>, Block(<<
           If(Bin("==", <<"static", "__n">>, <<"null">>), Block(<<Do(<<"setstatic", "__n", Num(0)>>)>>)),
           Ret(<<"setstatic", "__n", Add(<<"static", "__n">>, Num(1))>>) >>)),
       Stat("METHOD", "later", <<>>, Is(Fun(<<>>, Is(<<"static", "__n">>)))) >>)
Down == Class("Down",
    << Meth("INITIALIZER", "new", <<"n">>, Block(<<SetField("_n", X("n"))>>)),
       Meth("METHOD", "iterate", <<"i">>, Block(<<
           If(Bin("==", X("i"), <<"null">>), Ret(ReadField("_n"))),
           If(Bin("<=", X("i"), Num(1)), Ret(False)),
           Ret(Bin("-", X("i"), Num(1))) >>)),
       Meth("METHOD", "iteratorValue", <<"i">>, Is(Bin("*", X("i"), Num(10)))) >>)
Box == Class("Box",
    << Meth("INITIALIZER", "new", <<>>, Block(<<SetField("_items", ListOf(<<Num(1), Num(2)>>))>>)),
       Meth("SUBSCRIPT", "", <<"i">>, Is(Index(ReadField("_items"), X("i")))),
       Meth("SUBSCRIPT_SETTER", "", <<"i", "v">>,
            Block(<<Do(<<"setindex", ReadField("_items"), <<X("i")>>, X("v")>>)>>)),
       Getter("items", ReadField("_items")),
       Meth("SETTER", "items", <<"v">>, Block(<<SetField("_items", X("v"))>>)),
       Meth("GETTER", "-", <<>>, Is(<<"send", "first", <<>> >>)),
       Meth("METHOD", "first", <<>>, Is(<<"index", X("items"), <<Num(0)>> >>)),
       Meth("METHOD", "reset", <<>>, Block(<<Do(Assign("items", ListOf(<<Num(9)>>)))>>)),
       Meth("METHOD", "each", <<"fn">>, Block(<<
           For("i", X("items"), <<Do(Invoke(X("fn"), "call", <<X("i")>>))>>)>>)) >>)

Singles ==
    << \* Loops with break, nested, with locals to discard.
       << For("i", Upto(1, 3), << Var("k", X("i")),
              For("j", Upto(1, 3), << Var("t", Bin("*", X("i"), X("j"))),
                  If(Bin(">", X("t"), Num(3)), Block(<<Var("u", X("t")), Say(X("u")), <<"break">> >>)),
                  Say(X("t")) >>),
              If(Bin("==", X("k"), Num(2)), Block(<< <<"break">> >>)) >>),
          Say(Str("end")) >>,
       \* Two breaks and a function with a loop of its own inside a loop.
       << Var("n", Num(0)),
          While(True, << Do(Assign("n", Add(X("n"), Num(1)))),
              Var("f", Fun(<<"m">>, Block(<< While(True, << If(Bin(">", X("m"), X("n")),
                                                                Block(<< <<"break">> >>)),
                                                      Do(Assign("m", Add(X("m"), Num(1)))) >>),
                                              Ret(X("m")) >>))),
              Say(Invoke(X("f"), "call", <<Num(0)>>)),
              If(Bin("==", X("n"), Num(1)), Block(<<If(False, Block(<< <<"break">> >>))>>)),
              If(Bin("==", X("n"), Num(2)), Block(<< <<"break">> >>)) >>),
          Say(X("n")) >>,
       \* Ranges of all kinds, a sequence of the program, a list that grows.
       << For("i", Upto(3, 1), <<Say(X("i"))>>),
          For("i", Bin("...", Num(1), Num(3)), <<Say(X("i"))>>),
          For("i", Bin("...", Num(2), Num(2)), <<Say(X("i"))>>),
          For("i", Upto(2, 2), <<Say(X("i"))>>) >>,
       << Down, For("i", New("Down", <<Num(3)>>), <<Say(X("i"))>>) >>,
       << Var("l", ListOf(<<Num(1), Num(2)>>)),
          For("i", X("l"), << If(Bin("<", Get(X("l"), "count"), Num(4)),
                                 Do(Invoke(X("l"), "add", <<Num(5)>>))), Say(X("i")) >>) >>,
       \* Return out of nested loops and blocks.
       << Var("f", Fun(<<"n">>, Block(<<
              For("i", Upto(1, 5), <<While(True, << Var("k", Add(X("i"), X("n"))),
                  <<"if", Bin(">", X("k"), Num(3)), Ret(X("k")), <<"break">> >> >>)>>) >>))),
          Say(Invoke(X("f"), "call", <<Num(1)>>)), Say(Invoke(X("f"), "call", <<Num(9)>>)) >>,
       \* Shadowing, redefinition in the initializer, assignment as an expression.
       << Var("a", Num(1)), Block(<< Var("a", Add(X("a"), Num(1))), Say(X("a")),
              Block(<<Var("a", Num(5)), Do(Assign("a", Num(6))), Say(X("a"))>>), Say(X("a")) >>),
          <<"var", "b">>, Say(Assign("a", Assign("b", Num(3)))), Say(Add(X("a"), X("b"))) >>,
       \* Operators in one operand positions.
       << Var("a", Num(2)), Say(<<"un", "-", X("a")>>), Say(<<"un", "-", <<"un", "-", X("a")>> >>),
          Say(Bin("*", <<"un", "-", X("a")>>, <<"un", "-", Num(3)>>)),
          Say(<<"un", "!", Bin("==", X("a"), Num(2))>>), Say(Bin("==", <<"un", "!", X("a")>>, False)),
          Say(<<"cond", Bin("==", X("a"), Num(2)), Assign("a", Num(4)), Num(5)>>), Say(X("a")) >>,
       \* Static fields, shared by methods and closures of a class.
       << Counter, Var("k", Invoke(X("Counter"), "later", <<>>)), Say(Invoke(X("k"), "call", <<>>)),
          Say(Get(X("Counter"), "next")), Say(Get(X("Counter"), "next")),
          Say(Invoke(X("k"), "call", <<>>)) >>,
       << Block(<<Counter, Var("k", Num(7)), Say(Get(X("Counter"), "next")), Say(X("k"))>>),
          For("i", Upto(1, 2), <<Counter, Say(Get(X("Counter"), "next"))>>) >>,
       \* Subscripts, setters, operators and sends to this.
       << Box, Var("b", New("Box", <<>>)), Do(<<"setindex", X("b"), <<Num(1)>>, Num(5)>>),
          Say(Index(X("b"), Num(1))), Say(<<"un", "-", X("b")>>),
          Do(<<"fncall", X("b"), "each", <<>>, <<"v">>, Block(<<Say(X("v"))>>)>>),
          Do(Invoke(X("b"), "reset", <<>>)), Say(Get(Get(X("b"), "items"), "count")),
          Do(<<"put", X("b"), "items", ListOf(<<>>)>>), Say(Index(X("b"), Num(0))) >>,
       \* Literals.
       << Var("m", <<"map", << <<Num(1), Str("one")>>, <<Str("k"), ListOf(<<Num(2)>>)>> >> >>),
          Say(Index(X("m"), Num(1))), Say(Index(Index(X("m"), Str("k")), <<"un", "-", Num(1)>>)),
          Do(<<"setindex", X("m"), <<Num(1)>>, <<"null">> >>), Say(Get(X("m"), "count")),
          Say(<<"interp", << <<"a">>, <<>> >>, <<Add(Num(1), Num(2)), Upto(1, 2)>>, <<"c">> >>),
          Say(<<"interp", << <<"a", "%", "\"">> >>,
                << Bin("==", Num(1), <<"interp", << <<"b">> >>, <<Bin("*", Add(Num(1), Num(2)), Num(3))>>, <<>> >>) >>,
                <<"\\", "(">> >>),
          Say(Index(ListOf(<<Num(1)>>), Num(1))) >>,
       \* Forward references and mutual recursion of module variables.
       << Var("f", Fun(<<"n">>, Is(<<"cond", Bin("==", X("n"), Num(0)), X("Z"),
                                     Invoke(X("G"), "call", <<Bin("-", X("n"), Num(1))>>)>>))),
          Var("G", Fun(<<"n">>, Is(Invoke(X("f"), "call", <<X("n")>>)))),
          Say(Invoke(X("f"), "call", <<Num(2)>>)), Var("Z", Num(5)),
          Say(Invoke(X("f"), "call", <<Num(2)>>)) >>,
       \* Many locals, so that the stack grows in the middle of expressions.
       << Var("f", Fun(<<"p", "q">>, Block(<<
              Var("a", Num(1)), Var("b", Num(2)), Var("c", Num(3)), Var("d", Num(4)),
              Var("e", Num(5)), Var("g", Num(6)), Var("h", Add(X("p"), X("q"))),
              Var("k", Fun(<<>>, Is(Assign("h", Add(X("h"), X("a")))))),
              If(Bin("<", X("p"), Num(2)),
                 Do(Invoke(X("F"), "call", <<Add(X("p"), Num(1)), X("h")>>))),
              Do(Invoke(X("k"), "call", <<>>)), Say(X("h")), Ret(X("h")) >>))),
          Var("F", X("f")), Say(Add(Num(1), Invoke(X("f"), "call", <<Num(0), Num(7)>>))) >>,
       \* Errors: no such method, too few arguments, not a class, a sealed class.
       << Say(Str("before")), Do(Add(Num(1), <<"null">>)), Say(Str("after")) >>,
       << Do(Invoke(Fun(<<"a">>, Is(X("a"))), "call", <<>>)) >>,
       << Var("N", Num(1)), Subclass("A", <<>>, "N") >>,
       << Subclass("A", <<>>, "List") >>,
       << Var("s", Str("a")), Say(Invoke(X("s"), "indexOf", <<X("s"), Num(1)>>)) >>,
       << Var("s", Bin("+", Str("a"), <<"str", <<"-", "+">> >>)), Say(Index(X("s"), <<"un", "-", Num(2)>>)),
          Say(Index(X("s"), Upto(1, 0))), Say(Invoke(X("s"), "contains", <<Str("a")>>)),
          Say(Invoke(X("s"), "startsWith", <<Str("b")>>)), Say(Bin("==", X("s"), Get(X("s"), "toString"))),
          Say(Bin("!=", X("s"), Num(1))), Say(Bin("+", X("s"), Num(1))) >>,
       << Var("m", <<"map", << <<Num(1), Num(2)>>, <<Str("k"), Num(3)>> >> >>),
          Say(Invoke(X("m"), "containsKey", <<Num(1)>>)), Say(Invoke(X("m"), "remove", <<Num(1)>>)),
          Say(Invoke(X("m"), "remove", <<Num(1)>>)), Say(Invoke(X("m"), "containsKey", <<Num(1)>>)),
          Say(Invoke(X("m"), "clear", <<>>)), Say(Get(X("m"), "count")),
          Say(Invoke(X("m"), "containsKey", <<ListOf(<<>>)>>)) >>,
       << Var("l", ListOf(<<Num(1), Num(2)>>)), Say(Invoke(X("l"), "clear", <<>>)),
          Say(Get(X("l"), "count")), Say(Index(X("l"), Str("a"))) >>,
       << Class("A", <<Stat("GETTER", "s", <<>>, Is(Num(1)))>>), Subclass("B", <<>>, "A"),
          Say(Get(X("A"), "s")), Say(Get(X("B"), "s")) >> >>

\* Programs of several modules.
Importing(names) == << <<"import", "m", names>> >>
Modules ==
    << [main |-> Importing(<<"A">>) \o <<Say(X("A"))>> \o << <<"import", "m", <<"B">> >>, Say(X("B")) >>,
        m |-> << Say(Str("runs")), Var("A", Num(1)), Var("B", Add(X("A"), Num(1))) >>],
       [main |-> << Block(Importing(<<"A", "B">>) \o <<Say(Add(X("A"), X("B")))>>), <<"import", "m", <<>> >> >>,
        m |-> << <<"import", "n", <<"A">> >>, Var("B", Num(2)) >>,
        n |-> << Var("A", Num(3)), Say(Str("n")) >>],
       \* Two modules that import each other.
       [main |-> << <<"import", "m", <<"A">> >>, <<"import", "n", <<"B">> >>, Say(X("A")),
                    Say(Invoke(X("B"), "call", <<>>)) >>,
        m |-> << <<"import", "n", <<"B">> >>, Var("A", Num(1)), Say(Str("m")) >>,
        n |-> << Say(Str("n")), <<"import", "m", <<"A">> >>, Say(X("A")),
                 Var("B", Fun(<<>>, Is(X("A")))) >>],
       \* A variable that is changed after it was imported.
       [main |-> << <<"import", "m", <<"A", "change">> >>, Do(Invoke(X("change"), "call", <<>>)), Say(X("A")) >>,
        m |-> << Var("A", Num(1)), Var("change", Fun(<<>>, Is(Assign("A", Num(2))))) >>],
       \* What is not there: a variable, a module.
       [main |-> <<Say(Str("x"))>> \o Importing(<<"Missing">>), m |-> <<Say(Str("m"))>>],
       [main |-> <<Say(Str("x"))>> \o Importing(<<>>)],
       \* A class and its superclass in two modules.
       [main |-> Importing(<<"A">>) \o
                 << Subclass("B", <<Meth("INITIALIZER", "new", <<>>, Block(<<Do(<<"super", <<>> >>), SetField("_x", Num(2))>>)),
                                     Getter("xb", ReadField("_x"))>>, "A"),
                    Var("b", New("B", <<>>)), Say(Get(X("b"), "xa")), Say(Get(X("b"), "xb")) >>,
        m |-> << Class("A", <<Meth("INITIALIZER", "new", <<>>, Block(<<SetField("_x", X("K"))>>)),
                              Getter("xa", ReadField("_x"))>>), Var("K", Num(1)) >>] >>

-----------------------------------------------------------------------------
\* Programs that the compiler has to refuse.

ManyLocals(n) == [i \in 1..n |-> <<"var", (<<"a", "b", "c", "d", "e", "f", "g", "h", "i", "j", "k", "l">>)[i]>>]
Refused ==
    << << <<"break">> >>,
       << While(True, <<Var("f", Fun(<<>>, Block(<< <<"break">> >>)))>>) >>,
       << Var("a", Num(1)), Var("a", Num(2)) >>,
       << Block(<<Var("a", Num(1)), Var("a", Num(2))>>) >>,
       << Do(Fun(<<"a", "a">>, Is(Num(1)))) >>,
       << Do(Fun(<<"a">>, Block(<<Var("a", Num(1))>>))) >>,
       << Say(X("unknown")) >>, << Say(X("Unknown")) >>, << Say(This) >>,
       << Say(<<"superget", "a">>) >>, << Say(ReadField("_f")) >>, << Say(<<"static", "__f">>) >>,
       << Class("A", <<Stat("GETTER", "s", <<>>, Is(ReadField("_f")))>>) >>,
       << Class("A", <<Getter("s", Num(1)), Getter("s", Num(2))>>) >>,
       << Class("A", <<Stat("INITIALIZER", "new", <<>>, Block(<<>>))>>) >>,
       << Class("A", <<Meth("INITIALIZER", "new", <<>>, Is(<<"superget", "a">>)),
                       Getter("g", ReadField("_x")),
                       Getter("h", ListOf(<<ReadField("_y"), ReadField("_z"), ReadField("_w")>>))>>) >>,
       << Block(ManyLocals(11)) >>,
       << Do(Fun(<<"a", "b", "c", "d">>, Is(Num(1)))) >>,
       << Do(Bin("+", Num(1), Assign("System", Num(2)))), Do(<<"set", "zz", Num(1)>>) >>,
       << Block(<<Class("A", <<Getter("g", X("A"))>>)>>) >> >>

\* Texts that are no tokens: strings, comments and interpolations that do not
\* end or nest too deeply, wrong escapes and characters.
Garbled ==
    LET chars(seq) == Syntax!Chars(seq)
        say(text) == Syntax!Word("System") \o chars(<<".">>) \o Syntax!Word("print")
                         \o chars(<<"(">>) \o text \o chars(<<")", "\n">>)
        string(text) == chars(<<"\"">>) \o text \o chars(<<"\"">>)
        one == << <<"digits", 1>> >>
        nest(text) == string(chars(<<"%", "(">>) \o text \o chars(<<")">>))
    IN  << say(chars(<<"\"">>)), say(string(chars(<<"\\">>) \o Syntax!Word("q"))),
           say(string(chars(<<"%">>) \o one)), say(nest(nest(nest(one)))),
           say(one) \o chars(<<"/", "*", "/", "*", "*", "/">>), say(one \o chars(<<"$">>)),
           say(one \o chars(<<"#", "!">>)), say(chars(<<"&">>) \o one) >>

-----------------------------------------------------------------------------
OperatorPrograms ==
    {<<"operators", op1, op2, left>> : op1 \in BinaryOperators, op2 \in BinaryOperators,
                                       left \in BOOLEAN}
NearOperators == {p \in OperatorPrograms : Near(p[2], p[3])}
LogicPrograms ==
    {<<"logic", op1, op2, left, v1, v2>> : op1 \in {"&&", "||"}, op2 \in {"&&", "||"},
                                           left \in BOOLEAN, v1 \in BOOLEAN, v2 \in BOOLEAN}
CapturePrograms ==
    {<<"captures", <<x, y, z>>, exit>> : x \in {"a", "b", "c"}, y \in {"a", "b", "c"},
         z \in {"a", "b", "c"}, exit \in {"block", "break", "return", "nested", "turns"}}
FieldPrograms ==
    {p \in {<<"fields", na, nb, closed>> : na \in 0..2, nb \in 0..2, closed \in BOOLEAN} :
        p[2] + p[3] <= MaxFields}
ChainPrograms ==
    {<<"chain", defining, calling, static>> :
        defining \in SUBSET {"A", "B", "C"}, calling \in {{}, {"B", "C"}, {"C"}, {"A"}}, static \in BOOLEAN}
ListPrograms ==
    {<<"slices", n, from, to, inclusive>> :
        n \in 0..2, from \in -3..3, to \in -3..3, inclusive \in BOOLEAN}
    \cup {<<"places", n, i, method>> :
        n \in 0..2, i \in -4..3, method \in {"insert", "removeAt"}}
StringPrograms == {<<"searches", text, needle>> : text \in Texts(4), needle \in Texts(3)}
\* A call with one argument more than the function has parameters.
ExtraArguments ==
    << Do(Invoke(Fun(<<"a">>, Block(<<Var("b", Num(2)), Say(X("b"))>>)), "call",
                 <<Num(1), Num(9)>>)) >>
ExtraArgumentsProgram == {<<"extra">>}

AllPrograms ==
    ListPrograms \cup StringPrograms \cup OperatorPrograms \cup LogicPrograms \cup CapturePrograms \cup FieldPrograms \cup ChainPrograms
        \cup {<<"single", i>> : i \in DOMAIN Singles}
        \cup {<<"layout", i, layout>> : i \in DOMAIN Singles, layout \in 1..2}
        \cup {<<"modules", i>> : i \in DOMAIN Modules}
        \cup {<<"refused", i>> : i \in DOMAIN Refused}
        \cup {<<"garbled", i>> : i \in DOMAIN Garbled}

\* The statements of a module of a program.
MainOf(p) ==
    CASE p[1] = "operators" -> Operators(p[2], p[3], p[4])
      [] p[1] = "logic" -> Logic(p[2], p[3], p[4], p[5], p[6])
      [] p[1] = "captures" -> Captures(p[2], p[3])
      [] p[1] = "fields" -> Fields(p[2], p[3], p[4])
      [] p[1] = "chain" -> Chain(p[2], p[3], p[4])
      [] p[1] = "slices" -> Slices(p[2], p[3], p[4], p[5])
      [] p[1] = "places" -> Places(p[2], p[3], p[4])
      [] p[1] = "searches" -> Searches(p[2], p[3])
      [] p[1] \in {"single", "layout"} -> Singles[p[2]]
      [] p[1] = "refused" -> Refused[p[2]]
      [] p[1] = "extra" -> ExtraArguments
ProgramTree(p, module) ==
    IF p[1] = "modules"
    THEN IF module \in DOMAIN Modules[p[2]] THEN Modules[p[2]][module] ELSE <<>>
    ELSE IF module = "main" THEN MainOf(p) ELSE <<>>
ProgramSource(p, module) ==
    LET text == Syntax!Module(ProgramTree(p, module))
    IN  IF p[1] = "garbled" THEN Garbled[p[2]]
        ELSE IF ProgramTree(p, module) = <<>> THEN <<>>
        ELSE IF p[1] = "layout" THEN Syntax!Commented(text, p[3]) ELSE text

Lowercase ==
    {"a", "b", "c", "d", "e", "f", "g", "h", "i", "j", "k", "l", "m", "n", "o", "p", "q", "s", "t",
     "u", "v", "xa", "ya", "za", "xb", "yb", "zb", "all", "fns", "leaf", "items", "change", "zz",
     "unknown", "first", "next", "later"}
Statics == {"__n", "__f"}
FieldsOfAll == {"_f", "_t", "_n", "_items", "_w"} \cup ToSet(FieldName)

-----------------------------------------------------------------------------
(***************************************************************************)
(* The view of a function that is called with n values: along the code from    *)
(* its start, with the slots that can be captured on any of the ways.         *)
(***************************************************************************)
RECURSIVE Follow(_, _, _, _)
Follow(fns, fn, view, todo) ==
    LET q == CHOOSE q \in todo : TRUE
        ip == q[1]
        known == ip \in DOMAIN view
        p == IF known THEN [view[ip] EXCEPT !.captured = @ \cup q[2].captured] ELSE q[2]
        leads == IF ip \in 0..(Len(fn.code) - 1) /\ fn.code[ip + 1][1] \notin {"byte", "END"}
                 THEN Leads(fns, fn, ip, p) ELSE {}
    IN  IF todo = {} THEN view
        ELSE IF known /\ p = view[ip] THEN Follow(fns, fn, view, todo \ {q})
        ELSE Follow(fns, fn, (ip :> p) @@ view, (todo \ {q}) \cup leads)
FlowView(fns, f, n) ==
    LET start == [depth |-> n, captured |-> {}]
    IN  Follow(fns, fns[f], [ip \in {} |-> start], {<<0, start>>})

-----------------------------------------------------------------------------
Semantics == INSTANCE WrenSemantics WITH Tree <- ProgramTree

ProgramMeaning(p) ==
    LET refused == p[1] \in {"refused", "garbled"}
    IN  IF refused THEN [output |-> <<>>, result |-> "compile error"] ELSE Semantics!MeaningOf(p)
=============================================================================
