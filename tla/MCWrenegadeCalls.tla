-------------------------- MODULE MCWrenegadeCalls --------------------------
(* Families of Haxe classes for WrenegadeCalls.  A family holds what the    *)
(* generator refuses, and not what the README lists under Exclusions.      *)
EXTENDS WrenegadeCalls, FiniteSetsExt

Public == <<"public">>
Method(name, arity) == Field("method", name, Public, arity)
Static(name, arity) == Field("method", name, <<"static", "public">>, arity)
New(arity) == Method("new", arity)

(* The fields that a class may have, in this order, after its constructor. *)
Fields ==
  <<Method("callDyn", 1), Method("add", 2), Method("stop", 0), Method("get", 0),
    Field("var", "prop", Public, 0), Field("var", "hidden", <<>>, 0),
    Static("log", 1), Field("method", "getInstance", <<"public", "static">>, 0)>>
Override == Field("method", "run", <<"override", "public">>, 1)
SuperFields == <<Method("run", 1), Field("var", "superProp", Public, 0), Field("method", "own", <<>>, 1)>>

(* The constructors: none, or with so many parameters. *)
Constructors == {<<>>} \cup {<<New(n)>> : n \in 0 .. 2}

FieldSets(constructors, fields, most) ==
  {c \o SelectSeq(fields, LAMBDA f : f \in s) :
     c \in constructors, s \in UNION {kSubset(n, ToSet(fields)) : n \in 0 .. most}}

Alone(path, fields) == Class(path, NoClass, fields)

Singles == {{Alone(<<"myclass", "MyClass">>, f)} : f \in FieldSets(Constructors, Fields, 8)}

(* A class with its superclass in package p, and a class of another one.   *)
Pair(p, super, fields) ==
  {Alone(Append(p, "MySuperClass"), super), Class(Append(p, "MyClass"), Append(p, "MySuperClass"), fields)}
Pairs ==
  {Pair(p, s, f) \cup {Alone(<<"myclass", "subpack", "Hello">>, <<New(0), Method("callDyn", 1)>>)} :
     p \in {<<"myclass">>, <<"test", "subpack">>},
     s \in FieldSets({<<New(0)>>}, SuperFields, 3),
     f \in FieldSets({<<New(0)>>, <<New(1)>>}, Fields, 1)}
Overriding == {Pair(<<"myclass">>, <<New(0), Method("run", 1)>>, <<New(0), Override>>)}

(* Three levels, for which the macro does not end. *)
Chain ==
  Pair(<<"myclass">>, <<New(0)>>, <<New(0)>>)
    \cup {Class(<<"myclass", "Hello">>, <<"myclass", "MyClass">>, <<New(0)>>)}

(* Properties whose names start with "set" or "get", which do not compile. *)
Prefixed ==
  {{Alone(<<"myclass", "MyClass">>, <<New(0), Field("var", v, Public, 0)>>)} : v \in {"settings", "getter"}}

AllPrograms == Singles \cup Pairs \cup Overriding \cup {Chain} \cup Prefixed

LowerCaseOf ==
  [callDyn |-> "calldyn", add |-> "add", stop |-> "stop", get |-> "get", prop |-> "prop",
   hidden |-> "hidden", log |-> "log", getInstance |-> "getinstance", run |-> "run",
   superProp |-> "superprop", own |-> "own", new |-> "new", myclass |-> "myclass",
   subpack |-> "subpack", test |-> "test", MyClass |-> "myclass",
   settings |-> "settings", getter |-> "getter", MySuperClass |-> "mysuperclass", Hello |-> "hello"]

(* Members whose names a cut of "_get" or "_set" meets in the middle. *)
WordsThatStartWith == [get |-> {"get", "getter", "getinstance"}, set |-> {"settings"}]

(* Scalars, an object (the second of its class), lists of them, a list in a *)
(* list, and an object of a Wren class.                                     *)
SecondObject == Instance(<<"myclass", "MyClass">>, 2)
Number == Value("num", <<>>)
Text == Value("string", <<>>)
List(elements) == Value("list", elements)
AllArguments ==
  {Number, Text, SecondObject, List(<<Number, Text>>), List(<<Text, SecondObject>>),
   List(<<List(<<Number, Text>>)>>), Value("unknown", <<>>)}

=============================================================================
