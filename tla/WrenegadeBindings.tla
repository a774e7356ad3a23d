--------------------------- MODULE WrenegadeBindings ---------------------------
(***************************************************************************)
(* The binding generator of Wrenegade: a Haxe macro that runs on every     *)
(* class below wren.WrenClass while the Haxe compiler types it.  For each  *)
(* class it writes C++ functions that the VM can call, a table from Wren   *)
(* signatures to them, and the declaration of the class in the Wren module *)
(* of its package; it rewrites the switch over all packages every time.    *)
(*                                                                         *)
(* The maps in which the macro collects a class are static and outlive it. *)
(* Names are words: C++ names and signatures are joined from them.         *)
(***************************************************************************)
EXTENDS Naturals, Sequences, FiniteSets, SequencesExt, TLC

CONSTANTS
  Programs,    (* Sets of Haxe classes, given by records like Class(...).  *)
  LowerCase,   (* The words of Programs in lower case.                     *)
  StartWith,   (* Of "get" and "set": the lower-case words that start so.  *)
  NoClass      (* wren.WrenClass, as a superclass.                         *)

VARIABLES
  program,   (* The classes that are compiled.                             *)
  stage,     (* "macros", then "running" (the C++ code compiled), "failed".*)
  maps,      (* The maps of the macro for the current class.               *)
  packages,  (* pack_sigs: the classes that the switch knows per package.  *)
  code,      (* The C++ file of each class that the macro has run on.      *)
  files      (* The declarations in each module file.                      *)

generated == <<program, stage, maps, packages, code, files>>

(* A class: package and name, the path of the superclass, the fields.      *)
Class(path, super, fields) == [path |-> path, super |-> super, fields |-> fields]
Name(c) == Last(c.path)
Package(c) == Front(c.path)
ClassAt(path) == CHOOSE c \in program : c.path = path

(* A field: its modifiers in the order of the source, and the number of    *)
(* parameters of a function.                                               *)
Field(kind, name, access, arity) ==
  [kind |-> kind, name |-> name, access |-> access, arity |-> arity]

(* Access patterns that the macro recognises, in this order only.          *)
InstanceAccess == {<<"public">>, <<"override", "public">>}
StaticAccess == {<<"override", "static", "public">>, <<"static", "public">>,
                 <<"public", "static">>}

(* "Class.name(_,_)", "Class.name=(_)" or "Class.name". *)
Signature(c, f, form, arity) ==
  [static |-> f.access \in StaticAccess, class |-> Name(c), name |-> f.name,
   form |-> form, arity |-> arity]

(* funcName: the name of the C++ function, as the words between its "_".   *)
FuncName(c, f) == [i \in 1 .. Len(c.path) + 1 |-> LowerCase[Append(c.path, f.name)[i]]]

NoEntries == [x \in {} |-> x]

NoMaps ==
  [decs |-> <<>>, methods |-> NoEntries, signatures |-> NoEntries, constructors |-> <<>>, modules |-> FALSE]

(* Mutation: the maps of the last class are still there.                   *)
ResetKept == maps

(* reset(), at the end of createPath. *)
Reset == NoMaps

-----------------------------------------------------------------------------
(***************************************************************************)
(* Collecting the fields of a class.                                       *)
(***************************************************************************)
PushNew(seq, x) == IF x \in ToSet(seq) THEN seq ELSE Append(seq, x)

(* bindMethodMap and bindCMethodMap: what a function calls. *)
Member(c, f) ==
  [class |-> c.path, member |-> f.name, arity |-> f.arity, static |-> f.access \in StaticAccess]

BindConstructor(m, c, f) ==
  [m EXCEPT !.constructors = PushNew(@, [name |-> FuncName(c, f), arity |-> f.arity]),
            !.modules = TRUE]

BindMethod(m, c, f, decs) ==
  [m EXCEPT !.decs = decs,
            !.methods = FuncName(c, f) :> Member(c, f) @@ @,
            !.signatures = FuncName(c, f) :> Signature(c, f, "call", f.arity) @@ @,
            !.modules = @ \/ f.access \in StaticAccess]

(* A setter and a getter, declared again if they have been already. *)
BindVariable(m, c, f) ==
  LET setter == Append(FuncName(c, f), "set")
      getter == Append(FuncName(c, f), "get")
  IN [m EXCEPT !.decs = @ \o <<setter, getter>>,
               !.methods = FuncName(c, f) :> Member(c, f) @@ @,
               !.signatures = setter :> Signature(c, f, "set", 1)
                           @@ getter :> Signature(c, f, "get", 0) @@ @]

(* createBindInclude, of the field f of c. *)
BindField(m, c, f) ==
  CASE f.kind = "method" /\ f.access \in InstanceAccess /\ f.name = "new"
         -> BindConstructor(m, c, f)
    [] \/ f.kind = "method" /\ f.access \in InstanceAccess /\ f.name # "new"
       \/ /\ f.kind = "method" /\ f.access \in StaticAccess
          /\ f.name \notin {"new", "main", "getInstance"}
         -> BindMethod(m, c, f, PushNew(m.decs, FuncName(c, f)))
    [] f.kind = "method" /\ f.access \in StaticAccess /\ f.name = "getInstance"
         -> [m EXCEPT !.modules = TRUE]
    [] f.kind = "var" /\ f.access = <<"public">> /\ f.name # "instance"
         -> BindVariable(m, c, f)
    [] OTHER -> m

(* The public instance fields of a class, as its subclass sees them. *)
Inheritable(f) ==
  "public" \in ToSet(f.access) /\ "static" \notin ToSet(f.access) /\ f.name # "new"

(* createBindSuperClass: the fields of the superclass again, for c. *)
BindInherited(m, c, f) ==
  IF f.kind = "var" THEN BindVariable(m, c, f)
  ELSE BindMethod(m, c, f, Append(m.decs, FuncName(c, f)))

Inherited(c) == IF c.super = NoClass THEN <<>> ELSE SelectSeq(ClassAt(c.super).fields, Inheritable)

Collected(c) ==
  FoldLeft(LAMBDA m, f : BindInherited(m, c, f),
           FoldLeft(LAMBDA m, f : BindField(m, c, f), Reset, c.fields),
           Inherited(c))

-----------------------------------------------------------------------------
(***************************************************************************)
(* Writing the files of a class.                                           *)
(***************************************************************************)
Invalid == [does |-> "invalid", of |-> "nothing"]

(* genContent: what the function with this name does.  Without parameters  *)
(* the last word of the name decides.  The name of the property is what    *)
(* remains when every "_get" (every "_set") is cut from the name: nothing  *)
(* that the class has, if an earlier word starts so too.  Then the body is *)
(* "null = *value;", which is no C++.                                      *)
HasParameters(m, name) == name \in DOMAIN m.methods /\ m.methods[name].arity > 0

CutElsewhere(name) == \E i \in 2 .. Len(name) - 1 : name[i] \in StartWith[Last(name)]

Body(m, name) ==
  CASE HasParameters(m, name) \/ Last(name) \notin {"get", "set"}
         -> [does |-> "call", of |-> m.methods[name]]
    [] OTHER -> IF Front(name) \in DOMAIN m.methods /\ ~CutElsewhere(name)
                THEN [does |-> Last(name), of |-> m.methods[Front(name)]]
                ELSE Invalid

(* The C++ file: the functions, bindMethod and bindClass. *)
CodeOf(m) ==
  [functions |-> [i \in DOMAIN m.decs |-> Body(m, m.decs[i])],
   table |-> [i \in DOMAIN m.decs |-> m.signatures[m.decs[i]]],
   names |-> m.decs,
   constructors |-> m.constructors]

NoConstructor == -1

Declaration(class, constructor, signatures) ==
  [class |-> class, constructor |-> constructor, signatures |-> signatures]

(* genWrenExterns: the class as its module declares it. *)
DeclarationOf(c, m) ==
  Declaration(Name(c),
              IF m.constructors = <<>> THEN NoConstructor ELSE Last(m.constructors).arity,
              [i \in DOMAIN m.decs |-> m.signatures[m.decs[i]]])

(* createBindSuperClass: the superclass, declared with what c inherits and *)
(* a constructor without parameters.                                       *)
SuperSignatures(c) ==
  LET Signatures(f) ==
        IF f.kind = "var" THEN <<Signature(c, f, "set", 1), Signature(c, f, "get", 0)>>
        ELSE <<Signature(c, f, "call", f.arity)>>
  IN FlattenSeq([i \in DOMAIN Inherited(c) |-> Signatures(Inherited(c)[i])])

SuperDeclaration(c) ==
  Declaration(Last(c.super), 0,
              [i \in DOMAIN SuperSignatures(c) |-> [SuperSignatures(c)[i] EXCEPT !.class = Last(c.super)]])

(* The file of the package is written anew, and extended if there is a     *)
(* superclass.                                                             *)
FileOf(c, m) ==
  <<DeclarationOf(c, m)>> \o (IF c.super = NoClass THEN <<>> ELSE <<SuperDeclaration(c)>>)

(* The macro fails: nothing names the C++ module; the superclass has a     *)
(* superclass itself, and createBindSuperClass calls itself for ever; or   *)
(* it reads the file of a nested package under a name with dots.           *)
Fails(c, m) ==
  \/ ~m.modules
  \/ c.super # NoClass /\ (ClassAt(c.super).super # NoClass \/ Len(Package(c)) > 1)

(* The switch of wren_bindings.cpp with this class. *)
Switch(c) ==
  LET known == IF Package(c) \in DOMAIN packages THEN packages[Package(c)] ELSE <<>>
  IN Package(c) :> PushNew(known, Name(c)) @@ packages

Init ==
  /\ program \in Programs
  /\ stage = "macros"
  /\ maps = NoMaps /\ packages = NoEntries /\ code = NoEntries /\ files = NoEntries

(* bind(): the macro on one class.  The compiler types superclasses first, *)
(* the other classes in the order in which it meets them.                  *)
Bind(c) ==
  /\ stage = "macros" /\ c.path \notin DOMAIN code
  /\ c.super # NoClass => c.super \in DOMAIN code
  /\ packages' = Switch(c)
  /\ maps' = Collected(c)
  /\ IF Fails(c, maps')
     THEN stage' = "failed" /\ UNCHANGED <<code, files>>
     ELSE /\ code' = c.path :> CodeOf(maps') @@ code
          /\ files' = Package(c) :> FileOf(c, maps') @@ files
          /\ UNCHANGED stage
  /\ UNCHANGED program

(* Functions are defined once, their bodies are C++, and a constructor     *)
(* declares its variable "value" for one parameter only.                   *)
Compiles(file) ==
  /\ \A i, j \in DOMAIN file.names : file.names[i] = file.names[j] => i = j
  /\ \A i \in DOMAIN file.functions : file.functions[i].does # "invalid"
  /\ \A i \in DOMAIN file.constructors : file.constructors[i].arity <= 1

(* The C++ compiler, when all classes have been typed. *)
CompileCode ==
  /\ stage = "macros" /\ \A c \in program : c.path \in DOMAIN code
  /\ stage' = IF \A path \in DOMAIN code : Compiles(code[path]) THEN "running" ELSE "failed"
  /\ UNCHANGED <<program, maps, packages, code, files>>

-----------------------------------------------------------------------------
(***************************************************************************)
(* The generated lookup functions.                                         *)
(***************************************************************************)
NoFunction == [does |-> "nothing", of |-> "nothing"]

InSwitch(package, class) ==
  package \in DOMAIN packages /\ class \in ToSet(packages[package])

(* bindMethod(module, className, signature) *)
FunctionFor(package, class, signature) ==
  LET file == code[Append(package, class)]
      hits == {i \in DOMAIN file.table : file.table[i] = signature}
  IN IF InSwitch(package, class) /\ hits # {}
     THEN file.functions[CHOOSE i \in hits : \A j \in hits : i <= j]
     ELSE NoFunction

(* bindClass(module, className, methods): the parameters that allocate     *)
(* takes from the slots.                                                   *)
AllocateFor(package, class) ==
  IF InSwitch(package, class) /\ code[Append(package, class)].constructors # <<>>
  THEN Head(code[Append(package, class)].constructors).arity
  ELSE NoConstructor

=============================================================================
