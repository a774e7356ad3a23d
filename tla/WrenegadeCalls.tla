---------------------------- MODULE WrenegadeCalls ----------------------------
(***************************************************************************)
(* A Wren script that uses the classes of WrenegadeBindings: it imports    *)
(* their modules, and calls the methods that the modules declare.  The VM  *)
(* passes the receiver and the arguments in slots 0, 1, ... to the         *)
(* generated function, which takes them out with getFromSlot, calls Haxe,  *)
(* and for a getter puts the value into slot 0 with saveToSlot.            *)
(*                                                                         *)
(* The script ends with an import that fails, and with a call in which the *)
(* generated function breaks an assertion of the VM's API (there are none  *)
(* in a release build: what it does then is undefined) or throws.          *)
(***************************************************************************)
EXTENDS WrenegadeBindings

CONSTANT
  Arguments   (* The values that scripts pass.                             *)

VARIABLES
  properties,  (* The properties that have been set, by object and name.   *)
  imported,    (* vm->modules: the packages whose modules have been run.   *)
  script,      (* "runs" or "ended".                                       *)
  call         (* The last call since an import, and what it came to.      *)

allVars == <<generated, properties, imported, script, call>>

(* Values of Wren and of Haxe; an object of a Haxe class is foreign.  One  *)
(* that is not "foreign", "list" or Savable has a Wren class ("unknown").  *)
Value(type, data) == [type |-> type, data |-> data]
Null == Value("null", <<>>)

(* The n-th object of a class. *)
Instance(path, n) == Value("foreign", <<path, n>>)

NoCall == [asked |-> <<>>]

-----------------------------------------------------------------------------
(***************************************************************************)
(* Slots, as sequences: slot n is the element n + 1.                       *)
(***************************************************************************)
ReadFrom(slots, ok, value) == [slots |-> slots, ok |-> ok, value |-> value]

(* getFromSlot(vm, n) with the slots it leaves.  The elements of a list    *)
(* are fetched one by one into slot 0, from slot n as it then is; "Slot    *)
(* must hold a list." (wrenGetListElement) may fail.  It throws for an     *)
(* object of a Wren class.                                                 *)
RECURSIVE GetFromSlot(_, _)
GetFromSlot(slots, n) ==
  LET list == slots[n + 1]
      Fetch(read, i) ==
        IF ~read.ok \/ read.slots[n + 1].type # "list" \/ i > Len(read.slots[n + 1].data)
        THEN [read EXCEPT !.ok = FALSE]
        ELSE LET element == GetFromSlot([read.slots EXCEPT ![1] = read.slots[n + 1].data[i]], 0)
             IN ReadFrom(element.slots, element.ok, Value("list", Append(read.value.data, element.value)))
  IN IF list.type # "list" THEN ReadFrom(slots, list.type # "unknown", list)
     ELSE FoldLeft(Fetch, ReadFrom(slots, TRUE, Value("list", <<>>)), [i \in DOMAIN list.data |-> i])

(* saveToSlot(vm, 0, value): objects other than strings stay out. *)
Savable(value) == value.type \in {"null", "num", "bool", "string"}
SaveToSlot(slots, value) == IF Savable(value) THEN [slots EXCEPT ![1] = value] ELSE slots

-----------------------------------------------------------------------------
(***************************************************************************)
(* The generated functions.                                                *)
(***************************************************************************)
(* Mutation: slots are counted from the receiver.                          *)
ArgumentSlotFromReceiver(i) == i - 1

(* The slot of the i-th argument. *)
ArgumentSlot(i) == i

(* The arguments, from the first to the last, and then the receiver. *)
ReadArguments(slots, arity) ==
  FoldLeft(LAMBDA read, i :
             LET next == GetFromSlot(read.slots, ArgumentSlot(i))
             IN ReadFrom(next.slots, read.ok /\ next.ok, Append(read.value, next.value)),
           ReadFrom(slots, TRUE, <<>>), [i \in 1 .. arity |-> i])

(* What the call has reached: a member of a Haxe class, the object it is   *)
(* called on, the arguments; or nothing, if the function fails.            *)
Reached(of, receiver, arguments) ==
  [class |-> of.class, member |-> of.member, receiver |-> receiver, arguments |-> arguments]
ReachedNothing ==
  [class |-> <<>>, member |-> "", receiver |-> Null, arguments |-> <<>>]

(* The cast of slot 0 to the class: an object of it or of a subclass.      *)
IsInstance(value, class) ==
  /\ value.type = "foreign"
  /\ value.data[1] = class \/ \E c \in program : c.path = value.data[1] /\ c.super = class

OnReceiver(function, read) ==
  LET receiver == GetFromSlot(read.slots, 0)
  IN IF read.ok /\ receiver.ok /\ IsInstance(receiver.value, function.of.class)
     THEN Reached(function.of, receiver.value, read.value)
     ELSE ReachedNothing

CallsOn(function, slots) ==
  LET read == ReadArguments(slots, function.of.arity)
  IN IF ~function.of.static THEN OnReceiver(function, read)
     ELSE IF read.ok THEN Reached(function.of, Null, read.value) ELSE ReachedNothing

(* A setter asks for the memory of a foreign object in slot 1 and writes   *)
(* the value into it before it sets the property.  "Slot must hold a       *)
(* foreign instance." (wrenGetSlotForeign): without the assertion, it      *)
(* overwrites another object of the heap and goes on.                      *)
SetsTo(slots) == slots[2].type = "foreign"

Sets(function, slots) ==
  LET value == GetFromSlot(slots, 1)
      sets  == OnReceiver(function, [value EXCEPT !.value = <<@>>])
  IN CASE SetsTo(slots) -> {sets}
       [] slots[2].type \in {"string", "list"} -> {sets, ReachedNothing}
       [] OTHER -> {ReachedNothing}

(* What a call of the function may come to. *)
Effects(function, slots) ==
  CASE function.does = "call" -> {CallsOn(function, slots)}
    [] function.does = "set" -> Sets(function, slots)
    [] OTHER -> {OnReceiver(function, ReadFrom(slots, TRUE, <<>>))}


-----------------------------------------------------------------------------
(* wrenNewVM: a VM without modules. *)
CallsInit ==
  Init /\ properties = NoEntries /\ imported = {} /\ script = "runs" /\ call = NoCall

Generate ==
  /\ (\E c \in program : Bind(c)) \/ CompileCode
  /\ UNCHANGED <<properties, imported, script, call>>

-----------------------------------------------------------------------------
(***************************************************************************)
(* Imports.                                                                *)
(***************************************************************************)
(* loadModuleFn, of the module of a generated file.  The path of the file  *)
(* is kept as the text of a string that has been destroyed when it is      *)
(* read: the path, or another one, where there is no file.  The source is  *)
(* copied without the NUL that ends it: what follows in memory may be no   *)
(* Wren code.                                                              *)
LoadModule(package) == {"source", "source and more", "nothing"}

(* The module body binds every foreign method that it declares: "Could not *)
(* find foreign method".                                                   *)
ModuleRuns(package) ==
  \A d \in ToSet(files[package]) : \A signature \in ToSet(d.signatures) :
    FunctionFor(package, d.class, signature).does # NoFunction.does

(* The import of a module that is not yet loaded: "Could not load module", *)
(* "Could not compile module", or its body runs.                           *)
Import ==
  /\ stage = "running" /\ script = "runs"
  /\ \E package \in DOMAIN files \ imported : \E source \in LoadModule(package) :
       IF source = "source" /\ ModuleRuns(package)
       THEN imported' = imported \cup {package} /\ UNCHANGED script
       ELSE script' = "ended" /\ UNCHANGED imported
  /\ call' = NoCall
  /\ UNCHANGED <<generated, properties>>

-----------------------------------------------------------------------------
(***************************************************************************)
(* Calls.                                                                  *)
(***************************************************************************)
(* A property that nobody has set holds a string. *)
PropertyOf(object, member) ==
  IF <<object, member>> \in DOMAIN properties THEN properties[<<object, member>>] ELSE Value("string", <<>>)

(* A call that reaches nothing is the last one, and so is one whose setter *)
(* has overwritten something else.                                         *)
Finishes(function, slots, effect) ==
  effect = ReachedNothing \/ (function.does = "set" /\ ~SetsTo(slots))

(* callForeign: the receiver and the arguments are the slots.  The receiver *)
(* is the first object of the class that the script has constructed.        *)
Invoke(package, class, signature, arguments) ==
  LET path     == Append(package, class)
      receiver == IF signature.static THEN Null ELSE Instance(path, 1)
      slots    == <<receiver>> \o arguments
      function == FunctionFor(package, class, signature)
      gets     == function.does = "get"
  IN \E effect \in Effects(function, slots) :
       /\ call' = [form |-> IF signature.static THEN "static" ELSE signature.form,
                   asked |-> Reached([class |-> path, member |-> signature.name], receiver, arguments),
                   got |-> effect,
                   held |-> IF gets THEN PropertyOf(receiver, signature.name) ELSE Null,
                   slot0 |-> IF gets
                             THEN SaveToSlot(slots, PropertyOf(effect.receiver, effect.member))[1]
                             ELSE slots[1]]
       /\ properties' = IF function.does = "set" /\ effect # ReachedNothing
                        THEN <<effect.receiver, effect.member>> :> Head(effect.arguments) @@ properties
                        ELSE properties
       /\ script' = IF Finishes(function, slots, effect) THEN "ended" ELSE script
       /\ UNCHANGED <<generated, imported>>

Script ==
  /\ stage = "running" /\ script = "runs"
  /\ \E package \in imported : \E d \in ToSet(files[package]) :
       \E signature \in ToSet(d.signatures) : \E arguments \in [1 .. signature.arity -> Arguments] :
         /\ signature.static \/ d.constructor # NoConstructor
         /\ Invoke(package, d.class, signature, arguments)

(* createForeign: the generated function puts the new object into slot 0,  *)
(* and then reads the arguments of its constructor.                        *)
Construct(package, d, arguments) ==
  LET path   == Append(package, d.class)
      new    == [class |-> path, member |-> "new"]
      read   == ReadArguments(<<Instance(path, 1)>> \o arguments, AllocateFor(package, d.class))
      effect == IF read.ok THEN Reached(new, read.slots[1], read.value) ELSE ReachedNothing
  IN /\ call' = [form |-> "new", asked |-> Reached(new, Instance(path, 1), arguments), got |-> effect,
                 held |-> Null, slot0 |-> read.slots[1]]
     /\ script' = IF effect = ReachedNothing THEN "ended" ELSE script
     /\ UNCHANGED <<generated, properties, imported>>

NewObject ==
  /\ stage = "running" /\ script = "runs"
  /\ \E package \in imported : \E d \in ToSet(files[package]) :
       \E arguments \in [1 .. d.constructor -> Arguments] :
         d.constructor # NoConstructor /\ Construct(package, d, arguments)

(* The compiler has stopped with an error, or the script has ended. *)
Ended == stage # "macros" /\ UNCHANGED allVars

Next == Generate \/ Import \/ NewObject \/ Script \/ Ended

Spec == CallsInit /\ [][Next]_allVars

-----------------------------------------------------------------------------
(* Every method that a module file declares is found by its signature, and *)
(* the function found calls the member of that name, of that class, with   *)
(* as many arguments; a class with a constructor is allocated with as many *)
(* arguments as it declares.                                               *)
DeclarationsAreBound ==
  \A package \in DOMAIN files : \A d \in ToSet(files[package]) :
    /\ d.constructor = NoConstructor \/ AllocateFor(package, d.class) = d.constructor
    /\ \A s \in ToSet(d.signatures) :
         LET function == FunctionFor(package, d.class, s)
         IN /\ function.does = s.form /\ function.of.member = s.name
            /\ function.of.class = Append(package, d.class)
            /\ s.form = "call" => function.of.arity = s.arity /\ function.of.static = s.static

(* Everything public in a class is declared in the module of its package,  *)
(* whatever was generated before and after it.  The macro binds variables  *)
(* that are exactly "public": static ones are not bound.                   *)
Bindable(f) ==
  /\ "public" \in ToSet(f.access) /\ f.name \notin {"new", "main", "getInstance", "instance"}
  /\ f.kind = "var" => "static" \notin ToSet(f.access)

MembersAreDeclared ==
  \A c \in program : c.path \in DOMAIN code =>
    \E d \in ToSet(files[Package(c)]) :
      /\ d.class = Name(c)
      /\ \A f \in {g \in ToSet(c.fields) : Bindable(g)} : \E s \in ToSet(d.signatures) :
           s.name = f.name /\ s.static = (f.access \in StaticAccess)

(* "Wrenegade will automatically generate binding functions for your       *)
(* class" (README.md): once the compiler has accepted them, the modules    *)
(* declare what the classes have, and what they declare is bound.          *)
ModulesMatchClasses == stage = "running" => DeclarationsAreBound /\ MembersAreDeclared

(* The arguments that the generated functions can take: for a setter an    *)
(* object of a Haxe class, for a static method also scalars and flat       *)
(* lists, for a constructor and any other method no lists.                 *)
Takeable(form, value) ==
  /\ value.type # "unknown"
  /\ form = "set" => value.type = "foreign"
  /\ form \in {"call", "new"} => value.type # "list"
  /\ value.type = "list" => \A i \in DOMAIN value.data : value.data[i].type \notin {"list", "unknown"}

(* A call of a declared method or constructor, with whatever arguments,    *)
(* reaches the member that its name stands for, of its class, or nothing   *)
(* at all.  With arguments that can be taken it does reach it, on the      *)
(* receiver, with the arguments in their order and as they were, lists     *)
(* included; and a getter leaves the value of the receiver's property.     *)
CallsReachTheirMembers ==
  call # NoCall =>
    /\ \/ call.got = ReachedNothing
       \/ call.got.class = call.asked.class /\ call.got.member = call.asked.member
    /\ (\A i \in DOMAIN call.asked.arguments : Takeable(call.form, call.asked.arguments[i])) =>
         /\ call.got = call.asked
         /\ call.form = "get" /\ Savable(call.held) => call.slot0 = call.held

=============================================================================
