----------------------------- MODULE WrenObjects -----------------------------
(***************************************************************************)
(* The objects of the virtual machine: the core classes with their tables of *)
(* methods (wrenInitializeCore), the class of a value, and the primitive       *)
(* methods of wren_core.c that the programs of the checks call.               *)
(*                                                                           *)
(* Values are <<"num", n>>, <<"bool", b>>, Null, <<"str", pieces>>,            *)
(* <<"range", from, to, inclusive>>, <<"closure", id>>, <<"class", id>>,       *)
(* <<"module", name>> and <<"obj", id>> for instances, lists and maps.  A       *)
(* string is a sequence of pieces that are not looked into, a number an integer.*)
(***************************************************************************)
EXTENDS WrenBytecode, WrenSequences, SequencesExt, FiniteSetsExt, TLC

VARIABLE
    heap       \* fns, closures, upvalues, classes and objects, by number

Truthy(v) == v /= <<"bool", FALSE>> /\ v /= Null

-----------------------------------------------------------------------------
\* The core classes.  A class has a table of methods and, for its metaclass, one
\* of static methods; both map signatures to <<"primitive", name>> or
\* <<"block", closure>>.

Primitives(type, arity, names) ==
    [sig \in {<<type, name, arity>> : name \in names} |-> <<"primitive", sig[2]>>]

ObjectMethods ==
    Primitives("METHOD", 1, {"==", "!=", "is"}) @@ Primitives("GETTER", 0, {"!"})
NumMethods ==
       Primitives("METHOD", 1, {"+", "-", "*", "<", ">", "<=", ">=", "==", "!=", "..", "..."})
    @@ (<<"GETTER", "-", 0>> :> <<"primitive", "negate">>)
SequenceMethods == Primitives("METHOD", 1, {"iterate", "iteratorValue"})
ListMethods ==
       SequenceMethods @@ Primitives("METHOD", 1, {"addCore_", "add", "removeAt"})
    @@ Primitives("METHOD", 0, {"join", "clear"}) @@ Primitives("METHOD", 2, {"insert"})
    @@ Primitives("GETTER", 0, {"count"})
    @@ (<<"SUBSCRIPT", "", 1>> :> <<"primitive", "subscript">>)
    @@ (<<"SUBSCRIPT_SETTER", "", 2>> :> <<"primitive", "subscriptSetter">>)
MapMethods ==
       Primitives("METHOD", 2, {"addCore_"}) @@ Primitives("GETTER", 0, {"count"})
    @@ Primitives("METHOD", 1, {"containsKey", "remove"}) @@ Primitives("METHOD", 0, {"clear"})
    @@ (<<"SUBSCRIPT", "", 1>> :> <<"primitive", "subscript">>)
    @@ (<<"SUBSCRIPT_SETTER", "", 2>> :> <<"primitive", "subscriptSetter">>)
StringMethods ==
       Primitives("METHOD", 1, {"+", "contains", "startsWith", "endsWith", "indexOf", "==", "!="})
    @@ Primitives("METHOD", 2, {"indexOf"}) @@ Primitives("GETTER", 0, {"toString"})
    @@ (<<"SUBSCRIPT", "", 1>> :> <<"primitive", "subscript">>)
FnMethods == [sig \in {<<"METHOD", "call", n>> : n \in 0..MaxParameters} |->
                 <<"primitive", "call">>]
None == [sig \in {} |-> <<>>]

CoreClass(name, methods, statics) ==
    [name |-> name, superclass |-> 1, numFields |-> 0,
     methods |-> methods @@ ObjectMethods, statics |-> statics @@ ObjectMethods]
CoreClasses ==
    << [CoreClass("Object", None, None) EXCEPT !.superclass = 0],
       CoreClass("Class", None, None),
       CoreClass("Bool", Primitives("GETTER", 0, {"!"}), None),
       CoreClass("Fn", FnMethods, Primitives("METHOD", 1, {"new"})),
       CoreClass("Null", Primitives("GETTER", 0, {"!"}), None),
       CoreClass("Num", NumMethods, None),
       CoreClass("Range", SequenceMethods, None),
       CoreClass("String", StringMethods, None),
       CoreClass("List", ListMethods, Primitives("METHOD", 0, {"new"})),
       CoreClass("Map", MapMethods, Primitives("METHOD", 0, {"new"})),
       CoreClass("System", None, Primitives("METHOD", 1, {"print"})) >>
CoreId(name) == CHOOSE i \in DOMAIN CoreClasses : CoreClasses[i].name = name
\* The built-in classes that no class may inherit from.
Sealed == {CoreId(name) : name \in {"Class", "Fn", "List", "Map", "Range", "String"}}

ClassAt(id) ==
    IF id <= Len(CoreClasses) THEN CoreClasses[id]
    ELSE heap.classes[id - Len(CoreClasses)]

\* wrenGetClass, and the methods that a value understands.
ClassId(v) ==
    CASE v[1] = "obj" -> heap.objects[v[2]].class
      [] v[1] = "num" -> CoreId("Num")
      [] v[1] = "bool" -> CoreId("Bool")
      [] v[1] = "null" -> CoreId("Null")
      [] v[1] = "str" -> CoreId("String")
      [] v[1] = "range" -> CoreId("Range")
      [] v[1] = "closure" -> CoreId("Fn")
      [] v[1] = "class" -> CoreId("Class")
      [] OTHER -> CoreId("Object")
MethodsOf(v) == IF v[1] = "class" THEN ClassAt(v[2]).statics ELSE ClassAt(ClassId(v)).methods

InheritsFrom(class, base) ==
    LET inherits[c \in 0..(Len(CoreClasses) + Len(heap.classes))] ==
            c /= 0 /\ (c = base \/ inherits[ClassAt(c).superclass])
    IN  inherits[class]

-----------------------------------------------------------------------------
\* The primitive methods.  The outcome [ok, value, objects] has ok FALSE for a
\* runtime error.

Returns(v) == [ok |-> TRUE, value |-> v, objects |-> heap.objects]
ReturnsNew(object) ==
    [ok |-> TRUE, value |-> <<"obj", Len(heap.objects) + 1>>,
     objects |-> Append(heap.objects, object)]
Changes(id, elements, v) ==
    [ok |-> TRUE, value |-> v,
     objects |-> [heap.objects EXCEPT ![id].elements = elements]]
Fails == [ok |-> FALSE, value |-> Null, objects |-> heap.objects]

\* What stands for an argument that a method has not got.
Missing == <<"missing", 0>>
IsNum(v) == v[1] = "num"
Bool(b) == <<"bool", b>>

NumPrimitive(name, a, b) ==
    CASE name = "negate" -> Returns(<<"num", -a[2]>>)
      [] name = "==" -> Returns(Bool(IsNum(b) /\ a[2] = b[2]))
      [] name = "!=" -> Returns(Bool(~IsNum(b) \/ a[2] /= b[2]))
      [] name \notin {"negate", "==", "!="} /\ ~IsNum(b) -> Fails
      [] name = "+" /\ IsNum(b) -> Returns(<<"num", a[2] + b[2]>>)
      [] name = "-" /\ IsNum(b) -> Returns(<<"num", a[2] - b[2]>>)
      [] name = "*" /\ IsNum(b) -> Returns(<<"num", a[2] * b[2]>>)
      [] name = "<" /\ IsNum(b) -> Returns(Bool(a[2] < b[2]))
      [] name = ">" /\ IsNum(b) -> Returns(Bool(a[2] > b[2]))
      [] name = "<=" /\ IsNum(b) -> Returns(Bool(a[2] <= b[2]))
      [] name = ">=" /\ IsNum(b) -> Returns(Bool(a[2] >= b[2]))
      [] name = ".." /\ IsNum(b) -> Returns(<<"range", a[2], b[2], TRUE>>)
      [] name = "..." /\ IsNum(b) -> Returns(<<"range", a[2], b[2], FALSE>>)

ObjectPrimitive(name, a, b) ==
    CASE name = "!" -> Returns(Bool(~Truthy(a)))
      [] name = "==" -> Returns(Bool(a = b))
      [] name = "!=" -> Returns(Bool(a /= b))
      [] name = "is" ->
             IF b[1] /= "class" THEN Fails ELSE Returns(Bool(InheritsFrom(ClassId(a), b[2])))

RangePrimitive(name, a, b) ==
    LET next == IF a[2] < a[3] THEN b[2] + 1 ELSE b[2] - 1
        ended == \/ a[2] < a[3] /\ next > a[3]
                 \/ a[2] >= a[3] /\ next < a[3]
                 \/ ~a[4] /\ next = a[3]
    IN  CASE name = "iteratorValue" -> Returns(b)
          [] name = "iterate" ->
                 IF a[2] = a[3] /\ ~a[4] THEN Returns(Bool(FALSE))
                 ELSE IF b = Null THEN Returns(<<"num", a[2]>>)
                 ELSE IF ~IsNum(b) THEN Fails
                 ELSE IF ended THEN Returns(Bool(FALSE)) ELSE Returns(<<"num", next>>)

\* The string of a value: a sequence of pieces, which are not looked into.
Pieces(v) ==
    CASE v[1] = "num" -> <<ToString(v[2])>>
      [] v[1] = "bool" -> <<IF v[2] THEN "true" ELSE "false">>
      [] v[1] = "null" -> <<"null">>
      [] v[1] = "str" -> v[2]
      [] v[1] = "range" -> <<ToString(v[2]), IF v[4] THEN ".." ELSE "...", ToString(v[3])>>
      [] v[1] = "class" -> <<ClassAt(v[2]).name>>
      [] v[1] = "closure" -> <<"<fn>">>
      [] OTHER -> <<"instance of ", ClassAt(ClassId(v)).name>>

\* The index that a value stands for in n elements, -1 when it is no number, and
\* the elements that it selects, none when it is no range.
IndexIn(v, n) == IF IsNum(v) THEN ValidIndex(v[2], n) ELSE -1
IsRange(v) == v[1] = "range"
SliceOf(v, n) == IF IsRange(v) THEN CalculateRange(v[2], v[3], v[4], n) ELSE OutOfBounds

ListPrimitive(name, list, a, b) ==
    LET elements == heap.objects[list[2]].elements
        n == Len(elements)
        index == IndexIn(a, IF name = "insert" THEN n + 1 ELSE n)
        slice == SliceOf(a, n)
    IN  CASE name = "addCore_" -> Changes(list[2], Append(elements, a), list)
          [] name = "add" -> Changes(list[2], Append(elements, a), a)
          [] name = "clear" -> Changes(list[2], <<>>, Null)
          [] name = "count" -> Returns(<<"num", n>>)
          [] name = "join" ->
                 Returns(<<"str", FlattenSeq([i \in DOMAIN elements |-> Pieces(elements[i])])>>)
          [] name = "iterate" ->
                 IF a = Null
                 THEN Returns(IF elements = <<>> THEN Bool(FALSE) ELSE <<"num", 0>>)
                 ELSE IF ~IsNum(a) THEN Fails
                 ELSE IF a[2] < 0 \/ a[2] >= n - 1 THEN Returns(Bool(FALSE))
                 ELSE Returns(<<"num", a[2] + 1>>)
          [] name = "subscript" /\ IsRange(a) ->
                 IF slice = OutOfBounds THEN Fails
                 ELSE ReturnsNew([class |-> CoreId("List"), elements |-> Selected(elements, slice)])
          [] name \in {"iteratorValue", "subscript", "insert", "removeAt", "subscriptSetter"}
             /\ ~(name = "subscript" /\ IsRange(a)) ->
                 IF index = -1 THEN Fails
                 ELSE CASE name \in {"iteratorValue", "subscript"} -> Returns(elements[index + 1])
                        [] name = "insert" -> Changes(list[2], InsertAt(elements, index + 1, b), b)
                        [] name = "removeAt" ->
                               Changes(list[2], RemoveAt(elements, index + 1), elements[index + 1])
                        [] name = "subscriptSetter" ->
                               Changes(list[2], [elements EXCEPT ![index + 1] = b], b)

\* Pieces stand for bytes: the strings that are searched have pieces of one byte.
StringPrimitive(name, string, a, b) ==
    LET s == string[2]
        n == Len(s)
        index == IndexIn(IF name = "indexOf" THEN b ELSE a, n)
        slice == SliceOf(a, n)
        search == IF a[1] = "str" THEN a[2] ELSE <<>>
    IN  CASE name = "toString" -> Returns(string)
          [] name = "==" -> Returns(Bool(a = string))
          [] name = "!=" -> Returns(Bool(a /= string))
          [] name = "subscript" ->
                 IF index /= -1 THEN Returns(<<"str", <<s[index + 1]>> >>)
                 ELSE IF slice /= OutOfBounds THEN Returns(<<"str", Selected(s, slice)>>)
                 ELSE Fails
          [] name \in {"+", "contains", "startsWith", "endsWith", "indexOf"} ->
                 IF a[1] /= "str" THEN Fails
                 ELSE CASE name = "+" -> Returns(<<"str", s \o search>>)
                        [] name = "contains" -> Returns(Bool(StringFind(s, search, 0) /= -1))
                        [] name = "startsWith" -> Returns(Bool(MatchesAt(s, search, 0)))
                        [] name = "endsWith" ->
                               Returns(Bool(Len(search) <= n /\ MatchesAt(s, search, n - Len(search))))
                        [] name = "indexOf" ->
                               IF b = Missing THEN Returns(<<"num", StringFind(s, search, 0)>>)
                               ELSE IF index = -1 THEN Fails
                               ELSE Returns(<<"num", StringFind(s, search, index)>>)

\* The entries of a map are pairs; WrenMap models how they are stored.
MapPrimitive(name, map, a, b) ==
    LET entries == heap.objects[map[2]].elements
        found == {i \in DOMAIN entries : entries[i][1] = a}
    IN  CASE name = "count" -> Returns(<<"num", Len(entries)>>)
          [] name = "clear" -> Changes(map[2], <<>>, Null)
          [] name \notin {"count", "clear"} /\ a[1] \in {"obj", "closure"} -> Fails
          [] name = "containsKey" -> Returns(Bool(found /= {}))
          [] name = "remove" ->
                 IF found = {} THEN Returns(Null)
                 ELSE Changes(map[2], RemoveAt(entries, Max(found)), entries[Max(found)][2])
          [] name = "subscript" ->
                 Returns(IF found = {} THEN Null ELSE entries[Max(found)][2])
          [] name \in {"addCore_", "subscriptSetter"} ->
                 Changes(map[2],
                         IF found = {} THEN Append(entries, <<a, b>>)
                         ELSE [entries EXCEPT ![Max(found)] = <<a, b>>],
                         IF name = "addCore_" THEN map ELSE b)

Primitive(name, args) ==
    LET a == args[1]
        b == IF Len(args) > 1 THEN args[2] ELSE Missing
        c == IF Len(args) > 2 THEN args[3] ELSE Missing
    IN  CASE a[1] = "class" /\ name = "print" -> Returns(b)
          [] a[1] = "class" /\ name = "new" /\ a[2] = CoreId("Fn") ->
                 IF b[1] = "closure" THEN Returns(b) ELSE Fails
          [] a[1] = "class" /\ name = "new" /\ a[2] /= CoreId("Fn") ->
                 ReturnsNew([class |-> a[2], elements |-> <<>>])
          [] a[1] = "num" /\ name \notin {"!", "is"} -> NumPrimitive(name, a, b)
          [] a[1] = "str" /\ name \notin {"!", "is"} -> StringPrimitive(name, a, b, c)
          [] a[1] = "range" /\ name \in {"iterate", "iteratorValue"} ->
                 RangePrimitive(name, a, b)
          [] a[1] = "obj" /\ name \notin {"==", "!=", "!", "is"} ->
                 IF ClassId(a) = CoreId("List") THEN ListPrimitive(name, a, b, c)
                 ELSE MapPrimitive(name, a, b, c)
          [] OTHER -> ObjectPrimitive(name, a, b)
=============================================================================
