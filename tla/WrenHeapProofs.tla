--------------------------- MODULE WrenHeapProofs ---------------------------
(***************************************************************************)
(* The heap of WrenHeap, for any number of objects: whichever C function   *)
(* runs, however it ends, and wherever the collector runs, what is used    *)
(* again is not freed, and temporary roots are popped by who pushed them.  *)
(*                                                                         *)
(* The argument follows the code of each function once, step by step, with *)
(* what can be said of its variables at each point (a view), and then the  *)
(* steps of the running function, through the suffixes of its code.        *)
(***************************************************************************)
EXTENDS WrenHeap, SmallestNatural, SequenceTheorems

(* The configurations in which nothing in use is freed: see WrenHeap.      *)
Disciplined == KeepsClasses /\ ~ModulesGrow

Steps ==
  [do : {"new", "grow", "push", "pop", "link", "unlink", "keep", "take", "enter", "hold"},
   r : Registers, s : Registers, kind : Kinds, from : SUBSET Registers]

(* What is known between two steps: which registers the temporary roots    *)
(* come from; which registers may hold an object that is not otherwise     *)
(* reachable (loose), which hold an object for sure (made), which may hold *)
(* a foreign object, which hold the class of one, and which are used later.*)
Views ==
  [temps : Seq(Registers), loose : SUBSET Registers, made : SUBSET Registers,
   foreign : SUBSET Registers, classes : SUBSET Registers, used : SUBSET Registers]

View(temps, loose, made, foreign, classes, used) ==
  [temps |-> temps, loose |-> loose, made |-> made, foreign |-> foreign,
   classes |-> classes, used |-> used]

Rooting(step) == step.do \in {"keep", "enter", "hold"}

(* The step leads from what p says to what q says.                         *)
Does(step, p, q) ==
  /\ step \in Steps /\ p \in Views /\ q \in Views
  /\ Reads(step) \subseteq p.used /\ q.used \subseteq p.used
  /\ step.do = "push" => q.temps = Append(p.temps, step.r)
  /\ step.do = "pop" => p.temps # <<>> /\ q.temps = Front(p.temps)
  /\ step.do \notin {"push", "pop"} => q.temps = p.temps
  /\ Len(q.temps) <= 2
  /\ p.loose \ (IF Rooting(step) THEN {step.r} ELSE {}) \subseteq q.loose
  /\ q.made \subseteq p.made \cup (IF step.do = "new" THEN {step.r} ELSE {})
  /\ p.foreign \subseteq q.foreign /\ q.classes \subseteq p.classes
  /\ Rooting(step) => step.r \in p.made
  /\ step.do \in {"link", "unlink"} => step.r \notin p.foreign
  /\ step.do = "new" =>
       /\ step.r \notin ToSet(p.temps) /\ step.r \in q.loose /\ step.r \notin q.classes
       /\ step.kind = "foreign" => step.r \in q.foreign /\ step.from \subseteq p.classes
  /\ Allocates(step) /\ Disciplined =>
       \A r \in step.from \cup q.used : r \in p.loose => r \in ToSet(p.temps)

Runs(code, p, q) ==
  /\ code \in Seq(Steps) /\ p \in Views /\ q \in Views /\ Len(p.temps) <= 2
  /\ \E view \in [1 .. Len(code) + 1 -> Views] :
       /\ view[1] = p /\ view[Len(code) + 1] = q
       /\ \A i \in 1 .. Len(code) : Does(code[i], view[i], view[i + 1])

-----------------------------------------------------------------------------
(***************************************************************************)
(* Code and what it does.                                                  *)
(***************************************************************************)

(* No code changes nothing. *)
LEMMA NothingRuns ==
  ASSUME NEW p \in Views, Len(p.temps) <= 2 PROVE Runs(<<>>, p, p)
<1> DEFINE view == [i \in 1 .. 1 |-> p]
<1>1. /\ <<>> \in Seq(Steps) /\ Len(<<>>) = 0
  OBVIOUS
<1>2. /\ view \in [1 .. Len(<<>>) + 1 -> Views]
      /\ view[1] = p /\ view[Len(<<>>) + 1] = p
      /\ \A i \in 1 .. Len(<<>>) : Does(<<>>[i], view[i], view[i + 1])
  BY <1>1
<1> HIDE DEF view
<1> QED  BY <1>1, <1>2 DEF Runs

(* One piece of code after another. *)
LEMMA CodesRun ==
  ASSUME NEW c, NEW d, NEW p, NEW k, NEW q, Runs(c, p, k), Runs(d, k, q)
  PROVE  Runs(c \o d, p, q)
<1>1. PICK first \in [1 .. Len(c) + 1 -> Views] :
        /\ first[1] = p /\ first[Len(c) + 1] = k
        /\ \A i \in 1 .. Len(c) : Does(c[i], first[i], first[i + 1])
  BY DEF Runs
<1>2. PICK rest \in [1 .. Len(d) + 1 -> Views] :
        /\ rest[1] = k /\ rest[Len(d) + 1] = q
        /\ \A i \in 1 .. Len(d) : Does(d[i], rest[i], rest[i + 1])
  BY DEF Runs
<1> DEFINE all == c \o d
           view == [i \in 1 .. Len(all) + 1 |->
                      IF i <= Len(c) THEN first[i] ELSE rest[i - Len(c)]]
<1>3. /\ all \in Seq(Steps) /\ Len(all) = Len(c) + Len(d)
      /\ Len(c) \in Nat /\ Len(d) \in Nat
      /\ \A i \in 1 .. Len(c) : all[i] = c[i]
      /\ \A i \in 1 .. Len(d) : all[Len(c) + i] = d[i]
  BY DEF Runs
<1> HIDE DEF all
<1>4. view \in [1 .. Len(all) + 1 -> Views]
  BY <1>1, <1>2, <1>3
<1>5. \A i \in 1 .. Len(c) + 1 : view[i] = first[i]
  BY <1>1, <1>2, <1>3
<1>6. \A i \in 1 .. Len(d) + 1 : view[Len(c) + i] = rest[i]
  BY <1>1, <1>2, <1>3
<1> HIDE DEF view
<1>7. view[1] = p /\ view[Len(all) + 1] = q
  <2>1. view[1] = first[1]
    <3>1. 1 \in 1 .. Len(c) + 1
      BY <1>3
    <3> QED  BY <3>1, <1>5
  <2>2. view[Len(c) + (Len(d) + 1)] = rest[Len(d) + 1]
    <3>1. Len(d) + 1 \in 1 .. Len(d) + 1
      BY <1>3
    <3> QED  BY <3>1, <1>6
  <2> QED  BY <2>1, <2>2, <1>1, <1>2, <1>3
<1>8. \A i \in 1 .. Len(all) : Does(all[i], view[i], view[i + 1])
  <2> SUFFICES ASSUME NEW i \in 1 .. Len(all)
               PROVE  Does(all[i], view[i], view[i + 1])
    OBVIOUS
  <2>1. CASE i <= Len(c)
    <3>1. i \in 1 .. Len(c) /\ i \in 1 .. Len(c) + 1 /\ i + 1 \in 1 .. Len(c) + 1
      BY <2>1, <1>3
    <3>2. view[i] = first[i] /\ view[i + 1] = first[i + 1] /\ all[i] = c[i]
      BY <3>1, <1>3, <1>5
    <3> QED  BY <3>1, <3>2, <1>1
  <2>2. CASE i > Len(c)
    <3> DEFINE j == i - Len(c)
    <3>1. j \in 1 .. Len(d) /\ all[i] = d[j] /\ i = Len(c) + j
      BY <2>2, <1>3
    <3>2. view[Len(c) + j] = rest[j] /\ view[Len(c) + (j + 1)] = rest[j + 1]
      BY <3>1, <1>3, <1>6
    <3>3. i + 1 = Len(c) + (j + 1)
      BY <3>1, <1>3
    <3> QED  BY <3>1, <3>2, <3>3, <1>2, <1>3
  <2> QED  BY <2>1, <2>2, <1>3
<1>9. Runs(all, p, q)
  BY <1>3, <1>4, <1>7, <1>8 DEF Runs
<1> QED  BY <1>9 DEF all

(* What is left of the code when its first step is done. *)
LEMMA RestRuns ==
  ASSUME NEW code, NEW p, NEW q, Runs(code, p, q), code # <<>>
  PROVE  \E k : Does(Head(code), p, k) /\ Runs(Tail(code), k, q)
<1>1. PICK view \in [1 .. Len(code) + 1 -> Views] :
        /\ view[1] = p /\ view[Len(code) + 1] = q
        /\ \A i \in 1 .. Len(code) : Does(code[i], view[i], view[i + 1])
  BY DEF Runs
<1> DEFINE rest == [i \in 1 .. Len(Tail(code)) + 1 |-> view[i + 1]]
<1>2. /\ code \in Seq(Steps) /\ Len(code) \in Nat \ {0} /\ Head(code) = code[1]
  BY DEF Runs
<1>3. /\ Tail(code) \in Seq(Steps) /\ Len(Tail(code)) = Len(code) - 1
      /\ \A i \in 1 .. Len(code) - 1 : Tail(code)[i] = code[i + 1]
  BY <1>2
<1>4. rest \in [1 .. Len(Tail(code)) + 1 -> Views]
  BY <1>1, <1>2, <1>3
<1>5. rest[1] = view[2] /\ rest[Len(Tail(code)) + 1] = q
  BY <1>1, <1>2, <1>3, <1>4
<1>6. \A i \in 1 .. Len(Tail(code)) : Does(Tail(code)[i], rest[i], rest[i + 1])
  <2> SUFFICES ASSUME NEW i \in 1 .. Len(Tail(code))
               PROVE  Does(Tail(code)[i], rest[i], rest[i + 1])
    OBVIOUS
  <2>1. Does(code[i + 1], view[i + 1], view[(i + 1) + 1])
    BY <1>1, <1>2, <1>3
  <2> QED  BY <2>1, <1>2, <1>3
<1>7. Does(Head(code), p, view[2])
  <2>1. Does(code[1], view[1], view[1 + 1])
    BY <1>1, <1>2
  <2> QED  BY <2>1, <1>1, <1>2
<1>8. Runs(Tail(code), view[2], q)
  <2>1. view[2] \in Views /\ Len(view[2].temps) <= 2 /\ q \in Views
    BY <1>7 DEF Does, Runs
  <2> HIDE DEF rest
  <2> QED  BY <2>1, <1>3, <1>4, <1>5, <1>6 DEF Runs
<1> QED  BY <1>7, <1>8

(* Code uses no registers but those that the view says.                    *)
LEMMA RunsUse ==
  ASSUME NEW code, NEW p, NEW q, Runs(code, p, q)
  PROVE  RegistersInUse(code) \subseteq p.used
<1>1. PICK view \in [1 .. Len(code) + 1 -> Views] :
        /\ view[1] = p
        /\ \A i \in 1 .. Len(code) : Does(code[i], view[i], view[i + 1])
  BY DEF Runs
<1>2. Len(code) \in Nat /\ DOMAIN code = 1 .. Len(code)
  BY DEF Runs
<1>3. \A i \in 1 .. Len(code) : /\ view[i + 1].used \subseteq view[i].used
                                /\ Reads(code[i]) \subseteq view[i].used
  BY <1>1 DEF Does
<1> DEFINE Bad == {i \in 1 .. Len(code) : ~(view[i].used \subseteq p.used)}
<1>4. Bad = {}
  <2> SUFFICES ASSUME Bad # {} PROVE FALSE
    OBVIOUS
  <2>1. PICK i \in Bad : \A j \in Bad : i <= j
    <3>1. Bad \in SUBSET Nat
      BY <1>2
    <3> QED BY <3>1, SmallestOfNaturals
  <2>2. i \in 1 .. Len(code) /\ i # 1
    BY <1>1, <2>1
  <2>3. i - 1 \in 1 .. Len(code) /\ i - 1 \notin Bad
    BY <1>2, <2>1, <2>2
  <2>4. view[(i - 1) + 1].used \subseteq view[i - 1].used
    BY <1>3, <2>3
  <2>5. (i - 1) + 1 = i
    BY <1>2, <2>2
  <2> QED BY <2>1, <2>3, <2>4, <2>5
<1>5. \A i \in 1 .. Len(code) : Reads(code[i]) \subseteq p.used
  BY <1>3, <1>4
<1> QED BY <1>2, <1>5 DEF RegistersInUse

(* A few steps in a row. *)
LEMMA OneRun ==
  ASSUME NEW a,
         NEW p0, NEW p1,
         Does(a, p0, p1), Len(p0.temps) <= 2
  PROVE  Runs(<<a>>, p0, p1)
<1> DEFINE code == <<a>>
           view == <<p0, p1>>
<1>1. /\ a \in Steps
      /\ p0 \in Views /\ p1 \in Views
  BY DEF Does
<1>2. code \in Seq(Steps) /\ Len(code) = 1
  BY <1>1
<1>3. view \in [1 .. Len(code) + 1 -> Views]
  BY <1>1, <1>2
<1>4. \A i \in 1 .. Len(code) : Does(code[i], view[i], view[i + 1])
  BY <1>2
<1>5. view[1] = p0 /\ view[Len(code) + 1] = p1
  BY <1>2
<1> HIDE DEF view
<1> QED  BY <1>1, <1>2, <1>3, <1>4, <1>5 DEF Runs

LEMMA TwoRun ==
  ASSUME NEW a, NEW b,
         NEW p0, NEW p1, NEW p2,
         Does(a, p0, p1), Does(b, p1, p2), Len(p0.temps) <= 2
  PROVE  Runs(<<a, b>>, p0, p2)
<1> DEFINE code == <<a, b>>
           view == <<p0, p1, p2>>
<1>1. /\ a \in Steps /\ b \in Steps
      /\ p0 \in Views /\ p1 \in Views /\ p2 \in Views
  BY DEF Does
<1>2. code \in Seq(Steps) /\ Len(code) = 2
  BY <1>1
<1>3. view \in [1 .. Len(code) + 1 -> Views]
  BY <1>1, <1>2
<1>4. \A i \in 1 .. Len(code) : Does(code[i], view[i], view[i + 1])
  BY <1>2
<1>5. view[1] = p0 /\ view[Len(code) + 1] = p2
  BY <1>2
<1> HIDE DEF view
<1> QED  BY <1>1, <1>2, <1>3, <1>4, <1>5 DEF Runs

LEMMA ThreeRun ==
  ASSUME NEW a, NEW b, NEW c,
         NEW p0, NEW p1, NEW p2, NEW p3,
         Does(a, p0, p1), Does(b, p1, p2), Does(c, p2, p3), Len(p0.temps) <= 2
  PROVE  Runs(<<a, b, c>>, p0, p3)
<1> DEFINE code == <<a, b, c>>
           view == <<p0, p1, p2, p3>>
<1>1. /\ a \in Steps /\ b \in Steps /\ c \in Steps
      /\ p0 \in Views /\ p1 \in Views /\ p2 \in Views /\ p3 \in Views
  BY DEF Does
<1>2. code \in Seq(Steps) /\ Len(code) = 3
  BY <1>1
<1>3. view \in [1 .. Len(code) + 1 -> Views]
  BY <1>1, <1>2
<1>4. \A i \in 1 .. Len(code) : Does(code[i], view[i], view[i + 1])
  BY <1>2
<1>5. view[1] = p0 /\ view[Len(code) + 1] = p3
  BY <1>2
<1> HIDE DEF view
<1> QED  BY <1>1, <1>2, <1>3, <1>4, <1>5 DEF Runs

LEMMA FourRun ==
  ASSUME NEW a, NEW b, NEW c, NEW d,
         NEW p0, NEW p1, NEW p2, NEW p3, NEW p4,
         Does(a, p0, p1), Does(b, p1, p2), Does(c, p2, p3), Does(d, p3, p4), Len(p0.temps) <= 2
  PROVE  Runs(<<a, b, c, d>>, p0, p4)
<1> DEFINE code == <<a, b, c, d>>
           view == <<p0, p1, p2, p3, p4>>
<1>1. /\ a \in Steps /\ b \in Steps /\ c \in Steps /\ d \in Steps
      /\ p0 \in Views /\ p1 \in Views /\ p2 \in Views /\ p3 \in Views
      /\ p4 \in Views
  BY DEF Does
<1>2. code \in Seq(Steps) /\ Len(code) = 4
  BY <1>1
<1>3. view \in [1 .. Len(code) + 1 -> Views]
  BY <1>1, <1>2
<1>4. \A i \in 1 .. Len(code) : Does(code[i], view[i], view[i + 1])
  BY <1>2
<1>5. view[1] = p0 /\ view[Len(code) + 1] = p4
  BY <1>2
<1> HIDE DEF view
<1> QED  BY <1>1, <1>2, <1>3, <1>4, <1>5 DEF Runs

LEMMA FiveRun ==
  ASSUME NEW a, NEW b, NEW c, NEW d, NEW e,
         NEW p0, NEW p1, NEW p2, NEW p3, NEW p4, NEW p5,
         Does(a, p0, p1), Does(b, p1, p2), Does(c, p2, p3), Does(d, p3, p4),
         Does(e, p4, p5), Len(p0.temps) <= 2
  PROVE  Runs(<<a, b, c, d, e>>, p0, p5)
<1> DEFINE code == <<a, b, c, d, e>>
           view == <<p0, p1, p2, p3, p4, p5>>
<1>1. /\ a \in Steps /\ b \in Steps /\ c \in Steps /\ d \in Steps
      /\ e \in Steps
      /\ p0 \in Views /\ p1 \in Views /\ p2 \in Views /\ p3 \in Views
      /\ p4 \in Views /\ p5 \in Views
  BY DEF Does
<1>2. code \in Seq(Steps) /\ Len(code) = 5
  BY <1>1
<1>3. view \in [1 .. Len(code) + 1 -> Views]
  BY <1>1, <1>2
<1>4. \A i \in 1 .. Len(code) : Does(code[i], view[i], view[i + 1])
  BY <1>2
<1>5. view[1] = p0 /\ view[Len(code) + 1] = p5
  BY <1>2
<1> HIDE DEF view
<1> QED  BY <1>1, <1>2, <1>3, <1>4, <1>5 DEF Runs

LEMMA SixRun ==
  ASSUME NEW a, NEW b, NEW c, NEW d, NEW e, NEW f,
         NEW p0, NEW p1, NEW p2, NEW p3, NEW p4, NEW p5, NEW p6,
         Does(a, p0, p1), Does(b, p1, p2), Does(c, p2, p3), Does(d, p3, p4),
         Does(e, p4, p5), Does(f, p5, p6), Len(p0.temps) <= 2
  PROVE  Runs(<<a, b, c, d, e, f>>, p0, p6)
<1> DEFINE code == <<a, b, c, d, e, f>>
           view == <<p0, p1, p2, p3, p4, p5, p6>>
<1>1. /\ a \in Steps /\ b \in Steps /\ c \in Steps /\ d \in Steps
      /\ e \in Steps /\ f \in Steps
      /\ p0 \in Views /\ p1 \in Views /\ p2 \in Views /\ p3 \in Views
      /\ p4 \in Views /\ p5 \in Views /\ p6 \in Views
  BY DEF Does
<1>2. code \in Seq(Steps) /\ Len(code) = 6
  BY <1>1
<1>3. view \in [1 .. Len(code) + 1 -> Views]
  BY <1>1, <1>2
<1>4. \A i \in 1 .. Len(code) : Does(code[i], view[i], view[i + 1])
  BY <1>2
<1>5. view[1] = p0 /\ view[Len(code) + 1] = p6
  BY <1>2
<1> HIDE DEF view
<1> QED  BY <1>1, <1>2, <1>3, <1>4, <1>5 DEF Runs

LEMMA RegisterNames ==
  {"value", "list", "name", "metaclassName", "metaclass", "class", "superclass",
   "object", "module", "fn", "closure"} = Registers
BY DEF Registers

LEMMA KindNames ==
  {"string", "list", "class", "foreignClass", "instance", "foreign", "module", "fn",
   "closure"} = Kinds
BY DEF Kinds

(* At most two temporary roots.                                            *)
LEMMA Temps ==
  /\ <<>> \in Seq(Registers) /\ Len(<<>>) = 0 /\ ToSet(<<>>) = {}
  /\ \A r \in Registers :
       /\ <<r>> \in Seq(Registers) /\ Len(<<r>>) = 1 /\ ToSet(<<r>>) = {r}
       /\ Append(<<>>, r) = <<r>> /\ Front(<<r>>) = <<>> /\ <<r>> # <<>>
  /\ \A r, s \in Registers :
       /\ <<r, s>> \in Seq(Registers) /\ Len(<<r, s>>) = 2 /\ ToSet(<<r, s>>) = {r, s}
       /\ Append(<<r>>, s) = <<r, s>> /\ Front(<<r, s>>) = <<r>> /\ <<r, s>> # <<>>
<1>1. ASSUME NEW r \in Registers
      PROVE  /\ <<r>> \in Seq(Registers) /\ Len(<<r>>) = 1 /\ ToSet(<<r>>) = {r}
             /\ Append(<<>>, r) = <<r>> /\ Front(<<r>>) = <<>> /\ <<r>> # <<>>
  BY DEF ToSet, Front
<1>2. ASSUME NEW r \in Registers, NEW s \in Registers
      PROVE  /\ <<r, s>> \in Seq(Registers) /\ Len(<<r, s>>) = 2
             /\ ToSet(<<r, s>>) = {r, s}
             /\ Append(<<r>>, s) = <<r, s>> /\ Front(<<r, s>>) = <<r>> /\ <<r, s>> # <<>>
  <2>1. <<r, s>> \in Seq(Registers) /\ Len(<<r, s>>) = 2 /\ <<r, s>> # <<>>
    OBVIOUS
  <2>2. ToSet(<<r, s>>) = {r, s}
    BY DEF ToSet
  <2>3. Append(<<r>>, s) = <<r, s>>
    <3>1. /\ Append(<<r>>, s) \in Seq(Registers) /\ Len(Append(<<r>>, s)) = 2
          /\ Append(<<r>>, s)[1] = r /\ Append(<<r>>, s)[2] = s
      OBVIOUS
    <3> DEFINE a == Append(<<r>>, s)
               b == <<r, s>>
    <3>2. b \in Seq(Registers) /\ Len(b) = 2 /\ b[1] = r /\ b[2] = s
      OBVIOUS
    <3>3. a \in Seq(Registers) /\ Len(a) = 2 /\ a[1] = r /\ a[2] = s
      BY <3>1
    <3> HIDE DEF a, b
    <3>4. \A i \in 1 .. Len(a) : a[i] = b[i]
      BY <3>2, <3>3
    <3>5. a = b
      BY <3>2, <3>3, <3>4, SeqEqual
    <3> QED BY <3>5 DEF a, b
  <2>4. Front(<<r, s>>) = <<r>>
    <3>1. /\ Front(<<r, s>>) \in Seq(Registers) /\ Len(Front(<<r, s>>)) = 1
          /\ Front(<<r, s>>)[1] = r
      BY <2>1 DEF Front
    <3> QED BY <3>1, <1>1, SeqEqual
  <2> QED BY <2>1, <2>2, <2>3, <2>4
<1>3. <<>> \in Seq(Registers) /\ Len(<<>>) = 0 /\ ToSet(<<>>) = {}
  BY DEF ToSet
<1> QED BY <1>1, <1>2, <1>3

-----------------------------------------------------------------------------
(***************************************************************************)
(* The C functions.                                                        *)
(***************************************************************************)

(* A string, and NewListCode. *)
LEMMA ObjectsRun ==
  /\ Runs(<<New("value", "string", {}), Keep("value")>>,
          View(<<>>, {}, {}, {}, {}, {"value"}), View(<<>>, {}, {}, {}, {}, {}))
  /\ Runs(NewListCode,
          View(<<>>, {}, {}, {}, {}, {"list"}), View(<<>>, {}, {}, {}, {}, {}))
<1> USE DEF Does, New, Grow, Keep, Step, View, Views, Steps, Reads, Allocates, Rooting
<1>1. Does(New("value", "string", {}),
           View(<<>>, {}, {}, {}, {}, {"value"}),
           View(<<>>, {"value"}, {"value"}, {}, {}, {"value"}))
  BY Temps, RegisterNames, KindNames
<1>2. Does(Keep("value"),
           View(<<>>, {"value"}, {"value"}, {}, {}, {"value"}),
           View(<<>>, {}, {}, {}, {}, {}))
  BY Temps, RegisterNames, KindNames
<1>3. Does(Grow({}),
           View(<<>>, {}, {}, {}, {}, {"list"}), View(<<>>, {}, {}, {}, {}, {"list"}))
  BY Temps, RegisterNames, KindNames
<1>4. Does(New("list", "list", {}),
           View(<<>>, {}, {}, {}, {}, {"list"}),
           View(<<>>, {"list"}, {"list"}, {}, {}, {"list"}))
  BY Temps, RegisterNames, KindNames
<1>5. Does(Keep("list"),
           View(<<>>, {"list"}, {"list"}, {}, {}, {"list"}),
           View(<<>>, {}, {}, {}, {}, {}))
  BY Temps, RegisterNames, KindNames
<1>6. \A u \in Registers : Len(View(<<>>, {}, {}, {}, {}, {u}).temps) <= 2
  BY Temps
<1> HIDE DEF Does, New, Grow, Keep, Step, View
<1>7. Runs(<<New("value", "string", {}), Keep("value")>>,
           View(<<>>, {}, {}, {}, {}, {"value"}), View(<<>>, {}, {}, {}, {}, {}))
  BY <1>1, <1>2, <1>6, TwoRun, RegisterNames
<1>8. Runs(NewListCode,
           View(<<>>, {}, {}, {}, {}, {"list"}), View(<<>>, {}, {}, {}, {}, {}))
  BY <1>3, <1>4, <1>5, <1>6, ThreeRun, RegisterNames DEF NewListCode
<1> QED BY <1>7, <1>8

(* ConstructCode; the object may be foreign only when its class is of      *)
(* foreign objects.                                                        *)
LEMMA ConstructRuns ==
  ASSUME NEW k \in {"instance", "foreign"},
         NEW F \in SUBSET {"object"}, NEW C \in SUBSET {"class"},
         k = "foreign" => F = {"object"} /\ C = {"class"}
  PROVE  Runs(ConstructCode(k),
              View(<<>>, {}, {}, {}, C, {"class", "object"}),
              View(<<>>, {}, {}, F, {}, {}))
<1> USE DEF Does, New, Take, Keep, Step, View, Views, Steps, Reads, Allocates, Rooting
<1>1. Does(New("object", k, {"class"}),
           View(<<>>, {}, {}, {}, C, {"class", "object"}),
           View(<<>>, {"object"}, {"object"}, F, {}, {"class", "object"}))
  BY Temps, RegisterNames, KindNames
<1>2. Does(Take("class"),
           View(<<>>, {"object"}, {"object"}, F, {}, {"class", "object"}),
           View(<<>>, {"object"}, {"object"}, F, {}, {"object"}))
  BY Temps, RegisterNames, KindNames
<1>3. Does(Keep("object"),
           View(<<>>, {"object"}, {"object"}, F, {}, {"object"}),
           View(<<>>, {}, {}, F, {}, {}))
  BY Temps, RegisterNames, KindNames
<1>4. Len(View(<<>>, {}, {}, {}, C, {"class", "object"}).temps) <= 2
  BY Temps
<1> HIDE DEF Does, New, Take, Keep, Step, View
<1> QED BY <1>1, <1>2, <1>3, <1>4, ThreeRun DEF ConstructCode

(* ListInsertCode, ListRemoveCode, MakeHandleCode.  An element that is     *)
(* taken out of a list may be foreign, and may have no other reference.    *)
LEMMA ElementsRun ==
  /\ Runs(ListInsertCode,
          View(<<>>, {}, {}, {}, {}, {"list", "value"}), View(<<>>, {}, {}, {}, {}, {}))
  /\ Runs(ListRemoveCode,
          View(<<>>, {"value"}, {"value"}, {"value"}, {}, {"list", "value"}),
          View(<<>>, {}, {}, {"value"}, {}, {}))
  /\ Runs(MakeHandleCode,
          View(<<>>, {}, {"value"}, {"value"}, {}, {"value"}),
          View(<<>>, {}, {}, {"value"}, {}, {}))
<1> USE DEF Does, Grow, Push, Pop, Link, Unlink, Keep, Hold, Step,
            View, Views, Steps, Reads, Allocates, Rooting
<1>1. ASSUME NEW L \in SUBSET {"value"}, NEW M \in SUBSET {"value"},
             NEW F \in SUBSET {"value"}, NEW U \in SUBSET {"list", "value"}, "value" \in U
      PROVE  /\ Does(Push("value"), View(<<>>, L, M, F, {}, U),
                     View(<<"value">>, L, M, F, {}, U))
             /\ Does(Grow({}), View(<<"value">>, L, M, F, {}, U),
                     View(<<"value">>, L, M, F, {}, U))
             /\ Does(Pop, View(<<"value">>, L, M, F, {}, U), View(<<>>, L, M, F, {}, U))
             /\ Len(View(<<>>, L, M, F, {}, U).temps) <= 2
  <2>0. /\ U \in SUBSET Registers /\ L \in SUBSET Registers /\ M \in SUBSET Registers
        /\ F \in SUBSET Registers
    BY RegisterNames
  <2>1. Does(Push("value"), View(<<>>, L, M, F, {}, U), View(<<"value">>, L, M, F, {}, U))
    BY <1>1, <2>0, Temps, RegisterNames, KindNames
  <2>2. Does(Grow({}), View(<<"value">>, L, M, F, {}, U), View(<<"value">>, L, M, F, {}, U))
    BY <2>0, Temps, RegisterNames, KindNames
  <2>3. Does(Pop, View(<<"value">>, L, M, F, {}, U), View(<<>>, L, M, F, {}, U))
    BY <2>0, Temps, RegisterNames, KindNames
  <2>4. Len(View(<<>>, L, M, F, {}, U).temps) <= 2
    BY Temps
  <2> QED BY <2>1, <2>2, <2>3, <2>4
<1>2. Does(Link("list", "value"),
           View(<<>>, {}, {}, {}, {}, {"list", "value"}), View(<<>>, {}, {}, {}, {}, {}))
  BY Temps, RegisterNames, KindNames
<1>3. Does(Unlink("list", "value"),
           View(<<>>, {"value"}, {"value"}, {"value"}, {}, {"list", "value"}),
           View(<<>>, {"value"}, {"value"}, {"value"}, {}, {"value"}))
  BY Temps, RegisterNames, KindNames
<1>4. Does(Keep("value"),
           View(<<>>, {"value"}, {"value"}, {"value"}, {}, {"value"}),
           View(<<>>, {}, {}, {"value"}, {}, {}))
  BY Temps, RegisterNames, KindNames
<1>5. Does(Hold("value"),
           View(<<>>, {}, {"value"}, {"value"}, {}, {"value"}),
           View(<<>>, {}, {}, {"value"}, {}, {}))
  BY Temps, RegisterNames, KindNames
<1>6. Len(View(<<>>, {"value"}, {"value"}, {"value"}, {}, {"list", "value"}).temps) <= 2
  BY Temps
<1> HIDE DEF Does, Grow, Push, Pop, Link, Unlink, Keep, Hold, Step, View
<1>7. Runs(ListInsertCode,
           View(<<>>, {}, {}, {}, {}, {"list", "value"}), View(<<>>, {}, {}, {}, {}, {}))
  BY <1>1, <1>2, FourRun DEF ListInsertCode
<1>8. Runs(ListRemoveCode,
           View(<<>>, {"value"}, {"value"}, {"value"}, {}, {"list", "value"}),
           View(<<>>, {}, {}, {"value"}, {}, {}))
  BY <1>1, <1>3, <1>4, <1>6, FiveRun DEF ListRemoveCode
<1>9. Runs(MakeHandleCode,
           View(<<>>, {}, {"value"}, {"value"}, {}, {"value"}),
           View(<<>>, {}, {}, {"value"}, {}, {}))
  BY <1>1, <1>5, FourRun DEF MakeHandleCode
<1> QED BY <1>7, <1>8, <1>9

(* CreateClassCode holds the name of the metaclass, then the metaclass,    *)
(* and at the end the class too.                                           *)
LEMMA ClassesRun ==
  ASSUME NEW k \in {"class", "foreignClass"}
  PROVE  \E q : /\ Runs(CreateClassCode(k),
                        View(<<>>, {}, {}, {}, {},
                             {"superclass", "metaclassName", "metaclass", "name", "class"}),
                        q)
                /\ q.temps = <<>>
<1> DEFINE U0 == {"superclass", "metaclassName", "metaclass", "name", "class"}
           U1 == {"superclass", "metaclass", "name", "class"}
           U2 == {"superclass", "metaclass", "class"}
           U3 == {"superclass", "class"}
           L1 == {"metaclassName"}
           L2 == {"metaclassName", "metaclass"}
           L3 == {"metaclassName", "metaclass", "class"}
           M == {"class"}
           p0 == View(<<>>, {}, {}, {}, {}, U0)
           p1 == View(<<>>, L1, {}, {}, {}, U0)
           p2 == View(<<"metaclassName">>, L1, {}, {}, {}, U0)
           p3 == View(<<"metaclassName">>, L2, {}, {}, {}, U1)
           p4 == View(<<>>, L2, {}, {}, {}, U1)
           p5 == View(<<"metaclass">>, L2, {}, {}, {}, U1)
           p6 == View(<<"metaclass">>, L3, M, {}, {}, U2)
           p7 == View(<<"metaclass", "class">>, L3, M, {}, {}, U2)
           p8 == View(<<"metaclass", "class">>, L3, M, {}, {}, U3)
           p9 == View(<<"metaclass", "class">>, L3, M, {}, {}, M)
           p10 == View(<<"metaclass">>, L3, M, {}, {}, M)
           p11 == View(<<>>, L3, M, {}, {}, M)
           p12 == View(<<>>, L2, M, {}, {}, {})
<1> USE DEF Does, New, Grow, Push, Pop, Link, Keep, Take, Step,
            View, Views, Steps, Reads, Allocates, Rooting
<1>0. /\ <<"metaclass", "class">> \in Seq(Registers) /\ Len(<<"metaclass", "class">>) = 2
      /\ ToSet(<<"metaclass", "class">>) = {"metaclass", "class"}
      /\ Append(<<"metaclass">>, "class") = <<"metaclass", "class">>
      /\ Front(<<"metaclass", "class">>) = <<"metaclass">>
      /\ <<"metaclass", "class">> # <<>>
  BY Temps, RegisterNames
<1>1. Does(Take("superclass"), p0, p0)
  BY <1>0, Temps, RegisterNames, KindNames
<1>2. Does(New("metaclassName", "string", {}), p0, p1)
  BY <1>0, Temps, RegisterNames, KindNames
<1>3. Does(Push("metaclassName"), p1, p2)
  BY <1>0, Temps, RegisterNames, KindNames
<1>4. Does(New("metaclass", "class", {"metaclassName"}), p2, p3)
  BY <1>0, Temps, RegisterNames, KindNames
<1>5. Does(Pop, p3, p4)
  BY <1>0, Temps, RegisterNames, KindNames
<1>6. Does(Push("metaclass"), p4, p5)
  BY <1>0, Temps, RegisterNames, KindNames
<1>7. Does(Grow({}), p5, p5)
  BY <1>0, Temps, RegisterNames, KindNames
<1>8. Does(New("class", k, {"name"}), p5, p6)
  BY <1>0, Temps, RegisterNames, KindNames
<1>9. Does(Push("class"), p6, p7)
  BY <1>0, Temps, RegisterNames, KindNames
<1>10. Does(Link("class", "metaclass"), p7, p8)
  BY <1>0, Temps, RegisterNames, KindNames
<1>11. Does(Link("class", "superclass"), p8, p8)
  BY <1>0, Temps, RegisterNames, KindNames
<1>12. Does(Grow({"superclass"}), p8, p9)
  BY <1>0, Temps, RegisterNames, KindNames
<1>13. Does(Pop, p9, p10)
  BY <1>0, Temps, RegisterNames, KindNames
<1>14. Does(Pop, p10, p11)
  BY <1>0, Temps, RegisterNames, KindNames
<1>15. Does(Keep("class"), p11, p12)
  BY <1>0, Temps, RegisterNames, KindNames
<1>16. Does(Grow({}), p12, p12)
  BY <1>0, Temps, RegisterNames, KindNames
<1>17. /\ Len(p0.temps) <= 2 /\ Len(p2.temps) <= 2 /\ Len(p3.temps) <= 2
      /\ Len(p5.temps) <= 2 /\ Len(p6.temps) <= 2 /\ Len(p8.temps) <= 2
      /\ Len(p9.temps) <= 2 /\ Len(p11.temps) <= 2 /\ p12.temps = <<>>
  BY <1>0, Temps, RegisterNames
<1> HIDE DEF Does, New, Grow, Push, Pop, Link, Keep, Take, Step, p0, p1, p2, p3, p4, p5, p6,
         p7, p8, p9, p10, p11, p12
<1>18. Runs(<<Take("superclass")>>, p0, p0)
  BY <1>1, <1>17, OneRun
<1>19. Runs(<<New("metaclassName", "string", {}), Push("metaclassName")>>, p0, p2)
  BY <1>2, <1>3, <1>17, TwoRun
<1>20. Runs(NewSingleClassCode("metaclass", "metaclassName", "class"), p2, p3)
  BY <1>4, <1>17, OneRun DEF NewSingleClassCode
<1>21. Runs(<<Pop, Push("metaclass"), Grow({})>>, p3, p5)
  BY <1>5, <1>6, <1>7, <1>17, ThreeRun
<1>22. Runs(NewSingleClassCode("class", "name", k), p5, p6)
  BY <1>8, <1>17, OneRun DEF NewSingleClassCode
<1>23. Runs(<<Push("class"), Link("class", "metaclass")>>, p6, p8)
  BY <1>9, <1>10, <1>17, TwoRun
<1>24. Runs(BindSuperclassCode("class", "superclass"), p8, p9)
  BY <1>11, <1>12, <1>17, TwoRun DEF BindSuperclassCode
<1>25. Runs(<<Pop, Pop>>, p9, p11)
  BY <1>13, <1>14, <1>17, TwoRun
<1>26. Runs(<<Keep("class"), Grow({})>>, p11, p12)
  BY <1>15, <1>16, <1>17, TwoRun
<1>27. Runs(NewClassCode(k), p0, p11)
  BY <1>19, <1>20, <1>21, <1>22, <1>23, <1>24, <1>25, CodesRun, ZenonT(60) DEF NewClassCode
<1>28. Runs(CreateClassCode(k), p0, p12)
  BY <1>18, <1>27, <1>26, CodesRun, Zenon DEF CreateClassCode
<1> QED BY <1>17, <1>28 DEF p0

(* NewModuleCode leaves the registers of its callers alone.                *)
LEMMA ModulesRun ==
  ASSUME NEW U \in SUBSET {"value", "fn", "closure"}
  PROVE  Runs(NewModuleCode,
              View(<<"name">>, {}, {}, {}, {}, U \cup {"module"}),
              View(<<"name">>, {}, {}, {}, {}, U))
<1> DEFINE W == U \cup {"module"}
           p0 == View(<<"name">>, {}, {}, {}, {}, W)
           p1 == View(<<"name">>, {"module"}, {"module"}, {}, {}, W)
           p2 == View(<<"name">>, {}, {}, {}, {}, U)
<1> USE DEF Does, New, Grow, Enter, Step, View, Views, Steps, Reads, Allocates, Rooting
<1>0. W \in SUBSET Registers /\ U \in SUBSET Registers /\ "module" \in W
  BY RegisterNames
<1>1. Does(New("module", "module", {}), p0, p1)
  BY <1>0, Temps, RegisterNames, KindNames
<1>2. ModulesGrow => Does(Grow({}), p1, p1)
  BY <1>0, Temps, RegisterNames, KindNames DEF Disciplined
<1>3. Does(Enter("module"), p1, p0)
  BY <1>0, Temps, RegisterNames, KindNames
<1>4. Does(Grow({"module"}), p0, p2)
  BY <1>0, Temps, RegisterNames, KindNames
<1>5. Len(p0.temps) <= 2 /\ Len(p1.temps) <= 2 /\ p1 \in Views
  BY <1>0, Temps, RegisterNames
<1> HIDE DEF Does, New, Grow, Enter, Step, p0, p1, p2
<1>6. Runs(<<New("module", "module", {})>>, p0, p1)
  BY <1>1, <1>5, OneRun
<1>7. Runs(IF ModulesGrow THEN <<Grow({})>> ELSE <<>>, p1, p1)
  <2>1. CASE ModulesGrow
    BY <1>2, <1>5, <2>1, OneRun
  <2>2. CASE ~ModulesGrow
    BY <1>5, <2>2, NothingRuns
  <2> QED BY <2>1, <2>2
<1>8. Runs(<<Enter("module"), Grow({"module"})>>, p1, p2)
  BY <1>3, <1>4, <1>5, TwoRun
<1>9. Runs(NewModuleCode, p0, p2)
  BY <1>6, <1>7, <1>8, CodesRun, Zenon DEF NewModuleCode
<1> QED BY <1>9 DEF p0, p2

(* ImportCode and ImportFailsCode hold the name of the module, and         *)
(* ImportCode the compiled code while its closure is allocated.            *)
LEMMA ImportsRun ==
  /\ \E q : /\ Runs(ImportCode, View(<<>>, {}, {}, {}, {}, {"name", "module", "fn", "closure"}), q)
             /\ q.temps = <<>>
  /\ \A found \in BOOLEAN :
       \E q : /\ Runs(ImportFailsCode(found),
                      View(<<>>, {}, {}, {}, {}, {"name", "module", "value"}), q)
              /\ q.temps = <<>>
<1> DEFINE U == {"fn", "closure"}
           W == {"value"}
           p0 == View(<<>>, {}, {}, {}, {}, {"name", "module", "fn", "closure"})
           p1 == View(<<"name">>, {}, {}, {}, {}, U \cup {"module"})
           p2 == View(<<"name">>, {}, {}, {}, {}, U)
           p3 == View(<<"name">>, {"fn"}, {}, {}, {}, U)
           p4 == View(<<"name", "fn">>, {"fn"}, {}, {}, {}, U)
           p5 == View(<<"name", "fn">>, {"fn", "closure"}, {"closure"}, {}, {}, {"closure"})
           p6 == View(<<"name">>, {"fn", "closure"}, {"closure"}, {}, {}, {"closure"})
           p7 == View(<<>>, {"fn", "closure"}, {"closure"}, {}, {}, {"closure"})
           p8 == View(<<>>, {"fn"}, {"closure"}, {}, {}, {})
           q0 == View(<<>>, {}, {}, {}, {}, {"name", "module", "value"})
           q1 == View(<<"name">>, {}, {}, {}, {}, W \cup {"module"})
           q2 == View(<<"name">>, {}, {}, {}, {}, W)
           q3 == View(<<"name">>, {"value"}, {"value"}, {}, {}, W)
           q4 == View(<<>>, {"value"}, {"value"}, {}, {}, W)
           q5 == View(<<>>, {}, {}, {}, {}, {})
<1> USE DEF Does, New, Grow, Push, Pop, Keep, Step, View, Views, Steps, Reads, Allocates,
            Rooting
<1>0. /\ <<"name", "fn">> \in Seq(Registers) /\ Len(<<"name", "fn">>) = 2
      /\ ToSet(<<"name", "fn">>) = {"name", "fn"}
      /\ Append(<<"name">>, "fn") = <<"name", "fn">>
      /\ Front(<<"name", "fn">>) = <<"name">> /\ <<"name", "fn">> # <<>>
  BY Temps, RegisterNames
<1>1. Does(Push("name"), p0, p1)
  BY <1>0, Temps, RegisterNames, KindNames
<1>2. Does(New("fn", "fn", {}), p2, p3)
  BY <1>0, Temps, RegisterNames, KindNames
<1>3. Does(Push("fn"), p3, p4)
  BY <1>0, Temps, RegisterNames, KindNames
<1>4. Does(New("closure", "closure", {"fn"}), p4, p5)
  BY <1>0, Temps, RegisterNames, KindNames
<1>5. Does(Pop, p5, p6)
  BY <1>0, Temps, RegisterNames, KindNames
<1>6. Does(Pop, p6, p7)
  BY <1>0, Temps, RegisterNames, KindNames
<1>7. Does(Keep("closure"), p7, p8)
  BY <1>0, Temps, RegisterNames, KindNames
<1>8. Does(Push("name"), q0, q1)
  BY <1>0, Temps, RegisterNames, KindNames
<1>9. Does(Push("name"), q0, q2)
  BY <1>0, Temps, RegisterNames, KindNames
<1>10. Does(New("value", "string", {}), q2, q3)
  BY <1>0, Temps, RegisterNames, KindNames
<1>11. Does(Pop, q3, q4)
  BY <1>0, Temps, RegisterNames, KindNames
<1>12. Does(Keep("value"), q4, q5)
  BY <1>0, Temps, RegisterNames, KindNames
<1>13. /\ Len(p0.temps) <= 2 /\ Len(p2.temps) <= 2 /\ Len(q0.temps) <= 2
       /\ Len(q2.temps) <= 2 /\ p8.temps = <<>> /\ q5.temps = <<>> /\ q2 \in Views
  BY <1>0, Temps, RegisterNames
<1>14. U \in SUBSET {"value", "fn", "closure"} /\ W \in SUBSET {"value", "fn", "closure"}
  OBVIOUS
<1>15. Runs(NewModuleCode, p1, p2) /\ Runs(NewModuleCode, q1, q2)
  BY <1>14, ModulesRun
<1> HIDE DEF Does, New, Grow, Push, Pop, Keep, Step, p0, p1, p2, p3, p4, p5, p6, p7, p8,
         q0, q1, q2, q3, q4, q5
<1>16. Runs(ImportCode, p0, p8)
  <2>1. Runs(<<Push("name")>>, p0, p1)
    BY <1>1, <1>13, OneRun
  <2>2. Runs(<<New("fn", "fn", {}), Push("fn"), New("closure", "closure", {"fn"}), Pop,
               Pop, Keep("closure")>>, p2, p8)
    BY <1>2, <1>3, <1>4, <1>5, <1>6, <1>7, <1>13, SixRun
  <2> QED BY <2>1, <2>2, <1>15, CodesRun, Zenon DEF ImportCode
<1>17. ASSUME NEW found \in BOOLEAN PROVE Runs(ImportFailsCode(found), q0, q5)
  <2>1. Runs(<<New("value", "string", {}), Pop, Keep("value")>>, q2, q5)
    BY <1>10, <1>11, <1>12, <1>13, ThreeRun
  <2>2. Runs(<<Push("name")>>, q0, q1) /\ Runs(<<Push("name")>>, q0, q2)
    BY <1>8, <1>9, <1>13, OneRun
  <2>3. CASE found
    <3>1. (IF found THEN NewModuleCode ELSE <<>>) = NewModuleCode
      BY <2>3
    <3> QED BY <2>1, <2>2, <3>1, <1>15, CodesRun, Zenon DEF ImportFailsCode
  <2>4. CASE ~found
    <3>1. Runs(IF found THEN NewModuleCode ELSE <<>>, q2, q2)
      BY <2>4, <1>13, NothingRuns
    <3> QED BY <2>1, <2>2, <3>1, CodesRun, Zenon DEF ImportFailsCode
  <2> QED BY <2>3, <2>4
<1> QED BY <1>13, <1>16, <1>17 DEF p0, q0

-----------------------------------------------------------------------------
(***************************************************************************)
(* The invariant.                                                          *)
(***************************************************************************)

(* TypeOK, but for the room that vm->tempRoots has. *)
HeapTypes ==
  /\ heap \in Seq(Objects) /\ IsInjective(heap)
  /\ kind \in [Objects -> Kinds]
  /\ links \in [Objects -> SUBSET Objects]
  /\ stack \subseteq Objects /\ modules \subseteq Objects
  /\ handles \subseteq Objects /\ sweeping \subseteq Objects
  /\ register \in [Registers -> Objects \cup {None}]
  /\ tempRoots \in Seq(Objects \cup {None})

(* What the view p says of the object in the register r. *)
Describes(p, r, o) ==
  /\ r \in p.loose \/ o \in stack \cup modules \cup handles
  /\ kind[o] = "foreign" => r \in p.foreign
  /\ r \in p.classes => o \in stack /\ kind[o] = "foreignClass"

Fits(p) ==
  /\ Len(tempRoots) = Len(p.temps)
  /\ \A i \in 1 .. Len(p.temps) : register[p.temps[i]] \in {tempRoots[i], None}
  /\ \A r \in RegistersInUse(task) :
       /\ r \in p.made => register[r] # None
       /\ Disciplined /\ register[r] # None => Describes(p, r, register[r])

(* What the running function has still to do, it can do.                   *)
CodeInv == \E p, q : Runs(task, p, q) /\ q.temps = <<>> /\ Fits(p)

(* What the collector may not free.                                        *)
Kept == Marked(Roots \cup InUse)

(* A foreign object does not keep its class, which its variable does.      *)
ClassesStay ==
  \A o \in Objects : kind[o] = "foreign" =>
    \A c \in links[o] : c \in stack /\ kind[c] = "foreignClass"

(* Objects are listed newest first, and a class is older than its objects. *)
ClassesLast ==
  \A i \in DOMAIN heap : kind[heap[i]] = "foreign" =>
    \A c \in links[heap[i]] : \E j \in DOMAIN heap : i < j /\ heap[j] = c

Safe ==
  /\ NothingInUseIsFreed
  /\ sweeping \cap Kept = {}
  /\ phase = "running" => ClassesStay
  /\ ClassesLast
  /\ phase = "freed" =>
       /\ sweeping = Allocated /\ task = <<>> /\ tempRoots = <<>>
       /\ stack = {} /\ modules = {} /\ handles = {}

HeapInv == HeapTypes /\ phase \in {"running", "freed"} /\ CodeInv /\ (Disciplined => Safe)

-----------------------------------------------------------------------------
(***************************************************************************)
(* What is kept, and the list of objects.                                  *)
(***************************************************************************)

LEMMA ObjectsInUse ==
  ASSUME HeapTypes, task \in Seq(Steps)
  PROVE  RegistersInUse(task) \subseteq Registers /\ InUse \subseteq Objects
<1>1. ASSUME NEW step \in Steps PROVE Reads(step) \subseteq Registers
  BY DEF Reads, Steps, Allocates
<1>2. RegistersInUse(task) \subseteq Registers
  BY <1>1 DEF RegistersInUse
<1> QED BY <1>2 DEF HeapTypes, InUse, InRegisters

(* Marking follows the links of what is not foreign.                       *)
LEMMA KeptClosed ==
  ASSUME HeapTypes, task \in Seq(Steps)
  PROVE  /\ Kept \subseteq Objects /\ Roots \cup InUse \subseteq Kept
         /\ \A o \in Kept : Blackened(o) \subseteq Kept
<1>1. Roots \subseteq Objects
  BY DEF HeapTypes, Roots, ToSet
<1>2. \A o \in Objects : Blackened(o) \subseteq Objects
  BY DEF HeapTypes, Blackened
<1> QED BY <1>1, <1>2, ObjectsInUse DEF Kept, Marked

(* It reaches no more than any set that is closed in this way.             *)
LEMMA KeptLeast ==
  ASSUME NEW T \in SUBSET Objects, (Roots \cup InUse)' \subseteq T,
         \A o \in T : Blackened(o)' \subseteq T
  PROVE  Kept' \subseteq T
BY DEF Kept, Marked

LEMMA StepsInUse ==
  ASSUME NEW code \in Seq(Steps), code # <<>>
  PROVE  RegistersInUse(code) = Reads(Head(code)) \cup RegistersInUse(Tail(code))
<1>1. /\ Len(code) \in Nat \ {0} /\ Head(code) = code[1] /\ DOMAIN code = 1 .. Len(code)
      /\ DOMAIN Tail(code) = 1 .. Len(code) - 1
      /\ \A i \in 1 .. Len(code) - 1 : Tail(code)[i] = code[i + 1]
  OBVIOUS
<1>2. ASSUME NEW r, r \in RegistersInUse(code)
      PROVE  r \in Reads(Head(code)) \cup RegistersInUse(Tail(code))
  <2>1. PICK i \in 1 .. Len(code) : r \in Reads(code[i])
    BY <1>1, <1>2 DEF RegistersInUse
  <2>2. CASE i = 1
    BY <1>1, <2>1, <2>2
  <2>3. CASE i # 1
    <3>1. i - 1 \in 1 .. Len(code) - 1 /\ Tail(code)[i - 1] = code[(i - 1) + 1]
          /\ (i - 1) + 1 = i
      BY <1>1, <2>3
    <3>2. r \in Reads(Tail(code)[i - 1])
      BY <2>1, <3>1
    <3> QED BY <1>1, <3>1, <3>2 DEF RegistersInUse
  <2> QED BY <2>2, <2>3
<1>3. ASSUME NEW r, r \in Reads(Head(code)) \cup RegistersInUse(Tail(code))
      PROVE  r \in RegistersInUse(code)
  <2>1. CASE r \in Reads(Head(code))
    BY <1>1, <2>1 DEF RegistersInUse
  <2>2. CASE r \in RegistersInUse(Tail(code))
    <3>1. PICK i \in 1 .. Len(code) - 1 : r \in Reads(Tail(code)[i])
      BY <1>1, <2>2 DEF RegistersInUse
    <3>2. r \in Reads(code[i + 1]) /\ i + 1 \in 1 .. Len(code)
      BY <1>1, <3>1
    <3> QED BY <1>1, <3>2 DEF RegistersInUse
  <2> QED BY <1>3, <2>1, <2>2
<1> QED BY <1>2, <1>3

(* A new object at the front of the list.                                  *)
LEMMA ListGrows ==
  ASSUME HeapTypes, NEW o \in Objects \ Allocated
  PROVE  /\ Listed(o) \in Seq(Objects) /\ IsInjective(Listed(o))
         /\ ToSet(Listed(o)) = Allocated \cup {o}
         /\ DOMAIN heap = 1 .. Len(heap) /\ Len(heap) \in Nat
         /\ DOMAIN Listed(o) = 1 .. Len(heap) + 1
         /\ Listed(o)[1] = o /\ \A i \in 1 .. Len(heap) : Listed(o)[i + 1] = heap[i]
<1> DEFINE new == Listed(o)
<1>1. /\ heap \in Seq(Objects) /\ DOMAIN heap = 1 .. Len(heap) /\ Len(heap) \in Nat
  BY DEF HeapTypes
<1>2. /\ new \in Seq(Objects) /\ Len(new) = Len(heap) + 1 /\ DOMAIN new = 1 .. Len(heap) + 1
      /\ new[1] = o /\ \A i \in 1 .. Len(heap) : new[i + 1] = heap[i]
  BY <1>1 DEF Listed
<1> HIDE DEF new
<1>3. \A i \in 1 .. Len(heap) + 1 : i = 1 \/ (i - 1 \in 1 .. Len(heap) /\ new[i] = heap[i - 1])
  BY <1>1, <1>2
<1>4. ToSet(new) = Allocated \cup {o}
  <2>1. ASSUME NEW x \in ToSet(new) PROVE x \in Allocated \cup {o}
    <3>1. PICK i \in 1 .. Len(heap) + 1 : x = new[i]
      BY <1>2 DEF ToSet
    <3>2. x = o \/ (x = heap[i - 1] /\ i - 1 \in 1 .. Len(heap))
      BY <1>2, <1>3, <3>1
    <3> QED BY <1>1, <3>2 DEF ToSet, Allocated
  <2>2. ASSUME NEW x \in Allocated PROVE x \in ToSet(new)
    <3>1. PICK i \in 1 .. Len(heap) : x = heap[i]
      BY <1>1 DEF ToSet, Allocated
    <3>2. i + 1 \in 1 .. Len(heap) + 1 /\ new[i + 1] = x
      BY <1>1, <1>2, <3>1
    <3> QED BY <1>2, <3>2 DEF ToSet
  <2>3. o \in ToSet(new)
    BY <1>1, <1>2 DEF ToSet
  <2> QED BY <2>1, <2>2, <2>3
<1>5. IsInjective(new)
  <2> SUFFICES ASSUME NEW a \in 1 .. Len(heap) + 1, NEW b \in 1 .. Len(heap) + 1,
                      new[a] = new[b]
               PROVE  a = b
    BY <1>2 DEF IsInjective
  <2>1. \A i \in 1 .. Len(heap) : heap[i] # o
    BY <1>1 DEF ToSet, Allocated
  <2>2. \A i, j \in 1 .. Len(heap) : heap[i] = heap[j] => i = j
    BY <1>1 DEF HeapTypes, IsInjective
  <2>3. a = 1 \/ (a - 1 \in 1 .. Len(heap) /\ new[a] = heap[a - 1])
    BY <1>3
  <2>4. b = 1 \/ (b - 1 \in 1 .. Len(heap) /\ new[b] = heap[b - 1])
    BY <1>3
  <2>5. CASE a = 1 \/ b = 1
    BY <1>2, <2>1, <2>3, <2>4, <2>5
  <2>6. CASE a # 1 /\ b # 1
    <3>1. a - 1 = b - 1
      BY <2>2, <2>3, <2>4, <2>6
    <3> QED BY <1>1, <3>1
  <2> QED BY <2>5, <2>6
<1> QED BY <1>1, <1>2, <1>4, <1>5 DEF new

(* An object taken out of the list.                                        *)
LEMMA ListShrinks ==
  ASSUME HeapTypes, NEW i \in DOMAIN heap
  PROVE  /\ RemoveAt(heap, i) \in Seq(Objects) /\ IsInjective(RemoveAt(heap, i))
         /\ ToSet(RemoveAt(heap, i)) = Allocated \ {heap[i]}
         /\ DOMAIN heap = 1 .. Len(heap) /\ Len(heap) \in Nat
         /\ DOMAIN RemoveAt(heap, i) = 1 .. Len(heap) - 1
         /\ \A j \in 1 .. Len(heap) - 1 :
              RemoveAt(heap, i)[j] = IF j < i THEN heap[j] ELSE heap[j + 1]
<1> DEFINE rest == RemoveAt(heap, i)
<1>1. /\ heap \in Seq(Objects) /\ DOMAIN heap = 1 .. Len(heap) /\ Len(heap) \in Nat
      /\ i \in 1 .. Len(heap)
      /\ \A j, k \in 1 .. Len(heap) : heap[j] = heap[k] => j = k
  BY DEF HeapTypes, IsInjective
<1>2. /\ rest \in Seq(Objects) /\ Len(rest) = Len(heap) - 1
      /\ \A j \in 1 .. Len(heap) - 1 : rest[j] = IF j < i THEN heap[j] ELSE heap[j + 1]
  <2>1. /\ SubSeq(heap, 1, i - 1) \in Seq(Objects) /\ Len(SubSeq(heap, 1, i - 1)) = i - 1
        /\ \A j \in 1 .. i - 1 : SubSeq(heap, 1, i - 1)[j] = heap[j]
    BY <1>1
  <2>2. /\ SubSeq(heap, i + 1, Len(heap)) \in Seq(Objects)
        /\ Len(SubSeq(heap, i + 1, Len(heap))) = Len(heap) - i
        /\ \A j \in 1 .. Len(heap) - i : SubSeq(heap, i + 1, Len(heap))[j] = heap[i + j]
    BY <1>1
  <2> DEFINE front == SubSeq(heap, 1, i - 1)
             back == SubSeq(heap, i + 1, Len(heap))
  <2>3. rest = front \o back
    BY DEF RemoveAt
  <2> HIDE DEF front, back, rest
  <2>4. /\ rest \in Seq(Objects) /\ Len(rest) = Len(heap) - 1
        /\ \A j \in 1 .. i - 1 : rest[j] = front[j]
        /\ \A j \in i .. Len(heap) - 1 : rest[j] = back[j - (i - 1)]
    <3>1. front \in Seq(Objects) /\ Len(front) = i - 1
      BY <2>1 DEF front
    <3>2. back \in Seq(Objects) /\ Len(back) = Len(heap) - i
      BY <2>2 DEF back
    <3>3. /\ rest \in Seq(Objects) /\ Len(rest) = Len(front) + Len(back)
          /\ \A j \in 1 .. Len(front) + Len(back) :
               rest[j] = IF j <= Len(front) THEN front[j] ELSE back[j - Len(front)]
      BY <2>3, <3>1, <3>2, ConcatProperties
    <3>4. i - 1 \in Nat /\ Len(heap) - i \in Nat
      BY <1>1
    <3>5. Len(front) + Len(back) = Len(heap) - 1
      BY <1>1, <3>1, <3>2, <3>4
    <3>6. ASSUME NEW j \in 1 .. i - 1 PROVE rest[j] = front[j]
      <4>1. j \in 1 .. Len(front) + Len(back) /\ j <= Len(front)
        BY <1>1, <3>1, <3>5
      <4> QED BY <3>3, <4>1
    <3>7. ASSUME NEW j \in i .. Len(heap) - 1 PROVE rest[j] = back[j - (i - 1)]
      <4>1. j \in 1 .. Len(front) + Len(back) /\ ~(j <= Len(front))
        BY <1>1, <3>1, <3>5
      <4> QED BY <3>1, <3>3, <4>1
    <3> QED BY <3>3, <3>5, <3>6, <3>7
  <2>5. \A j \in 1 .. i - 1 : rest[j] = heap[j]
    BY <2>1, <2>4 DEF front
  <2>6. ASSUME NEW j \in i .. Len(heap) - 1 PROVE rest[j] = heap[j + 1]
    <3>1. j - (i - 1) \in 1 .. Len(heap) - i /\ i + (j - (i - 1)) = j + 1
      BY <1>1
    <3> QED BY <2>2, <2>4, <3>1 DEF back
  <2> QED BY <1>1, <2>4, <2>5, <2>6
<1> HIDE DEF rest
<1>3. DOMAIN rest = 1 .. Len(heap) - 1
  BY <1>1, <1>2
<1>4. ToSet(rest) = Allocated \ {heap[i]}
  <2>1. ASSUME NEW x \in ToSet(rest) PROVE x \in Allocated \ {heap[i]}
    <3>1. PICK j \in 1 .. Len(heap) - 1 : x = rest[j]
      BY <1>3 DEF ToSet
    <3>2. \E k \in 1 .. Len(heap) : x = heap[k] /\ k # i
      BY <1>1, <1>2, <3>1
    <3> QED BY <1>1, <3>2 DEF ToSet, Allocated
  <2>2. ASSUME NEW x \in Allocated \ {heap[i]} PROVE x \in ToSet(rest)
    <3>1. PICK k \in 1 .. Len(heap) : x = heap[k] /\ k # i
      BY <1>1 DEF ToSet, Allocated
    <3>2. CASE k < i
      BY <1>1, <1>2, <1>3, <3>1, <3>2 DEF ToSet
    <3>3. CASE k > i
      <4>1. k - 1 \in 1 .. Len(heap) - 1 /\ rest[k - 1] = heap[(k - 1) + 1] /\ (k - 1) + 1 = k
        BY <1>1, <1>2, <3>3
      <4> QED BY <1>3, <3>1, <4>1 DEF ToSet
    <3> QED BY <1>1, <3>1, <3>2, <3>3
  <2> QED BY <2>1, <2>2
<1>5. IsInjective(rest)
  <2> SUFFICES ASSUME NEW a \in 1 .. Len(heap) - 1, NEW b \in 1 .. Len(heap) - 1,
                      rest[a] = rest[b]
               PROVE  a = b
    BY <1>3 DEF IsInjective
  <2> QED BY <1>1, <1>2
<1> QED BY <1>1, <1>2, <1>3, <1>4, <1>5 DEF rest

-----------------------------------------------------------------------------
(***************************************************************************)
(* A step of the running function.                                         *)
(***************************************************************************)

(* What it does next, and what is known before and after.                  *)
Stands(p, k, q) ==
  /\ task \in Seq(Steps) /\ task # <<>>
  /\ Does(Head(task), p, k) /\ Runs(Tail(task), k, q) /\ q.temps = <<>>
  /\ Fits(p)

LEMMA CodeStands ==
  ASSUME CodeInv, task # <<>> PROVE \E p, k, q : Stands(p, k, q)
<1>1. PICK p, q : Runs(task, p, q) /\ q.temps = <<>> /\ Fits(p)
  BY DEF CodeInv
<1>2. PICK k : Does(Head(task), p, k) /\ Runs(Tail(task), k, q)
  BY <1>1, RestRuns
<1> QED BY <1>1, <1>2 DEF Stands, Runs

(* Which registers the step and the ones after it use.                     *)
LEMMA StandsUses ==
  ASSUME NEW p, NEW k, NEW q, Stands(p, k, q)
  PROVE  /\ Head(task) \in Steps /\ Tail(task) \in Seq(Steps)
         /\ RegistersInUse(task) = Reads(Head(task)) \cup RegistersInUse(Tail(task))
         /\ RegistersInUse(task) \subseteq Registers
         /\ RegistersInUse(Tail(task)) \subseteq k.used
         /\ p \in Views /\ k \in Views
<1>1. \A r \in RegistersInUse(task) : r \in Registers
  <2>1. ASSUME NEW step \in Steps PROVE Reads(step) \subseteq Registers
    BY DEF Reads, Steps, Allocates
  <2> QED BY <2>1 DEF RegistersInUse, Stands
<1> QED BY <1>1, StepsInUse, RunsUse DEF Stands, Does

(* Before an allocation, what is in use has a root.                        *)
LEMMA AllocationsAreRooted ==
  ASSUME HeapTypes, Disciplined, NEW p, NEW k, NEW q, Stands(p, k, q),
         Allocates(Head(task))
  PROVE  InUse \subseteq Roots
<1> DEFINE step == Head(task)
<1>1. \A r \in RegistersInUse(task) : r \in step.from \cup k.used
  BY StandsUses DEF Reads
<1>2. \A r \in RegistersInUse(task) : r \in p.loose => r \in ToSet(p.temps)
  BY <1>1 DEF Stands, Does
<1>3. p.temps \in Seq(Registers)
  BY StandsUses DEF Views
<1>4. ASSUME NEW r \in RegistersInUse(task), register[r] # None PROVE register[r] \in Roots
  <2>1. CASE r \in p.loose
    <3>1. PICK i \in 1 .. Len(p.temps) : r = p.temps[i]
      BY <1>2, <1>3, <2>1 DEF ToSet
    <3>2. register[r] = tempRoots[i] /\ i \in 1 .. Len(tempRoots)
      BY <1>4, <3>1 DEF Stands, Fits
    <3> QED BY <1>4, <3>2 DEF Roots, ToSet, HeapTypes
  <2>2. CASE r \notin p.loose
    BY <1>4, <2>2 DEF Stands, Fits, Describes, Roots
  <2> QED BY <2>1, <2>2
<1> QED BY <1>4 DEF InUse, InRegisters

(* An allocation of an object.                                             *)
Makes(o, step) ==
  /\ o \in Objects \ Allocated
  /\ heap' = Listed(o)
  /\ kind' = [kind EXCEPT ![o] = step.kind]
  /\ links' = [links EXCEPT ![o] = InRegisters(step.from)]
  /\ UNCHANGED <<stack, modules, handles, tempRoots>>

(* The other steps.                                                        *)
Uses(o, step) ==
  /\ UNCHANGED <<heap, kind>>
  /\ links' = CASE step.do = "link" -> [links EXCEPT ![o] = links[o] \cup InRegisters({step.s})]
                [] step.do = "unlink" -> [links EXCEPT ![o] = links[o] \ InRegisters({step.s})]
                [] OTHER -> links
  /\ stack' = CASE step.do = "keep" -> stack \cup {o}
                [] step.do = "take" /\ ~KeepsClasses -> stack \ {o}
                [] OTHER -> stack
  /\ modules' = IF step.do = "enter" THEN modules \cup {o} ELSE modules
  /\ handles' = IF step.do = "hold" THEN handles \cup {o} ELSE handles
  /\ tempRoots' = CASE step.do = "push" -> Append(tempRoots, o)
                    [] step.do = "pop" -> Front(tempRoots)
                    [] OTHER -> tempRoots

LEMMA ExecuteCases ==
  ASSUME HeapTypes, Execute, NEW p, NEW k, NEW q, Stands(p, k, q)
  PROVE  /\ task' = Tail(task) /\ sweeping = {} /\ sweeping' = {} /\ phase' = phase
         /\ \/ /\ Head(task).do # "new" /\ Uses(register[Head(task).r], Head(task))
               /\ register' = Needed(register)
            \/ /\ Head(task).do = "new"
               /\ \E o : /\ Makes(o, Head(task))
                         /\ register' = Needed([register EXCEPT ![Head(task).r] = o])
<1> DEFINE step == Head(task)
           o == register[step.r]
<1>1. task' = Tail(task) /\ sweeping = {} /\ sweeping' = {} /\ phase' = phase
  BY DEF Execute
<1>2. CASE step.do = "new"
  <2>1. UNCHANGED <<stack, modules, handles, tempRoots>>
    BY <1>2 DEF Execute
  <2>2. DoNew(step)
    BY <1>2 DEF Execute
  <2> QED BY <1>1, <1>2, <2>1, <2>2 DEF DoNew, Makes
<1>3. CASE step.do # "new"
  <2>1. UNCHANGED <<heap, kind>> /\ register' = Needed(register)
    BY <1>3 DEF Execute
  <2>2. links' = CASE step.do = "link" -> [links EXCEPT ![o] = links[o] \cup InRegisters({step.s})]
                   [] step.do = "unlink" -> [links EXCEPT ![o] = links[o] \ InRegisters({step.s})]
                   [] OTHER -> links
    BY <1>3 DEF Execute, SetLinks
  <2>3. /\ stack' = CASE step.do = "keep" -> stack \cup {o}
                      [] step.do = "take" /\ ~KeepsClasses -> stack \ {o}
                      [] OTHER -> stack
        /\ modules' = IF step.do = "enter" THEN modules \cup {o} ELSE modules
        /\ handles' = IF step.do = "hold" THEN handles \cup {o} ELSE handles
        /\ tempRoots' = CASE step.do = "push" -> Append(tempRoots, o)
                          [] step.do = "pop" -> Front(tempRoots)
                          [] OTHER -> tempRoots
    BY DEF Execute
  <2>4. Uses(o, step)
    BY <2>1, <2>2, <2>3 DEF Uses
  <2> QED BY <1>1, <1>3, <2>1, <2>4
<1> QED BY <1>2, <1>3

(* The register of a step that roots an object holds one.                  *)
LEMMA RootedIsObject ==
  ASSUME HeapTypes, NEW p, NEW k, NEW q, Stands(p, k, q),
         Rooting(Head(task))
  PROVE  register[Head(task).r] \in Objects
<1> DEFINE step == Head(task)
<1>1. step.r \in p.made /\ step.r \in Reads(step) /\ step.r \in Registers
  BY StandsUses DEF Stands, Does, Rooting, Reads, Allocates, Steps
<1>2. register[step.r] # None
  BY <1>1, StandsUses DEF Stands, Fits
<1> QED BY <1>1, <1>2 DEF HeapTypes

LEMMA ExecuteTypes ==
  ASSUME HeapTypes, Execute, NEW p, NEW k, NEW q, Stands(p, k, q)
  PROVE  HeapTypes'
<1> DEFINE step == Head(task)
           o == register[step.r]
<1>1. /\ step \in Steps /\ step.r \in Registers /\ step.kind \in Kinds
      /\ step.from \subseteq Registers /\ step.s \in Registers
  BY StandsUses DEF Steps
<1>2. ASSUME NEW rs \in [Registers -> Objects \cup {None}]
      PROVE  Needed(rs) \in [Registers -> Objects \cup {None}]
  BY <1>2 DEF Needed
<1>3. ASSUME NEW x, Makes(x, step), register' = Needed([register EXCEPT ![step.r] = x])
      PROVE  HeapTypes'
  <2>1. heap' \in Seq(Objects) /\ IsInjective(heap')
    BY <1>3, ListGrows DEF Makes
  <2>2. kind' \in [Objects -> Kinds]
    BY <1>1, <1>3 DEF Makes, HeapTypes
  <2>3. InRegisters(step.from) \subseteq Objects
    BY <1>1 DEF InRegisters, HeapTypes
  <2>4. links' \in [Objects -> SUBSET Objects]
    BY <1>3, <2>3 DEF Makes, HeapTypes
  <2>5. register' \in [Registers -> Objects \cup {None}]
    BY <1>1, <1>2, <1>3 DEF Makes, HeapTypes
  <2>6. sweeping' \subseteq Objects
    BY ExecuteCases
  <2> QED BY <1>3, <2>1, <2>2, <2>4, <2>5, <2>6 DEF Makes, HeapTypes
<1>4. ASSUME Uses(o, step), register' = Needed(register)
      PROVE  HeapTypes'
  <2>1. heap' \in Seq(Objects) /\ IsInjective(heap') /\ kind' \in [Objects -> Kinds]
    BY <1>4 DEF Uses, HeapTypes
  <2>2. InRegisters({step.s}) \subseteq Objects
    BY <1>1 DEF InRegisters, HeapTypes
  <2>3. links' \in [Objects -> SUBSET Objects]
    <3>1. CASE step.do = "link"
      BY <1>4, <2>2, <3>1 DEF Uses, HeapTypes
    <3>2. CASE step.do = "unlink"
      BY <1>4, <2>2, <3>2 DEF Uses, HeapTypes
    <3>3. CASE step.do \notin {"link", "unlink"}
      BY <1>4, <3>3 DEF Uses, HeapTypes
    <3> QED BY <3>1, <3>2, <3>3
  <2>4. stack' \subseteq Objects /\ modules' \subseteq Objects /\ handles' \subseteq Objects
    <3>1. step.do \in {"keep", "enter", "hold"} => o \in Objects
      BY RootedIsObject DEF Rooting
    <3>2. stack' \subseteq Objects
      BY <1>4, <3>1 DEF Uses, HeapTypes
    <3> QED BY <1>4, <3>1, <3>2 DEF Uses, HeapTypes
  <2>5. register' \in [Registers -> Objects \cup {None}]
    BY <1>2, <1>4 DEF HeapTypes
  <2>6. tempRoots' \in Seq(Objects \cup {None})
    <3>1. CASE step.do = "push"
      BY <1>1, <1>4, <3>1 DEF Uses, HeapTypes
    <3>2. CASE step.do = "pop"
      <4>1. tempRoots' = Front(tempRoots)
        BY <1>4, <3>2 DEF Uses
      <4>2. Len(tempRoots) = Len(p.temps) /\ p.temps \in Seq(Registers) /\ p.temps # <<>>
        BY <3>2, StandsUses DEF Stands, Fits, Does, Views
      <4>3. tempRoots \in Seq(Objects \cup {None}) /\ Len(tempRoots) \in Nat \ {0}
        BY <4>2 DEF HeapTypes
      <4> QED BY <4>1, <4>3 DEF Front
    <3>3. CASE step.do \notin {"push", "pop"}
      BY <1>4, <3>3 DEF Uses, HeapTypes
    <3> QED BY <3>1, <3>2, <3>3
  <2>7. sweeping' \subseteq Objects
    BY ExecuteCases
  <2> QED BY <2>1, <2>3, <2>4, <2>5, <2>6, <2>7 DEF HeapTypes
<1> QED BY <1>3, <1>4, ExecuteCases

LEMMA ExecuteTemps ==
  ASSUME HeapTypes, Execute, NEW p, NEW k, NEW q, Stands(p, k, q)
  PROVE  /\ Len(tempRoots') = Len(k.temps)
         /\ \A i \in 1 .. Len(k.temps) : register'[k.temps[i]] \in {tempRoots'[i], None}
<1> DEFINE step == Head(task)
           o == register[step.r]
<1>1. /\ step \in Steps /\ step.r \in Registers /\ Does(step, p, k)
      /\ p.temps \in Seq(Registers) /\ k.temps \in Seq(Registers)
      /\ tempRoots \in Seq(Objects \cup {None})
  <2>1. step \in Steps /\ p \in Views /\ k \in Views
    BY StandsUses
  <2>2. Does(step, p, k)
    BY DEF Stands
  <2>3. step.r \in Registers
    BY <2>1 DEF Steps
  <2>4. p.temps \in Seq(Registers) /\ k.temps \in Seq(Registers)
    BY <2>1 DEF Views
  <2> QED BY <2>2, <2>1, <2>3, <2>4 DEF HeapTypes
<1>2. /\ Len(tempRoots) = Len(p.temps)
      /\ \A i \in 1 .. Len(p.temps) : register[p.temps[i]] \in {tempRoots[i], None}
  BY DEF Stands, Fits
<1>3. CASE step.do = "new"
  <2>1. PICK x : Makes(x, step) /\ register' = Needed([register EXCEPT ![step.r] = x])
    BY <1>3, ExecuteCases
  <2>2. k.temps = p.temps /\ step.r \notin ToSet(p.temps) /\ tempRoots' = tempRoots
    BY <1>1, <1>3, <2>1 DEF Does, Makes
  <2>3. ASSUME NEW i \in 1 .. Len(p.temps)
        PROVE  register'[p.temps[i]] \in {register[p.temps[i]], None}
    <3>1. p.temps[i] \in Registers /\ p.temps[i] # step.r
      BY <1>1, <2>2 DEF ToSet
    <3> QED BY <2>1, <3>1 DEF Needed, HeapTypes
  <2> QED BY <1>2, <2>2, <2>3
<1>4. CASE step.do # "new"
  <2>1. Uses(o, step) /\ register' = Needed(register)
    BY <1>4, ExecuteCases
  <2>2. \A r \in Registers : register'[r] \in {register[r], None}
    BY <2>1 DEF Needed
  <2>3. CASE step.do = "push"
    <3>1. k.temps = Append(p.temps, step.r) /\ tempRoots' = Append(tempRoots, o)
      BY <1>1, <2>1, <2>3 DEF Does, Uses
    <3>2. ASSUME NEW i \in 1 .. Len(p.temps) + 1
          PROVE  register'[k.temps[i]] \in {tempRoots'[i], None}
      <4>1. CASE i <= Len(p.temps)
        <5>1. i \in 1 .. Len(p.temps) /\ k.temps[i] = p.temps[i] /\ tempRoots'[i] = tempRoots[i]
          BY <1>1, <1>2, <3>1, <4>1
        <5>2. p.temps[i] \in Registers
          BY <1>1, <5>1
        <5> QED BY <1>2, <2>2, <5>1, <5>2
      <4>2. CASE i = Len(p.temps) + 1
        <5>1. k.temps[i] = step.r /\ tempRoots'[i] = o
          BY <1>1, <1>2, <3>1, <4>2
        <5> QED BY <1>1, <2>2, <5>1
      <4> QED BY <1>1, <4>1, <4>2
    <3>3. Len(k.temps) = Len(p.temps) + 1 /\ Len(tempRoots') = Len(tempRoots) + 1
      BY <1>1, <3>1
    <3> QED BY <1>2, <3>2, <3>3
  <2>4. CASE step.do = "pop"
    <3>1. k.temps = Front(p.temps) /\ tempRoots' = Front(tempRoots) /\ p.temps # <<>>
      BY <1>1, <2>1, <2>4 DEF Does, Uses
    <3>2. Len(p.temps) \in Nat \ {0}
      BY <1>1, <3>1
    <3>3. /\ Len(k.temps) = Len(p.temps) - 1 /\ Len(tempRoots') = Len(p.temps) - 1
          /\ \A i \in 1 .. Len(p.temps) - 1 :
               k.temps[i] = p.temps[i] /\ tempRoots'[i] = tempRoots[i]
      BY <1>1, <1>2, <3>1, <3>2 DEF Front
    <3>4. ASSUME NEW i \in 1 .. Len(p.temps) - 1
          PROVE  register'[k.temps[i]] \in {tempRoots'[i], None}
      <4>1. i \in 1 .. Len(p.temps) /\ p.temps[i] \in Registers
        BY <1>1, <3>2
      <4> QED BY <1>2, <2>2, <3>3, <4>1
    <3> QED BY <3>3, <3>4
  <2>5. CASE step.do \notin {"push", "pop"}
    <3>1. k.temps = p.temps /\ tempRoots' = tempRoots
      BY <1>1, <2>1, <2>5 DEF Does, Uses
    <3>2. ASSUME NEW i \in 1 .. Len(p.temps)
          PROVE  register'[p.temps[i]] \in {tempRoots[i], None}
      BY <1>1, <1>2, <2>2
    <3> QED BY <1>2, <3>1, <3>2
  <2> QED BY <2>3, <2>4, <2>5
<1> QED BY <1>3, <1>4

LEMMA ExecuteCode ==
  ASSUME HeapTypes, Disciplined => Safe, Execute,
         NEW p, NEW k, NEW q, Stands(p, k, q)
  PROVE  CodeInv'
<1> DEFINE step == Head(task)
           o == register[step.r]
<1>1. task' = Tail(task) /\ Runs(Tail(task), k, q) /\ q.temps = <<>>
  BY ExecuteCases DEF Stands
<1>2. /\ step \in Steps /\ step.r \in Registers /\ Does(step, p, k)
      /\ RegistersInUse(Tail(task)) \subseteq RegistersInUse(task)
      /\ RegistersInUse(task) \subseteq Registers
  BY StandsUses DEF Steps, Stands
<1>3. \A r \in RegistersInUse(task) :
        /\ r \in p.made => register[r] # None
        /\ Disciplined /\ register[r] # None => Describes(p, r, register[r])
  BY DEF Stands, Fits
<1>4. ASSUME NEW r \in RegistersInUse(Tail(task))
      PROVE  /\ r \in k.made => register'[r] # None
             /\ Disciplined /\ register'[r] # None => Describes(k, r, register[r])'
  <2>1. CASE step.do = "new"
    <3>1. PICK x : Makes(x, step) /\ register' = Needed([register EXCEPT ![step.r] = x])
      BY <2>1, ExecuteCases
    <3>2. register'[r] = IF r = step.r THEN x ELSE register[r]
      BY <1>2, <3>1 DEF Needed, HeapTypes
    <3>3. x \in Objects /\ x # None /\ x \notin Allocated
      BY <3>1, HeapAssumption DEF Makes
    <3>4. r \in k.made => register'[r] # None
      BY <1>2, <1>3, <3>2, <3>3, <2>1 DEF Does
    <3>5. ASSUME Disciplined, register'[r] # None, r = step.r
          PROVE  Describes(k, r, register[r])'
      <4>1. kind'[x] = step.kind
        BY <3>1, <3>3 DEF Makes, HeapTypes
      <4>2. /\ step.r \in k.loose /\ step.r \notin k.classes
            /\ step.kind = "foreign" => step.r \in k.foreign
        BY <1>2, <2>1 DEF Does
      <4> QED BY <3>2, <3>5, <4>1, <4>2 DEF Describes
    <3>6. ASSUME Disciplined, register'[r] # None, r # step.r
          PROVE  Describes(k, r, register[r])'
      <4>1. register[r] # None /\ Describes(p, r, register[r]) /\ register'[r] = register[r]
        BY <1>2, <1>3, <3>2, <3>6
      <4>2. register[r] \in Allocated
        <5>1. register[r] \in InUse
          BY <1>2, <4>1 DEF InUse, InRegisters
        <5>2. InUse \subseteq Kept
          BY KeptClosed DEF Stands
        <5> QED BY <3>6, <5>1, <5>2 DEF Safe, NothingInUseIsFreed, Kept
      <4>3. kind'[register[r]] = kind[register[r]]
        BY <3>1, <3>3, <4>2 DEF Makes, HeapTypes
      <4>4. p.loose \subseteq k.loose /\ p.foreign \subseteq k.foreign
            /\ k.classes \subseteq p.classes
        BY <1>2, <2>1 DEF Does, Rooting
      <4>5. stack' = stack /\ modules' = modules /\ handles' = handles
        BY <3>1 DEF Makes
      <4> QED BY <4>1, <4>3, <4>4, <4>5 DEF Describes
    <3> QED BY <3>4, <3>5, <3>6
  <2>2. CASE step.do # "new"
    <3>1. Uses(o, step) /\ register' = Needed(register)
      BY <2>2, ExecuteCases
    <3>2. register'[r] = register[r]
      BY <1>2, <3>1 DEF Needed
    <3>3. k.made \subseteq p.made
      BY <1>2, <2>2 DEF Does
    <3>4. ASSUME Disciplined, register[r] # None PROVE Describes(k, r, register[r])'
      <4>1. Describes(p, r, register[r])
        BY <1>2, <1>3, <3>4
      <4>2. stack \subseteq stack' /\ modules \subseteq modules' /\ handles \subseteq handles'
            /\ kind' = kind
        BY <3>1, <3>4 DEF Uses, Disciplined
      <4>3. r \in k.loose \/ register[r] \in stack' \cup modules' \cup handles'
        <5>1. CASE Rooting(step) /\ r = step.r
          BY <3>1, <5>1 DEF Uses, Rooting
        <5>2. CASE ~(Rooting(step) /\ r = step.r)
          <6>1. r \in p.loose => r \in k.loose
            BY <1>2, <5>2 DEF Does
          <6> QED BY <4>1, <4>2, <6>1 DEF Describes
        <5> QED BY <5>1, <5>2
      <4>4. p.foreign \subseteq k.foreign /\ k.classes \subseteq p.classes
        BY <1>2 DEF Does
      <4> QED BY <3>2, <4>1, <4>2, <4>3, <4>4 DEF Describes
    <3> QED BY <1>2, <1>3, <3>2, <3>3, <3>4
  <2> QED BY <2>1, <2>2
<1>5. Fits(k)'
  BY <1>1, <1>4, ExecuteTemps DEF Fits
<1> QED BY <1>1, <1>5 DEF CodeInv

(* The step uses what is kept, and keeps nothing else but the new object.  *)
LEMMA NewKeeps ==
  ASSUME HeapTypes, Safe, Execute, NEW p, NEW k, NEW q, Stands(p, k, q),
         NEW x, Makes(x, Head(task)), Head(task).do = "new",
         register' = Needed([register EXCEPT ![Head(task).r] = x])
  PROVE  /\ Kept' \subseteq Kept \cup {x} /\ Kept \subseteq Allocated
         /\ InRegisters(Head(task).from) \subseteq Kept
         /\ \A o \in Allocated : kind'[o] = kind[o] /\ links'[o] = links[o]
         /\ kind'[x] = Head(task).kind /\ links'[x] = InRegisters(Head(task).from)
         /\ Allocated' = Allocated \cup {x}
<1> DEFINE step == Head(task)
<1>1. Kept \subseteq Allocated
  BY DEF Safe, NothingInUseIsFreed, Kept
<1>2. /\ Kept \subseteq Objects /\ Roots \cup InUse \subseteq Kept
      /\ \A o \in Kept : Blackened(o) \subseteq Kept
  BY KeptClosed DEF Stands
<1>3. InRegisters(step.from) \subseteq Kept
  <2>1. step.from \subseteq RegistersInUse(task)
    BY StandsUses DEF Reads, Allocates
  <2> QED BY <1>2, <2>1 DEF InUse, InRegisters
<1>4. \A o \in Objects : o # x => kind'[o] = kind[o] /\ links'[o] = links[o]
  BY DEF Makes, HeapTypes
<1>5. /\ x \in Objects /\ x \notin Allocated
      /\ kind'[x] = step.kind /\ links'[x] = InRegisters(step.from)
  BY DEF Makes, HeapTypes
<1>6. (Roots \cup InUse)' \subseteq Kept \cup {x}
  <2>1. Roots' = Roots
    BY DEF Roots, Makes
  <2>2. ASSUME NEW r \in RegistersInUse(Tail(task)), register'[r] # None
        PROVE  register'[r] \in Kept \cup {x}
    <3>1. r \in Registers /\ r \in RegistersInUse(task)
      BY StandsUses
    <3>2. register'[r] = IF r = step.r THEN x ELSE register[r]
      BY <3>1 DEF Needed, HeapTypes
    <3> QED BY <1>2, <2>2, <3>1, <3>2 DEF InUse, InRegisters
  <2>3. InUse' \subseteq Kept \cup {x}
    BY <2>2, ExecuteCases DEF InUse, InRegisters
  <2> QED BY <1>2, <2>1, <2>3
<1>7. \A o \in Kept \cup {x} : Blackened(o)' \subseteq Kept \cup {x}
  <2>1. Blackened(x)' \subseteq Kept
    BY <1>3, <1>5 DEF Blackened
  <2>2. ASSUME NEW o \in Kept PROVE Blackened(o)' \subseteq Kept
    <3>1. o # x /\ o \in Objects
      BY <1>1, <1>2, <1>5
    <3> QED BY <1>2, <1>4, <3>1 DEF Blackened
  <2> QED BY <2>1, <2>2
<1>8. Kept' \subseteq Kept \cup {x}
  BY <1>2, <1>5, <1>6, <1>7, KeptLeast
<1>9. Allocated' = Allocated \cup {x}
  BY ListGrows DEF Makes, Allocated
<1>10. Allocated \subseteq Objects
  BY DEF HeapTypes, Allocated, ToSet
<1> QED BY <1>1, <1>3, <1>4, <1>5, <1>8, <1>9, <1>10

LEMMA NewSafe ==
  ASSUME HeapTypes, Disciplined, Safe, Execute, phase = "running",
         NEW p, NEW k, NEW q, Stands(p, k, q),
         NEW x, Makes(x, Head(task)), Head(task).do = "new",
         register' = Needed([register EXCEPT ![Head(task).r] = x])
  PROVE  Safe'
<1> DEFINE step == Head(task)
<1>1. /\ Kept' \subseteq Kept \cup {x} /\ Kept \subseteq Allocated
      /\ InRegisters(step.from) \subseteq Kept
      /\ \A o \in Allocated : kind'[o] = kind[o] /\ links'[o] = links[o]
      /\ kind'[x] = step.kind /\ links'[x] = InRegisters(step.from)
      /\ Allocated' = Allocated \cup {x}
  BY NewKeeps
<1>2. phase' = phase /\ sweeping' = {} /\ stack' = stack
  BY ExecuteCases DEF Makes
<1>3. NothingInUseIsFreed'
  <2>1. \A o \in Kept : links[o] \subseteq Allocated
    BY DEF Safe, NothingInUseIsFreed, Kept
  <2>2. \A o \in Kept \cup {x} : {o} \cup links'[o] \subseteq Allocated'
    BY <1>1, <2>1
  <2> QED BY <1>1, <2>2 DEF NothingInUseIsFreed, Kept
<1>4. stack \subseteq Allocated
  <2>1. stack \subseteq Roots
    BY HeapAssumption DEF Roots, HeapTypes
  <2>2. Roots \subseteq Kept
    BY KeptClosed DEF Stands
  <2> QED BY <1>1, <2>1, <2>2
<1>5. ASSUME step.kind = "foreign", NEW c \in InRegisters(step.from)
      PROVE  c \in stack /\ kind[c] = "foreignClass"
  <2>1. PICK r \in step.from : c = register[r] /\ c # None
    BY DEF InRegisters
  <2>2. r \in RegistersInUse(task) /\ r \in p.classes
    BY <1>5, StandsUses DEF Stands, Does, Reads, Allocates
  <2>3. Describes(p, r, register[r])
    BY <2>1, <2>2 DEF Stands, Fits
  <2> QED BY <2>1, <2>2, <2>3 DEF Describes
<1>6. ClassesStay'
  <2>1. ASSUME NEW o \in Objects, kind'[o] = "foreign", NEW c \in links'[o]
        PROVE  c \in stack /\ kind[c] = "foreignClass"
    <3>1. CASE o = x
      BY <1>1, <1>5, <2>1, <3>1
    <3>2. CASE o # x
      <4>1. kind'[o] = kind[o] /\ links'[o] = links[o]
        BY <3>2 DEF Makes, HeapTypes
      <4> QED BY <2>1, <4>1 DEF Safe, ClassesStay
    <3> QED BY <3>1, <3>2
  <2>2. ASSUME NEW o \in Objects, kind'[o] = "foreign", NEW c \in links'[o]
        PROVE  c \in stack' /\ kind'[c] = "foreignClass"
    BY <1>1, <1>2, <1>4, <2>1, <2>2
  <2> QED BY <2>2 DEF ClassesStay
<1>7. ClassesLast'
  <2>1. /\ DOMAIN heap = 1 .. Len(heap) /\ Len(heap) \in Nat
        /\ DOMAIN heap' = 1 .. Len(heap) + 1 /\ heap'[1] = x
        /\ \A i \in 1 .. Len(heap) : heap'[i + 1] = heap[i]
    BY ListGrows DEF Makes
  <2>2. \A o \in Allocated : \E j \in 1 .. Len(heap) : heap[j] = o
    BY <2>1 DEF Allocated, ToSet
  <2>3. ASSUME NEW i \in DOMAIN heap', kind'[heap'[i]] = "foreign", NEW c \in links'[heap'[i]]
        PROVE  \E j \in DOMAIN heap' : i < j /\ heap'[j] = c
    <3>1. CASE i = 1
      <4>1. c \in Allocated
        BY <1>1, <1>4, <1>5, <2>1, <2>3, <3>1
      <4>2. PICK j \in 1 .. Len(heap) : heap[j] = c
        BY <2>2, <4>1
      <4>3. j + 1 \in DOMAIN heap' /\ i < j + 1 /\ heap'[j + 1] = c
        BY <2>1, <3>1, <4>2
      <4> QED BY <4>3
    <3>2. CASE i # 1
      <4>1. i - 1 \in 1 .. Len(heap) /\ heap'[i] = heap[i - 1]
        <5>1. i - 1 \in 1 .. Len(heap) /\ (i - 1) + 1 = i
          BY <2>1, <3>2
        <5> QED BY <2>1, <5>1
      <4>2. heap[i - 1] \in Allocated
        BY <2>1, <4>1 DEF Allocated, ToSet
      <4>3. kind[heap[i - 1]] = "foreign" /\ c \in links[heap[i - 1]]
        BY <1>1, <2>3, <4>1, <4>2
      <4>4. PICK j \in 1 .. Len(heap) : i - 1 < j /\ heap[j] = c
        BY <2>1, <4>1, <4>3 DEF Safe, ClassesLast
      <4>5. j + 1 \in DOMAIN heap' /\ i < j + 1 /\ heap'[j + 1] = c
        BY <2>1, <4>4
      <4> QED BY <4>5
    <3> QED BY <3>1, <3>2
  <2> QED BY <2>3 DEF ClassesLast
<1> QED BY <1>2, <1>3, <1>6, <1>7 DEF Safe

LEMMA UseSafe ==
  ASSUME HeapTypes, Disciplined, Safe, Execute, phase = "running",
         NEW p, NEW k, NEW q, Stands(p, k, q),
         Head(task).do # "new", Uses(register[Head(task).r], Head(task)),
         register' = Needed(register)
  PROVE  Safe'
<1> DEFINE step == Head(task)
           o == register[step.r]
<1>1. /\ Kept \subseteq Objects /\ Roots \cup InUse \subseteq Kept
      /\ \A x \in Kept : Blackened(x) \subseteq Kept
  BY KeptClosed DEF Stands
<1>2. step.do \in {"push", "link", "unlink", "keep", "take", "enter", "hold"} =>
        /\ step.r \in RegistersInUse(task) /\ step.s \in RegistersInUse(task)
        /\ o # None => o \in Kept
        /\ InRegisters({step.s}) \subseteq Kept
  <2> SUFFICES ASSUME step.do \in {"push", "link", "unlink", "keep", "take", "enter", "hold"}
               PROVE  /\ step.r \in RegistersInUse(task) /\ step.s \in RegistersInUse(task)
                      /\ o # None => o \in Kept
                      /\ InRegisters({step.s}) \subseteq Kept
    OBVIOUS
  <2>1. step.r \in RegistersInUse(task) /\ step.s \in RegistersInUse(task)
    BY StandsUses DEF Reads, Allocates
  <2>2. o # None => o \in InUse
    BY <2>1 DEF InUse, InRegisters
  <2>3. InRegisters({step.s}) \subseteq InUse
    BY <2>1 DEF InUse, InRegisters
  <2> QED BY <1>1, <2>1, <2>2, <2>3
<1>3. \A x \in Objects : /\ links'[x] \subseteq links[x] \cup Kept
                         /\ kind[x] = "foreign" => links'[x] = links[x]
  <2>1. CASE step.do \in {"link", "unlink"}
    <3>1. o # None => kind[o] # "foreign"
      <4>1. step.r \notin p.foreign
        BY <2>1 DEF Stands, Does
      <4>2. o # None => Describes(p, step.r, o)
        BY <1>2, <2>1 DEF Stands, Fits
      <4> QED BY <4>1, <4>2 DEF Describes
    <3>2. \A x \in Objects : x # None
      BY HeapAssumption
    <3>3. \A x \in Objects : links'[x] = links[x] \/ (x = o /\ links'[x] \subseteq links[o] \cup Kept)
      <4>1. CASE step.do = "link"
        BY <1>2, <4>1 DEF Uses, HeapTypes
      <4>2. CASE step.do = "unlink"
        BY <4>2 DEF Uses, HeapTypes
      <4> QED BY <2>1, <4>1, <4>2
    <3> QED BY <3>1, <3>2, <3>3
  <2>2. CASE step.do \notin {"link", "unlink"}
    <3>1. links' = links
      BY <2>2 DEF Uses
    <3> QED BY <3>1
  <2> QED BY <2>1, <2>2
<1>4. kind' = kind /\ heap' = heap /\ Allocated' = Allocated
  BY DEF Uses, Allocated
<1>5. (Roots \cup InUse)' \subseteq Kept
  <2>1. stack' \ {None} \subseteq Kept /\ modules' \ {None} \subseteq Kept
        /\ handles' \ {None} \subseteq Kept
    <3>1. stack' \subseteq stack \cup {o} /\ (stack' = stack \/ step.do \in {"keep", "take"})
      BY DEF Uses
    <3>2. modules' \subseteq modules \cup {o} /\ (modules' = modules \/ step.do = "enter")
      BY DEF Uses
    <3>3. handles' \subseteq handles \cup {o} /\ (handles' = handles \/ step.do = "hold")
      BY DEF Uses
    <3>4. /\ stack \ {None} \subseteq Kept /\ modules \ {None} \subseteq Kept
          /\ handles \ {None} \subseteq Kept
      BY <1>1 DEF Roots
    <3> QED BY <1>2, <3>1, <3>2, <3>3, <3>4
  <2>2. ToSet(tempRoots') \ {None} \subseteq Kept
    <3>1. tempRoots \in Seq(Objects \cup {None})
      BY DEF HeapTypes
    <3>2. ToSet(tempRoots) \ {None} \subseteq Kept
      BY <1>1 DEF Roots
    <3>3. CASE step.do = "push"
      <4>1. tempRoots' = Append(tempRoots, o) /\ o \in Objects \cup {None}
        BY <3>3, StandsUses DEF Uses, HeapTypes, Steps
      <4>2. ToSet(tempRoots') \subseteq ToSet(tempRoots) \cup {o}
        BY <3>1, <4>1 DEF ToSet
      <4> QED BY <1>2, <3>2, <3>3, <4>2
    <3>4. CASE step.do = "pop"
      <4>1. tempRoots' = Front(tempRoots) /\ tempRoots # <<>>
        <5>1. Len(tempRoots) = Len(p.temps) /\ p.temps \in Seq(Registers) /\ p.temps # <<>>
          BY <3>4, StandsUses DEF Stands, Fits, Does, Views
        <5> QED BY <3>4, <5>1 DEF Uses
      <4>2. ToSet(tempRoots') \subseteq ToSet(tempRoots)
        BY <3>1, <4>1 DEF ToSet, Front
      <4> QED BY <3>2, <4>2
    <3>5. CASE step.do \notin {"push", "pop"}
      BY <3>2, <3>5 DEF Uses
    <3> QED BY <3>3, <3>4, <3>5
  <2>3. InUse' \subseteq Kept
    <3>1. ASSUME NEW r \in RegistersInUse(Tail(task)), register'[r] # None
          PROVE  register'[r] \in Kept
      <4>1. r \in Registers /\ r \in RegistersInUse(task)
        BY StandsUses
      <4>2. register'[r] = register[r]
        BY <3>1, <4>1 DEF Needed
      <4> QED BY <1>1, <3>1, <4>1, <4>2 DEF InUse, InRegisters
    <3> QED BY <3>1, ExecuteCases DEF InUse, InRegisters
  <2> QED BY <2>1, <2>2, <2>3 DEF Roots
<1>6. \A x \in Kept : Blackened(x)' \subseteq Kept
  BY <1>1, <1>3, <1>4 DEF Blackened
<1>7. Kept' \subseteq Kept
  BY <1>1, <1>5, <1>6, KeptLeast
<1>8. NothingInUseIsFreed'
  <2>1. \A x \in Kept : {x} \cup links[x] \subseteq Allocated
    BY DEF Safe, NothingInUseIsFreed, Kept
  <2>2. \A x \in Kept : {x} \cup links'[x] \subseteq Allocated'
    BY <1>1, <1>3, <1>4, <2>1
  <2> QED BY <1>7, <2>2 DEF NothingInUseIsFreed, Kept
<1>9. ClassesStay'
  <2>1. stack \subseteq stack'
    BY DEF Uses, Disciplined
  <2>2. ClassesStay
    BY DEF Safe
  <2> QED BY <1>3, <1>4, <2>1, <2>2 DEF ClassesStay
<1>10. ClassesLast'
  <2>1. ClassesLast
    BY DEF Safe
  <2>2. \A i \in DOMAIN heap : heap[i] \in Objects
    BY DEF HeapTypes
  <2> QED BY <1>3, <1>4, <2>1, <2>2 DEF ClassesLast
<1>11. sweeping' = {} /\ phase' = phase
  BY ExecuteCases
<1> QED BY <1>8, <1>9, <1>10, <1>11 DEF Safe

LEMMA ExecuteInv == HeapInv /\ Execute => HeapInv'
<1> SUFFICES ASSUME HeapInv, Execute PROVE HeapInv'
  OBVIOUS
<1>1. HeapTypes /\ CodeInv /\ phase \in {"running", "freed"} /\ (Disciplined => Safe)
  BY DEF HeapInv
<1>2. task # <<>>
  BY DEF Execute
<1>3. PICK p, k, q : Stands(p, k, q)
  BY <1>1, <1>2, CodeStands
<1>4. HeapTypes' /\ CodeInv' /\ phase' = phase
  BY <1>1, <1>3, ExecuteTypes, ExecuteCode, ExecuteCases
<1>5. ASSUME Disciplined PROVE Safe'
  <2>1. phase = "running" /\ Safe
    BY <1>1, <1>2, <1>5 DEF Safe
  <2> QED BY <1>1, <1>3, <1>5, <2>1, ExecuteCases, NewSafe, UseSafe
<1> QED BY <1>1, <1>4, <1>5 DEF HeapInv

-----------------------------------------------------------------------------
(***************************************************************************)
(* The start of a function.                                                *)
(***************************************************************************)

(* Between functions there are no temporary roots.                         *)
LEMMA IdleRoots ==
  ASSUME HeapTypes, CodeInv, task = <<>> PROVE tempRoots = <<>>
<1>1. PICK p, q : Runs(<<>>, p, q) /\ q.temps = <<>> /\ Fits(p)
  BY DEF CodeInv
<1>2. PICK view \in [1 .. Len(<<>>) + 1 -> Views] : view[1] = p /\ view[Len(<<>>) + 1] = q
  BY <1>1 DEF Runs
<1>3. p = q
  BY <1>2
<1>4. Len(tempRoots) = 0
  BY <1>1, <1>3 DEF Fits
<1> QED BY <1>4, EmptySeq DEF HeapTypes

(* A function starts with a view that is true of its arguments.            *)
Suits(args, p) ==
  /\ p.temps = <<>>
  /\ \A r \in DOMAIN args : args[r] \in Objects \cup {None}
  /\ \A r \in p.made : r \in DOMAIN args /\ args[r] # None
  /\ Disciplined => \A r \in DOMAIN args :
       args[r] # None => args[r] \in Kept /\ Describes(p, r, args[r])

LEMMA StartInv ==
  ASSUME HeapInv, NEW code, NEW args, Start(code, args),
         NEW p, NEW q, Runs(code, p, q), q.temps = <<>>, Suits(args, p)
  PROVE  HeapInv'
<1>1. /\ HeapTypes /\ CodeInv /\ phase = "running" /\ task = <<>> /\ sweeping = {}
      /\ (Disciplined => Safe)
  BY DEF HeapInv, Start, Idle
<1>2. /\ UNCHANGED <<heap, kind, links, stack, modules, handles, tempRoots, sweeping, phase>>
      /\ task' = code
      /\ register' = [r \in Registers |-> IF r \in DOMAIN args THEN args[r] ELSE None]
  BY DEF Start, objects, roots
<1>3. tempRoots = <<>>
  BY <1>1, IdleRoots
<1>4. HeapTypes'
  <2>1. register' \in [Registers -> Objects \cup {None}]
    BY <1>2 DEF Suits
  <2> QED BY <1>1, <1>2, <2>1 DEF HeapTypes
<1>5. RegistersInUse(code) \subseteq Registers
  <2>1. code \in Seq(Steps)
    BY DEF Runs
  <2>2. ASSUME NEW step \in Steps PROVE Reads(step) \subseteq Registers
    BY DEF Reads, Steps, Allocates
  <2> QED BY <2>1, <2>2 DEF RegistersInUse
<1>6. CodeInv'
  <2>1. Len(tempRoots') = Len(p.temps) /\ Len(p.temps) = 0
    BY <1>2, <1>3, EmptySeq DEF Suits
  <2>2. ASSUME NEW r \in RegistersInUse(code)
        PROVE  /\ r \in p.made => register'[r] # None
               /\ Disciplined /\ register'[r] # None => Describes(p, r, register[r])'
    <3>1. register'[r] = IF r \in DOMAIN args THEN args[r] ELSE None
      BY <1>2, <1>5
    <3> QED BY <1>2, <3>1 DEF Suits, Describes
  <2>3. Fits(p)'
    BY <1>2, <2>1, <2>2 DEF Fits
  <2> QED BY <1>2, <2>3 DEF CodeInv
<1>7. ASSUME Disciplined PROVE Safe'
  <2>1. /\ Kept \subseteq Objects /\ Roots \cup InUse \subseteq Kept
        /\ \A o \in Kept : Blackened(o) \subseteq Kept
    BY <1>1, KeptClosed
  <2>2. Roots' = Roots
    BY <1>2 DEF Roots
  <2>3. InUse' \subseteq Kept
    <3>1. ASSUME NEW r \in RegistersInUse(code), register'[r] # None
          PROVE  register'[r] \in Kept
      BY <1>2, <1>5, <1>7, <3>1 DEF Suits
    <3> QED BY <1>2, <3>1 DEF InUse, InRegisters
  <2>4. \A o \in Kept : Blackened(o)' \subseteq Kept
    BY <1>2, <2>1 DEF Blackened
  <2>5. Kept' \subseteq Kept
    BY <2>1, <2>2, <2>3, <2>4, KeptLeast
  <2>6. NothingInUseIsFreed'
    BY <1>1, <1>2, <1>7, <2>5 DEF NothingInUseIsFreed, Kept, Safe, Allocated
  <2>7. ClassesStay' /\ ClassesLast'
    BY <1>1, <1>2, <1>7 DEF Safe, ClassesStay, ClassesLast
  <2> QED BY <1>1, <1>2, <2>6, <2>7 DEF Safe
<1> QED BY <1>1, <1>2, <1>4, <1>6, <1>7 DEF HeapInv

-----------------------------------------------------------------------------
(***************************************************************************)
(* The collector, and what the program gives up.                           *)
(***************************************************************************)

(* What is kept depends on the roots and the links of what was kept.       *)
LEMMA KeepsNoMore ==
  ASSUME HeapTypes, CodeInv, Roots' \subseteq Roots, UNCHANGED <<task, register>>,
         \A o \in Kept : kind'[o] = kind[o] /\ links'[o] = links[o]
  PROVE  Kept' \subseteq Kept
<1>1. /\ Kept \subseteq Objects /\ Roots \cup InUse \subseteq Kept
      /\ \A o \in Kept : Blackened(o) \subseteq Kept
  BY KeptClosed DEF CodeInv, Runs
<1>2. InUse' = InUse
  BY DEF InUse, InRegisters
<1>3. \A o \in Kept : Blackened(o)' \subseteq Kept
  BY <1>1 DEF Blackened
<1> QED BY <1>1, <1>2, <1>3, KeptLeast

LEMMA CollectInv == HeapInv /\ Collect => HeapInv'
<1> SUFFICES ASSUME HeapInv, Collect PROVE HeapInv'
  OBVIOUS
<1>1. HeapTypes /\ CodeInv /\ phase \in {"running", "freed"} /\ (Disciplined => Safe)
  BY DEF HeapInv
<1>2. /\ task # <<>> /\ Allocates(Head(task)) /\ sweeping' = Allocated \ Marked(Roots)
      /\ UNCHANGED <<heap, kind, links, stack, modules, handles, tempRoots, task, register, phase>>
  BY DEF Collect, Unmarked, objects, roots
<1>3. HeapTypes'
  BY <1>1, <1>2 DEF HeapTypes, Allocated, ToSet
<1>4. CodeInv'
  BY <1>1, <1>2 DEF CodeInv, Fits, Describes
<1>5. ASSUME Disciplined PROVE Safe'
  <2>1. PICK p, k, q : Stands(p, k, q)
    BY <1>1, <1>2, CodeStands
  <2>2. InUse \subseteq Roots
    BY <1>1, <1>2, <1>5, <2>1, AllocationsAreRooted
  <2>3. Kept = Marked(Roots)
    <3>1. Roots \cup InUse = Roots
      BY <2>2
    <3> QED BY <3>1 DEF Kept
  <2>4. Kept' \subseteq Kept
    <3>1. Roots' = Roots
      BY <1>2 DEF Roots
    <3> QED BY <1>1, <1>2, <3>1, KeepsNoMore
  <2>5. sweeping' \cap Kept' = {}
    BY <1>2, <2>3, <2>4
  <2>6. NothingInUseIsFreed'
    BY <1>1, <1>2, <1>5, <2>4 DEF NothingInUseIsFreed, Kept, Safe, Allocated
  <2>7. phase = "running" /\ ClassesStay' /\ ClassesLast'
    BY <1>1, <1>2, <1>5 DEF Safe, ClassesStay, ClassesLast
  <2> QED BY <1>2, <2>5, <2>6, <2>7 DEF Safe
<1> QED BY <1>1, <1>2, <1>3, <1>4, <1>5 DEF HeapInv

(* Roots that the program gives up between two functions.                  *)
LEMMA GiveUpInv ==
  ASSUME HeapInv, task = <<>>, phase = "running",
         stack' \subseteq stack, handles' \subseteq handles,
         Disciplined => \A o \in stack : kind[o] = "foreignClass" => o \in stack',
         UNCHANGED <<heap, kind, links, modules, tempRoots, task, register, sweeping, phase>>
  PROVE  HeapInv'
<1>1. HeapTypes /\ CodeInv /\ (Disciplined => Safe)
  BY DEF HeapInv
<1>2. HeapTypes'
  BY <1>1 DEF HeapTypes
<1>3. CodeInv'
  <2>1. PICK p, q : Runs(task, p, q) /\ q.temps = <<>> /\ Fits(p)
    BY <1>1 DEF CodeInv
  <2>2. RegistersInUse(task) = {}
    BY DEF RegistersInUse
  <2>3. Fits(p)'
    BY <2>1, <2>2 DEF Fits
  <2> QED BY <2>1, <2>3 DEF CodeInv
<1>4. ASSUME Disciplined PROVE Safe'
  <2>1. Kept' \subseteq Kept
    <3>1. Roots' \subseteq Roots
      BY DEF Roots
    <3> QED BY <1>1, <3>1, KeepsNoMore
  <2>2. NothingInUseIsFreed'
    BY <1>1, <1>4, <2>1 DEF NothingInUseIsFreed, Kept, Safe, Allocated
  <2>3. ClassesStay' /\ ClassesLast'
    BY <1>1, <1>4 DEF Safe, ClassesStay, ClassesLast
  <2>4. sweeping' \cap Kept' = {}
    BY <1>1, <1>4, <2>1 DEF Safe
  <2> QED BY <2>2, <2>3, <2>4 DEF Safe
<1> QED BY <1>2, <1>3, <1>4 DEF HeapInv

LEMMA FreeVMInv == HeapInv /\ FreeVM => HeapInv'
<1> SUFFICES ASSUME HeapInv, FreeVM PROVE HeapInv'
  OBVIOUS
<1>1. HeapTypes /\ CodeInv /\ (Disciplined => Safe) /\ task = <<>> /\ handles = {}
  BY DEF HeapInv, FreeVM, Idle
<1>2. /\ phase' = "freed" /\ sweeping' = Allocated /\ stack' = {} /\ modules' = {}
      /\ UNCHANGED <<heap, kind, links, handles, tempRoots, task, register>>
  BY DEF FreeVM, objects
<1>3. RegistersInUse(task) = {}
  BY <1>1 DEF RegistersInUse
<1>4. PICK p, q : Runs(task, p, q) /\ q.temps = <<>> /\ Fits(p)
  BY <1>1 DEF CodeInv
<1>5. tempRoots = <<>>
  BY <1>1, IdleRoots
<1>6. HeapTypes'
  BY <1>1, <1>2 DEF HeapTypes, Allocated, ToSet
<1>7. CodeInv'
  <2>1. Fits(p)'
    BY <1>2, <1>3, <1>4 DEF Fits
  <2> QED BY <1>2, <1>4, <2>1 DEF CodeInv
<1>8. ASSUME Disciplined PROVE Safe'
  <2>1. tempRoots = <<>>
    BY <1>5
  <2>2. (Roots \cup InUse)' = {}
    <3>1. ToSet(tempRoots) = {}
      BY <2>1 DEF ToSet
    <3>2. Roots' = {}
      BY <1>1, <1>2, <3>1 DEF Roots
    <3>3. InUse' = {}
      BY <1>2, <1>3 DEF InUse, InRegisters
    <3> QED BY <3>2, <3>3
  <2>3. Kept' = {}
    <3> DEFINE T == {}
    <3>1. T \in SUBSET Objects /\ \A o \in T : Blackened(o)' \subseteq T
      OBVIOUS
    <3>2. (Roots \cup InUse)' \subseteq T
      BY <2>2
    <3> HIDE DEF T
    <3>3. Kept' \subseteq T
      BY <3>1, <3>2, KeptLeast
    <3> QED BY <3>3 DEF T
  <2>4. NothingInUseIsFreed'
    BY <2>3 DEF NothingInUseIsFreed, Kept
  <2>5. ClassesLast'
    BY <1>1, <1>2, <1>8 DEF Safe, ClassesLast
  <2>6. sweeping' = Allocated'
    BY <1>2 DEF Allocated
  <2> QED BY <1>1, <1>2, <2>1, <2>3, <2>4, <2>5, <2>6 DEF Safe
<1> QED BY <1>2, <1>6, <1>7, <1>8 DEF HeapInv

LEMMA FreeInv == HeapInv /\ Free => HeapInv'
<1> SUFFICES ASSUME HeapInv, Free PROVE HeapInv'
  OBVIOUS
<1>1. HeapTypes /\ CodeInv /\ phase \in {"running", "freed"} /\ (Disciplined => Safe)
  BY DEF HeapInv
<1>2. PICK i \in DOMAIN heap :
        /\ SweepComesTo(i)
        /\ heap' = RemoveAt(heap, i)
        /\ kind' = [kind EXCEPT ![heap[i]] = "string"]
        /\ links' = [links EXCEPT ![heap[i]] = {}]
        /\ sweeping' = sweeping \ {heap[i]}
        /\ UNCHANGED <<roots, task, register, phase>>
  BY Zenon DEF Free
<1> DEFINE x == heap[i]
<1>3. /\ heap' \in Seq(Objects) /\ IsInjective(heap') /\ ToSet(heap') = Allocated \ {x}
      /\ DOMAIN heap = 1 .. Len(heap) /\ Len(heap) \in Nat
      /\ DOMAIN heap' = 1 .. Len(heap) - 1
      /\ \A j \in 1 .. Len(heap) - 1 : heap'[j] = IF j < i THEN heap[j] ELSE heap[j + 1]
  BY <1>1, <1>2, ListShrinks
<1>4. x \in Objects /\ x \in sweeping
  BY <1>1, <1>2 DEF HeapTypes, SweepComesTo
<1>5. /\ kind'[x] = "string" /\ links'[x] = {}
      /\ \A o \in Objects : o # x => kind'[o] = kind[o] /\ links'[o] = links[o]
  BY <1>1, <1>2, <1>4 DEF HeapTypes
<1>6. UNCHANGED <<stack, modules, handles, tempRoots, task, register, phase>>
  BY <1>2 DEF roots
<1>7. HeapTypes'
  <2>1. kind' \in [Objects -> Kinds]
    BY <1>1, <1>2, KindNames DEF HeapTypes
  <2>2. links' \in [Objects -> SUBSET Objects]
    BY <1>1, <1>2 DEF HeapTypes
  <2> QED BY <1>1, <1>2, <1>3, <1>6, <2>1, <2>2 DEF HeapTypes
<1>8. ASSUME Disciplined
      PROVE  /\ x \notin Kept /\ Kept' \subseteq Kept /\ Kept \subseteq Allocated \ {x}
             /\ Roots \cup InUse \subseteq Kept
             /\ \A o \in Kept : kind'[o] = kind[o] /\ links'[o] = links[o]
  <2>1. Safe
    BY <1>1, <1>8
  <2>2. x \notin Kept
    BY <1>4, <2>1 DEF Safe
  <2>3. Kept \subseteq Allocated
    BY <2>1 DEF Safe, NothingInUseIsFreed, Kept
  <2>4. Kept \subseteq Objects /\ Roots \cup InUse \subseteq Kept
    BY <1>1, KeptClosed DEF CodeInv, Runs
  <2>5. \A o \in Kept : kind'[o] = kind[o] /\ links'[o] = links[o]
    BY <1>5, <2>2, <2>4
  <2>6. Roots' = Roots
    BY <1>6 DEF Roots
  <2>7. Kept' \subseteq Kept
    BY <1>1, <1>6, <2>5, <2>6, KeepsNoMore
  <2> QED BY <2>2, <2>3, <2>4, <2>5, <2>7
<1>9. CodeInv'
  <2>1. PICK p, q : Runs(task, p, q) /\ q.temps = <<>> /\ Fits(p)
    BY <1>1 DEF CodeInv
  <2>2. ASSUME Disciplined, NEW r \in RegistersInUse(task), register[r] # None
        PROVE  Describes(p, r, register[r])'
    <3>1. Describes(p, r, register[r])
      BY <2>1, <2>2 DEF Fits
    <3>2. register[r] \in Kept
      BY <1>8, <2>2 DEF InUse, InRegisters
    <3>3. kind'[register[r]] = kind[register[r]]
      BY <1>8, <2>2, <3>2
    <3> QED BY <1>6, <3>1, <3>3 DEF Describes
  <2>3. Fits(p)'
    BY <1>6, <2>1, <2>2 DEF Fits
  <2> QED BY <1>6, <2>1, <2>3 DEF CodeInv
<1>10. ASSUME Disciplined PROVE Safe'
  <2>1. Safe
    BY <1>1, <1>10
  <2>2. /\ x \notin Kept /\ Kept' \subseteq Kept /\ Kept \subseteq Allocated \ {x}
        /\ Roots \subseteq Kept
        /\ \A o \in Kept : kind'[o] = kind[o] /\ links'[o] = links[o]
    BY <1>8, <1>10
  <2>3. stack \subseteq Roots
    BY <1>1, HeapAssumption DEF Roots, HeapTypes
  <2>4. /\ phase = "running" => ClassesStay
        /\ phase = "freed" =>
             /\ sweeping = Allocated /\ task = <<>> /\ tempRoots = <<>>
             /\ stack = {} /\ modules = {} /\ handles = {}
    BY <2>1 DEF Safe
  <2>5. Allocated' = Allocated \ {x}
    BY <1>3 DEF Allocated
  <2>6. NothingInUseIsFreed'
    <3>1. ASSUME NEW o \in Kept PROVE {o} \cup links'[o] \subseteq Allocated'
      <4>1. links'[o] = links[o] /\ o \in Objects
        BY <1>1, <2>2, KeptClosed DEF CodeInv, Runs
      <4>2. CASE kind[o] = "foreign"
        <5>1. phase = "running"
          <6>1. phase = "freed" => Kept \subseteq {}
            BY <2>1, <2>2 DEF Safe
          <6> QED BY <1>1, <3>1, <6>1
        <5>2. links[o] \subseteq stack
          BY <2>4, <4>1, <4>2, <5>1 DEF ClassesStay
        <5> QED BY <2>2, <2>3, <2>5, <3>1, <4>1, <5>2
      <4>3. CASE kind[o] # "foreign"
        <5>1. links[o] \subseteq Kept
          BY <1>1, <3>1, <4>3, KeptClosed DEF CodeInv, Runs, Blackened
        <5> QED BY <2>2, <2>5, <3>1, <4>1, <5>1
      <4> QED BY <4>2, <4>3
    <3> QED BY <2>2, <3>1 DEF NothingInUseIsFreed, Kept
  <2>7. phase = "running" => ClassesStay'
    <3> SUFFICES ASSUME phase = "running",
                        NEW o \in Objects, kind'[o] = "foreign", NEW c \in links'[o]
                 PROVE  c \in stack' /\ kind'[c] = "foreignClass"
      BY DEF ClassesStay
    <3>1. o # x /\ kind[o] = "foreign" /\ c \in links[o]
      BY <1>5
    <3>2. c \in stack /\ kind[c] = "foreignClass"
      BY <2>4, <3>1 DEF ClassesStay
    <3> QED BY <1>6, <2>2, <2>3, <3>2
  <2>8. ClassesLast'
    <3> SUFFICES ASSUME NEW a \in DOMAIN heap', kind'[heap'[a]] = "foreign",
                        NEW c \in links'[heap'[a]]
                 PROVE  \E b \in DOMAIN heap' : a < b /\ heap'[b] = c
      BY DEF ClassesLast
    <3>1. PICK j \in 1 .. Len(heap) :
            heap'[a] = heap[j] /\ j # i /\ ((j = a /\ a < i) \/ (j = a + 1 /\ a >= i))
      <4>1. CASE a < i
        BY <1>2, <1>3, <4>1
      <4>2. CASE a >= i
        BY <1>2, <1>3, <4>2
      <4> QED BY <1>2, <1>3, <4>1, <4>2
    <3>2. heap[j] \in Objects /\ heap[j] # x
      BY <1>1, <1>2, <1>3, <3>1 DEF HeapTypes, IsInjective
    <3>3. kind[heap[j]] = "foreign" /\ c \in links[heap[j]]
      BY <1>5, <3>1, <3>2
    <3>4. PICK l \in 1 .. Len(heap) : j < l /\ heap[l] = c
      BY <1>3, <2>1, <3>3 DEF Safe, ClassesLast
    <3>5. l # i
      <4>1. CASE phase = "running"
        <5>1. c \in stack
          BY <2>4, <3>2, <3>3, <4>1 DEF ClassesStay
        <5> QED BY <2>2, <2>3, <3>4, <5>1
      <4>2. CASE phase = "freed"
        <5>1. heap[1] \in sweeping
          BY <1>2, <1>3, <2>4, <4>2 DEF Allocated, ToSet
        <5>2. i = 1
          BY <1>2, <1>3, <5>1 DEF SweepComesTo
        <5> QED BY <3>4, <5>2
      <4> QED BY <1>1, <4>1, <4>2
    <3>6. CASE l < i
      BY <1>2, <1>3, <3>1, <3>4, <3>6
    <3>7. CASE l > i
      <4>1. l - 1 \in 1 .. Len(heap) - 1 /\ a < l - 1 /\ ~(l - 1 < i) /\ (l - 1) + 1 = l
        BY <1>2, <1>3, <3>1, <3>4, <3>7
      <4>2. heap'[l - 1] = c
        BY <1>3, <3>4, <4>1
      <4> QED BY <1>3, <4>1, <4>2
    <3> QED BY <1>2, <1>3, <3>4, <3>5, <3>6, <3>7
  <2>9. sweeping' \cap Kept' = {}
    BY <1>2, <2>1, <2>2 DEF Safe
  <2>10. phase' = "freed" =>
           /\ sweeping' = Allocated' /\ task' = <<>> /\ tempRoots' = <<>>
           /\ stack' = {} /\ modules' = {} /\ handles' = {}
    BY <1>2, <1>6, <2>4, <2>5
  <2> QED BY <1>6, <2>6, <2>7, <2>8, <2>9, <2>10 DEF Safe
<1> QED BY <1>1, <1>6, <1>7, <1>9, <1>10 DEF HeapInv

-----------------------------------------------------------------------------
(***************************************************************************)
(* All steps.                                                              *)
(***************************************************************************)
LEMMA HeapInvInit == Init => HeapInv
<1> SUFFICES ASSUME Init PROVE HeapInv
  OBVIOUS
<1>1. /\ <<>> \in Seq(Objects) /\ <<>> \in Seq(Objects \cup {None}) /\ DOMAIN <<>> = {}
      /\ Len(<<>>) = 0
  OBVIOUS
<1>2. HeapTypes
  BY <1>1, KindNames DEF Init, HeapTypes, IsInjective
<1>3. RegistersInUse(task) = {}
  BY DEF Init, RegistersInUse
<1>4. CodeInv
  <2> DEFINE p == View(<<>>, {}, {}, {}, {}, {})
  <2>1. p \in Views /\ p.temps = <<>>
    BY Temps DEF View, Views
  <2>2. Runs(<<>>, p, p)
    BY <1>1, <2>1, NothingRuns
  <2>3. Fits(p)
    BY <1>1, <1>3, <2>1 DEF Fits, Init
  <2> QED BY <2>1, <2>2, <2>3 DEF CodeInv, Init
<1>5. Safe
  <2>1. ToSet(<<>>) = {}
    BY <1>1 DEF ToSet
  <2>2. Roots \cup InUse = {}
    BY <1>3, <2>1 DEF Init, Roots, InUse, InRegisters
  <2>3. Kept = {}
    BY <1>2, <2>2 DEF Kept, Marked
  <2> QED BY <1>1, <2>3 DEF Init, Safe, NothingInUseIsFreed, Kept, ClassesStay, ClassesLast
<1> QED BY <1>2, <1>4, <1>5 DEF HeapInv, Init

LEMMA HeapInvNext == HeapInv /\ [Next]_vars => HeapInv'
<1> SUFFICES ASSUME HeapInv, [Next]_vars PROVE HeapInv'
  OBVIOUS
<1>0. /\ HeapTypes /\ CodeInv /\ (Disciplined => Safe)
      /\ <<>> \in Seq(Registers) /\ task \in Seq(Steps)
  BY Temps DEF HeapInv, CodeInv, Runs
<1> DEFINE Plain(U) == View(<<>>, {}, {}, {}, {}, U)
<1>1. ASSUME NEW U, NEW args, \A r \in DOMAIN args : args[r] = None
      PROVE  Suits(args, Plain(U))
  BY <1>1 DEF Suits, View
<1>2. /\ stack \subseteq Kept
      /\ Disciplined => \A o \in stack : kind[o] # "foreign" => links[o] \subseteq Kept
  <2>1. stack \subseteq Roots
    BY <1>0, HeapAssumption DEF Roots, HeapTypes
  <2> QED BY <1>0, <2>1, KeptClosed DEF Blackened
<1>3. CASE NewString \/ NewList
  <2>1. CASE NewString
    <3>1. Suits([value |-> None], Plain({"value"}))
      BY <1>1
    <3> QED BY <2>1, <3>1, ObjectsRun, StartInv DEF NewString, View
  <2>2. CASE NewList
    <3>1. Suits([list |-> None], Plain({"list"}))
      BY <1>1
    <3> QED BY <2>2, <3>1, ObjectsRun, StartInv DEF NewList, View
  <2> QED BY <1>3, <2>1, <2>2
<1>4. CASE Import
  <2> DEFINE args == [name |-> None]
  <2>1. \A U : Suits(args, Plain(U))
    BY <1>1
  <2>2. CASE Start(ImportCode, args)
    BY <2>1, <2>2, ImportsRun, StartInv
  <2>3. ASSUME NEW found \in BOOLEAN, Start(ImportFailsCode(found), args) PROVE HeapInv'
    BY <2>1, <2>3, ImportsRun, StartInv
  <2> QED BY <1>4, <2>2, <2>3 DEF Import
<1>5. ASSUME NEW c \in Objects, Construct(c) PROVE HeapInv'
  <2> DEFINE k == IF kind[c] = "class" THEN "instance" ELSE "foreign"
             args == [class |-> c]
             F == IF kind[c] = "class" THEN {} ELSE {"object"}
             C == IF kind[c] = "class" THEN {} ELSE {"class"}
             p == View(<<>>, {}, {}, {}, C, {"class", "object"})
             q == View(<<>>, {}, {}, F, {}, {})
  <2>1. c \in stack /\ kind[c] \in {"class", "foreignClass"} /\ Start(ConstructCode(k), args)
    BY <1>5 DEF Construct, IsClass
  <2>2. Runs(ConstructCode(k), p, q)
    <3>1. /\ k \in {"instance", "foreign"} /\ F \in SUBSET {"object"} /\ C \in SUBSET {"class"}
          /\ k = "foreign" => F = {"object"} /\ C = {"class"}
      OBVIOUS
    <3> HIDE DEF k, F, C
    <3> QED BY <3>1, ConstructRuns
  <2>3. Suits(args, p)
    <3>1. /\ DOMAIN args = {"class"} /\ args["class"] = c
          /\ p.temps = <<>> /\ p.loose = {} /\ p.made = {} /\ p.foreign = {} /\ p.classes = C
      BY DEF View
    <3>2. Describes(p, "class", c)
      BY <2>1, <3>1 DEF Describes
    <3> HIDE DEF p, args
    <3> QED BY <1>2, <1>5, <2>1, <3>1, <3>2 DEF Suits
  <2>4. q.temps = <<>>
    BY DEF View
  <2> QED BY <2>1, <2>2, <2>3, <2>4, StartInv
<1>6. ASSUME NEW o \in Objects, MakeHandle(o) PROVE HeapInv'
  <2> DEFINE args == [value |-> o]
             p == View(<<>>, {}, {"value"}, {"value"}, {}, {"value"})
             q == View(<<>>, {}, {}, {"value"}, {}, {})
  <2>1. o \in stack /\ Start(MakeHandleCode, args)
    BY <1>6 DEF MakeHandle
  <2>2. Runs(MakeHandleCode, p, q) /\ q.temps = <<>>
    BY ElementsRun DEF View
  <2>3. Suits(args, p)
    <3>1. /\ DOMAIN args = {"value"} /\ args["value"] = o /\ p.temps = <<>>
          /\ p.loose = {} /\ p.made = {"value"} /\ p.foreign = {"value"} /\ p.classes = {}
      BY DEF View
    <3>2. Describes(p, "value", o)
      BY <2>1, <3>1 DEF Describes
    <3> HIDE DEF p, args
    <3> QED BY <1>2, <1>6, <2>1, <3>1, <3>2, HeapAssumption DEF Suits
  <2> QED BY <2>1, <2>2, <2>3, StartInv
<1>7. ASSUME NEW l \in Objects, NEW o \in Objects, ListInsert(l, o) PROVE HeapInv'
  <2> DEFINE args == [list |-> l, value |-> o]
             p == View(<<>>, {}, {}, {}, {}, {"list", "value"})
             q == View(<<>>, {}, {}, {}, {}, {})
  <2>1. /\ {l, o} \subseteq stack /\ kind[l] = "list" /\ kind[o] = "string"
        /\ Start(ListInsertCode, args)
    BY <1>7 DEF ListInsert
  <2>2. Runs(ListInsertCode, p, q) /\ q.temps = <<>>
    BY ElementsRun DEF View
  <2>3. Suits(args, p)
    <3>1. /\ DOMAIN args = {"list", "value"} /\ args["list"] = l /\ args["value"] = o
          /\ p.temps = <<>>
          /\ p.loose = {} /\ p.made = {} /\ p.foreign = {} /\ p.classes = {}
      BY DEF View
    <3>2. Describes(p, "list", l) /\ Describes(p, "value", o)
      BY <2>1, <3>1 DEF Describes
    <3> HIDE DEF p, args
    <3> QED BY <1>2, <1>7, <2>1, <3>1, <3>2 DEF Suits
  <2> QED BY <2>1, <2>2, <2>3, StartInv
<1>8. ASSUME NEW l \in Objects, NEW o \in Objects, ListRemove(l, o) PROVE HeapInv'
  <2> DEFINE args == [list |-> l, value |-> o]
             p == View(<<>>, {"value"}, {"value"}, {"value"}, {}, {"list", "value"})
             q == View(<<>>, {}, {}, {"value"}, {}, {})
  <2>1. /\ l \in stack /\ kind[l] = "list" /\ o \in links[l]
        /\ Start(ListRemoveCode, args)
    BY <1>8 DEF ListRemove
  <2>2. Runs(ListRemoveCode, p, q) /\ q.temps = <<>>
    BY ElementsRun DEF View
  <2>3. Suits(args, p)
    <3>1. /\ DOMAIN args = {"list", "value"} /\ args["list"] = l /\ args["value"] = o
          /\ p.temps = <<>> /\ p.loose = {"value"} /\ p.made = {"value"}
          /\ p.foreign = {"value"} /\ p.classes = {}
      BY DEF View
    <3>2. Describes(p, "list", l) /\ Describes(p, "value", o)
      BY <2>1, <3>1 DEF Describes
    <3>3. Disciplined => {l, o} \subseteq Kept
      BY <1>2, <2>1
    <3> HIDE DEF p, args
    <3> QED BY <1>8, <3>1, <3>2, <3>3, HeapAssumption DEF Suits
  <2> QED BY <2>1, <2>2, <2>3, StartInv
<1>9. ASSUME NEW s \in Objects \cup {None}, NEW k \in {"class", "foreignClass"},
             CreateClass(s, k)
      PROVE  HeapInv'
  <2> DEFINE args == [superclass |-> s]
             U == {"superclass", "metaclassName", "metaclass", "name", "class"}
  <2>1. /\ s # None => s \in stack /\ kind[s] = "class"
        /\ Start(CreateClassCode(k), args)
    BY <1>9 DEF CreateClass
  <2>2. Suits(args, Plain(U))
    <3> DEFINE p == Plain(U)
    <3>1. /\ DOMAIN args = {"superclass"} /\ args["superclass"] = s
          /\ p.temps = <<>>
          /\ p.loose = {} /\ p.made = {} /\ p.foreign = {} /\ p.classes = {}
      BY DEF View
    <3>2. s # None => Describes(p, "superclass", s)
      BY <2>1, <3>1 DEF Describes
    <3> HIDE DEF p, args
    <3>3. Suits(args, p)
      BY <1>2, <2>1, <3>1, <3>2 DEF Suits
    <3> QED BY <3>3 DEF p
  <2>3. PICK q : Runs(CreateClassCode(k), Plain(U), q) /\ q.temps = <<>>
    BY ClassesRun
  <2> HIDE DEF args, U, Plain
  <2> QED BY <2>1, <2>2, <2>3, StartInv
<1>10. CASE Execute
  BY <1>10, ExecuteInv
<1>11. CASE Collect \/ Free \/ FreeVM
  BY <1>11, CollectInv, FreeInv, FreeVMInv
<1>12. ASSUME NEW o \in Objects, ReleaseHandle(o) PROVE HeapInv'
  BY <1>12, GiveUpInv DEF ReleaseHandle, Idle, objects
<1>13. ASSUME NEW o \in Objects, Drop(o) PROVE HeapInv'
  <2>1. Disciplined => \A c \in stack : kind[c] = "foreignClass" => c \in stack'
    BY <1>13 DEF Drop, Disciplined
  <2> QED BY <1>13, <2>1, GiveUpInv DEF Drop, Idle, objects
<1>14. CASE UNCHANGED vars
  <2>1. UNCHANGED <<heap, kind, links, stack, modules, handles, tempRoots, task, register,
                    sweeping, phase>>
    BY <1>14 DEF vars, objects, roots
  <2>2. HeapTypes'
    BY <1>0, <2>1 DEF HeapTypes
  <2>3. CodeInv'
    BY <1>0, <2>1 DEF CodeInv, Fits, Describes
  <2>4. Roots' = Roots /\ InUse' = InUse /\ Allocated' = Allocated
    BY <2>1 DEF Roots, InUse, InRegisters, Allocated
  <2>5. Kept' = Kept
    BY <2>1, <2>4 DEF Kept, Marked, Blackened
  <2>6. Safe => Safe'
    <3>1. NothingInUseIsFreed <=> \A o \in Kept : {o} \cup links[o] \subseteq Allocated
      BY DEF NothingInUseIsFreed, Kept
    <3>2. NothingInUseIsFreed' <=> \A o \in Kept' : {o} \cup links'[o] \subseteq Allocated'
      BY DEF NothingInUseIsFreed, Kept
    <3>3. (ClassesStay => ClassesStay') /\ (ClassesLast => ClassesLast')
      BY <2>1 DEF ClassesStay, ClassesLast
    <3> QED BY <2>1, <2>4, <2>5, <3>1, <3>2, <3>3 DEF Safe
  <2> QED BY <1>0, <2>1, <2>2, <2>3, <2>6 DEF HeapInv
<1>15. CASE Ended
  BY <1>14, <1>15 DEF Ended
<1> QED BY <1>3, <1>4, <1>5, <1>6, <1>7, <1>8, <1>9, <1>10, <1>11, <1>12, <1>13, <1>14, <1>15
        DEF Next

(* The invariant: what a running function has still to do, it can do, and  *)
(* what it will use is kept (wrenCollectGarbage, wrenFreeObj).             *)
THEOREM HeapInvariant == Spec => []HeapInv
BY HeapInvInit, HeapInvNext, PTL DEF Spec

(* Each C function has released the temporary roots it pushed, on its      *)
(* error paths too (wrenPushRoot, wrenPopRoot; importModule).              *)
THEOREM TempRootsBalancedAlways == Spec => []TempRootsBalanced
<1>1. HeapInv => TempRootsBalanced
  BY IdleRoots DEF HeapInv, TempRootsBalanced
<1> QED BY <1>1, HeapInvariant, PTL

(* No C function of WrenHeap needs more than two temporary roots, so that  *)
(* of WREN_MAX_TEMP_ROOTS (wren_vm.h) three are to spare for the compiler, *)
(* which WrenHeap leaves out; wrenPushRoot only asserts that there is room.*)
THEOREM TwoTempRootsSuffice == Spec => [](Len(tempRoots) <= 2)
<1>1. ASSUME HeapInv PROVE Len(tempRoots) <= 2
  BY <1>1 DEF HeapInv, CodeInv, Fits, Runs
<1> QED BY <1>1, HeapInvariant, PTL

(* The heap is what TypeOK says of it: each object is listed once, and     *)
(* vm->tempRoots never overflows.                                          *)
THEOREM HeapTypeCorrect == ASSUME MaxTempRoots >= 2 PROVE Spec => []TypeOK
<1>1. HeapInv /\ Len(tempRoots) <= 2 => TypeOK
  <2> SUFFICES ASSUME HeapInv, Len(tempRoots) <= 2 PROVE TypeOK
    OBVIOUS
  <2>1. HeapTypes
    BY DEF HeapInv
  <2>2. Len(tempRoots) \in Nat
    BY <2>1 DEF HeapTypes
  <2>3. Len(tempRoots) <= MaxTempRoots
    BY <2>2, HeapAssumption
  <2> QED BY <2>1, <2>3 DEF TypeOK, HeapTypes
<1> QED BY <1>1, HeapInvariant, TwoTempRootsSuffice, PTL

(* wrenCollectGarbage frees nothing that Wren code, the host or the        *)
(* running C function uses again, at whichever of its allocations it runs. *)
THEOREM NothingInUseIsFreedAlways ==
  ASSUME KeepsClasses, ~ModulesGrow PROVE Spec => []NothingInUseIsFreed
<1>1. HeapInv => NothingInUseIsFreed
  BY DEF HeapInv, Disciplined, Safe
<1> QED BY <1>1, HeapInvariant, PTL

(* wrenFinalizeForeign finds the class of each foreign object, in a        *)
(* collection and in wrenFreeVM: the class comes later in the list.        *)
THEOREM FinalizerFindsClassAlways ==
  ASSUME KeepsClasses, ~ModulesGrow PROVE Spec => []FinalizerFindsClass
<1>1. HeapInv => FinalizerFindsClass
  <2> SUFFICES ASSUME ClassesLast PROVE FinalizerFindsClass
    BY DEF HeapInv, Disciplined, Safe
  <2> QED BY DEF ClassesLast, FinalizerFindsClass, Allocated, ToSet
<1> QED BY <1>1, HeapInvariant, PTL

=============================================================================
