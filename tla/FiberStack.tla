----------------------------- MODULE FiberStack -----------------------------
(***************************************************************************)
(* What fibers promise to a program that does not transfer: the fibers     *)
(* that are under way form a stack.  The host starts the bottom one, a     *)
(* call or try pushes, a yield or the end of a fiber pops, and an error    *)
(* pops everything down to the nearest fiber that was run with try().      *)
(***************************************************************************)
EXTENDS Naturals, Sequences

CONSTANT Fibers

VARIABLES
  stack,   (* The fibers under way, the running one last.                  *)
  phase,   (* Where each fiber is in its life.                             *)
  tried    (* The fibers of the stack that were run with try().            *)

vars == <<stack, phase, tried>>

TypeOK ==
  /\ stack \in Seq(Fibers)
  /\ phase \in [Fibers -> {"none", "idle", "active", "suspended", "done", "aborted"}]
  /\ tried \in SUBSET Fibers

Init ==
  /\ stack = << >>
  /\ phase = [f \in Fibers |-> "none"]
  /\ tried = {}

Members == {stack[i] : i \in DOMAIN stack}
Top == stack[Len(stack)]
Below == SubSeq(stack, 1, Len(stack) - 1)

(* The phases after every fiber of fs got to phase p. *)
Moved(fs, p) == [f \in Fibers |-> IF f \in fs THEN p ELSE phase[f]]

(* The host starts a new fiber, or runs another function on a finished one. *)
Start(f) ==
  /\ stack = << >> /\ phase[f] \in {"none", "done"}
  /\ stack' = <<f>> /\ phase' = Moved({f}, "active")
  /\ UNCHANGED tried

New(f) ==
  /\ stack # << >> /\ phase[f] = "none"
  /\ phase' = Moved({f}, "idle")
  /\ UNCHANGED <<stack, tried>>

(* The running fiber calls an idle one, or tries it. *)
Run(f, isTry) ==
  /\ stack # << >> /\ phase[f] = "idle"
  /\ stack' = Append(stack, f) /\ phase' = Moved({f}, "active")
  /\ tried' = IF isTry THEN tried \cup {f} ELSE tried

(* The running fiber gives control back, to be idle or done. *)
Leave(p) ==
  /\ stack # << >>
  /\ stack' = Below /\ phase' = Moved({Top}, p)
  /\ tried' = tried \ {Top}

(* The host gets control; the stack never runs again. *)
Suspend ==
  /\ stack # << >>
  /\ stack' = << >> /\ phase' = Moved(Members, "suspended")
  /\ tried' = {}

(* An error in the running fiber, caught at position k: 0 is the host. *)
Abort ==
  \E k \in 0 .. Len(stack) :
    /\ stack # << >>
    /\ k > 0 => stack[k] \in tried
    /\ \A i \in k + 1 .. Len(stack) : stack[i] \notin tried
    /\ LET popped == {stack[i] : i \in (k .. Len(stack)) \ {0}}
       IN phase' = Moved(popped, "aborted") /\ tried' = tried \ popped
    /\ stack' = SubSeq(stack, 1, k - 1)

Next ==
  \/ \E f \in Fibers : \/ Start(f) \/ New(f)
                       \/ \E isTry \in BOOLEAN : Run(f, isTry)
  \/ \E p \in {"idle", "done"} : Leave(p)
  \/ Suspend \/ Abort

Spec == Init /\ [][Next]_vars

=============================================================================
