--------------------------- MODULE WrenFibersStack ---------------------------
(***************************************************************************)
(* Without transfers, the fibers of the VM implement FiberStack: the stack *)
(* is the chain of callers of the running fiber.                           *)
(***************************************************************************)
EXTENDS WrenFibers, Sequences

(* The running fiber, its caller, its caller's caller, ... *)
CallerAt[n \in 1 .. Cardinality(Fibers) + 1] ==
  IF n = 1 THEN (IF status = "running" THEN fiber ELSE NoFiber)
  ELSE IF CallerAt[n - 1] = NoFiber THEN NoFiber ELSE caller[CallerAt[n - 1]]

Depth == Cardinality({n \in DOMAIN CallerAt : CallerAt[n] # NoFiber})

ChainOfCallers == [i \in 1 .. Depth |-> CallerAt[Depth + 1 - i]]

InChain == {ChainOfCallers[i] : i \in 1 .. Depth}

PhaseOf(f) ==
  IF f \in InChain THEN "active"
  ELSE IF hasError[f] THEN "aborted"
  ELSE IF f \notin known THEN "none"
  ELSE IF numFrames[f] = 0 THEN "done"
  ELSE IF caller[f] # NoFiber \/ state[f] = "root" THEN "suspended"
  ELSE "idle"

Coroutines ==
  INSTANCE FiberStack WITH
    stack <- ChainOfCallers,
    phase <- [f \in Fibers |-> PhaseOf(f)],
    tried <- {f \in InChain : state[f] = "try"}

(* call(), try(), yield(), errors and the host treat the fibers as a stack, *)
(* and an error reaches the nearest try() and nothing below it.             *)
ImplementsFiberStack == Coroutines!Spec

(* The callers form a chain: no two live fibers will resume the same one,  *)
(* every fiber that is awaited leads to the fiber that runInterpreter()    *)
(* started, and none is in the chain twice.  runtimeError and the ends of  *)
(* fibers walk along it.                                                   *)
CallersFormChain ==
  OneCalleeEach /\ ChainEndsAtRoot /\ Cardinality(InChain) = Depth

=============================================================================
