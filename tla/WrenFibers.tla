----------------------------- MODULE WrenFibers -----------------------------
(***************************************************************************)
(* The fibers of the Wren VM (wren_core.c, wren_vm.c) and the part of the  *)
(* embedding API that starts and stops the interpreter.                    *)
(*                                                                         *)
(* The VM runs one fiber at a time: vm->fiber.  Wren code on that fiber    *)
(* calls, tries, transfers to, yields from or aborts fibers; the host      *)
(* enters the interpreter with wrenInterpret and wrenCall and gets control *)
(* back when vm->fiber becomes NULL or when a fiber that nobody waits for  *)
(* returns.                                                                *)
(*                                                                         *)
(* Abstracted: the values that fibers pass to each other, the text of an   *)
(* error (only whether a fiber has one), bytecode other than the           *)
(* operations below, and the stack contents (only the number of call       *)
(* frames and whether a frame's slots are where the compiler expects       *)
(* them).  Reading a call frame that does not exist is undefined           *)
(* behaviour: it ends the modelled part of the run (status "undefined").   *)
(***************************************************************************)
EXTENDS Naturals, FiniteSets

CONSTANTS
  Fibers,      (* The fiber objects the run may allocate.                  *)
  NoFiber,     (* NULL.                                                    *)
  MaxFrames,   (* Bound on the call frames of one fiber.                   *)
  Transfers,   (* Whether Wren code uses transfer() and transferError().   *)
  MixedEntry   (* Whether the host calls wrenInterpret() while the slots   *)
               (* of an earlier wrenCall() are still there.                *)

ASSUME FibersAssumption == NoFiber \notin Fibers
ASSUME FramesAssumption == MaxFrames \in Nat \ {0}
ASSUME UsageAssumption  == Transfers \in BOOLEAN /\ MixedEntry \in BOOLEAN

VARIABLES
  fiber,       (* vm->fiber                                                *)
  apiStack,    (* The fiber whose stack vm->apiStack points into, or NULL. *)
  status,      (* Who has control: the host, the interpreter, nobody.      *)
  entry,       (* The API function that last entered the interpreter.      *)
  result,      (* What that function returned.                             *)
  known,       (* Fibers that Wren code can have a reference to.           *)
  numFrames,   (* ObjFiber.numFrames                                       *)
  caller,      (* ObjFiber.caller                                          *)
  hasError,    (* wrenHasError(fiber): ObjFiber.error is not null.         *)
  state,       (* ObjFiber.state                                           *)
  shifted      (* The frames of a fiber that hold one slot too many.       *)

fiberVars == <<numFrames, caller, hasError, state, shifted>>
vars == <<fiber, apiStack, status, entry, result, known, fiberVars>>

Status == {"host", "running", "undefined"}
Result == {"none", "success", "compileError", "runtimeError"}

(* FIBER_TRY, FIBER_ROOT and FIBER_OTHER. *)
FiberState == {"try", "root", "other"}

TypeOK ==
  /\ fiber \in Fibers \cup {NoFiber}
  /\ apiStack \in Fibers \cup {NoFiber}
  /\ status \in Status
  /\ entry \in {"none", "interpret", "call"}
  /\ result \in Result
  /\ known \in SUBSET Fibers
  /\ numFrames \in [Fibers -> 0 .. MaxFrames]
  /\ caller \in [Fibers -> Fibers \cup {NoFiber}]
  /\ hasError \in [Fibers -> BOOLEAN]
  /\ state \in [Fibers -> FiberState]
  /\ shifted \in [Fibers -> SUBSET (1 .. MaxFrames)]
  /\ status = "running" => fiber # NoFiber

Init ==
  /\ fiber = NoFiber /\ apiStack = NoFiber
  /\ status = "host" /\ entry = "none" /\ result = "none"
  /\ known = {}
  /\ numFrames = [f \in Fibers |-> 0]
  /\ caller = [f \in Fibers |-> NoFiber]
  /\ hasError = [f \in Fibers |-> FALSE]
  /\ state = [f \in Fibers |-> "other"]
  /\ shifted = [f \in Fibers |-> {}]

(* Fiber objects that have not been allocated yet. *)
Fresh == Fibers \ (known \cup {fiber, apiStack})

-----------------------------------------------------------------------------
(***************************************************************************)
(* Leaving and re-entering the interpreter loop.                           *)
(***************************************************************************)

(* Mutation: the loop does not stop when there is no fiber to switch to.   *)
ReturnToHostGoesOn(res, next, slots) ==
  /\ status' = IF next = NoFiber THEN "running" ELSE "host"
  /\ result' = res
  /\ fiber' = next
  /\ apiStack' = IF entry = "call" /\ next # NoFiber THEN next ELSE slots
  /\ UNCHANGED entry

(* The interpreter returns res to the host; next is the new vm->fiber and  *)
(* slots the new vm->apiStack, before wrenCall's own last assignment.      *)
ReturnToHost(res, next, slots) ==
  /\ status' = "host"
  /\ result' = res
  /\ fiber' = next
  /\ apiStack' = IF entry = "call" /\ next # NoFiber THEN next ELSE slots
  /\ UNCHANGED entry

(* LOAD_FRAME: go on with the topmost call frame of f, which has frames.   *)
LoadFrame(f, frames) ==
  /\ fiber' = f
  /\ status' = IF f # NoFiber /\ frames > 0 THEN "running" ELSE "undefined"
  /\ UNCHANGED <<result, entry>>

(* Mutation: try() does not stop the walk.                                 *)
ReachedThroughTry(cur, callers, states) ==
  LET Closed(S) == \A f \in S : callers[f] # NoFiber => callers[f] \in S
  IN {f \in Fibers : \A S \in SUBSET Fibers : cur \in S /\ Closed(S) => f \in S}

(* The fibers that an error of cur reaches: cur, and the caller of each    *)
(* reached fiber that was not run with try().  A fiber met a second time   *)
(* has been unhooked already, so the walk ends there.                      *)
Reached(cur, callers, states) ==
  LET Closed(S) == \A f \in S : states[f] # "try" /\ callers[f] # NoFiber
                                  => callers[f] \in S
  IN {f \in Fibers : \A S \in SUBSET Fibers : cur \in S /\ Closed(S) => f \in S}

(* Mutation: the aborted fibers stay hooked to each other.                 *)
UnhookedNothing(callers, fs) == callers

(* runtimeError unhooks the callers of the fibers it aborts for good.      *)
Unhooked(callers, fs) == [f \in Fibers |-> IF f \in fs THEN NoFiber ELSE callers[f]]

(* runtimeError: abort cur and its callers up to the first one that was    *)
(* run with try(), whose caller gets control; without one, stop the        *)
(* interpreter.  The other arguments are the fields of the fibers and the  *)
(* API slots at the moment of the error.                                   *)
RuntimeError(cur, callers, errors, states, slots) ==
  LET aborted == Reached(cur, callers, states)
      tried   == {f \in aborted : states[f] = "try"}
  IN /\ hasError' = [f \in Fibers |-> errors[f] \/ f \in aborted]
     /\ caller' = Unhooked(callers, aborted \ tried)
     /\ state' = states
     /\ IF tried = {}
        THEN ReturnToHost("runtimeError", NoFiber, NoFiber)
        ELSE /\ \E f \in tried :
                  LoadFrame(callers[f], IF callers[f] \in Fibers
                                        THEN numFrames[callers[f]] ELSE 0)
             /\ apiStack' = slots

(* completeCall, after a primitive that returned false with next as        *)
(* vm->fiber.                                                              *)
SwitchTo(next, callers, errors, states) ==
  IF errors[next]
  THEN RuntimeError(next, callers, errors, states, apiStack)
  ELSE /\ caller' = callers /\ hasError' = errors /\ state' = states
       /\ LoadFrame(next, numFrames[next])
       /\ UNCHANGED apiStack

-----------------------------------------------------------------------------
(***************************************************************************)
(* Wren code on the current fiber.                                         *)
(***************************************************************************)

(* Fiber.new(fn): a fiber with one call frame, at its first instruction.   *)
FiberNew(f) ==
  /\ status = "running"
  /\ f \in Fresh
  /\ known' = known \cup {f}
  /\ numFrames' = [numFrames EXCEPT ![f] = 1]
  /\ UNCHANGED <<fiber, apiStack, status, entry, result,
                 caller, hasError, state, shifted>>

(* A call to a Wren method or function pushes a call frame.                *)
CallFunction ==
  /\ status = "running"
  /\ numFrames[fiber] < MaxFrames
  /\ numFrames' = [numFrames EXCEPT ![fiber] = @ + 1]
  /\ UNCHANGED <<fiber, apiStack, status, entry, result, known,
                 caller, hasError, state, shifted>>

(* Mutations of the checks of runFiber: a root, a called or a finished      *)
(* fiber gets past them.                                                   *)
ReachableRoot(f, isCall) == ~hasError[f] /\ (isCall => caller[f] = NoFiber)
ReachableCalled(f, isCall) == ~hasError[f] /\ (isCall => state[f] # "root")
CanRunFinished(f, isCall) ==
  /\ ~hasError[f]
  /\ isCall => caller[f] = NoFiber /\ state[f] # "root"

(* runFiber gets past the checks that concern the way f was run before ... *)
Reachable(f, isCall) ==
  /\ ~hasError[f]
  /\ isCall => caller[f] = NoFiber /\ state[f] # "root"

(* ... and f has something left to run.                                    *)
CanRun(f, isCall) == Reachable(f, isCall) /\ numFrames[f] > 0

(* The caller links after runFiber: a called fiber remembers who ran it,   *)
(* before runFiber notices that it is finished.                            *)
CallersAfterRun(f, isCall) ==
  IF isCall /\ Reachable(f, isCall) THEN [caller EXCEPT ![f] = fiber] ELSE caller

(* runFiber reported an error: the current fiber aborts.                   *)
RunFiberFails(f, isCall) ==
  /\ ~CanRun(f, isCall)
  /\ RuntimeError(fiber, CallersAfterRun(f, isCall),
                  [hasError EXCEPT ![fiber] = TRUE], state, apiStack)
  /\ UNCHANGED <<known, numFrames, shifted>>

(* fiber.call() and fiber.call(value)                                      *)
FiberCall(f) ==
  /\ status = "running" /\ f \in known
  /\ \/ /\ CanRun(f, TRUE)
        /\ SwitchTo(f, CallersAfterRun(f, TRUE), hasError, state)
        /\ UNCHANGED <<known, numFrames, shifted>>
     \/ RunFiberFails(f, TRUE)

(* fiber.try()                                                             *)
FiberTry(f) ==
  /\ status = "running" /\ f \in known
  /\ \/ /\ CanRun(f, TRUE)
        /\ SwitchTo(f, CallersAfterRun(f, TRUE), hasError,
                    [state EXCEPT ![f] = "try"])
        /\ UNCHANGED <<known, numFrames, shifted>>
     \/ RunFiberFails(f, TRUE)

(* fiber.transfer() and fiber.transfer(value)                              *)
FiberTransfer(f) ==
  /\ Transfers
  /\ status = "running" /\ f \in known
  /\ \/ /\ CanRun(f, FALSE)
        /\ SwitchTo(f, caller, hasError, state)
        /\ UNCHANGED <<known, numFrames, shifted>>
     \/ RunFiberFails(f, FALSE)

(* fiber.transferError(error): the error goes to whatever vm->fiber is     *)
(* after runFiber, over the error that runFiber itself may have reported.  *)
(* A null error then resumes the fiber that failed to transfer, with both  *)
(* arguments still on its stack.                                           *)
FiberTransferError(f, isNull) ==
  /\ Transfers
  /\ status = "running" /\ f \in known
  /\ LET target == IF CanRun(f, FALSE) THEN f ELSE fiber
     IN /\ SwitchTo(target, caller, [hasError EXCEPT ![target] = ~isNull], state)
        /\ shifted' = IF isNull /\ ~CanRun(f, FALSE)
                      THEN [shifted EXCEPT ![fiber] = @ \cup {numFrames[fiber]}]
                      ELSE shifted
  /\ UNCHANGED <<known, numFrames>>

(* Mutations: a yielding fiber keeps its caller, or its FIBER_TRY.          *)
CallersAfterYieldKept == caller
StatesAfterYieldKept == state

(* A yielding fiber is unhooked from the one that called it ...            *)
CallersAfterYield == [caller EXCEPT ![fiber] = NoFiber]

(* ... and forgets that it was run with try() or by the host.              *)
StatesAfterYield == [state EXCEPT ![fiber] = "other"]

(* The slots of the call stay behind when no caller takes the value.       *)
ShiftedAfterYield(hasValue) ==
  IF hasValue /\ caller[fiber] = NoFiber
  THEN [shifted EXCEPT ![fiber] = @ \cup {numFrames[fiber]}]
  ELSE shifted

(* Fiber.yield() and, hasValue, Fiber.yield(value): the second argument is *)
(* dropped only if there is a caller to take it.                           *)
FiberYield(hasValue) ==
  /\ status = "running"
  /\ IF caller[fiber] # NoFiber
     THEN SwitchTo(caller[fiber], CallersAfterYield, hasError, StatesAfterYield)
     ELSE /\ ReturnToHost("success", NoFiber, apiStack)
          /\ caller' = CallersAfterYield /\ state' = StatesAfterYield
          /\ UNCHANGED hasError
  /\ shifted' = ShiftedAfterYield(hasValue)
  /\ UNCHANGED <<known, numFrames>>

(* Fiber.suspend()                                                         *)
FiberSuspend ==
  /\ status = "running"
  /\ ReturnToHost("success", NoFiber, NoFiber)
  /\ UNCHANGED <<known, fiberVars>>

(* Fiber.abort(error) and every other runtime error of Wren code, such as  *)
(* a method that is not found.                                             *)
FiberAbort ==
  /\ status = "running"
  /\ RuntimeError(fiber, caller, [hasError EXCEPT ![fiber] = TRUE], state,
                  apiStack)
  /\ UNCHANGED <<known, numFrames, shifted>>

(* Fiber.abort(null) stores the null and goes on.                          *)
FiberAbortNull ==
  /\ status = "running"
  /\ hasError' = [hasError EXCEPT ![fiber] = FALSE]
  /\ UNCHANGED <<fiber, apiStack, status, entry, result, known,
                 numFrames, caller, state, shifted>>

(* Mutation: the error of a foreign method is not looked at.               *)
CallForeignUnchecked(aborts) ==
  /\ status = "running"
  /\ hasError' = [hasError EXCEPT ![fiber] = @ \/ aborts]
  /\ apiStack' = NoFiber
  /\ UNCHANGED <<fiber, status, entry, result, known,
                 numFrames, caller, state, shifted>>

(* A foreign method runs with the API slots on the fiber's own stack, and  *)
(* may abort the fiber (wrenAbortFiber).                                   *)
CallForeign(aborts) ==
  /\ status = "running"
  /\ \/ /\ aborts \/ hasError[fiber]
        /\ RuntimeError(fiber, caller, [hasError EXCEPT ![fiber] = TRUE], state,
                        NoFiber)
     \/ /\ ~aborts /\ ~hasError[fiber]
        /\ apiStack' = NoFiber
        /\ UNCHANGED <<fiber, status, entry, result, caller, hasError, state>>
  /\ UNCHANGED <<known, numFrames, shifted>>

(* CODE_RETURN: pop the frame.  A fiber that has no frame left gives the   *)
(* result, and control, to its caller, whatever became of that one; with   *)
(* no caller it stays vm->fiber and the interpreter returns.               *)
Return ==
  /\ status = "running"
  /\ LET left == numFrames[fiber] - 1
         next == caller[fiber]
     IN /\ numFrames' = [numFrames EXCEPT ![fiber] = left]
        /\ shifted' = [shifted EXCEPT ![fiber] = @ \ {left + 1}]
        /\ \/ /\ left > 0
              /\ UNCHANGED <<fiber, apiStack, status, entry, result, caller>>
           \/ /\ left = 0 /\ next = NoFiber
              /\ ReturnToHost("success", fiber, apiStack)
              /\ UNCHANGED caller
           \/ /\ left = 0 /\ next # NoFiber
              /\ caller' = [caller EXCEPT ![fiber] = NoFiber]
              /\ LoadFrame(next, IF next = fiber THEN left ELSE numFrames[next])
              /\ UNCHANGED apiStack
  /\ UNCHANGED <<known, hasError, state>>

-----------------------------------------------------------------------------
(***************************************************************************)
(* The host.                                                               *)
(***************************************************************************)

(* The host waits for the fiber it starts.                                 *)
StatesAfterStart(f) == [state EXCEPT ![f] = "root"]

(* runInterpreter(vm, f), on a fiber with one frame.                       *)
RunInterpreter(f, api) ==
  /\ fiber' = f
  /\ status' = "running" /\ entry' = api /\ result' = "none"
  /\ known' = known \cup {f}
  /\ numFrames' = [numFrames EXCEPT ![f] = 1]
  /\ state' = StatesAfterStart(f)
  /\ UNCHANGED <<caller, hasError>>

(* wrenInterpret: compile the source and run it on a new fiber.            *)
Interpret(f) ==
  /\ status = "host" /\ (MixedEntry \/ apiStack = NoFiber)
  /\ f \in Fresh
  /\ RunInterpreter(f, "interpret")
  /\ UNCHANGED <<apiStack, shifted>>

(* wrenInterpret of a source that does not compile.                        *)
InterpretFails ==
  /\ status = "host"
  /\ entry' = "interpret" /\ result' = "compileError"
  /\ UNCHANGED <<fiber, apiStack, status, known, fiberVars>>

(* wrenEnsureSlots, when there are no slots: on a new fiber.               *)
EnsureSlots(f) ==
  /\ status = "host" /\ apiStack = NoFiber
  /\ f \in Fresh
  /\ fiber' = f /\ apiStack' = f
  /\ UNCHANGED <<status, entry, result, known, fiberVars>>

(* wrenEnsureSlots, when vm->apiStack is not in the stack of vm->fiber:    *)
(* the difference of the two pointers means nothing.                       *)
EnsureStaleSlots ==
  /\ status = "host" /\ apiStack \notin {NoFiber, fiber}
  /\ status' = "undefined"
  /\ UNCHANGED <<fiber, apiStack, entry, result, known, fiberVars>>

(* Mutation: wrenCall keeps the API slots.                                 *)
SlotsDuringCallKept == apiStack

(* wrenCall gives up the API slots, so that foreign methods can have them. *)
SlotsDuringCall == NoFiber

(* wrenCall of a method handle, once its arguments are in the slots.       *)
Call ==
  /\ status = "host"
  /\ fiber # NoFiber /\ apiStack # NoFiber /\ numFrames[fiber] = 0
  /\ RunInterpreter(fiber, "call")
  /\ apiStack' = SlotsDuringCall
  /\ shifted' = [shifted EXCEPT ![fiber] = {}]

(* Nothing is known of a program after undefined behaviour.                *)
Undefined == status = "undefined" /\ UNCHANGED vars

-----------------------------------------------------------------------------
WrenCode ==
  \/ \E f \in Fibers : \/ FiberNew(f) \/ FiberCall(f) \/ FiberTry(f)
                       \/ FiberTransfer(f)
                       \/ \E isNull \in BOOLEAN : FiberTransferError(f, isNull)
  \/ \E hasValue \in BOOLEAN : FiberYield(hasValue)
  \/ \E aborts \in BOOLEAN : CallForeign(aborts)
  \/ CallFunction \/ Return \/ FiberSuspend \/ FiberAbort \/ FiberAbortNull

Host ==
  \/ \E f \in Fibers : Interpret(f) \/ EnsureSlots(f)
  \/ InterpretFails \/ EnsureStaleSlots \/ Call

Next == WrenCode \/ Host \/ Undefined

Spec == Init /\ [][Next]_vars

-----------------------------------------------------------------------------
(***************************************************************************)
(* Properties of every program, with or without transfers.                 *)
(***************************************************************************)

(* runtimeError hands the error of a tried fiber to current->caller        *)
(* without a NULL check: a fiber with FIBER_TRY that can still run has a   *)
(* caller, however it was transferred to and from in between.              *)
TryHasCaller ==
  \A f \in Fibers : state[f] = "try" /\ numFrames[f] > 0 => caller[f] # NoFiber

(* The fiber the host started is the end of its chain: no call, try or     *)
(* transfer ever gives it a caller while it counts as the root.            *)
RootHasNoCaller ==
  \A f \in Fibers : state[f] = "root" => caller[f] = NoFiber

(* An aborted fiber whose error nobody caught keeps no link into the chain *)
(* that was unwound with it.                                               *)
AbortedIsUnhooked ==
  \A f \in Fibers : hasError[f] /\ state[f] # "try" => caller[f] = NoFiber

(* The API slots are never left over from another fiber: the interpreter   *)
(* runs without any ("Cannot already be in foreign call." in callForeign), *)
(* and the host finds them in the stack of vm->fiber.                      *)
ApiStackInPlace ==
  /\ status = "running" => apiStack = NoFiber
  /\ status = "host" => apiStack \in {NoFiber, fiber}

(***************************************************************************)
(* Properties of programs that do not transfer.                            *)
(***************************************************************************)

(* A fiber that can still run. *)
Live(f) == numFrames[f] > 0 /\ ~hasError[f]

(* A fiber that a live fiber will return, yield or report an error to is   *)
(* itself suspended in that call: alive and not running.                   *)
WaitersAreLive ==
  \A f \in Fibers : Live(f) /\ caller[f] # NoFiber
                       => Live(caller[f]) /\ caller[f] # fiber

(* No two live fibers will resume the same fiber.                          *)
OneCalleeEach ==
  \A f, g \in Fibers :
    Live(f) /\ Live(g) /\ caller[f] # NoFiber /\ caller[f] = caller[g] => f = g

(* The running fiber, and every fiber that waits for another, is itself    *)
(* awaited by a fiber or by the host: following the callers leads to the   *)
(* fiber that runInterpreter() started.                                    *)
Awaited(f) == caller[f] # NoFiber \/ state[f] = "root"
ChainEndsAtRoot ==
  /\ status = "running" => Awaited(fiber)
  /\ \A f \in Fibers : Live(f) /\ caller[f] # NoFiber => Awaited(caller[f])

(* No call frame is read that does not exist, and no stale API slots.      *)
NeverUndefined == status # "undefined"

(* A fiber that aborted never runs again: "If the called fiber raises an   *)
(* error, it can no longer be used." (modules/core/fiber.markdown)         *)
AbortedNeverRuns == status = "running" => ~hasError[fiber]

(* "Calling and yielding": a value passed to yield() takes one slot when   *)
(* the fiber resumes (the comment in fiber_yield1), so that the code that  *)
(* goes on finds its slots where the compiler put them.  (Not when a fiber *)
(* yields a value to the host, see the README.)                            *)
ResumesAligned ==
  status = "running" /\ ~hasError[fiber] => numFrames[fiber] \notin shifted[fiber]

=============================================================================
