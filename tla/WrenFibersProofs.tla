-------------------------- MODULE WrenFibersProofs --------------------------
(***************************************************************************)
(* Proofs about WrenFibers, for any number of fibers and frames.           *)
(***************************************************************************)
EXTENDS WrenFibersStack, SmallestNatural, FiniteSetTheorems, SequenceTheorems, TLAPS

USE FibersAssumption, FramesAssumption, UsageAssumption

MaybeFiber == Fibers \cup {NoFiber}

(* The interpreter loop is always in a call frame that exists. *)
RunningHasFrames == status = "running" => numFrames[fiber] > 0

TypeInv == TypeOK /\ RunningHasFrames

-----------------------------------------------------------------------------
(***************************************************************************)
(* The walk of runtimeError up the callers.                                *)
(***************************************************************************)

(* The reached fibers contain the first one and are closed under the walk. *)
LEMMA ReachedIsClosed ==
  ASSUME NEW cur \in Fibers, NEW callers \in [Fibers -> MaybeFiber], NEW states
  PROVE  /\ cur \in Reached(cur, callers, states)
         /\ Reached(cur, callers, states) \subseteq Fibers
         /\ \A f \in Reached(cur, callers, states) :
              states[f] # "try" /\ callers[f] # NoFiber
                => callers[f] \in Reached(cur, callers, states)
  BY DEF Reached, MaybeFiber

(* They are the least such set. *)
LEMMA ReachedIsLeast ==
  ASSUME NEW cur \in Fibers, NEW callers, NEW states,
         NEW S \in SUBSET Fibers, cur \in S,
         \A f \in S : states[f] # "try" /\ callers[f] # NoFiber => callers[f] \in S
  PROVE  Reached(cur, callers, states) \subseteq S
  BY DEF Reached

(* Each of them is the first one or the caller of another.                 *)
LEMMA ReachedThroughCaller ==
  ASSUME NEW cur \in Fibers, NEW callers \in [Fibers -> MaybeFiber], NEW states,
         NEW g \in Reached(cur, callers, states), g # cur
  PROVE  \E f \in Reached(cur, callers, states) :
           states[f] # "try" /\ callers[f] = g
<1> DEFINE R == Reached(cur, callers, states)
           S == R \ {g}
<1>1. SUFFICES ASSUME \A f \in R : states[f] # "try" => callers[f] # g
               PROVE  FALSE
  OBVIOUS
<1>2. S \in SUBSET Fibers /\ cur \in S
  BY ReachedIsClosed
<1>3. \A f \in S : states[f] # "try" /\ callers[f] # NoFiber => callers[f] \in S
  BY <1>1, ReachedIsClosed
<1>4. R \subseteq S
  <2> HIDE DEF S
  <2> QED BY <1>2, <1>3, ReachedIsLeast
<1> QED BY <1>4

-----------------------------------------------------------------------------
(***************************************************************************)
(* Type correctness.                                                       *)
(***************************************************************************)

(* A runtime error leaves the state well typed and, if the interpreter     *)
(* goes on, in a frame that exists.                                        *)
LEMMA RuntimeErrorTypes ==
  ASSUME TypeOK,
         NEW cur \in Fibers, NEW callers \in [Fibers -> MaybeFiber],
         NEW errors \in [Fibers -> BOOLEAN], NEW states \in [Fibers -> FiberState],
         NEW slots \in MaybeFiber,
         RuntimeError(cur, callers, errors, states, slots),
         known' \in SUBSET Fibers, numFrames' = numFrames,
         shifted' \in [Fibers -> SUBSET (1 .. MaxFrames)]
  PROVE  TypeInv'
<1> DEFINE aborted == Reached(cur, callers, states)
           tried == {f \in aborted : states[f] = "try"}
<1>1. hasError' \in [Fibers -> BOOLEAN]
  BY DEF RuntimeError
<1>2. caller' \in [Fibers -> MaybeFiber]
  BY DEF RuntimeError, Unhooked, MaybeFiber
<1>3. state' \in [Fibers -> FiberState]
  BY DEF RuntimeError
<1>4. /\ fiber' \in MaybeFiber /\ apiStack' \in MaybeFiber
      /\ status' \in Status /\ entry' = entry /\ result' \in Result
      /\ status' = "running" => fiber' # NoFiber /\ numFrames[fiber'] > 0
  <2>1. CASE tried = {}
    BY <2>1 DEF RuntimeError, ReturnToHost, MaybeFiber, Status, Result
  <2>2. CASE tried # {}
    <3>1. PICK f \in tried :
            LoadFrame(callers[f], IF callers[f] \in Fibers
                                  THEN numFrames[callers[f]] ELSE 0)
      BY <2>2 DEF RuntimeError
    <3>2. apiStack' = slots
      BY <2>2 DEF RuntimeError
    <3>3. callers[f] \in MaybeFiber
      BY ReachedIsClosed
    <3> QED BY <3>1, <3>2, <3>3 DEF LoadFrame, TypeOK, MaybeFiber, Status, Result
  <2> QED BY <2>1, <2>2
<1> QED BY <1>1, <1>2, <1>3, <1>4 DEF TypeInv, TypeOK, RunningHasFrames, MaybeFiber

(* So does a switch to another fiber.                                      *)
LEMMA SwitchToTypes ==
  ASSUME TypeOK,
         NEW next \in Fibers, NEW callers \in [Fibers -> MaybeFiber],
         NEW errors \in [Fibers -> BOOLEAN], NEW states \in [Fibers -> FiberState],
         SwitchTo(next, callers, errors, states),
         known' \in SUBSET Fibers, numFrames' = numFrames,
         shifted' \in [Fibers -> SUBSET (1 .. MaxFrames)]
  PROVE  TypeInv'
<1>1. CASE errors[next]
  <2>1. RuntimeError(next, callers, errors, states, apiStack)
    BY <1>1 DEF SwitchTo
  <2>2. apiStack \in MaybeFiber
    BY DEF TypeOK, MaybeFiber
  <2> QED BY <2>1, <2>2, RuntimeErrorTypes
<1>2. CASE ~errors[next]
  BY <1>2 DEF SwitchTo, LoadFrame, TypeInv, TypeOK, RunningHasFrames, Status,
              MaybeFiber
<1> QED BY <1>1, <1>2

(* What the helpers of the actions return.                                 *)
LEMMA HelperTypes ==
  ASSUME TypeOK, status = "running"
  PROVE  /\ fiber \in Fibers
         /\ caller \in [Fibers -> MaybeFiber]
         /\ apiStack \in MaybeFiber /\ NoFiber \in MaybeFiber
         /\ \A b \in BOOLEAN :
              [hasError EXCEPT ![fiber] = b] \in [Fibers -> BOOLEAN]
         /\ \A f \in Fibers, isCall \in BOOLEAN :
              CallersAfterRun(f, isCall) \in [Fibers -> MaybeFiber]
         /\ \A f \in Fibers : [state EXCEPT ![f] = "try"] \in [Fibers -> FiberState]
         /\ CallersAfterYield \in [Fibers -> MaybeFiber]
         /\ StatesAfterYield \in [Fibers -> FiberState]
  BY DEF TypeOK, MaybeFiber, CallersAfterRun, CallersAfterYield, StatesAfterYield,
         FiberState

(* A frame that holds one slot too many is one of the frames there are.    *)
LEMMA ShiftedTypes ==
  ASSUME TypeInv, status = "running"
  PROVE  [shifted EXCEPT ![fiber] = @ \cup {numFrames[fiber]}]
           \in [Fibers -> SUBSET (1 .. MaxFrames)]
<1>1. numFrames[fiber] \in 1 .. MaxFrames
  BY DEF TypeInv, TypeOK, RunningHasFrames
<1> QED BY <1>1 DEF TypeInv, TypeOK

LEMMA RunFiberFailsTypes ==
  ASSUME TypeInv, status = "running",
         NEW f \in Fibers, NEW isCall \in BOOLEAN, RunFiberFails(f, isCall)
  PROVE  TypeInv'
<1>1. TypeOK
  BY DEF TypeInv
<1>2. RuntimeError(fiber, CallersAfterRun(f, isCall),
                   [hasError EXCEPT ![fiber] = TRUE], state, apiStack)
  BY DEF RunFiberFails
<1>3. /\ known' \in SUBSET Fibers /\ numFrames' = numFrames
      /\ shifted' \in [Fibers -> SUBSET (1 .. MaxFrames)]
  BY <1>1 DEF RunFiberFails, TypeOK
<1>4. state \in [Fibers -> FiberState]
  BY <1>1 DEF TypeOK
<1> QED BY <1>1, <1>2, <1>3, <1>4, HelperTypes, RuntimeErrorTypes

(* Every operation of Wren code keeps the types.                           *)
LEMMA WrenCodeTypes ==
  ASSUME TypeInv, WrenCode
  PROVE  TypeInv'
<1> USE DEF TypeInv
<1>0. TypeOK /\ RunningHasFrames
  OBVIOUS
<1>1. ASSUME NEW f \in Fibers, FiberNew(f)
      PROVE  TypeInv'
  BY <1>1 DEF FiberNew, Fresh, TypeOK, RunningHasFrames
<1>2. ASSUME NEW f \in Fibers, FiberCall(f)
      PROVE  TypeInv'
  <2>1. status = "running"
    BY <1>2 DEF FiberCall
  <2>2. CASE RunFiberFails(f, TRUE)
    BY <2>1, <2>2, RunFiberFailsTypes
  <2>3. CASE /\ SwitchTo(f, CallersAfterRun(f, TRUE), hasError, state)
             /\ UNCHANGED <<known, numFrames, shifted>>
    BY <2>1, <2>3, HelperTypes, SwitchToTypes DEF TypeOK
  <2> QED BY <1>2, <2>2, <2>3 DEF FiberCall
<1>3. ASSUME NEW f \in Fibers, FiberTry(f)
      PROVE  TypeInv'
  <2>1. status = "running"
    BY <1>3 DEF FiberTry
  <2>2. CASE RunFiberFails(f, TRUE)
    BY <2>1, <2>2, RunFiberFailsTypes
  <2>3. CASE /\ SwitchTo(f, CallersAfterRun(f, TRUE), hasError,
                         [state EXCEPT ![f] = "try"])
             /\ UNCHANGED <<known, numFrames, shifted>>
    BY <2>1, <2>3, HelperTypes, SwitchToTypes DEF TypeOK
  <2> QED BY <1>3, <2>2, <2>3 DEF FiberTry
<1>4. ASSUME NEW f \in Fibers, FiberTransfer(f)
      PROVE  TypeInv'
  <2>1. status = "running"
    BY <1>4 DEF FiberTransfer
  <2>2. CASE RunFiberFails(f, FALSE)
    BY <2>1, <2>2, RunFiberFailsTypes
  <2>3. CASE /\ SwitchTo(f, caller, hasError, state)
             /\ UNCHANGED <<known, numFrames, shifted>>
    BY <2>1, <2>3, HelperTypes, SwitchToTypes DEF TypeOK
  <2> QED BY <1>4, <2>2, <2>3 DEF FiberTransfer
<1>5. ASSUME NEW f \in Fibers, NEW isNull \in BOOLEAN, FiberTransferError(f, isNull)
      PROVE  TypeInv'
  <2> DEFINE target == IF CanRun(f, FALSE) THEN f ELSE fiber
  <2>1. status = "running" /\ target \in Fibers
    BY <1>5, HelperTypes DEF FiberTransferError
  <2>2. SwitchTo(target, caller, [hasError EXCEPT ![target] = ~isNull], state)
    BY <1>5 DEF FiberTransferError
  <2>3. [hasError EXCEPT ![target] = ~isNull] \in [Fibers -> BOOLEAN]
    BY DEF TypeOK
  <2>4. shifted' \in [Fibers -> SUBSET (1 .. MaxFrames)]
    BY <1>5, <2>1, ShiftedTypes DEF FiberTransferError, TypeOK
  <2>5. known' \in SUBSET Fibers /\ numFrames' = numFrames
    BY <1>5 DEF FiberTransferError, TypeOK
  <2>6. caller \in [Fibers -> MaybeFiber] /\ state \in [Fibers -> FiberState]
    BY DEF TypeOK, MaybeFiber
  <2> HIDE DEF target
  <2> QED BY <2>1, <2>2, <2>3, <2>4, <2>5, <2>6, SwitchToTypes
<1>6. ASSUME NEW hasValue \in BOOLEAN, FiberYield(hasValue)
      PROVE  TypeInv'
  <2>1. status = "running"
    BY <1>6 DEF FiberYield
  <2>2. /\ known' \in SUBSET Fibers /\ numFrames' = numFrames
        /\ shifted' \in [Fibers -> SUBSET (1 .. MaxFrames)]
    BY <1>6, <2>1, ShiftedTypes DEF FiberYield, ShiftedAfterYield, TypeOK
  <2>3. CASE caller[fiber] # NoFiber
    <3>1. caller[fiber] \in Fibers
      BY <2>1, <2>3 DEF TypeOK
    <3>2. SwitchTo(caller[fiber], CallersAfterYield, hasError, StatesAfterYield)
      BY <1>6, <2>3 DEF FiberYield
    <3> QED BY <2>1, <2>2, <3>1, <3>2, HelperTypes, SwitchToTypes DEF TypeOK
  <2>4. CASE caller[fiber] = NoFiber
    BY <1>6, <2>1, <2>2, <2>4, HelperTypes
       DEF FiberYield, ReturnToHost, TypeOK, RunningHasFrames, Status, Result,
           MaybeFiber
  <2> QED BY <2>3, <2>4
<1>7. ASSUME NEW aborts \in BOOLEAN, CallForeign(aborts)
      PROVE  TypeInv'
  <2>1. status = "running"
    BY <1>7 DEF CallForeign
  <2>2. CASE RuntimeError(fiber, caller, [hasError EXCEPT ![fiber] = TRUE], state,
                          NoFiber)
    BY <1>7, <2>1, <2>2, HelperTypes, RuntimeErrorTypes DEF CallForeign, TypeOK
  <2>3. CASE /\ apiStack' = NoFiber
             /\ UNCHANGED <<fiber, status, entry, result, caller, hasError, state>>
    BY <1>7, <2>3 DEF CallForeign, TypeOK, RunningHasFrames
  <2> QED BY <1>7, <2>2, <2>3 DEF CallForeign
<1>8. CASE CallFunction
  BY <1>8, HelperTypes DEF CallFunction, TypeOK, RunningHasFrames
<1>9. CASE Return
  <2> DEFINE left == numFrames[fiber] - 1
             next == caller[fiber]
  <2>1. /\ status = "running" /\ fiber \in Fibers
        /\ left \in 0 .. MaxFrames /\ next \in MaybeFiber
    BY <1>9, HelperTypes DEF Return, TypeOK, RunningHasFrames, MaybeFiber
  <2>2. /\ numFrames' = [numFrames EXCEPT ![fiber] = left]
        /\ numFrames' \in [Fibers -> 0 .. MaxFrames]
        /\ shifted' \in [Fibers -> SUBSET (1 .. MaxFrames)]
        /\ UNCHANGED <<known, hasError, state>>
    BY <1>9, <2>1 DEF Return, TypeOK
  <2>3. CASE left > 0 /\ UNCHANGED <<fiber, apiStack, status, entry, result, caller>>
    BY <2>1, <2>2, <2>3 DEF TypeOK, RunningHasFrames
  <2>4. CASE left = 0 /\ ReturnToHost("success", fiber, apiStack) /\ UNCHANGED caller
    BY <2>1, <2>2, <2>4
       DEF ReturnToHost, TypeOK, RunningHasFrames, Status, Result
  <2>5. CASE /\ left = 0 /\ next # NoFiber
             /\ caller' = [caller EXCEPT ![fiber] = NoFiber]
             /\ LoadFrame(next, IF next = fiber THEN left ELSE numFrames[next])
             /\ UNCHANGED apiStack
    BY <2>1, <2>2, <2>5
       DEF LoadFrame, TypeOK, RunningHasFrames, Status, MaybeFiber
  <2> QED BY <1>9, <2>3, <2>4, <2>5 DEF Return
<1>10. CASE FiberSuspend
  BY <1>10 DEF FiberSuspend, ReturnToHost, fiberVars, TypeOK, RunningHasFrames,
               Status, Result
<1>11. CASE FiberAbort
  BY <1>11, HelperTypes, RuntimeErrorTypes DEF FiberAbort, TypeOK
<1>12. CASE FiberAbortNull
  BY <1>12, HelperTypes DEF FiberAbortNull, TypeOK, RunningHasFrames
<1> QED
  BY <1>1, <1>2, <1>3, <1>4, <1>5, <1>6, <1>7, <1>8, <1>9, <1>10, <1>11, <1>12
     DEF WrenCode

(* So does every call of the host into the API.                            *)
LEMMA HostTypes ==
  ASSUME TypeInv, Host
  PROVE  TypeInv'
<1> USE DEF TypeInv
<1>1. ASSUME NEW f \in Fibers, Interpret(f)
      PROVE  TypeInv'
  BY <1>1 DEF Interpret, RunInterpreter, StatesAfterStart, Fresh, TypeOK,
              RunningHasFrames, Status, Result, FiberState
<1>2. ASSUME NEW f \in Fibers, EnsureSlots(f)
      PROVE  TypeInv'
  BY <1>2 DEF EnsureSlots, fiberVars, TypeOK, RunningHasFrames
<1>3. CASE InterpretFails
  BY <1>3 DEF InterpretFails, fiberVars, TypeOK, RunningHasFrames, Result
<1>4. CASE EnsureStaleSlots
  BY <1>4 DEF EnsureStaleSlots, fiberVars, TypeOK, RunningHasFrames, Status
<1>5. CASE Call
  BY <1>5 DEF Call, RunInterpreter, StatesAfterStart, SlotsDuringCall, TypeOK,
              RunningHasFrames, Status, Result, FiberState
<1> QED BY <1>1, <1>2, <1>3, <1>4, <1>5 DEF Host

(* The model is well typed, and the interpreter never runs on a call frame *)
(* that does not exist: wherever LOAD_FRAME would read one, the run has    *)
(* become "undefined".                                                     *)
THEOREM TypeCorrect == Spec => []TypeOK
<1>1. Init => TypeInv
  BY DEF Init, TypeInv, TypeOK, RunningHasFrames, Status, Result, FiberState
<1>2. TypeInv /\ [Next]_vars => TypeInv'
  <2> SUFFICES ASSUME TypeInv, [Next]_vars
               PROVE  TypeInv'
    OBVIOUS
  <2>1. CASE WrenCode
    BY <2>1, WrenCodeTypes
  <2>2. CASE Host
    BY <2>2, HostTypes
  <2>3. CASE Undefined \/ UNCHANGED vars
    BY <2>3 DEF Undefined, vars, fiberVars, TypeInv, TypeOK, RunningHasFrames
  <2> QED BY <2>1, <2>2, <2>3 DEF Next
<1>3. TypeInv => TypeOK
  BY DEF TypeInv
<1> QED BY <1>1, <1>2, <1>3, PTL DEF Spec

-----------------------------------------------------------------------------
(***************************************************************************)
(* The links between fibers, whatever the program does.                    *)
(***************************************************************************)

(* TryHasCaller, RootHasNoCaller and AbortedIsUnhooked of the given fields *)
(* of the fibers, where the fiber cur may have just failed and still be    *)
(* linked; only fibers that Wren code knows are linked to and are in use.  *)
Links(callers, errors, states, frames, refs, cur) ==
  \A f \in Fibers :
    /\ states[f] = "try" /\ frames[f] > 0 => callers[f] # NoFiber
    /\ states[f] = "root" => callers[f] = NoFiber
    /\ errors[f] /\ states[f] # "try" /\ f # cur => callers[f] = NoFiber
    /\ callers[f] \in refs \cup {NoFiber}
    /\ f \notin refs => /\ callers[f] = NoFiber /\ ~errors[f]
                       /\ states[f] = "other" /\ frames[f] = 0

(* The host finds no fiber that a fiber waits for: wrenCall can make it    *)
(* the root of the next run.                                               *)
FiberLinks ==
  /\ Links(caller, hasError, state, numFrames, known, NoFiber)
  /\ status = "running" => fiber \in known
  /\ status = "host" /\ fiber # NoFiber => caller[fiber] = NoFiber

LinkInv == TypeInv /\ FiberLinks

LEMMA RuntimeErrorLinks ==
  ASSUME TypeOK,
         NEW cur \in Fibers, NEW callers \in [Fibers -> MaybeFiber],
         NEW errors \in [Fibers -> BOOLEAN], NEW states \in [Fibers -> FiberState],
         NEW slots, RuntimeError(cur, callers, errors, states, slots),
         Links(callers, errors, states, numFrames, known, cur),
         cur \in known, known' = known, numFrames' = numFrames
  PROVE  FiberLinks'
<1> DEFINE aborted == Reached(cur, callers, states)
           tried == {f \in aborted : states[f] = "try"}
<1>1. /\ cur \in aborted /\ aborted \subseteq Fibers
      /\ aborted \subseteq known
  <2>1. known \in SUBSET Fibers
    BY DEF TypeOK
  <2>2. \A f \in known : states[f] # "try" /\ callers[f] # NoFiber
                           => callers[f] \in known
    BY <2>1 DEF Links
  <2> QED BY <2>1, <2>2, ReachedIsClosed, ReachedIsLeast
<1>2. /\ hasError' = [f \in Fibers |-> errors[f] \/ f \in aborted]
      /\ caller' = [f \in Fibers |->
                      IF f \in aborted \ tried THEN NoFiber ELSE callers[f]]
      /\ state' = states
  BY DEF RuntimeError, Unhooked
<1>3. /\ status' = "running" => fiber' \in known
      /\ status' = "host" => fiber' = NoFiber
  <2>1. CASE tried = {}
    BY <2>1 DEF RuntimeError, ReturnToHost
  <2>2. CASE tried # {}
    <3>1. PICK f \in tried :
            LoadFrame(callers[f], IF callers[f] \in Fibers
                                  THEN numFrames[callers[f]] ELSE 0)
      BY <2>2 DEF RuntimeError
    <3>2. f \in Fibers
      BY <1>1
    <3> QED BY <3>1, <3>2 DEF LoadFrame, Links
  <2> QED BY <2>1, <2>2
<1> HIDE DEF aborted
<1>4. ASSUME NEW f \in Fibers
      PROVE  /\ state'[f] = "try" /\ numFrames'[f] > 0 => caller'[f] # NoFiber
             /\ state'[f] = "root" => caller'[f] = NoFiber
             /\ hasError'[f] /\ state'[f] # "try" => caller'[f] = NoFiber
             /\ caller'[f] \in known \cup {NoFiber}
             /\ f \notin known => /\ caller'[f] = NoFiber /\ ~hasError'[f]
                                 /\ state'[f] = "other" /\ numFrames'[f] = 0
  BY <1>1, <1>2 DEF Links
<1> QED BY <1>3, <1>4 DEF FiberLinks, Links

LEMMA SwitchToLinks ==
  ASSUME TypeOK,
         NEW next \in Fibers, NEW callers \in [Fibers -> MaybeFiber],
         NEW errors \in [Fibers -> BOOLEAN], NEW states \in [Fibers -> FiberState],
         SwitchTo(next, callers, errors, states),
         Links(callers, errors, states, numFrames, known, next),
         next \in known, known' = known, numFrames' = numFrames
  PROVE  FiberLinks'
<1>1. CASE errors[next]
  BY <1>1, RuntimeErrorLinks DEF SwitchTo
<1>2. CASE ~errors[next]
  BY <1>2 DEF SwitchTo, LoadFrame, FiberLinks, Links
<1> QED BY <1>1, <1>2

(* runFiber's assignment to fiber->caller, and try()'s to fiber->state,    *)
(* keep the links.                                                         *)
LEMMA RunFiberLinks ==
  ASSUME LinkInv, status = "running", NEW f \in known, NEW isCall \in BOOLEAN
  PROVE  /\ Links(CallersAfterRun(f, isCall), hasError, state, numFrames, known, f)
         /\ Links(CallersAfterRun(f, isCall), [hasError EXCEPT ![fiber] = TRUE],
                  state, numFrames, known, fiber)
         /\ CanRun(f, TRUE) =>
              Links(CallersAfterRun(f, TRUE), hasError,
                    [state EXCEPT ![f] = "try"], numFrames, known, f)
<1>1. /\ fiber \in Fibers /\ fiber \in known /\ f \in Fibers
      /\ caller \in [Fibers -> MaybeFiber] /\ hasError \in [Fibers -> BOOLEAN]
      /\ state \in [Fibers -> FiberState]
  BY HelperTypes DEF LinkInv, TypeInv, TypeOK, FiberLinks
<1>2. Links(caller, hasError, state, numFrames, known, NoFiber)
  BY DEF LinkInv, FiberLinks
<1>3. Links(CallersAfterRun(f, isCall), hasError, state, numFrames, known, f)
  BY <1>1, <1>2 DEF Links, CallersAfterRun, Reachable, MaybeFiber
<1>4. Links(CallersAfterRun(f, isCall), [hasError EXCEPT ![fiber] = TRUE],
            state, numFrames, known, fiber)
  BY <1>1, <1>2 DEF Links, CallersAfterRun, Reachable, MaybeFiber
<1>5. ASSUME CanRun(f, TRUE)
      PROVE  Links(CallersAfterRun(f, TRUE), hasError,
                   [state EXCEPT ![f] = "try"], numFrames, known, f)
  BY <1>1, <1>2, <1>5 DEF Links, CallersAfterRun, CanRun, Reachable, MaybeFiber
<1> QED BY <1>3, <1>4, <1>5

LEMMA RunFiberFailsLinks ==
  ASSUME LinkInv, status = "running",
         NEW f \in known, NEW isCall \in BOOLEAN, RunFiberFails(f, isCall)
  PROVE  FiberLinks'
<1>1. TypeOK /\ f \in Fibers /\ fiber \in known /\ fiber \in Fibers
  BY HelperTypes DEF LinkInv, TypeInv, TypeOK, FiberLinks
<1>2. RuntimeError(fiber, CallersAfterRun(f, isCall),
                   [hasError EXCEPT ![fiber] = TRUE], state, apiStack)
  BY DEF RunFiberFails
<1>3. known' = known /\ numFrames' = numFrames
  BY DEF RunFiberFails
<1>4. /\ state \in [Fibers -> FiberState]
      /\ [hasError EXCEPT ![fiber] = TRUE] \in [Fibers -> BOOLEAN]
      /\ CallersAfterRun(f, isCall) \in [Fibers -> MaybeFiber]
  BY <1>1, HelperTypes DEF TypeOK
<1>5. Links(CallersAfterRun(f, isCall), [hasError EXCEPT ![fiber] = TRUE],
            state, numFrames, known, fiber)
  BY RunFiberLinks
<1> QED BY <1>1, <1>2, <1>3, <1>4, <1>5, RuntimeErrorLinks

LEMMA WrenCodeLinks ==
  ASSUME LinkInv, WrenCode
  PROVE  FiberLinks'
<1>0. /\ TypeInv /\ TypeOK /\ FiberLinks
      /\ Links(caller, hasError, state, numFrames, known, NoFiber)
      /\ known \subseteq Fibers
      /\ caller \in [Fibers -> MaybeFiber] /\ hasError \in [Fibers -> BOOLEAN]
      /\ state \in [Fibers -> FiberState] /\ numFrames \in [Fibers -> 0 .. MaxFrames]
      /\ status = "running" => fiber \in known
  BY DEF LinkInv, TypeInv, TypeOK, FiberLinks, MaybeFiber
<1>1. ASSUME NEW f \in Fibers, FiberNew(f)
      PROVE  FiberLinks'
  BY <1>0, <1>1 DEF FiberNew, Fresh, FiberLinks, Links
<1>2. ASSUME NEW f \in Fibers, FiberCall(f)
      PROVE  FiberLinks'
  <2>1. status = "running" /\ f \in known
    BY <1>2 DEF FiberCall
  <2>2. CASE RunFiberFails(f, TRUE)
    BY <2>1, <2>2, RunFiberFailsLinks
  <2>3. CASE /\ SwitchTo(f, CallersAfterRun(f, TRUE), hasError, state)
             /\ UNCHANGED <<known, numFrames, shifted>>
    BY <1>0, <2>1, <2>3, HelperTypes, RunFiberLinks, SwitchToLinks
  <2> QED BY <1>2, <2>2, <2>3 DEF FiberCall
<1>3. ASSUME NEW f \in Fibers, FiberTry(f)
      PROVE  FiberLinks'
  <2>1. status = "running" /\ f \in known
    BY <1>3 DEF FiberTry
  <2>2. CASE RunFiberFails(f, TRUE)
    BY <2>1, <2>2, RunFiberFailsLinks
  <2>3. CASE /\ CanRun(f, TRUE)
             /\ SwitchTo(f, CallersAfterRun(f, TRUE), hasError,
                         [state EXCEPT ![f] = "try"])
             /\ UNCHANGED <<known, numFrames, shifted>>
    BY <1>0, <2>1, <2>3, HelperTypes, RunFiberLinks, SwitchToLinks
  <2> QED BY <1>3, <2>2, <2>3 DEF FiberTry
<1>4. ASSUME NEW f \in Fibers, FiberTransfer(f)
      PROVE  FiberLinks'
  <2>1. status = "running" /\ f \in known
    BY <1>4 DEF FiberTransfer
  <2>2. CASE RunFiberFails(f, FALSE)
    BY <2>1, <2>2, RunFiberFailsLinks
  <2>3. CASE /\ SwitchTo(f, caller, hasError, state)
             /\ UNCHANGED <<known, numFrames, shifted>>
    <3>1. Links(caller, hasError, state, numFrames, known, f)
      BY <1>0 DEF Links
    <3> QED BY <1>0, <2>1, <2>3, <3>1, SwitchToLinks
  <2> QED BY <1>4, <2>2, <2>3 DEF FiberTransfer
<1>5. ASSUME NEW f \in Fibers, NEW isNull \in BOOLEAN, FiberTransferError(f, isNull)
      PROVE  FiberLinks'
  <2> DEFINE target == IF CanRun(f, FALSE) THEN f ELSE fiber
             errors == [hasError EXCEPT ![target] = ~isNull]
  <2>1. target \in known /\ target \in Fibers
    BY <1>0, <1>5 DEF FiberTransferError
  <2>2. SwitchTo(target, caller, errors, state)
    BY <1>5 DEF FiberTransferError
  <2>3. errors \in [Fibers -> BOOLEAN]
    BY <1>0
  <2>4. known' = known /\ numFrames' = numFrames
    BY <1>5 DEF FiberTransferError
  <2> HIDE DEF target
  <2>5. Links(caller, errors, state, numFrames, known, target)
    BY <1>0, <2>1 DEF Links
  <2> HIDE DEF errors
  <2> QED BY <1>0, <2>1, <2>2, <2>3, <2>4, <2>5, SwitchToLinks
<1>6. ASSUME NEW hasValue \in BOOLEAN, FiberYield(hasValue)
      PROVE  FiberLinks'
  <2>1. /\ status = "running" /\ fiber \in known /\ fiber \in Fibers
        /\ known' = known /\ numFrames' = numFrames
    BY <1>0, <1>6 DEF FiberYield
  <2>2. \A cur : Links(CallersAfterYield, hasError, StatesAfterYield, numFrames,
                       known, cur)
    BY <1>0, <2>1 DEF Links, CallersAfterYield, StatesAfterYield
  <2>3. CASE caller[fiber] # NoFiber
    <3>1. caller[fiber] \in Fibers /\ caller[fiber] \in known
      BY <1>0, <2>1, <2>3 DEF Links
    <3>2. SwitchTo(caller[fiber], CallersAfterYield, hasError, StatesAfterYield)
      BY <1>6, <2>3 DEF FiberYield
    <3> QED BY <1>0, <2>1, <2>2, <3>1, <3>2, HelperTypes, SwitchToLinks
  <2>4. CASE caller[fiber] = NoFiber
    <3>1. /\ caller' = CallersAfterYield /\ state' = StatesAfterYield
          /\ hasError' = hasError /\ status' = "host" /\ fiber' = NoFiber
      BY <1>6, <2>4 DEF FiberYield, ReturnToHost
    <3>2. Links(caller, hasError, state, numFrames, known, NoFiber)'
      BY <2>1, <2>2, <3>1 DEF Links
    <3> QED BY <3>1, <3>2 DEF FiberLinks
  <2> QED BY <2>3, <2>4
<1>7. ASSUME NEW aborts \in BOOLEAN, CallForeign(aborts)
      PROVE  FiberLinks'
  <2>1. /\ status = "running" /\ fiber \in known /\ fiber \in Fibers
        /\ known' = known /\ numFrames' = numFrames
    BY <1>0, <1>7 DEF CallForeign
  <2>2. CASE RuntimeError(fiber, caller, [hasError EXCEPT ![fiber] = TRUE], state,
                          NoFiber)
    <3>1. Links(caller, [hasError EXCEPT ![fiber] = TRUE], state, numFrames,
                known, fiber)
      BY <1>0, <2>1 DEF Links
    <3> QED BY <1>0, <2>1, <2>2, <3>1, HelperTypes, RuntimeErrorLinks
  <2>3. CASE /\ apiStack' = NoFiber
             /\ UNCHANGED <<fiber, status, entry, result, caller, hasError, state>>
    BY <1>0, <2>1, <2>3 DEF FiberLinks, Links
  <2> QED BY <1>7, <2>2, <2>3 DEF CallForeign
<1>8. CASE CallFunction
  BY <1>0, <1>8 DEF CallFunction, FiberLinks, Links, TypeInv, RunningHasFrames
<1>9. CASE Return
  <2> DEFINE left == numFrames[fiber] - 1
             next == caller[fiber]
  <2>1. /\ status = "running" /\ fiber \in known /\ fiber \in Fibers
        /\ numFrames' = [numFrames EXCEPT ![fiber] = left]
        /\ UNCHANGED <<known, hasError, state>>
    BY <1>0, <1>9 DEF Return
  <2>2. left \in Nat /\ left < numFrames[fiber]
    BY <1>0, <2>1 DEF TypeInv, RunningHasFrames
  <2>3. CASE left > 0 /\ UNCHANGED <<fiber, apiStack, status, entry, result, caller>>
    BY <1>0, <2>1, <2>2, <2>3 DEF FiberLinks, Links
  <2>4. CASE /\ left = 0 /\ next = NoFiber
             /\ ReturnToHost("success", fiber, apiStack) /\ UNCHANGED caller
    BY <1>0, <2>1, <2>4 DEF ReturnToHost, FiberLinks, Links
  <2>5. CASE /\ left = 0 /\ next # NoFiber
             /\ caller' = [caller EXCEPT ![fiber] = NoFiber]
             /\ LoadFrame(next, IF next = fiber THEN left ELSE numFrames[next])
             /\ UNCHANGED apiStack
    BY <1>0, <2>1, <2>5 DEF LoadFrame, FiberLinks, Links
  <2> QED BY <1>9, <2>3, <2>4, <2>5 DEF Return
<1>10. CASE FiberSuspend
  BY <1>0, <1>10 DEF FiberSuspend, ReturnToHost, fiberVars, FiberLinks, Links
<1>11. CASE FiberAbort
  <2>1. /\ status = "running" /\ fiber \in known /\ fiber \in Fibers
        /\ known' = known /\ numFrames' = numFrames
        /\ RuntimeError(fiber, caller, [hasError EXCEPT ![fiber] = TRUE], state,
                        apiStack)
    BY <1>0, <1>11 DEF FiberAbort
  <2>2. Links(caller, [hasError EXCEPT ![fiber] = TRUE], state, numFrames,
              known, fiber)
    BY <1>0, <2>1 DEF Links
  <2> QED BY <1>0, <2>1, <2>2, HelperTypes, RuntimeErrorLinks
<1>12. CASE FiberAbortNull
  BY <1>0, <1>12 DEF FiberAbortNull, FiberLinks, Links
<1> QED
  BY <1>1, <1>2, <1>3, <1>4, <1>5, <1>6, <1>7, <1>8, <1>9, <1>10, <1>11, <1>12
     DEF WrenCode

LEMMA HostLinks ==
  ASSUME LinkInv, Host
  PROVE  FiberLinks'
<1>0. /\ TypeOK /\ FiberLinks
      /\ caller \in [Fibers -> MaybeFiber] /\ hasError \in [Fibers -> BOOLEAN]
      /\ state \in [Fibers -> FiberState] /\ numFrames \in [Fibers -> 0 .. MaxFrames]
  BY DEF LinkInv, TypeInv, TypeOK, MaybeFiber
<1>1. ASSUME NEW f \in Fibers, Interpret(f)
      PROVE  FiberLinks'
  BY <1>0, <1>1 DEF Interpret, RunInterpreter, StatesAfterStart, Fresh, FiberLinks,
                    Links
<1>2. ASSUME NEW f \in Fibers, EnsureSlots(f)
      PROVE  FiberLinks'
  BY <1>0, <1>2 DEF EnsureSlots, Fresh, fiberVars, FiberLinks, Links
<1>3. CASE InterpretFails \/ EnsureStaleSlots
  BY <1>0, <1>3 DEF InterpretFails, EnsureStaleSlots, fiberVars, FiberLinks, Links
<1>4. CASE Call
  BY <1>0, <1>4 DEF Call, RunInterpreter, StatesAfterStart, FiberLinks, Links, TypeOK
<1> QED BY <1>1, <1>2, <1>3, <1>4 DEF Host

THEOREM LinksInvariant == Spec => []LinkInv
<1>1. Init => LinkInv
  BY DEF Init, LinkInv, FiberLinks, Links, TypeInv, TypeOK, RunningHasFrames,
         Status, Result, FiberState
<1>2. LinkInv /\ [Next]_vars => LinkInv'
  <2> SUFFICES ASSUME LinkInv, [Next]_vars
               PROVE  LinkInv'
    OBVIOUS
  <2>1. CASE WrenCode
    BY <2>1, WrenCodeTypes, WrenCodeLinks DEF LinkInv
  <2>2. CASE Host
    BY <2>2, HostTypes, HostLinks DEF LinkInv
  <2>3. CASE Undefined \/ UNCHANGED vars
    BY <2>3 DEF Undefined, vars, fiberVars, LinkInv, FiberLinks, Links, TypeInv,
                TypeOK, RunningHasFrames
  <2> QED BY <2>1, <2>2, <2>3 DEF Next
<1> QED BY <1>1, <1>2, PTL DEF Spec

(* runtimeError never follows the caller of a tried fiber to NULL.         *)
THEOREM TryHasCallerAlways == Spec => []TryHasCaller
<1>1. LinkInv => TryHasCaller
  BY DEF LinkInv, FiberLinks, Links, TryHasCaller
<1> QED BY <1>1, LinksInvariant, PTL

(* The fiber the host waits for never gets a caller.                       *)
THEOREM RootHasNoCallerAlways == Spec => []RootHasNoCaller
<1>1. LinkInv => RootHasNoCaller
  BY DEF LinkInv, FiberLinks, Links, RootHasNoCaller
<1> QED BY <1>1, LinksInvariant, PTL

(* An aborted fiber whose error was not caught is in nobody's chain.       *)
THEOREM AbortedIsUnhookedAlways == Spec => []AbortedIsUnhooked
<1>1. LinkInv => AbortedIsUnhooked
  BY DEF LinkInv, TypeInv, TypeOK, FiberLinks, Links, AbortedIsUnhooked
<1> QED BY <1>1, LinksInvariant, PTL

-----------------------------------------------------------------------------
(***************************************************************************)
(* The fibers under way form chains.  A chain ends at a fiber that is not  *)
(* waiting for another one: the running fiber or, with a scheduler, one of *)
(* a set H that the host holds on to and will transfer to.  The arguments  *)
(* stand for the fields of the fibers before or after a step; B are fibers *)
(* whose fields do not have to keep others from calling them.              *)
(***************************************************************************)
Alive(f, frames, errors) == frames[f] > 0 /\ ~errors[f]

(* The checks of runFiber do not let f be called, or something else does.  *)
Busy(f, B, callers, states) ==
  callers[f] # NoFiber \/ states[f] = "root" \/ f \in B

Chains(T, B, frames, callers, errors, states) ==
  /\ T \subseteq Fibers
  /\ \A f \in T : Alive(f, frames, errors) /\ Busy(f, B, callers, states)
  /\ \A f \in Fibers :
       Alive(f, frames, errors) /\ callers[f] # NoFiber
         => /\ callers[f] \in Fibers \ T
            /\ Alive(callers[f], frames, errors)
            /\ Busy(callers[f], B, callers, states)
  /\ \A f, g \in Fibers :
       Alive(f, frames, errors) /\ Alive(g, frames, errors)
         /\ callers[f] # NoFiber /\ callers[f] = callers[g] => f = g

(* The interpreter runs the end of a chain, without API slots, or the host *)
(* has control and finds a finished fiber, or none, behind its slots.      *)
Control(H, B, cur, stat, slots, frames, callers, errors, states) ==
  /\ Chains(IF stat = "running" THEN H \cup {cur} ELSE H, B,
            frames, callers, errors, states)
  /\ \/ stat = "running" /\ cur \in Fibers \ H /\ slots = NoFiber
     \/ /\ stat = "host" /\ slots \in {NoFiber, cur}
        /\ cur # NoFiber => frames[cur] = 0 /\ ~errors[cur]

ControlNow(H, B) ==
  Control(H, B, fiber, status, apiStack, numFrames, caller, hasError, state)

ControlNext(H, B) ==
  Control(H, B, fiber', status', apiStack', numFrames', caller', hasError', state')

(* What the invariants say of the types and of unused fibers.              *)
LEMMA LinkFacts ==
  ASSUME LinkInv
  PROVE  /\ TypeInv /\ TypeOK /\ NoFiber \notin Fibers /\ NoFiber \in MaybeFiber
         /\ caller \in [Fibers -> MaybeFiber] /\ hasError \in [Fibers -> BOOLEAN]
         /\ state \in [Fibers -> FiberState] /\ numFrames \in [Fibers -> 0 .. MaxFrames]
         /\ fiber \in MaybeFiber /\ known \in SUBSET Fibers
         /\ \A f \in Fibers : /\ state[f] = "try" /\ numFrames[f] > 0
                                   => caller[f] # NoFiber
                              /\ state[f] = "root" => caller[f] = NoFiber
                              /\ f \notin known => /\ caller[f] = NoFiber
                                                   /\ ~hasError[f] /\ numFrames[f] = 0
<1>1. TypeInv /\ TypeOK
  BY DEF LinkInv, TypeInv
<1>2. /\ NoFiber \notin Fibers /\ NoFiber \in MaybeFiber
      /\ caller \in [Fibers -> MaybeFiber] /\ hasError \in [Fibers -> BOOLEAN]
      /\ state \in [Fibers -> FiberState] /\ numFrames \in [Fibers -> 0 .. MaxFrames]
      /\ fiber \in MaybeFiber /\ known \in SUBSET Fibers
  BY <1>1 DEF TypeOK, MaybeFiber
<1>3. Links(caller, hasError, state, numFrames, known, NoFiber)
  BY DEF LinkInv, FiberLinks
<1> QED BY <1>1, <1>2, <1>3 DEF Links

(* Chains are about fibers that are alive and about their callers.         *)
LEMMA SameChains ==
  ASSUME NEW T, NEW B, NEW frames, NEW callers \in [Fibers -> MaybeFiber], NEW errors,
         NEW states, Chains(T, B, frames, callers, errors, states),
         NEW S \in SUBSET T, NEW C, B \subseteq C, NEW frames2, NEW errors2,
         \A f \in Fibers : Alive(f, frames2, errors2) <=> Alive(f, frames, errors)
  PROVE  Chains(S, C, frames2, callers, errors2, states)
BY DEF Chains, Busy

(* A new fiber is nobody's caller: it may be held for its first run.       *)
LEMMA NewKeepsChains ==
  ASSUME NEW T, NEW B, NEW frames \in [Fibers -> Nat],
         NEW callers \in [Fibers -> MaybeFiber], NEW errors,
         NEW states, Chains(T, B, frames, callers, errors, states),
         NEW f \in Fibers, frames[f] = 0, callers[f] = NoFiber, ~errors[f],
         NEW frames2, frames2 = [frames EXCEPT ![f] = 1]
  PROVE  /\ Chains(T, B, frames2, callers, errors, states)
         /\ Chains(T \cup {f}, B \cup {f}, frames2, callers, errors, states)
<1>1. /\ \A g \in Fibers \ {f} : Alive(g, frames2, errors) <=> Alive(g, frames, errors)
      /\ Alive(f, frames2, errors) /\ ~Alive(f, frames, errors)
  BY DEF Alive
<1>2. f \notin T
  BY <1>1 DEF Chains
<1>3. \A g \in Fibers : Alive(g, frames, errors) => callers[g] # f
  BY <1>1 DEF Chains, MaybeFiber
<1> QED BY <1>1, <1>2, <1>3 DEF Chains, Busy

(* An error in a fiber at the end of a chain aborts the fibers of the      *)
(* chain up to the one that was tried: only fibers of the chain are        *)
(* reached, and no fiber that is left waits for one of them.               *)
LEMMA ErrorHandsOver ==
  ASSUME LinkInv, NEW H \in SUBSET Fibers, NEW B, NEW cur \in Fibers \ H,
         Chains(H \cup {cur}, B, numFrames, caller, hasError, state),
         NEW callers \in [Fibers -> MaybeFiber],
         \A f \in Fibers : numFrames[f] > 0 => callers[f] = caller[f],
         NEW slots, slots = NoFiber,
         RuntimeError(cur, callers, [hasError EXCEPT ![cur] = TRUE], state, slots),
         numFrames' = numFrames
  PROVE  ControlNext(H, B)
<1> DEFINE R == Reached(cur, callers, state)
           tried == {f \in R : state[f] = "try"}
           live == {f \in Fibers : Alive(f, numFrames, hasError)}
           T == H \cup {cur}
<1>0. /\ caller \in [Fibers -> MaybeFiber] /\ hasError \in [Fibers -> BOOLEAN]
      /\ NoFiber \notin Fibers /\ cur \in Fibers /\ cur \in live
      /\ \A f \in Fibers : state[f] = "try" /\ numFrames[f] > 0 => caller[f] # NoFiber
  BY LinkFacts DEF Chains
<1>1. R \subseteq live
  <2>1. live \in SUBSET Fibers /\ cur \in live
    BY <1>0
  <2>2. \A f \in live : state[f] # "try" /\ callers[f] # NoFiber => callers[f] \in live
    BY DEF Alive, Chains
  <2> HIDE DEF live
  <2> QED BY <2>1, <2>2, ReachedIsLeast
<1>2. \A g \in R : g # cur => \E f \in R : state[f] # "try" /\ callers[f] = g
  BY ReachedThroughCaller
<1>3. cur \in R /\ R \subseteq Fibers
  BY ReachedIsClosed
<1>4. /\ hasError' = [f \in Fibers |-> [hasError EXCEPT ![cur] = TRUE][f] \/ f \in R]
      /\ caller' = [f \in Fibers |->
                      IF f \in R \ tried THEN NoFiber ELSE callers[f]]
      /\ state' = state
  BY DEF RuntimeError, Unhooked
<1> HIDE DEF R
<1>5. \A f \in Fibers : Alive(f, numFrames', hasError') <=> f \in live \ R
  BY <1>0, <1>3, <1>4 DEF Alive
<1>6. \A f \in live \ R : caller'[f] = caller[f]
  BY <1>4 DEF Alive
<1>7. ASSUME NEW g \in live, NEW x \in R, caller[x] = caller[g], caller[g] # NoFiber
      PROVE  g = x
  BY <1>1, <1>7 DEF Chains
<1>8. \A f \in live : caller[f] # NoFiber
        => /\ caller[f] \in live \ T
           /\ Busy(caller[f], B, caller, state)
  BY DEF Chains
<1>9. \A f \in live \ R : caller[f] # NoFiber => caller[f] \in live \ R
  <2> SUFFICES ASSUME NEW f \in live \ R, caller[f] # NoFiber, caller[f] \in R
               PROVE  FALSE
    BY <1>8
  <2>1. caller[f] # cur
    BY <1>8
  <2>2. PICK x \in R : callers[x] = caller[f]
    BY <1>2, <2>1
  <2>3. caller[x] = caller[f]
    BY <1>1, <2>2 DEF Alive
  <2> QED BY <1>7, <2>3
<1>10. \A f \in live \ R : Busy(f, B, caller, state) => Busy(f, B, caller', state')
  BY <1>4, <1>6 DEF Busy
<1>11. H \subseteq live \ R /\ \A f \in H : Busy(f, B, caller, state)
  <2>1. H \subseteq live /\ \A f \in H : Busy(f, B, caller, state)
    BY DEF Chains
  <2>2. ASSUME NEW g \in H, g \in R PROVE FALSE
    <3>1. PICK x \in R : callers[x] = g
      BY <1>2, <2>2
    <3>2. x \in live /\ caller[x] = g
      BY <1>1, <3>1 DEF Alive
    <3> QED BY <1>0, <1>8, <3>2
  <2> QED BY <2>1, <2>2
<1>12. ASSUME NEW S \in SUBSET Fibers, H \subseteq S,
              \A f \in S \ H : /\ f \in live \ R /\ Busy(f, B, caller, state)
                               /\ \A g \in live \ R : caller[g] # f
       PROVE  Chains(S, B, numFrames', caller', hasError', state')
  <2>1. \A f \in S : f \in live \ R /\ Busy(f, B, caller', state')
    BY <1>10, <1>11, <1>12
  <2>2. \A f \in live \ R : caller[f] # NoFiber
          => /\ caller[f] \in (live \ R) \ S
             /\ Busy(caller[f], B, caller', state')
    BY <1>8, <1>9, <1>10, <1>12
  <2>3. \A f, g \in live \ R : caller[f] # NoFiber /\ caller[f] = caller[g] => f = g
    BY DEF Chains
  <2> HIDE DEF live, T
  <2>4. \A f \in S : Alive(f, numFrames', hasError') /\ Busy(f, B, caller', state')
    BY <1>5, <2>1
  <2>5. \A f \in Fibers : Alive(f, numFrames', hasError') /\ caller'[f] # NoFiber
          => /\ caller'[f] \in Fibers \ S
             /\ Alive(caller'[f], numFrames', hasError')
             /\ Busy(caller'[f], B, caller', state')
    <3> SUFFICES ASSUME NEW f \in Fibers, Alive(f, numFrames', hasError'),
                        caller'[f] # NoFiber
                 PROVE  /\ caller'[f] \in Fibers \ S
                        /\ Alive(caller'[f], numFrames', hasError')
                        /\ Busy(caller'[f], B, caller', state')
      OBVIOUS
    <3>1. f \in live \ R /\ caller'[f] = caller[f]
      BY <1>5, <1>6
    <3>2. caller[f] \in (live \ R) \ S /\ Busy(caller[f], B, caller', state')
      BY <2>2, <3>1
    <3>3. live \subseteq Fibers
      BY DEF live
    <3> QED BY <1>5, <3>1, <3>2, <3>3
  <2>6. \A f, g \in Fibers :
          Alive(f, numFrames', hasError') /\ Alive(g, numFrames', hasError')
            /\ caller'[f] # NoFiber /\ caller'[f] = caller'[g] => f = g
    BY <1>5, <1>6, <2>3
  <2> QED BY <1>12, <2>4, <2>5, <2>6 DEF Chains
<1>13. CASE tried = {}
  <2>1. fiber' = NoFiber /\ status' = "host" /\ apiStack' = NoFiber
    BY <1>13 DEF RuntimeError, ReturnToHost, R
  <2>2. Chains(H, B, numFrames', caller', hasError', state')
    BY <1>12
  <2> QED BY <2>1, <2>2 DEF ControlNext, Control
<1>14. CASE tried # {}
  <2>1. PICK h \in tried :
          LoadFrame(callers[h], IF callers[h] \in Fibers
                                THEN numFrames[callers[h]] ELSE 0)
    BY <1>14 DEF RuntimeError, R
  <2>2. /\ h \in R /\ h \in live /\ state[h] = "try"
        /\ callers[h] = caller[h] /\ caller[h] # NoFiber
    BY <1>0, <1>1 DEF Alive
  <2>3. caller[h] \in live \ T /\ Busy(caller[h], B, caller, state)
    BY <1>8, <2>2
  <2>4. caller[h] \notin R
    <3>1. SUFFICES ASSUME caller[h] \in R
                   PROVE  FALSE
      OBVIOUS
    <3>2. PICK x \in R : state[x] # "try" /\ callers[x] = caller[h]
      BY <1>2, <2>3, <3>1
    <3>3. caller[x] = caller[h]
      BY <1>1, <3>2 DEF Alive
    <3> QED BY <1>7, <2>2, <3>2, <3>3
  <2>5. fiber' = caller[h] /\ status' = "running" /\ apiStack' = NoFiber
    <3>1. apiStack' = NoFiber
      BY <1>14 DEF RuntimeError, R
    <3> QED BY <2>1, <2>2, <2>3, <3>1 DEF LoadFrame, Alive
  <2>6. \A g \in live \ R : caller[g] # caller[h]
    BY <1>7, <2>2
  <2>7. Chains(H \cup {caller[h]}, B, numFrames', caller', hasError', state')
    BY <1>11, <1>12, <2>3, <2>4, <2>6
  <2> QED BY <2>3, <2>5, <2>7 DEF ControlNext, Control
<1> QED BY <1>13, <1>14

(* runFiber's assignment to fiber->caller reaches only finished fibers     *)
(* when it goes on to fail.                                                *)
LEMMA FailedRunHandsOver ==
  ASSUME LinkInv, NEW H \in SUBSET Fibers, NEW B, ControlNow(H, B), status = "running",
         NEW f \in Fibers, NEW isCall \in BOOLEAN, RunFiberFails(f, isCall)
  PROVE  ControlNext(H, B)
<1>1. /\ RuntimeError(fiber, CallersAfterRun(f, isCall),
                      [hasError EXCEPT ![fiber] = TRUE], state, apiStack)
      /\ numFrames' = numFrames /\ ~CanRun(f, isCall)
  BY DEF RunFiberFails
<1>2. /\ fiber \in Fibers \ H /\ apiStack = NoFiber
      /\ Chains(H \cup {fiber}, B, numFrames, caller, hasError, state)
  BY DEF ControlNow, Control
<1>3. CallersAfterRun(f, isCall) \in [Fibers -> MaybeFiber]
  BY LinkFacts, HelperTypes
<1>4. \A g \in Fibers : numFrames[g] > 0 => CallersAfterRun(f, isCall)[g] = caller[g]
  BY <1>1, LinkFacts DEF CallersAfterRun, CanRun
<1> QED BY <1>1, <1>2, <1>3, <1>4, ErrorHandsOver

(* A call continues the chain of the running fiber with a fiber that is    *)
(* suspended and that nobody waits for.                                    *)
LEMMA CallHandsOver ==
  ASSUME LinkInv, NEW H \in SUBSET Fibers, NEW B, ControlNow(H, B), status = "running",
         NEW f \in Fibers \ (H \cup {fiber}), CanRun(f, TRUE),
         \A g \in Fibers : Alive(g, numFrames, hasError) => caller[g] # f,
         NEW states \in [Fibers -> FiberState],
         \A g \in Fibers \ {f} : states[g] = state[g],
         SwitchTo(f, CallersAfterRun(f, TRUE), hasError, states),
         numFrames' = numFrames
  PROVE  ControlNext(H, B)
<1>0. /\ fiber \in Fibers \ H /\ caller \in [Fibers -> MaybeFiber] /\ NoFiber \notin Fibers
      /\ Chains(H \cup {fiber}, B, numFrames, caller, hasError, state)
      /\ apiStack = NoFiber
  BY LinkFacts DEF ControlNow, Control
<1>1. /\ Alive(f, numFrames, hasError)
      /\ caller[f] = NoFiber /\ f \notin H /\ f # fiber
  BY DEF CanRun, Reachable, Alive
<1>2. \A g \in Fibers : Alive(g, numFrames, hasError) => caller[g] # f
  OBVIOUS
<1>3. /\ caller' = [caller EXCEPT ![f] = fiber] /\ hasError' = hasError
      /\ state' = states /\ fiber' = f /\ status' = "running"
      /\ apiStack' = NoFiber
  BY <1>0, <1>1 DEF SwitchTo, LoadFrame, CallersAfterRun, CanRun, Alive
<1>4. \A g \in Fibers : /\ g # f => caller'[g] = caller[g] /\ state'[g] = state[g]
                        /\ Busy(g, B, caller, state) => Busy(g, B, caller', state')
  BY <1>0, <1>1, <1>3 DEF Busy
<1>5. caller'[f] = fiber /\ Busy(f, B, caller', state')
  BY <1>0, <1>3 DEF Busy
<1>6. \A g \in Fibers : Alive(g, numFrames, hasError) => caller[g] # fiber
  BY <1>0 DEF Chains
<1>7. Chains(H \cup {f}, B, numFrames, caller', hasError, state')
  <2>1. H \cup {f} \subseteq Fibers
        /\ \A g \in H \cup {f} : /\ Alive(g, numFrames, hasError)
                                 /\ Busy(g, B, caller', state')
    BY <1>0, <1>1, <1>4, <1>5 DEF Chains
  <2>2. ASSUME NEW g \in Fibers, Alive(g, numFrames, hasError), caller'[g] # NoFiber
        PROVE  /\ caller'[g] \in Fibers \ (H \cup {f})
               /\ Alive(caller'[g], numFrames, hasError)
               /\ Busy(caller'[g], B, caller', state')
    <3>1. CASE g = f
      BY <1>0, <1>1, <1>4, <1>5, <3>1 DEF Chains
    <3>2. CASE g # f
      BY <1>0, <1>2, <1>4, <2>2, <3>2 DEF Chains
    <3> QED BY <3>1, <3>2
  <2>3. ASSUME NEW g \in Fibers, NEW h \in Fibers, Alive(g, numFrames, hasError),
               Alive(h, numFrames, hasError), caller'[g] # NoFiber,
               caller'[g] = caller'[h]
        PROVE  g = h
    BY <1>0, <1>4, <1>5, <1>6, <2>3 DEF Chains
  <2> QED BY <2>1, <2>2, <2>3 DEF Chains
<1> QED BY <1>1, <1>3, <1>7 DEF ControlNext, Control

(* Giving control back to the caller, or to the host without one, takes    *)
(* the running fiber off its chain: it stays suspended, or it is finished. *)
LEMMA PopHandsOver ==
  ASSUME LinkInv, NEW H \in SUBSET Fibers, NEW B, ControlNow(H, B), status = "running",
         caller' = [caller EXCEPT ![fiber] = NoFiber], hasError' = hasError,
         \A g \in Fibers \ {fiber} : /\ state'[g] = state[g]
                                     /\ numFrames'[g] = numFrames[g],
         \/ /\ caller[fiber] # NoFiber
            /\ fiber' = caller[fiber] /\ status' = "running"
            /\ apiStack' = NoFiber
         \/ /\ caller[fiber] = NoFiber /\ status' = "host"
            /\ \/ fiber' = NoFiber
               \/ fiber' = fiber /\ numFrames'[fiber] = 0
            /\ apiStack' \in {NoFiber, fiber'}
  PROVE  ControlNext(H, B)
<1> DEFINE next == caller[fiber]
           S == IF next = NoFiber THEN H ELSE H \cup {next}
           live == {f \in Fibers : Alive(f, numFrames, hasError)}
<1>0. /\ fiber \in Fibers \ H /\ caller \in [Fibers -> MaybeFiber] /\ NoFiber \notin Fibers
      /\ Chains(H \cup {fiber}, B, numFrames, caller, hasError, state)
  BY LinkFacts DEF ControlNow, Control
<1>1. \A g \in live : caller[g] # fiber
  BY <1>0 DEF Chains
<1>2. /\ \A g \in Fibers \ {fiber} :
           /\ Alive(g, numFrames', hasError') <=> Alive(g, numFrames, hasError)
           /\ caller'[g] = caller[g]
           /\ Busy(g, B, caller', state') <=> Busy(g, B, caller, state)
      /\ caller'[fiber] = NoFiber
  BY <1>0 DEF Alive, Busy
<1>3. next # NoFiber => /\ next \in Fibers \ (H \cup {fiber})
                       /\ Alive(next, numFrames, hasError) /\ Busy(next, B, caller, state)
  BY <1>0 DEF Chains
<1>4. S \subseteq Fibers \ {fiber}
      /\ \A g \in S : Alive(g, numFrames', hasError') /\ Busy(g, B, caller', state')
  <2>1. S \subseteq Fibers \ {fiber}
    BY <1>0, <1>3
  <2>2. \A g \in S : Alive(g, numFrames, hasError) /\ Busy(g, B, caller, state)
    BY <1>0, <1>3 DEF Chains
  <2> HIDE DEF S
  <2> QED BY <1>2, <2>1, <2>2
<1> HIDE DEF S
<1>5. ASSUME NEW g \in Fibers, Alive(g, numFrames', hasError'), caller'[g] # NoFiber
      PROVE  /\ g \in live \ {fiber} /\ caller'[g] = caller[g]
             /\ caller[g] \in Fibers \ (S \cup {fiber})
             /\ Alive(caller[g], numFrames', hasError')
             /\ Busy(caller[g], B, caller', state')
  <2>1. g \in live \ {fiber} /\ caller'[g] = caller[g] /\ caller[g] # NoFiber
    BY <1>2, <1>5
  <2>2. /\ caller[g] \in Fibers \ (H \cup {fiber}) /\ Alive(caller[g], numFrames, hasError)
        /\ Busy(caller[g], B, caller, state)
    BY <1>0, <2>1 DEF Chains
  <2>3. next # NoFiber => caller[g] # next
    BY <1>0, <2>1 DEF Chains
  <2> QED BY <1>2, <2>1, <2>2, <2>3 DEF S
<1>6. ASSUME NEW g \in Fibers, NEW h \in Fibers, Alive(g, numFrames', hasError'),
             Alive(h, numFrames', hasError'), caller'[g] # NoFiber,
             caller'[g] = caller'[h]
      PROVE  g = h
  <2>1. /\ g \in live /\ h \in live /\ caller'[g] = caller[g] /\ caller'[h] = caller[h]
    BY <1>5, <1>6
  <2> QED BY <1>0, <1>6, <2>1 DEF Chains
<1> HIDE DEF live
<1>7. Chains(S, B, numFrames', caller', hasError', state')
  BY <1>4, <1>5, <1>6 DEF Chains
<1>8. CASE next # NoFiber
  BY <1>0, <1>3, <1>7, <1>8 DEF S, ControlNext, Control
<1>9. CASE next = NoFiber
  <2>1. ~hasError[fiber]
    BY <1>0 DEF Chains, Alive
  <2> QED BY <1>0, <1>7, <1>9, <2>1 DEF S, ControlNext, Control
<1> QED BY <1>8, <1>9

(* The host starts the interpreter on a fiber that nobody waits for.       *)
LEMMA StartHandsOver ==
  ASSUME LinkInv, NEW H \in SUBSET Fibers, NEW B, ControlNow(H, B), status = "host",
         NEW f \in Fibers, NEW api,
         numFrames[f] = 0, caller[f] = NoFiber, ~hasError[f],
         RunInterpreter(f, api), apiStack' = NoFiber
  PROVE  ControlNext(H, B)
<1>0. /\ Chains(H, B, numFrames, caller, hasError, state) /\ NoFiber \notin Fibers
      /\ caller \in [Fibers -> MaybeFiber] /\ state \in [Fibers -> FiberState]
      /\ numFrames \in [Fibers -> 0 .. MaxFrames]
  BY LinkFacts DEF ControlNow, Control
<1>1. /\ fiber' = f /\ status' = "running" /\ UNCHANGED <<caller, hasError>>
      /\ numFrames' = [numFrames EXCEPT ![f] = 1]
      /\ state' = [state EXCEPT ![f] = "root"]
  BY DEF RunInterpreter, StatesAfterStart
<1>2. /\ \A g \in Fibers \ {f} :
           Alive(g, numFrames', hasError') <=> Alive(g, numFrames, hasError)
      /\ Alive(f, numFrames', hasError') /\ ~Alive(f, numFrames, hasError)
      /\ \A g \in Fibers : Busy(g, B, caller, state) => Busy(g, B, caller', state')
      /\ Busy(f, B, caller', state')
  BY <1>0, <1>1 DEF Alive, Busy
<1>3. f \notin H /\ \A g \in Fibers : Alive(g, numFrames, hasError) => caller[g] # f
  BY <1>0, <1>2 DEF Chains
<1>4. Chains(H \cup {f}, B, numFrames', caller', hasError', state')
  <2> DEFINE T == H \cup {f}
  <2>1. T \subseteq Fibers /\ \A g \in T : /\ Alive(g, numFrames', hasError')
                                         /\ Busy(g, B, caller', state')
    BY <1>0, <1>2, <1>3 DEF Chains
  <2>2. ASSUME NEW g \in Fibers, Alive(g, numFrames', hasError'), caller'[g] # NoFiber
        PROVE  /\ g # f /\ Alive(g, numFrames, hasError) /\ caller[g] = caller'[g]
               /\ caller'[g] \in Fibers \ T
               /\ Alive(caller'[g], numFrames', hasError')
               /\ Busy(caller'[g], B, caller', state')
    <3>1. caller'[g] = caller[g] /\ g # f
      BY <1>1, <2>2
    <3>2. Alive(g, numFrames, hasError) /\ caller[g] # f
      BY <1>2, <1>3, <3>1, <2>2
    <3>3. /\ caller[g] \in Fibers \ H /\ Alive(caller[g], numFrames, hasError)
          /\ Busy(caller[g], B, caller, state)
      BY <1>0, <2>2, <3>1, <3>2 DEF Chains
    <3> QED BY <1>2, <3>1, <3>2, <3>3
  <2>3. ASSUME NEW g \in Fibers, NEW h \in Fibers,
               Alive(g, numFrames', hasError'), Alive(h, numFrames', hasError'),
               caller'[g] # NoFiber, caller'[g] = caller'[h]
        PROVE  g = h
    BY <1>0, <2>2, <2>3 DEF Chains
  <2> HIDE DEF T
  <2> QED BY <2>1, <2>2, <2>3 DEF Chains, T
<1>5. /\ (IF status' = "running" THEN H \cup {fiber'} ELSE H) = H \cup {f}
      /\ fiber' \in Fibers \ H /\ status' = "running"
  BY <1>1, <1>3
<1> QED BY <1>4, <1>5 DEF ControlNext, Control

-----------------------------------------------------------------------------
(***************************************************************************)
(* The operations of Wren code and of the host, on chains.                 *)
(***************************************************************************)
LEMMA ControlFacts ==
  ASSUME LinkInv, NEW H \in SUBSET Fibers, NEW B, ControlNow(H, B)
  PROVE  /\ TypeOK /\ NoFiber \notin Fibers
         /\ caller \in [Fibers -> MaybeFiber] /\ hasError \in [Fibers -> BOOLEAN]
         /\ state \in [Fibers -> FiberState] /\ numFrames \in [Fibers -> 0 .. MaxFrames]
         /\ Chains(H, B, numFrames, caller, hasError, state)
         /\ status = "running" =>
              /\ fiber \in Fibers \ H /\ apiStack = NoFiber
              /\ Alive(fiber, numFrames, hasError)
              /\ Chains(H \cup {fiber}, B, numFrames, caller, hasError, state)
              /\ caller[fiber] # NoFiber
                   => /\ caller[fiber] \in Fibers \ (H \cup {fiber})
                      /\ Alive(caller[fiber], numFrames, hasError)
<1>1. CASE status = "running"
  <2>1. /\ fiber \in Fibers \ H /\ apiStack = NoFiber
        /\ Chains(H \cup {fiber}, B, numFrames, caller, hasError, state)
    BY <1>1 DEF ControlNow, Control
  <2>2. Chains(H, B, numFrames, caller, hasError, state)
    BY <2>1, LinkFacts, SameChains
  <2> QED BY <2>1, <2>2, LinkFacts DEF Chains
<1>2. CASE status # "running"
  BY <1>2, LinkFacts DEF ControlNow, Control
<1> QED BY <1>1, <1>2

(* Nothing of the chains changes, and the same code goes on.               *)
LEMMA SameControl ==
  ASSUME LinkInv, NEW H \in SUBSET Fibers, NEW B, ControlNow(H, B), status = "running",
         fiber' = fiber, status' = status, apiStack' = NoFiber,
         caller' = caller, state' = state,
         \A f \in Fibers : Alive(f, numFrames', hasError') <=> Alive(f, numFrames, hasError)
  PROVE  ControlNext(H, B)
<1>1. Chains(H \cup {fiber}, B, numFrames', caller', hasError', state')
  <2>1. /\ NoFiber \notin Fibers /\ caller \in [Fibers -> MaybeFiber]
        /\ H \cup {fiber} \in SUBSET Fibers
        /\ Chains(H \cup {fiber}, B, numFrames, caller, hasError, state)
    BY ControlFacts
  <2> QED BY <2>1, SameChains
<1>2. /\ (IF status' = "running" THEN H \cup {fiber'} ELSE H) = H \cup {fiber}
      /\ fiber' \in Fibers \ H /\ status' = "running"
  BY ControlFacts
<1> QED BY <1>1, <1>2 DEF ControlNext, Control

(* A new fiber may be held by the host for its first run.                  *)
LEMMA NewHandsOver ==
  ASSUME LinkInv, NEW H \in SUBSET Fibers, NEW B, ControlNow(H, B),
         NEW f \in Fibers, FiberNew(f)
  PROVE  ControlNext(H, B) /\ ControlNext(H \cup {f}, B \cup {f})
<1>1. /\ f \notin known /\ f # fiber /\ status = "running"
      /\ UNCHANGED <<fiber, apiStack, status, caller, hasError, state>>
      /\ numFrames' = [numFrames EXCEPT ![f] = 1]
  BY DEF FiberNew, Fresh
<1>2. caller[f] = NoFiber /\ numFrames[f] = 0 /\ ~hasError[f]
  BY <1>1, LinkFacts
<1>3. numFrames \in [Fibers -> Nat]
  BY LinkFacts
<1>4. /\ Chains(H \cup {fiber}, B, numFrames', caller, hasError, state)
      /\ Chains((H \cup {fiber}) \cup {f}, B \cup {f}, numFrames', caller, hasError, state)
  BY <1>1, <1>2, <1>3, ControlFacts, NewKeepsChains
<1>5. (H \cup {fiber}) \cup {f} = (H \cup {f}) \cup {fiber}
  OBVIOUS
<1> QED BY <1>1, <1>4, <1>5, ControlFacts DEF ControlNext, Control

(* call() and try() of a fiber that is neither held nor running and that   *)
(* nobody alive waits for, or that runFiber refuses.                       *)
LEMMA RunIdleHandsOver ==
  ASSUME LinkInv, NEW H \in SUBSET Fibers, NEW B, ControlNow(H, B),
         NEW f \in Fibers, FiberCall(f) \/ FiberTry(f),
         CanRun(f, TRUE)
           => /\ f \notin H \cup {fiber}
              /\ \A g \in Fibers : Alive(g, numFrames, hasError) => caller[g] # f
  PROVE  ControlNext(H, B)
<1>1. status = "running"
  BY DEF FiberCall, FiberTry
<1>2. CASE RunFiberFails(f, TRUE)
  BY <1>1, <1>2, FailedRunHandsOver
<1>3. CASE /\ CanRun(f, TRUE)
           /\ SwitchTo(f, CallersAfterRun(f, TRUE), hasError, state)
           /\ UNCHANGED <<known, numFrames, shifted>>
  BY <1>1, <1>3, LinkFacts, CallHandsOver
<1>4. CASE /\ CanRun(f, TRUE)
           /\ SwitchTo(f, CallersAfterRun(f, TRUE), hasError,
                       [state EXCEPT ![f] = "try"])
           /\ UNCHANGED <<known, numFrames, shifted>>
  <2>1. /\ [state EXCEPT ![f] = "try"] \in [Fibers -> FiberState]
        /\ \A g \in Fibers \ {f} : [state EXCEPT ![f] = "try"][g] = state[g]
    BY <1>1, LinkFacts, HelperTypes
  <2> QED BY <1>1, <1>4, <2>1, CallHandsOver
<1> QED BY <1>2, <1>3, <1>4 DEF FiberCall, FiberTry

(* What runFiber lets be called is such a fiber, outside B.                *)
LEMMA RunHandsOver ==
  ASSUME LinkInv, NEW H \in SUBSET Fibers, NEW B, ControlNow(H, B),
         NEW f \in Fibers \ B, FiberCall(f) \/ FiberTry(f)
  PROVE  ControlNext(H, B)
<1>1. /\ status = "running" /\ NoFiber \notin Fibers
      /\ Chains(H \cup {fiber}, B, numFrames, caller, hasError, state)
  BY ControlFacts DEF FiberCall, FiberTry
<1>2. CanRun(f, TRUE) => ~Busy(f, B, caller, state)
  BY DEF CanRun, Reachable, Busy
<1>3. CanRun(f, TRUE)
        => /\ f \notin H \cup {fiber}
           /\ \A g \in Fibers : Alive(g, numFrames, hasError) => caller[g] # f
  BY <1>1, <1>2 DEF Chains
<1> QED BY <1>3, RunIdleHandsOver

LEMMA YieldHandsOver ==
  ASSUME LinkInv, NEW H \in SUBSET Fibers, NEW B, ControlNow(H, B),
         NEW hasValue \in BOOLEAN, FiberYield(hasValue)
  PROVE  ControlNext(H, B)
<1>1. /\ status = "running" /\ numFrames' = numFrames
      /\ fiber \in Fibers /\ apiStack = NoFiber
  BY ControlFacts DEF FiberYield
<1>2. CASE caller[fiber] # NoFiber
  <2>1. SwitchTo(caller[fiber], CallersAfterYield, hasError, StatesAfterYield)
    BY <1>2 DEF FiberYield
  <2>2. caller[fiber] \in Fibers /\ Alive(caller[fiber], numFrames, hasError)
    BY <1>1, <1>2, ControlFacts
  <2>3. /\ caller' = CallersAfterYield /\ hasError' = hasError
        /\ state' = StatesAfterYield /\ apiStack' = NoFiber
        /\ fiber' = caller[fiber] /\ status' = "running"
    BY <1>1, <1>2, <2>1, <2>2, LinkFacts DEF SwitchTo, LoadFrame, Alive
  <2>4. \A g \in Fibers \ {fiber} : state'[g] = state[g]
    BY <2>3, LinkFacts DEF StatesAfterYield
  <2> QED BY <1>1, <1>2, <2>3, <2>4, PopHandsOver DEF CallersAfterYield
<1>3. CASE caller[fiber] = NoFiber
  <2>1. /\ caller' = CallersAfterYield /\ hasError' = hasError
        /\ state' = StatesAfterYield /\ apiStack' = NoFiber
        /\ fiber' = NoFiber /\ status' = "host"
    BY <1>1, <1>3 DEF FiberYield, ReturnToHost
  <2>2. \A g \in Fibers \ {fiber} : state'[g] = state[g]
    BY <2>1, LinkFacts DEF StatesAfterYield
  <2> QED BY <1>1, <1>3, <2>1, <2>2, PopHandsOver DEF CallersAfterYield
<1> QED BY <1>2, <1>3

LEMMA AbortHandsOver ==
  ASSUME LinkInv, NEW H \in SUBSET Fibers, NEW B, ControlNow(H, B), FiberAbort
  PROVE  ControlNext(H, B)
<1>1. /\ status = "running" /\ numFrames' = numFrames
      /\ RuntimeError(fiber, caller, [hasError EXCEPT ![fiber] = TRUE], state, apiStack)
  BY DEF FiberAbort
<1> QED BY <1>1, ControlFacts, ErrorHandsOver

(* A suspended fiber may be held for later.                                *)
LEMMA SuspendHandsOver ==
  ASSUME LinkInv, NEW H \in SUBSET Fibers, NEW B, ControlNow(H, B), FiberSuspend
  PROVE  ControlNext(H, B) /\ ControlNext(H \cup {fiber}, B)
<1>1. /\ fiber' = NoFiber /\ status' = "host" /\ apiStack' = NoFiber
      /\ UNCHANGED <<caller, hasError, state, numFrames>> /\ status = "running"
  BY DEF FiberSuspend, ReturnToHost, fiberVars
<1> QED BY <1>1, ControlFacts DEF ControlNext, Control

LEMMA ReturnHandsOver ==
  ASSUME LinkInv, NEW H \in SUBSET Fibers, NEW B, ControlNow(H, B), Return
  PROVE  ControlNext(H, B)
<1> DEFINE left == numFrames[fiber] - 1
           next == caller[fiber]
<1>1. /\ status = "running" /\ fiber \in Fibers /\ apiStack = NoFiber
      /\ numFrames' = [numFrames EXCEPT ![fiber] = left]
      /\ UNCHANGED <<known, hasError, state>>
      /\ numFrames \in [Fibers -> 0 .. MaxFrames] /\ caller \in [Fibers -> MaybeFiber]
      /\ Alive(fiber, numFrames, hasError)
  BY ControlFacts DEF Return
<1>2. CASE left > 0 /\ UNCHANGED <<fiber, apiStack, status, entry, result, caller>>
  <2>1. \A g \in Fibers : Alive(g, numFrames', hasError') <=> Alive(g, numFrames, hasError)
    BY <1>1, <1>2 DEF Alive
  <2> QED BY <1>1, <1>2, <2>1, SameControl
<1>3. CASE /\ left = 0 /\ next = NoFiber
           /\ ReturnToHost("success", fiber, apiStack) /\ UNCHANGED caller
  <2>1. /\ fiber' = fiber /\ status' = "host" /\ apiStack' \in {NoFiber, fiber'}
        /\ numFrames'[fiber] = 0 /\ caller' = [caller EXCEPT ![fiber] = NoFiber]
    BY <1>1, <1>3 DEF ReturnToHost
  <2> QED BY <1>1, <1>3, <2>1, PopHandsOver
<1>4. CASE /\ left = 0 /\ next # NoFiber
           /\ caller' = [caller EXCEPT ![fiber] = NoFiber]
           /\ LoadFrame(next, IF next = fiber THEN left ELSE numFrames[next])
           /\ UNCHANGED apiStack
  <2>1. next \in Fibers /\ Alive(next, numFrames, hasError) /\ next # fiber
    BY <1>1, <1>4, ControlFacts
  <2>2. fiber' = next /\ status' = "running" /\ apiStack' = NoFiber
    BY <1>1, <1>4, <2>1, ControlFacts DEF LoadFrame, Alive
  <2> QED BY <1>1, <1>4, <2>2, PopHandsOver
<1> QED BY <1>2, <1>3, <1>4 DEF Return

(* The other operations of the running fiber leave the chains alone, or    *)
(* abort it.                                                               *)
LEMMA OthersHandOver ==
  ASSUME LinkInv, NEW H \in SUBSET Fibers, NEW B, ControlNow(H, B),
         CallFunction \/ FiberAbortNull \/ \E aborts \in BOOLEAN : CallForeign(aborts)
  PROVE  ControlNext(H, B)
<1>1. CASE CallFunction
  <2>1. /\ status = "running" /\ apiStack' = apiStack
        /\ UNCHANGED <<fiber, status, caller, hasError, state>>
        /\ numFrames' = [numFrames EXCEPT ![fiber] = @ + 1]
    BY <1>1, Zenon DEF CallFunction
  <2>2. /\ fiber \in Fibers /\ apiStack = NoFiber
        /\ numFrames[fiber] \in Nat /\ numFrames[fiber] > 0
    <3>1. /\ fiber \in Fibers /\ apiStack = NoFiber
          /\ Alive(fiber, numFrames, hasError)
      BY <2>1, ControlFacts
    <3>2. numFrames[fiber] \in 0 .. MaxFrames
      BY <3>1, LinkFacts
    <3> QED BY <3>1, <3>2 DEF Alive
  <2>3. \A f \in Fibers : numFrames'[f] > 0 <=> numFrames[f] > 0
    BY <2>1, <2>2, ControlFacts
  <2>4. \A f \in Fibers : Alive(f, numFrames', hasError') <=> Alive(f, numFrames, hasError)
    BY <2>1, <2>3 DEF Alive
  <2> QED BY <2>1, <2>2, <2>4, SameControl
<1>2. CASE FiberAbortNull
  <2>1. /\ status = "running" /\ hasError' = hasError /\ apiStack = NoFiber
        /\ UNCHANGED <<fiber, apiStack, status, numFrames, caller, state>>
    BY <1>2, ControlFacts DEF FiberAbortNull, Alive
  <2> QED BY <2>1, SameControl DEF Alive
<1>3. ASSUME NEW aborts \in BOOLEAN, CallForeign(aborts) PROVE ControlNext(H, B)
  <2>1. /\ status = "running" /\ numFrames' = numFrames
    BY <1>3 DEF CallForeign
  <2>2. CASE RuntimeError(fiber, caller, [hasError EXCEPT ![fiber] = TRUE], state,
                          NoFiber)
    BY <2>1, <2>2, ControlFacts, ErrorHandsOver
  <2>3. CASE /\ apiStack' = NoFiber
             /\ UNCHANGED <<fiber, status, entry, result, caller, hasError, state>>
    BY <2>1, <2>3, SameControl DEF Alive
  <2> QED BY <1>3, <2>2, <2>3 DEF CallForeign
<1> QED BY <1>1, <1>2, <1>3

(* transfer() to a fiber that the host holds, which goes on with its       *)
(* chain; the one that transfers may be held in turn.                      *)
LEMMA TransferHandsOver ==
  ASSUME LinkInv, NEW H \in SUBSET Fibers, NEW B, ControlNow(H, B),
         NEW f \in H, FiberTransfer(f)
  PROVE  ControlNext(H \ {f}, B) /\ ControlNext((H \ {f}) \cup {fiber}, B)
<1>1. /\ status = "running" /\ fiber \in Fibers \ H /\ apiStack = NoFiber
      /\ Alive(f, numFrames, hasError) /\ f \in Fibers
      /\ Chains(H \cup {fiber}, B, numFrames, caller, hasError, state)
      /\ caller \in [Fibers -> MaybeFiber] /\ NoFiber \notin Fibers
  BY ControlFacts DEF FiberTransfer, Chains
<1>2. CanRun(f, FALSE)
  BY <1>1 DEF CanRun, Reachable, Alive
<1>3. /\ fiber' = f /\ status' = "running" /\ apiStack' = NoFiber
      /\ UNCHANGED <<numFrames, caller, hasError, state>>
  BY <1>1, <1>2 DEF FiberTransfer, RunFiberFails, SwitchTo, LoadFrame, Alive
<1>4. /\ (H \ {f}) \cup {f} \in SUBSET (H \cup {fiber})
      /\ ((H \ {f}) \cup {fiber}) \cup {f} \in SUBSET (H \cup {fiber})
  OBVIOUS
<1>5. /\ Chains((H \ {f}) \cup {f}, B, numFrames, caller, hasError, state)
      /\ Chains(((H \ {f}) \cup {fiber}) \cup {f}, B, numFrames, caller, hasError, state)
  BY <1>1, <1>4, SameChains
<1> QED BY <1>1, <1>3, <1>5 DEF ControlNext, Control

(* transferError() to such a fiber aborts it and what waits for it.        *)
LEMMA TransferErrorHandsOver ==
  ASSUME LinkInv, NEW H \in SUBSET Fibers, NEW B, ControlNow(H, B),
         NEW f \in H, FiberTransferError(f, FALSE)
  PROVE  ControlNext(H \ {f}, B)
<1>1. /\ status = "running" /\ apiStack = NoFiber
      /\ Alive(f, numFrames, hasError) /\ f \in Fibers
      /\ Chains(H \cup {fiber}, B, numFrames, caller, hasError, state)
      /\ caller \in [Fibers -> MaybeFiber] /\ hasError \in [Fibers -> BOOLEAN]
  BY ControlFacts DEF FiberTransferError, Chains
<1>2. CanRun(f, FALSE)
  BY <1>1 DEF CanRun, Reachable, Alive
<1>3. /\ RuntimeError(f, caller, [hasError EXCEPT ![f] = TRUE], state, apiStack)
      /\ numFrames' = numFrames
  BY <1>1, <1>2 DEF FiberTransferError, SwitchTo
<1>4. (H \ {f}) \cup {f} \in SUBSET (H \cup {fiber})
  OBVIOUS
<1>5. Chains((H \ {f}) \cup {f}, B, numFrames, caller, hasError, state)
  BY <1>1, <1>4, SameChains
<1> QED BY <1>1, <1>3, <1>5, ErrorHandsOver

(* wrenEnsureSlots, wrenCall and wrenInterpret.                            *)
LEMMA HostHandsOver ==
  ASSUME LinkInv, NEW H \in SUBSET Fibers, NEW B, ControlNow(H, B),
         \/ \E f \in Fibers : EnsureSlots(f)
         \/ Call
         \/ ~MixedEntry /\ \E f \in Fibers : Interpret(f)
  PROVE  ControlNext(H, B)
<1>1. /\ status = "host" => /\ apiStack \in {NoFiber, fiber}
                            /\ fiber # NoFiber => numFrames[fiber] = 0 /\ ~hasError[fiber]
      /\ Chains(H, B, numFrames, caller, hasError, state)
  BY ControlFacts DEF ControlNow, Control
<1>2. ASSUME NEW f \in Fibers, EnsureSlots(f) PROVE ControlNext(H, B)
  <2>1. /\ f \notin known /\ status = "host" /\ fiber' = f /\ apiStack' = f
        /\ UNCHANGED <<status, numFrames, caller, hasError, state>>
    BY <1>2 DEF EnsureSlots, Fresh, fiberVars
  <2> QED BY <1>1, <2>1, LinkFacts DEF ControlNext, Control
<1>3. CASE Call
  <2>1. /\ status = "host" /\ fiber # NoFiber /\ numFrames[fiber] = 0
        /\ RunInterpreter(fiber, "call") /\ apiStack' = NoFiber
    BY <1>3 DEF Call, SlotsDuringCall
  <2>2. fiber \in Fibers /\ ~hasError[fiber] /\ caller[fiber] = NoFiber
    BY <1>1, <2>1, LinkFacts DEF MaybeFiber, LinkInv, FiberLinks
  <2> QED BY <2>1, <2>2, StartHandsOver
<1>4. ASSUME NEW f \in Fibers, Interpret(f), ~MixedEntry PROVE ControlNext(H, B)
  <2>1. /\ status = "host" /\ apiStack' = NoFiber /\ f \notin known
        /\ RunInterpreter(f, "interpret")
    BY <1>4 DEF Interpret, Fresh
  <2> QED BY <2>1, LinkFacts, StartHandsOver
<1> QED BY <1>2, <1>3, <1>4

-----------------------------------------------------------------------------
(***************************************************************************)
(* Programs that do not transfer, in a host that does not call             *)
(* wrenInterpret() over the slots of a wrenCall(): the fibers under way    *)
(* form one chain, no finished or aborted fiber runs again and the         *)
(* interpreter never leaves defined behaviour.                             *)
(***************************************************************************)
ChainInv == LinkInv /\ ControlNow({}, {})

THEOREM ChainInvariant ==
  ASSUME ~Transfers, ~MixedEntry
  PROVE  Spec => []ChainInv
<1>1. Init => ChainInv
  <2>1. Init => LinkInv
    BY DEF Init, LinkInv, FiberLinks, Links, TypeInv, TypeOK, RunningHasFrames,
           Status, Result, FiberState
  <2> QED
    BY <2>1 DEF Init, ChainInv, ControlNow, Control, Chains, Alive
<1>2. ChainInv /\ [Next]_vars => ChainInv'
  <2> SUFFICES ASSUME ChainInv, [Next]_vars
               PROVE  ChainInv'
    OBVIOUS
  <2>0. LinkInv /\ ControlNow({}, {}) /\ {} \in SUBSET Fibers
    BY DEF ChainInv
  <2>1. CASE WrenCode
    <3>1. ASSUME NEW f \in Fibers, FiberNew(f) PROVE ControlNext({}, {})
      BY <2>0, <3>1, NewHandsOver
    <3>2. ASSUME NEW f \in Fibers, FiberCall(f) \/ FiberTry(f) PROVE ControlNext({}, {})
      BY <2>0, <3>2, RunHandsOver
    <3>3. ASSUME NEW hasValue \in BOOLEAN, FiberYield(hasValue) PROVE ControlNext({}, {})
      BY <2>0, <3>3, YieldHandsOver
    <3>4. ASSUME Return PROVE ControlNext({}, {})
      BY <2>0, <3>4, ReturnHandsOver
    <3>5. ASSUME FiberSuspend PROVE ControlNext({}, {})
      BY <2>0, <3>5, SuspendHandsOver
    <3>6. ASSUME FiberAbort PROVE ControlNext({}, {})
      BY <2>0, <3>6, AbortHandsOver
    <3>7. ASSUME \/ CallFunction \/ FiberAbortNull
                 \/ \E aborts \in BOOLEAN : CallForeign(aborts)
          PROVE  ControlNext({}, {})
      BY <2>0, <3>7, OthersHandOver
    <3>8. ControlNext({}, {})
      BY <2>1, <3>1, <3>2, <3>3, <3>4, <3>5, <3>6, <3>7
         DEF WrenCode, FiberTransfer, FiberTransferError
    <3> QED BY <2>0, <2>1, <3>8, WrenCodeTypes, WrenCodeLinks
            DEF ChainInv, LinkInv, ControlNow, ControlNext
  <2>2. CASE Host
    <3>1. ASSUME InterpretFails PROVE ControlNext({}, {})
      BY <2>0, <3>1 DEF InterpretFails, fiberVars, ControlNow, ControlNext
    <3>2. ~EnsureStaleSlots
      BY <2>0 DEF EnsureStaleSlots, ControlNow, Control
    <3>3. ControlNext({}, {})
      BY <2>0, <2>2, <3>1, <3>2, HostHandsOver DEF Host
    <3> QED BY <2>0, <2>2, <3>3, HostTypes, HostLinks
            DEF ChainInv, LinkInv, ControlNow, ControlNext
  <2>3. CASE Undefined \/ UNCHANGED vars
    BY <2>0, <2>3 DEF Undefined, vars, fiberVars, ChainInv, LinkInv, FiberLinks, Links,
                      TypeInv, TypeOK, RunningHasFrames, ControlNow
  <2> QED BY <2>1, <2>2, <2>3 DEF Next
<1> QED BY <1>1, <1>2, PTL DEF Spec

(* What the chains say of the properties, whoever holds fibers.            *)
LEMMA ControlImplies ==
  ASSUME LinkInv, NEW H \in SUBSET Fibers, NEW B, ControlNow(H, B)
  PROVE  /\ WaitersAreLive /\ OneCalleeEach /\ NeverUndefined /\ AbortedNeverRuns
         /\ ApiStackInPlace
         /\ status = "host" /\ fiber # NoFiber => ~Live(fiber)
<1>1. Chains(H, B, numFrames, caller, hasError, state) /\ status \in {"host", "running"}
  BY ControlFacts DEF ControlNow, Control
<1>2. \A f \in Fibers : Alive(f, numFrames, hasError) <=> Live(f)
  BY DEF Alive, Live
<1>3. CASE status = "running"
  <2>1. Live(fiber) /\ \A f \in Fibers : Live(f) => caller[f] # fiber
    BY <1>2, <1>3, ControlFacts DEF Chains
  <2>2. WaitersAreLive /\ OneCalleeEach
    BY <1>1, <1>2, <2>1 DEF Chains, WaitersAreLive, OneCalleeEach
  <2> QED BY <1>3, <2>1, <2>2, ControlFacts
          DEF NeverUndefined, AbortedNeverRuns, ApiStackInPlace, Live
<1>4. CASE status = "host"
  <2>1. /\ apiStack \in {NoFiber, fiber}
        /\ fiber # NoFiber => fiber \in Fibers /\ ~Live(fiber)
    BY <1>4, LinkFacts DEF ControlNow, Control, Live, MaybeFiber
  <2>2. \A f \in Fibers : Live(f) /\ caller[f] # NoFiber
          => /\ caller[f] \in Fibers /\ Live(caller[f]) /\ caller[f] # fiber
    BY <1>1, <1>2, <2>1, LinkFacts DEF Chains
  <2>3. WaitersAreLive /\ OneCalleeEach
    BY <1>1, <1>2, <2>2 DEF Chains, WaitersAreLive, OneCalleeEach
  <2> QED BY <1>4, <2>1, <2>3 DEF NeverUndefined, AbortedNeverRuns, ApiStackInPlace
<1> QED BY <1>1, <1>3, <1>4

(* Without transfers no finished fiber is resumed: no call frame is read   *)
(* that does not exist, and the host's API slots are never stale.          *)
THEOREM NeverUndefinedWithoutTransfers ==
  ASSUME ~Transfers, ~MixedEntry
  PROVE  Spec => []NeverUndefined
<1>1. ChainInv => NeverUndefined
  BY ControlImplies DEF ChainInv
<1> QED BY <1>1, ChainInvariant, PTL

(* Without transfers an aborted fiber never runs again.                    *)
THEOREM AbortedNeverRunsWithoutTransfers ==
  ASSUME ~Transfers, ~MixedEntry
  PROVE  Spec => []AbortedNeverRuns
<1>1. ChainInv => AbortedNeverRuns
  BY ControlImplies DEF ChainInv
<1> QED BY <1>1, ChainInvariant, PTL

(* Without transfers a fiber that another one will resume is suspended in  *)
(* that call, and no two fibers will resume the same one.                  *)
THEOREM WaitersWithoutTransfers ==
  ASSUME ~Transfers, ~MixedEntry
  PROVE  Spec => [](WaitersAreLive /\ OneCalleeEach)
<1>1. ChainInv => WaitersAreLive /\ OneCalleeEach
  BY ControlImplies DEF ChainInv
<1> QED BY <1>1, ChainInvariant, PTL

(* The API slots are never another fiber's: foreign methods never find     *)
(* slots in use, and the host finds them on the stack of vm->fiber         *)
(* (wrenCall, callForeign).                                                *)
THEOREM ApiStackWithoutTransfers ==
  ASSUME ~Transfers, ~MixedEntry
  PROVE  Spec => []ApiStackInPlace
<1>1. ChainInv => ApiStackInPlace
  BY ControlImplies DEF ChainInv
<1> QED BY <1>1, ChainInvariant, PTL

-----------------------------------------------------------------------------
(***************************************************************************)
(* The chain of the running fiber as a sequence, and what each operation   *)
(* does to it: a refinement of FiberStack.                                 *)
(***************************************************************************)

(* s is the chain that ends at top, the fiber at the bottom first.         *)
Stacked(s, top, callers, frames, errors) ==
  /\ s \in Seq(Fibers)
  /\ \A i, j \in 1 .. Len(s) : s[i] = s[j] => i = j
  /\ top = IF s = << >> THEN NoFiber ELSE s[Len(s)]
  /\ \A i \in 1 .. Len(s) : /\ callers[s[i]] = IF i = 1 THEN NoFiber ELSE s[i - 1]
                            /\ Alive(s[i], frames, errors)

StackedNow(s) ==
  Stacked(s, IF status = "running" THEN fiber ELSE NoFiber, caller, numFrames, hasError)

(* The fibers of a stack, ... *)
Members(s) == {s[i] : i \in 1 .. Len(s)}

(* ... the phases of all, as in WrenFibersStack, before and after a step.  *)
PhaseFor(M, f, frames, callers, errors, states, refs) ==
  IF f \in M THEN "active"
  ELSE IF errors[f] THEN "aborted"
  ELSE IF f \notin refs THEN "none"
  ELSE IF frames[f] = 0 THEN "done"
  ELSE IF callers[f] # NoFiber \/ states[f] = "root" THEN "suspended"
  ELSE "idle"

PhaseNow(s, f) == PhaseFor(Members(s), f, numFrames, caller, hasError, state, known)
PhaseNext(s, f) ==
  PhaseFor(Members(s), f, numFrames', caller', hasError', state', known')

TriedNow(s) == {f \in Members(s) : state[f] = "try"}
TriedNext(s) == {f \in Members(s) : state'[f] = "try"}

StackedNext(s) ==
  Stacked(s, IF status' = "running" THEN fiber' ELSE NoFiber, caller', numFrames', hasError')

Moves(s, s2, fs, p) ==
  \A f \in Fibers : PhaseNext(s2, f) = IF f \in fs THEN p ELSE PhaseNow(s, f)

(* Next of FiberStack, from the stack s to s2, or a stuttering step.       *)
StackStep(s, s2) ==
  \/ s2 = s /\ Moves(s, s2, {}, "none") /\ TriedNext(s2) = TriedNow(s)
  \/ \E f \in Fibers :
       /\ s = << >> /\ PhaseNow(s, f) \in {"none", "done"} /\ s2 = <<f>>
       /\ Moves(s, s2, {f}, "active") /\ TriedNext(s2) = TriedNow(s)
  \/ \E f \in Fibers :
       /\ s # << >> /\ PhaseNow(s, f) = "none" /\ s2 = s
       /\ Moves(s, s2, {f}, "idle") /\ TriedNext(s2) = TriedNow(s)
  \/ \E f \in Fibers, isTry \in BOOLEAN :
       /\ s # << >> /\ PhaseNow(s, f) = "idle" /\ s2 = Append(s, f)
       /\ Moves(s, s2, {f}, "active")
       /\ TriedNext(s2) = IF isTry THEN TriedNow(s) \cup {f} ELSE TriedNow(s)
  \/ \E p \in {"idle", "done"} :
       /\ s # << >> /\ s2 = SubSeq(s, 1, Len(s) - 1)
       /\ Moves(s, s2, {s[Len(s)]}, p) /\ TriedNext(s2) = TriedNow(s) \ {s[Len(s)]}
  \/ /\ s # << >> /\ s2 = << >>
     /\ Moves(s, s2, Members(s), "suspended") /\ TriedNext(s2) = {}
  \/ \E k \in 0 .. Len(s) :
       /\ s # << >> /\ s2 = SubSeq(s, 1, k - 1)
       /\ k > 0 => s[k] \in TriedNow(s)
       /\ \A i \in k + 1 .. Len(s) : s[i] \notin TriedNow(s)
       /\ LET popped == {s[i] : i \in (k .. Len(s)) \ {0}}
          IN Moves(s, s2, popped, "aborted") /\ TriedNext(s2) = TriedNow(s) \ popped

(* WrenFibersStack reads the stack off the callers.                        *)
LEMMA ChainIsStack ==
  IsFiniteSet(Fibers) =>
    \A s : StackedNow(s) => /\ ChainOfCallers = s /\ InChain = Members(s)
                            /\ Cardinality(InChain) = Depth
                            /\ \A f : PhaseOf(f) = PhaseNow(s, f)
<1> SUFFICES ASSUME IsFiniteSet(Fibers), NEW s, StackedNow(s)
             PROVE  /\ ChainOfCallers = s /\ InChain = Members(s)
                    /\ Cardinality(InChain) = Depth
                    /\ \A f : PhaseOf(f) = PhaseNow(s, f)
  OBVIOUS
<1> DEFINE C == Cardinality(Fibers)
           top == IF status = "running" THEN fiber ELSE NoFiber
           d == Len(s)
           g == [n \in 1 .. C + 1 |-> IF n <= d THEN s[d + 1 - n] ELSE NoFiber]
<1>1. C \in Nat /\ d \in Nat /\ d <= C
  <2>1. C \in Nat /\ d \in Nat
    BY FS_CardinalityType DEF StackedNow, Stacked
  <2>2. IsFiniteSet(1 .. d) /\ Cardinality(1 .. d) = d
    <3> HIDE DEF d
    <3>1. 1 \in Int /\ d \in Int
      BY <2>1
    <3>2. IsFiniteSet(1 .. d) /\ Cardinality(1 .. d) = IF 1 > d THEN 0 ELSE d - 1 + 1
      BY <3>1, FS_Interval
    <3> QED BY <2>1, <3>2
  <2>3. s \in Injection(1 .. d, Fibers)
    BY DEF StackedNow, Stacked, Injection, IsInjective
  <2> HIDE DEF d, C
  <2> QED BY <2>1, <2>2, <2>3, FS_Injection DEF C
<1>2. /\ s \in Seq(Fibers)
      /\ \A i \in 1 .. d : s[i] \in Fibers /\ caller[s[i]] = IF i = 1 THEN NoFiber ELSE s[i - 1]
      /\ top = IF d = 0 THEN NoFiber ELSE s[d]
  BY DEF StackedNow, Stacked
<1> HIDE DEF d, C, top
<1>3. g = [n \in 1 .. C + 1 |->
             IF n = 1 THEN top
             ELSE IF g[n - 1] = NoFiber THEN NoFiber ELSE caller[g[n - 1]]]
  <2> SUFFICES ASSUME NEW n \in 1 .. C + 1
               PROVE  g[n] = IF n = 1 THEN top
                             ELSE IF g[n - 1] = NoFiber THEN NoFiber ELSE caller[g[n - 1]]
    BY Zenon
  <2>1. CASE n = 1
    BY <1>1, <1>2, <2>1
  <2>2. CASE n # 1 /\ n - 1 <= d
    <3>1. n - 1 \in 1 .. C + 1 /\ d + 2 - n \in 1 .. d /\ d + 1 - (n - 1) = d + 2 - n
      BY <1>1, <2>2
    <3>2. g[n - 1] = s[d + 2 - n] /\ s[d + 2 - n] \in Fibers
      BY <1>2, <2>2, <3>1
    <3>3. caller[s[d + 2 - n]] = IF d + 2 - n = 1 THEN NoFiber ELSE s[d + 1 - n]
      BY <1>1, <1>2, <3>1
    <3> QED BY <1>1, <2>2, <3>1, <3>2, <3>3, FibersAssumption
  <2>3. CASE n # 1 /\ ~(n - 1 <= d)
    BY <1>1, <1>2, <2>3
  <2> QED BY <2>1, <2>2, <2>3
<1>4. CallerAt = [n \in 1 .. C + 1 |->
                    IF n = 1 THEN top
                    ELSE IF CallerAt[n - 1] = NoFiber THEN NoFiber
                         ELSE caller[CallerAt[n - 1]]]
  <2> HIDE DEF g
  <2> QED BY <1>3, Zenon DEF CallerAt, top, C
<1>5. \A n \in 1 .. C + 1 : CallerAt[n] = g[n]
  <2> DEFINE wrong == {n \in 1 .. C + 1 : CallerAt[n] # g[n]}
  <2> SUFFICES ASSUME wrong # {} PROVE FALSE
    OBVIOUS
  <2>1. wrong \in SUBSET Nat
    BY <1>1
  <2>2. PICK n \in wrong : \A e \in wrong : n <= e
    BY <2>1, SmallestOfNaturals
  <2>3. n \in 1 .. C + 1 /\ CallerAt[n] # g[n]
    OBVIOUS
  <2>4. n # 1 => n - 1 \in 1 .. C + 1 /\ CallerAt[n - 1] = g[n - 1]
    BY <1>1, <2>2, <2>3
  <2> HIDE DEF g, wrong
  <2> QED BY <1>3, <1>4, <2>3, <2>4
<1>6. Depth = d
  <2>1. DOMAIN CallerAt = 1 .. C + 1
    BY <1>4, Zenon
  <2>2. {n \in DOMAIN CallerAt : CallerAt[n] # NoFiber} = 1 .. d
    <3>1. \A n \in 1 .. C + 1 : g[n] # NoFiber <=> n <= d
      BY <1>1, <1>2, FibersAssumption
    <3> HIDE DEF g
    <3> QED BY <1>1, <1>5, <2>1, <3>1
  <2>3. Cardinality(1 .. d) = d
    BY <1>1, FS_Interval
  <2> QED BY <2>2, <2>3 DEF Depth
<1>7. ChainOfCallers = [i \in 1 .. d |-> s[i]]
  <2> SUFFICES ASSUME NEW i \in 1 .. d PROVE CallerAt[d + 1 - i] = s[i]
    BY <1>6 DEF ChainOfCallers
  <2> QED BY <1>1, <1>2, <1>5
<1>8. ChainOfCallers = s /\ InChain = Members(s)
  <2>1. ChainOfCallers = s
    BY <1>2, <1>7 DEF d
  <2> QED BY <1>6, <2>1 DEF InChain, Members, d
<1>9. Cardinality(InChain) = Depth
  <2>1. IsFiniteSet(1 .. d) /\ Cardinality(1 .. d) = d
    BY <1>1, FS_Interval
  <2>2. s \in Bijection(1 .. d, Members(s))
    BY <1>2 DEF StackedNow, Stacked, Bijection, Injection, Surjection, IsInjective, Members, d
  <2>3. ExistsBijection(1 .. d, Members(s))
    BY <2>2 DEF ExistsBijection
  <2> QED BY <1>6, <1>8, <2>1, <2>3, FS_Bijection
<1>10. \A f : PhaseOf(f) = PhaseNow(s, f)
  BY <1>8 DEF PhaseOf, PhaseNow, PhaseFor
<1> QED BY <1>8, <1>9, <1>10

(* The step of the code has a step of FiberStack.                          *)
StepsOn(s) == \E s2 : StackedNext(s2) /\ StackStep(s, s2)

(* What the chains say of the stack.                                       *)
LEMMA StackFacts ==
  ASSUME LinkInv, ControlNow({}, {}), NEW s, StackedNow(s)
  PROVE  /\ s \in Seq(Fibers) /\ Len(s) \in Nat
         /\ \A i, j \in 1 .. Len(s) : s[i] = s[j] => i = j
         /\ \A i \in 1 .. Len(s) : /\ s[i] \in Fibers
                                   /\ caller[s[i]] = IF i = 1 THEN NoFiber ELSE s[i - 1]
                                   /\ Alive(s[i], numFrames, hasError)
                                   /\ s[i] \in known
                                   /\ caller[s[i]] # NoFiber \/ state[s[i]] = "root"
         /\ status = "running" => s # << >> /\ Len(s) > 0 /\ s[Len(s)] = fiber
         /\ status = "host" => s = << >>
         /\ status \in {"running", "host"}
<1>1. /\ s \in Seq(Fibers) /\ Len(s) \in Nat
      /\ \A i, j \in 1 .. Len(s) : s[i] = s[j] => i = j
      /\ \A i \in 1 .. Len(s) : /\ s[i] \in Fibers
                                /\ caller[s[i]] = IF i = 1 THEN NoFiber ELSE s[i - 1]
                                /\ Alive(s[i], numFrames, hasError)
  BY DEF StackedNow, Stacked
<1>2. status \in {"running", "host"}
  BY DEF ControlNow, Control
<1>3. /\ status = "running" => s # << >> /\ Len(s) > 0 /\ s[Len(s)] = fiber
      /\ status = "host" => s = << >>
  BY <1>1, LinkFacts DEF StackedNow, Stacked, LinkInv, FiberLinks, TypeOK
<1>4. ASSUME NEW i \in 1 .. Len(s)
      PROVE  s[i] \in known /\ (caller[s[i]] # NoFiber \/ state[s[i]] = "root")
  <2>1. s[i] \in known
    BY <1>1, LinkFacts DEF Alive
  <2>2. CASE i = Len(s)
    <3>1. status = "running"
      BY <1>2, <1>3, <1>4, <1>1
    <3> QED BY <1>3, <2>1, <2>2, <3>1 DEF ControlNow, Control, Chains, Busy
  <2>3. CASE i # Len(s)
    <3>1. i + 1 \in 1 .. Len(s) /\ caller[s[i + 1]] = s[i] /\ s[i] # NoFiber
      BY <1>1, <2>3, LinkFacts
    <3>2. Alive(s[i + 1], numFrames, hasError) /\ s[i + 1] \in Fibers
      BY <1>1, <3>1
    <3> QED BY <2>1, <3>1, <3>2 DEF ControlNow, Control, Chains, Busy
  <2> QED BY <2>2, <2>3
<1> QED BY <1>1, <1>2, <1>3, <1>4

(* Fibers outside keep their phases when their fields do.                  *)
LEMMA SamePhase ==
  ASSUME NEW s, NEW s2, NEW f, f \in Members(s2) <=> f \in Members(s),
         hasError'[f] = hasError[f], f \in known' <=> f \in known,
         numFrames'[f] = 0 <=> numFrames[f] = 0,
         numFrames[f] # 0 => caller'[f] = caller[f] /\ state'[f] = state[f]
  PROVE  PhaseNext(s2, f) = PhaseNow(s, f)
BY DEF PhaseNext, PhaseNow, PhaseFor

(* Steps that leave the stack alone.                                       *)
LEMMA StackStays ==
  ASSUME LinkInv, ControlNow({}, {}), NEW s, StackedNow(s),
         \/ status = "running" /\ UNCHANGED <<fiber, status>>
         \/ status = "host" /\ status' = "host",
         UNCHANGED <<caller, hasError, state, known>>,
         \A f \in Fibers : /\ numFrames'[f] = 0 <=> numFrames[f] = 0
                           /\ numFrames[f] > 0 => numFrames'[f] > 0
  PROVE  StepsOn(s)
<1>1. StackedNext(s)
  BY StackFacts DEF StackedNext, StackedNow, Stacked, Alive
<1>2. Moves(s, s, {}, "none")
  BY SamePhase DEF Moves
<1>3. TriedNext(s) = TriedNow(s)
  BY DEF TriedNext, TriedNow
<1> QED BY <1>1, <1>2, <1>3 DEF StepsOn, StackStep

(* Fiber.new                                                               *)
LEMMA NewOnStack ==
  ASSUME LinkInv, ControlNow({}, {}), NEW s, StackedNow(s), NEW f \in Fibers, FiberNew(f)
  PROVE  StepsOn(s)
<1>1. /\ status = "running" /\ UNCHANGED <<fiber, status, caller, hasError, state>>
      /\ known' = known \cup {f} /\ numFrames' = [numFrames EXCEPT ![f] = 1]
      /\ f \notin known
  BY DEF FiberNew, Fresh
<1>2. /\ \A g \in Members(s) : g \in Fibers \cap known
      /\ \A i \in 1 .. Len(s) : s[i] # f
  BY <1>1, StackFacts DEF Members
<1>3. StackedNext(s)
  BY <1>1, <1>2, StackFacts, LinkFacts DEF StackedNext, StackedNow, Stacked, Alive
<1>4. PhaseNow(s, f) = "none" /\ PhaseNext(s, f) = "idle"
  BY <1>1, <1>2, LinkFacts DEF PhaseNow, PhaseNext, PhaseFor, LinkInv, FiberLinks, Links
<1>5. \A g \in Fibers \ {f} : PhaseNext(s, g) = PhaseNow(s, g)
  BY <1>1, LinkFacts, SamePhase
<1>6. TriedNext(s) = TriedNow(s)
  BY <1>1 DEF TriedNext, TriedNow
<1> QED BY <1>1, <1>3, <1>4, <1>5, <1>6, StackFacts DEF StepsOn, StackStep, Moves

(* fiber.call and fiber.try of a fiber that can run.                       *)
LEMMA CallOnStack ==
  ASSUME LinkInv, ControlNow({}, {}), NEW s, StackedNow(s), status = "running",
         NEW f \in Fibers, f \in known, CanRun(f, TRUE), NEW isTry \in BOOLEAN,
         SwitchTo(f, CallersAfterRun(f, TRUE), hasError,
                  IF isTry THEN [state EXCEPT ![f] = "try"] ELSE state),
         UNCHANGED <<known, numFrames>>
  PROVE  StepsOn(s)
<1> DEFINE s2 == Append(s, f)
<1>0. /\ ~hasError[f] /\ caller[f] = NoFiber /\ state[f] # "root" /\ numFrames[f] > 0
      /\ state[f] # "try"
  BY LinkFacts DEF CanRun, Reachable
<1>1. /\ caller' = [caller EXCEPT ![f] = fiber] /\ hasError' = hasError
      /\ state' = IF isTry THEN [state EXCEPT ![f] = "try"] ELSE state
      /\ fiber' = f /\ status' = "running"
  BY <1>0, LinkFacts DEF SwitchTo, LoadFrame, CallersAfterRun, CanRun
<1>2. /\ f \notin Members(s) /\ \A i \in 1 .. Len(s) : s[i] # f
      /\ Members(s) \subseteq Fibers
  BY <1>0, StackFacts DEF Members
<1>3. /\ s2 \in Seq(Fibers) /\ Len(s2) = Len(s) + 1 /\ s2[Len(s) + 1] = f
      /\ \A i \in 1 .. Len(s) : s2[i] = s[i]
  BY StackFacts
<1>4. Members(s2) = Members(s) \cup {f}
  BY <1>3, StackFacts DEF Members
<1>5. StackedNext(s2)
  <2>1. s2 # << >>
    <3> HIDE DEF s2
    <3> QED BY <1>3, StackFacts
  <2>2. \A i \in 1 .. Len(s2) :
          /\ caller'[s2[i]] = IF i = 1 THEN NoFiber ELSE s2[i - 1]
          /\ Alive(s2[i], numFrames', hasError')
    <3> SUFFICES ASSUME NEW i \in 1 .. Len(s2)
                 PROVE  /\ caller'[s2[i]] = IF i = 1 THEN NoFiber ELSE s2[i - 1]
                        /\ Alive(s2[i], numFrames', hasError')
      OBVIOUS
    <3>1. CASE i = Len(s) + 1
      BY <1>0, <1>1, <1>3, <3>1, StackFacts, LinkFacts DEF Alive
    <3>2. CASE i # Len(s) + 1
      <4>1. i \in 1 .. Len(s) /\ (i # 1 => i - 1 \in 1 .. Len(s))
        BY <1>3, <3>2, StackFacts
      <4> HIDE DEF s2
      <4>2. s[i] \in Fibers \ {f}
        BY <1>2, <4>1, StackFacts
      <4>3. /\ caller'[s[i]] = caller[s[i]] /\ Alive(s[i], numFrames', hasError')
        BY <1>1, <4>1, <4>2, StackFacts, LinkFacts DEF Alive
      <4> QED BY <1>3, <4>1, <4>3, StackFacts
    <3> QED BY <3>1, <3>2
  <2>3. \A i, j \in 1 .. Len(s2) : s2[i] = s2[j] => i = j
    <3> SUFFICES ASSUME NEW i \in 1 .. Len(s2), NEW j \in 1 .. Len(s2), s2[i] = s2[j]
                 PROVE  i = j
      OBVIOUS
    <3>1. /\ i = Len(s) + 1 \/ i \in 1 .. Len(s)
          /\ j = Len(s) + 1 \/ j \in 1 .. Len(s)
      BY <1>3, StackFacts
    <3> HIDE DEF s2
    <3> QED BY <1>2, <1>3, <3>1, StackFacts
  <2> HIDE DEF s2
  <2> QED BY <1>1, <1>3, <2>1, <2>2, <2>3 DEF StackedNext, Stacked
<1> HIDE DEF s2
<1>6. PhaseNow(s, f) = "idle" /\ PhaseNext(s2, f) = "active"
  BY <1>0, <1>2, <1>4 DEF PhaseNow, PhaseNext, PhaseFor
<1>7. \A g \in Fibers \ {f} : PhaseNext(s2, g) = PhaseNow(s, g)
  BY <1>1, <1>4, LinkFacts, SamePhase
<1>8. TriedNext(s2) = IF isTry THEN TriedNow(s) \cup {f} ELSE TriedNow(s)
  BY <1>0, <1>1, <1>2, <1>4, LinkFacts DEF TriedNext, TriedNow
<1>9. Moves(s, s2, {f}, "active")
  BY <1>6, <1>7 DEF Moves
<1>10. StackStep(s, s2)
  BY <1>6, <1>8, <1>9, StackFacts DEF StackStep, s2
<1> QED BY <1>5, <1>10 DEF StepsOn

(* A stack without what is above its first n elements.                     *)
LEMMA Prefix ==
  ASSUME NEW S, NEW s \in Seq(S), NEW n \in 0 .. Len(s)
  PROVE  /\ SubSeq(s, 1, n) \in Seq(S) /\ Len(SubSeq(s, 1, n)) = n
         /\ \A i \in 1 .. n : SubSeq(s, 1, n)[i] = s[i] /\ i \in 1 .. Len(s)
BY SubSeqProperties

(* The running fiber gives control to its caller or to the host.           *)
LEMMA PopOnStack ==
  ASSUME LinkInv, ControlNow({}, {}), NEW s, StackedNow(s), status = "running",
         NEW p \in {"idle", "done"},
         caller[fiber] # NoFiber => fiber' = caller[fiber] /\ status' = "running",
         caller[fiber] = NoFiber => status' = "host",
         caller' = [caller EXCEPT ![fiber] = NoFiber],
         UNCHANGED <<hasError, known>>,
         \A g \in Fibers \ {fiber} : state'[g] = state[g] /\ numFrames'[g] = numFrames[g],
         p = "idle" => state'[fiber] # "root" /\ numFrames'[fiber] # 0,
         p = "done" => numFrames'[fiber] = 0
  PROVE  StepsOn(s)
<1> DEFINE s2 == SubSeq(s, 1, Len(s) - 1)
<1>1. /\ s2 \in Seq(Fibers) /\ Len(s2) = Len(s) - 1
      /\ \A i \in 1 .. Len(s) - 1 : s2[i] = s[i]
  <2>1. s \in Seq(Fibers) /\ Len(s) - 1 \in 0 .. Len(s)
    BY StackFacts
  <2> QED BY <2>1, Prefix
<1>2. /\ Len(s) \in Nat \ {0} /\ s[Len(s)] = fiber /\ fiber \in Fibers
      /\ \A i \in 1 .. Len(s) - 1 : s[i] \in Fibers \ {fiber}
  BY StackFacts
<1> HIDE DEF s2
<1>3. Members(s2) = Members(s) \ {fiber} /\ fiber \in Members(s)
  <2>1. \A i \in 1 .. Len(s) : i = Len(s) \/ i \in 1 .. Len(s) - 1
    BY <1>2
  <2>2. \A i \in 1 .. Len(s) - 1 : i \in 1 .. Len(s)
    BY <1>2
  <2>3. Len(s) \in 1 .. Len(s)
    BY <1>2
  <2>4. \A g : g \in Members(s2) <=> \E i \in 1 .. Len(s) - 1 : g = s[i]
    BY <1>1 DEF Members
  <2>5. \A g : g \in Members(s) <=> \E i \in 1 .. Len(s) : g = s[i]
    BY DEF Members
  <2>6. ASSUME NEW g \in Members(s), g # fiber PROVE g \in Members(s2)
    <3>1. PICK i \in 1 .. Len(s) : g = s[i]
      BY <2>5
    <3> QED BY <1>2, <2>1, <2>4, <2>6, <3>1
  <2>7. ASSUME NEW g \in Members(s2) PROVE g \in Members(s) /\ g # fiber
    <3>1. PICK i \in 1 .. Len(s) - 1 : g = s[i]
      BY <2>4
    <3> QED BY <1>2, <2>2, <2>5, <3>1
  <2>8. fiber \in Members(s)
    BY <1>2, <2>3, <2>5
  <2> QED BY <2>6, <2>7, <2>8
<1>4. StackedNext(s2)
  <2>1. (IF status' = "running" THEN fiber' ELSE NoFiber)
          = IF s2 = << >> THEN NoFiber ELSE s2[Len(s2)]
    <3>1. CASE Len(s) = 1
      <4>1. s2 = << >> /\ caller[fiber] = NoFiber
        BY <1>1, <1>2, <3>1, StackFacts
      <4> QED BY <4>1
    <3>2. CASE Len(s) # 1
      <4>1. /\ s2 # << >> /\ Len(s2) \in 1 .. Len(s) - 1 /\ Len(s) - 1 \in 1 .. Len(s)
            /\ caller[fiber] = s[Len(s) - 1] /\ s[Len(s) - 1] \in Fibers
        BY <1>1, <1>2, <3>2, StackFacts
      <4> QED BY <1>1, <4>1, LinkFacts
    <3> QED BY <3>1, <3>2
  <2>2. \A i \in 1 .. Len(s2) :
          /\ caller'[s2[i]] = IF i = 1 THEN NoFiber ELSE s2[i - 1]
          /\ Alive(s2[i], numFrames', hasError')
    <3> SUFFICES ASSUME NEW i \in 1 .. Len(s2)
                 PROVE  /\ caller'[s2[i]] = IF i = 1 THEN NoFiber ELSE s2[i - 1]
                        /\ Alive(s2[i], numFrames', hasError')
      OBVIOUS
    <3>1. /\ i \in 1 .. Len(s) - 1 /\ i \in 1 .. Len(s)
          /\ i # 1 => i - 1 \in 1 .. Len(s) - 1
      BY <1>1, <1>2
    <3>2. caller'[s[i]] = caller[s[i]] /\ Alive(s[i], numFrames', hasError')
      BY <1>2, <3>1, StackFacts, LinkFacts DEF Alive
    <3>3. caller[s[i]] = IF i = 1 THEN NoFiber ELSE s[i - 1]
      BY <3>1, StackFacts
    <3>4. s2[i] = s[i] /\ (i # 1 => s2[i - 1] = s[i - 1])
      BY <1>1, <3>1
    <3> QED BY <3>2, <3>3, <3>4
  <2>3. \A i, j \in 1 .. Len(s2) : s2[i] = s2[j] => i = j
    <3>1. \A i \in 1 .. Len(s2) : i \in 1 .. Len(s) /\ s2[i] = s[i]
      <4>1. \A i \in 1 .. Len(s) - 1 : i \in 1 .. Len(s)
        BY <1>2
      <4> QED BY <1>1, <4>1
    <3> QED BY <3>1, StackFacts
  <2> QED BY <1>1, <2>1, <2>2, <2>3 DEF StackedNext, Stacked
<1>5. Moves(s, s2, {fiber}, p)
  <2>1. PhaseNext(s2, fiber) = p
    BY <1>2, <1>3, StackFacts, LinkFacts DEF PhaseNext, PhaseFor, Alive
  <2>2. \A g \in Fibers \ {fiber} : PhaseNext(s2, g) = PhaseNow(s, g)
    BY <1>2, <1>3, LinkFacts, SamePhase
  <2> QED BY <2>1, <2>2 DEF Moves
<1>6. TriedNext(s2) = TriedNow(s) \ {fiber}
  <2>1. Members(s) \subseteq Fibers
    BY StackFacts DEF Members
  <2> QED BY <1>3, <2>1 DEF TriedNext, TriedNow
<1>7. StackStep(s, s2)
  BY <1>2, <1>5, <1>6, StackFacts DEF StackStep, s2
<1> QED BY <1>4, <1>7 DEF StepsOn

(* Fiber.suspend gives control to the host for good.                       *)
LEMMA SuspendOnStack ==
  ASSUME LinkInv, ControlNow({}, {}), NEW s, StackedNow(s), FiberSuspend
  PROVE  StepsOn(s)
<1>1. /\ status = "running" /\ status' = "host"
      /\ UNCHANGED <<known, numFrames, caller, hasError, state>>
  BY DEF FiberSuspend, ReturnToHost, fiberVars
<1>2. StackedNext(<< >>)
  BY <1>1 DEF StackedNext, Stacked
<1>3. Members(<< >>) = {}
  BY DEF Members
<1>4. ASSUME NEW f \in Fibers
      PROVE  PhaseNext(<< >>, f) = IF f \in Members(s) THEN "suspended" ELSE PhaseNow(s, f)
  <2>1. CASE f \in Members(s)
    <3>1. /\ f \in known /\ numFrames[f] # 0 /\ ~hasError[f]
          /\ caller[f] # NoFiber \/ state[f] = "root"
      BY <2>1, StackFacts, LinkFacts DEF Members, Alive
    <3> QED BY <1>1, <1>3, <2>1, <3>1 DEF PhaseNext, PhaseFor
  <2>2. CASE f \notin Members(s)
    BY <1>1, <1>3, <2>2, SamePhase
  <2> QED BY <2>1, <2>2
<1>5. TriedNext(<< >>) = {}
  BY <1>3 DEF TriedNext
<1>6. StackStep(s, << >>)
  BY <1>1, <1>4, <1>5, StackFacts DEF StackStep, Moves
<1> QED BY <1>2, <1>6 DEF StepsOn

(* The host starts a fiber.                                                *)
LEMMA StartOnStack ==
  ASSUME LinkInv, ControlNow({}, {}), NEW s, StackedNow(s), status = "host",
         NEW f \in Fibers, numFrames[f] = 0, ~hasError[f], caller[f] = NoFiber,
         NEW api, RunInterpreter(f, api)
  PROVE  StepsOn(s)
<1>1. /\ fiber' = f /\ status' = "running" /\ known' = known \cup {f}
      /\ numFrames' = [numFrames EXCEPT ![f] = 1] /\ state' = [state EXCEPT ![f] = "root"]
      /\ UNCHANGED <<caller, hasError>>
  BY DEF RunInterpreter, StatesAfterStart
<1>2. s = << >> /\ Members(s) = {} /\ Members(<<f>>) = {f}
  BY StackFacts DEF Members
<1>3. StackedNext(<<f>>)
  BY <1>1, LinkFacts DEF StackedNext, Stacked, Alive
<1>4. PhaseNow(s, f) \in {"none", "done"} /\ PhaseNext(<<f>>, f) = "active"
  BY <1>2, LinkFacts DEF PhaseNow, PhaseNext, PhaseFor
<1>5. \A g \in Fibers \ {f} : PhaseNext(<<f>>, g) = PhaseNow(s, g)
  BY <1>1, <1>2, LinkFacts, SamePhase
<1>6. TriedNext(<<f>>) = TriedNow(s)
  BY <1>1, <1>2, LinkFacts DEF TriedNext, TriedNow
<1>7. StackStep(s, <<f>>)
  BY <1>2, <1>4, <1>5, <1>6 DEF StackStep, Moves
<1> QED BY <1>3, <1>7 DEF StepsOn

(* A runtime error pops the stack down to the nearest fiber that was tried.*)
LEMMA ErrorOnStack ==
  ASSUME LinkInv, ControlNow({}, {}), NEW s, StackedNow(s), status = "running",
         NEW callers \in [Fibers -> MaybeFiber],
         \A f \in Fibers : numFrames[f] # 0 => callers[f] = caller[f],
         NEW slots,
         RuntimeError(fiber, callers, [hasError EXCEPT ![fiber] = TRUE], state, slots),
         UNCHANGED <<known, numFrames>>
  PROVE  StepsOn(s)
<1> DEFINE d == Len(s)
<1>0. /\ d \in Nat \ {0} /\ fiber = s[d] /\ s \in Seq(Fibers) /\ s # << >>
      /\ \A i, j \in 1 .. d : s[i] = s[j] => i = j
      /\ \A i \in 1 .. d : /\ s[i] \in Fibers
                           /\ callers[s[i]] = IF i = 1 THEN NoFiber ELSE s[i - 1]
                           /\ numFrames[s[i]] > 0 /\ ~hasError[s[i]]
                           /\ state[s[i]] = "try" => i # 1
  BY StackFacts, LinkFacts DEF Alive
<1> HIDE DEF d
<1>1. PICK k \in 0 .. d : /\ k > 0 => state[s[k]] = "try"
                          /\ \A i \in k + 1 .. d : state[s[i]] # "try"
  <2> DEFINE stops == {n \in 0 .. d : n = d \/ state[s[d - n]] = "try"}
  <2>1. stops \in SUBSET Nat /\ d \in stops
    BY <1>0
  <2>2. PICK n \in stops : \A m \in stops : n <= m
    BY <2>1, SmallestOfNaturals
  <2>3. n \in 0 .. d /\ (n # d => state[s[d - n]] = "try")
    OBVIOUS
  <2>4. ASSUME NEW i \in d - n + 1 .. d
        PROVE  d - i \in 0 .. d /\ d - (d - i) = i /\ ~(n <= d - i)
    <3>1. i \in Nat /\ d - n + 1 <= i /\ i <= d
      BY <1>0, <2>3
    <3> HIDE DEF stops
    <3> QED BY <1>0, <2>3, <3>1
  <2>5. \A i \in d - n + 1 .. d : state[s[i]] # "try"
    BY <2>2, <2>4
  <2>6. d - n \in 0 .. d /\ (d - n > 0 => n # d)
    BY <1>0, <2>3
  <2> HIDE DEF stops
  <2> QED BY <2>3, <2>5, <2>6
<1> DEFINE popped == {s[i] : i \in (k .. d) \ {0}}
           R == Reached(fiber, callers, state)
<1>2. \A f : f \in popped <=> \E i \in 1 .. d : i >= k /\ f = s[i]
  BY <1>0
<1> HIDE DEF popped
<1>3. R = popped
  <2>1. R \subseteq popped
    <3>1. popped \in SUBSET Fibers /\ fiber \in popped
      BY <1>0, <1>2
    <3>2. \A f \in popped : state[f] # "try" /\ callers[f] # NoFiber => callers[f] \in popped
      <4> SUFFICES ASSUME NEW f \in popped, state[f] # "try", callers[f] # NoFiber
                   PROVE  callers[f] \in popped
        OBVIOUS
      <4>1. PICK i \in 1 .. d : i >= k /\ f = s[i]
        BY <1>2
      <4>2. i # 1 /\ i # k /\ callers[f] = s[i - 1]
        BY <1>0, <1>1, <4>1
      <4>3. i - 1 \in 1 .. d /\ i - 1 >= k
        BY <1>0, <4>1, <4>2
      <4> QED BY <1>2, <4>2, <4>3
    <3> QED BY <3>1, <3>2, ReachedIsLeast
  <2>2. popped \subseteq R
    <3> DEFINE wrong == {n \in Nat : d - n >= k /\ d - n > 0 /\ s[d - n] \notin R}
    <3> SUFFICES ASSUME wrong # {} PROVE FALSE
      <4>1. ASSUME NEW i \in 1 .. d, i >= k PROVE s[i] \in R
        <5>1. d - i \in Nat /\ d - (d - i) = i
          BY <1>0, <4>1
        <5> QED BY <4>1, <5>1
      <4> QED BY <1>2, <4>1
    <3>1. PICK n \in wrong : \A m \in wrong : n <= m
      <4>1. wrong \in SUBSET Nat
        OBVIOUS
      <4> QED BY <4>1, SmallestOfNaturals
    <3>2. n \in Nat /\ d - n >= k /\ d - n > 0 /\ s[d - n] \notin R
      OBVIOUS
    <3>3. fiber \in R /\ \A f \in R : state[f] # "try" /\ callers[f] # NoFiber => callers[f] \in R
      <4>1. fiber \in Fibers
        BY <1>0
      <4> QED BY <4>1, ReachedIsClosed
    <3> HIDE DEF R
    <3>4. n # 0
      BY <1>0, <3>2, <3>3
    <3>5. n - 1 \in Nat /\ d - (n - 1) = d - n + 1 /\ ~(n <= n - 1)
      BY <1>0, <3>2, <3>4
    <3>6. s[d - n + 1] \in R
      <4>1. n - 1 \notin wrong
        <5> HIDE DEF wrong
        <5> QED BY <3>1, <3>5
      <4>2. d - n + 1 >= k /\ d - n + 1 > 0
        BY <1>0, <3>2
      <4> QED BY <3>5, <4>1, <4>2
    <3> HIDE DEF wrong
    <3>7. d - n + 1 \in k + 1 .. d /\ d - n + 1 \in 1 .. d /\ d - n \in 1 .. d
      BY <1>0, <3>2, <3>4
    <3>8. callers[s[d - n + 1]] = s[d - n]
      BY <1>0, <3>7
    <3>9. state[s[d - n + 1]] # "try" /\ s[d - n] \in Fibers
      BY <1>0, <1>1, <3>7
    <3> QED BY <3>2, <3>3, <3>6, <3>8, <3>9, LinkFacts
  <2> QED BY <2>1, <2>2
<1> DEFINE tried == {f \in R : state[f] = "try"}
           s2 == SubSeq(s, 1, k - 1)
<1>4. tried = IF k = 0 THEN {} ELSE {s[k]}
  <2>1. \A i \in 1 .. d : i >= k /\ state[s[i]] = "try" => i = k
    BY <1>0, <1>1
  <2>2. \A f : f \in tried <=> \E i \in 1 .. d : i >= k /\ f = s[i] /\ state[s[i]] = "try"
    BY <1>2, <1>3
  <2> HIDE DEF tried
  <2>3. CASE k = 0
    BY <1>0, <2>1, <2>2, <2>3
  <2>4. CASE k # 0
    <3>1. k \in 1 .. d /\ k >= k /\ state[s[k]] = "try"
      BY <1>0, <1>1, <2>4
    <3> QED BY <2>1, <2>2, <2>4, <3>1
  <2> QED BY <2>3, <2>4
<1>5. /\ hasError' = [f \in Fibers |-> [hasError EXCEPT ![fiber] = TRUE][f] \/ f \in popped]
      /\ caller' = [f \in Fibers |-> IF f \in popped \ tried THEN NoFiber ELSE callers[f]]
      /\ state' = state /\ known' = known /\ numFrames' = numFrames
  BY <1>3 DEF RuntimeError, Unhooked
<1>6. \A f \in Fibers \ popped : /\ hasError'[f] = hasError[f] /\ caller'[f] = callers[f]
  <2>1. fiber \in popped
    BY <1>0, <1>1, <1>2
  <2> QED BY <1>5, <2>1, LinkFacts
<1>7. \A f \in popped : hasError'[f]
  <2>1. popped \subseteq Fibers
    BY <1>0, <1>2
  <2> QED BY <1>5, <2>1, Zenon
<1>8. /\ s2 \in Seq(Fibers) /\ Len(s2) = IF k = 0 THEN 0 ELSE k - 1
      /\ \A i \in 1 .. Len(s2) : s2[i] = s[i] /\ i \in 1 .. d /\ s[i] \notin popped
  <2>1. CASE k = 0
    BY <1>0, <2>1, SubSeqEmpty
  <2>2. CASE k # 0
    <3>1. k - 1 \in 0 .. Len(s) /\ k - 1 <= d
      BY <1>0, <2>2 DEF d
    <3>2. s2 \in Seq(Fibers) /\ Len(s2) = k - 1
          /\ \A i \in 1 .. k - 1 : s2[i] = s[i]
      BY <1>0, <3>1, Prefix
    <3> HIDE DEF s2
    <3>3. ASSUME NEW i \in 1 .. k - 1
          PROVE  i \in 1 .. d /\ s[i] \notin popped
      <4>1. i \in 1 .. d /\ ~(i >= k)
        BY <1>0, <3>1
      <4>2. \A j \in 1 .. d : s[i] = s[j] => i = j
        BY <1>0, <4>1
      <4> QED BY <1>2, <4>1, <4>2
    <3>4. Len(s2) = k - 1 /\ Len(s2) = IF k = 0 THEN 0 ELSE k - 1
      BY <2>2, <3>2
    <3>5. ASSUME NEW i \in 1 .. Len(s2)
          PROVE  s2[i] = s[i] /\ i \in 1 .. d /\ s[i] \notin popped
      <4> HIDE DEF popped, d
      <4> QED BY <3>2, <3>3, <3>4
    <3> QED BY <3>2, <3>4, <3>5
  <2> QED BY <2>1, <2>2
<1> HIDE DEF s2, tried, R
<1>9. Members(s2) = Members(s) \ popped /\ popped \subseteq Members(s)
  <2>1. \A f : f \in Members(s) <=> \E i \in 1 .. d : f = s[i]
    BY DEF Members, d
  <2>2. \A f : f \in Members(s2) <=> \E i \in 1 .. Len(s2) : f = s[i]
    BY <1>8 DEF Members
  <2>3. \A i \in 1 .. d : i >= k \/ i \in 1 .. Len(s2)
    BY <1>0, <1>8
  <2> QED BY <1>2, <1>8, <2>1, <2>2, <2>3
<1>10. (IF status' = "running" THEN fiber' ELSE NoFiber)
         = IF s2 = << >> THEN NoFiber ELSE s2[Len(s2)]
  <2>1. CASE k = 0
    <3>1. status' = "host"
      BY <1>3, <1>4, <2>1 DEF RuntimeError, ReturnToHost, tried, R
    <3> QED BY <1>8, <2>1, <3>1
  <2>2. CASE k # 0
    <3>1. LoadFrame(callers[s[k]], IF callers[s[k]] \in Fibers
                                   THEN numFrames[callers[s[k]]] ELSE 0)
      BY <1>4, <2>2 DEF RuntimeError, tried, R
    <3>2. /\ k \in 1 .. d /\ k # 1 /\ k - 1 \in 1 .. d
          /\ callers[s[k]] = s[k - 1] /\ s[k - 1] \in Fibers /\ numFrames[s[k - 1]] > 0
      BY <1>0, <1>1, <2>2
    <3>3. fiber' = s[k - 1] /\ status' = "running"
      BY <3>1, <3>2, LinkFacts DEF LoadFrame
    <3>4. Len(s2) = k - 1 /\ k - 1 \in 1 .. Len(s2)
      BY <1>8, <3>2
    <3> QED BY <1>8, <3>3, <3>4
  <2> QED BY <2>1, <2>2
<1>11. StackedNext(s2)
  <2>1. ASSUME NEW i \in 1 .. Len(s2)
        PROVE  /\ caller'[s2[i]] = IF i = 1 THEN NoFiber ELSE s2[i - 1]
               /\ Alive(s2[i], numFrames', hasError')
    <3>1. /\ s2[i] = s[i] /\ s[i] \in Fibers \ popped /\ i \in 1 .. d
          /\ i # 1 => i - 1 \in 1 .. Len(s2)
      BY <1>0, <1>8
    <3>2. i # 1 => s2[i - 1] = s[i - 1]
      BY <1>8, <3>1
    <3> QED BY <1>0, <1>5, <1>6, <3>1, <3>2 DEF Alive
  <2>2. \A i, j \in 1 .. Len(s2) : s2[i] = s2[j] => i = j
    BY <1>0, <1>8
  <2> QED BY <1>8, <1>10, <2>1, <2>2 DEF StackedNext, Stacked
<1>12. Moves(s, s2, popped, "aborted")
  <2>1. \A f \in popped : PhaseNext(s2, f) = "aborted"
    BY <1>7, <1>9 DEF PhaseNext, PhaseFor
  <2>2. \A f \in Fibers \ popped : PhaseNext(s2, f) = PhaseNow(s, f)
    BY <1>5, <1>6, <1>9, SamePhase
  <2> QED BY <2>1, <2>2 DEF Moves
<1>13. TriedNext(s2) = TriedNow(s) \ popped
  BY <1>5, <1>9 DEF TriedNext, TriedNow
<1>14. /\ k > 0 => s[k] \in TriedNow(s)
       /\ \A i \in k + 1 .. Len(s) : s[i] \notin TriedNow(s)
  BY <1>0, <1>1 DEF TriedNow, Members, d
<1>15. StackStep(s, s2)
  BY <1>0, <1>12, <1>13, <1>14 DEF StackStep, s2, popped, d
<1> QED BY <1>11, <1>15 DEF StepsOn

(* Every step of a program without transfers is one of the stack.          *)
LEMMA NextOnStack ==
  ASSUME ~Transfers, ~MixedEntry, LinkInv, ControlNow({}, {}), NEW s, StackedNow(s),
         [Next]_vars
  PROVE  StepsOn(s)
<1>0. /\ TypeOK /\ caller \in [Fibers -> MaybeFiber] /\ state \in [Fibers -> FiberState]
      /\ hasError \in [Fibers -> BOOLEAN] /\ numFrames \in [Fibers -> 0 .. MaxFrames]
      /\ status \in {"running", "host"}
      /\ status = "running" =>
           /\ fiber \in Fibers /\ fiber \in known /\ fiber # NoFiber /\ ~hasError[fiber]
           /\ numFrames[fiber] \in 1 .. MaxFrames
           /\ caller[fiber] # NoFiber => /\ caller[fiber] \in Fibers \ {fiber}
                                         /\ Alive(caller[fiber], numFrames, hasError)
      /\ status = "host" => /\ apiStack \in {NoFiber, fiber}
                            /\ fiber # NoFiber => /\ fiber \in Fibers /\ ~hasError[fiber]
                                                  /\ numFrames[fiber] = 0
                                                  /\ caller[fiber] = NoFiber
  <2>1. /\ TypeOK /\ caller \in [Fibers -> MaybeFiber] /\ state \in [Fibers -> FiberState]
        /\ hasError \in [Fibers -> BOOLEAN] /\ numFrames \in [Fibers -> 0 .. MaxFrames]
        /\ fiber \in MaybeFiber
    BY LinkFacts
  <2>2. status \in {"running", "host"}
    BY StackFacts
  <2>3. CASE status = "running"
    <3>1. /\ fiber \in Fibers /\ Alive(fiber, numFrames, hasError)
          /\ caller[fiber] # NoFiber => /\ caller[fiber] \in Fibers \ {fiber}
                                        /\ Alive(caller[fiber], numFrames, hasError)
      BY <2>3, ControlFacts
    <3>2. numFrames[fiber] \in 1 .. MaxFrames /\ ~hasError[fiber]
      BY <2>1, <3>1 DEF Alive
    <3> QED BY <2>1, <2>3, <3>1, <3>2, LinkFacts DEF LinkInv, FiberLinks
  <2>4. CASE status = "host"
    <3>1. /\ apiStack \in {NoFiber, fiber}
          /\ fiber # NoFiber => ~hasError[fiber] /\ numFrames[fiber] = 0
      BY <2>4 DEF ControlNow, Control
    <3> QED BY <2>1, <2>4, <3>1, LinkFacts DEF LinkInv, FiberLinks, MaybeFiber
  <2> QED BY <2>1, <2>2, <2>3, <2>4
<1>1. ASSUME NEW f \in Fibers, FiberNew(f) PROVE StepsOn(s)
  BY <1>1, NewOnStack
<1>2. ASSUME NEW f \in Fibers, FiberCall(f) \/ FiberTry(f) PROVE StepsOn(s)
  <2>1. status = "running" /\ f \in known
    BY <1>2 DEF FiberCall, FiberTry
  <2>2. CASE RunFiberFails(f, TRUE)
    <3>1. /\ RuntimeError(fiber, CallersAfterRun(f, TRUE),
                          [hasError EXCEPT ![fiber] = TRUE], state, apiStack)
          /\ UNCHANGED <<known, numFrames>> /\ ~CanRun(f, TRUE)
      BY <2>2 DEF RunFiberFails
    <3>2. CallersAfterRun(f, TRUE) \in [Fibers -> MaybeFiber]
      BY <1>0, <2>1, HelperTypes
    <3>3. \A g \in Fibers : numFrames[g] # 0 => CallersAfterRun(f, TRUE)[g] = caller[g]
      <4>1. CASE Reachable(f, TRUE)
        <5>1. numFrames[f] = 0
          <6>1. ~(numFrames[f] > 0)
            BY <3>1, <4>1, Zenon DEF CanRun
          <6> QED BY <1>0, <6>1, FramesAssumption
        <5> QED BY <1>0, <5>1 DEF CallersAfterRun
      <4>2. CASE ~Reachable(f, TRUE)
        BY <4>2 DEF CallersAfterRun
      <4> QED BY <4>1, <4>2
    <3> QED BY <2>1, <3>1, <3>2, <3>3, ErrorOnStack
  <2>3. CASE ~RunFiberFails(f, TRUE)
    <3>1. PICK isTry \in BOOLEAN :
            /\ CanRun(f, TRUE)
            /\ SwitchTo(f, CallersAfterRun(f, TRUE), hasError,
                        IF isTry THEN [state EXCEPT ![f] = "try"] ELSE state)
            /\ UNCHANGED <<known, numFrames, shifted>>
      <4>1. CASE FiberCall(f)
        <5>1. /\ CanRun(f, TRUE) /\ SwitchTo(f, CallersAfterRun(f, TRUE), hasError, state)
              /\ UNCHANGED <<known, numFrames, shifted>>
          BY <2>3, <4>1 DEF FiberCall
        <5> QED BY <5>1
      <4>2. CASE FiberTry(f)
        <5>1. /\ CanRun(f, TRUE)
              /\ SwitchTo(f, CallersAfterRun(f, TRUE), hasError, [state EXCEPT ![f] = "try"])
              /\ UNCHANGED <<known, numFrames, shifted>>
          BY <2>3, <4>2 DEF FiberTry
        <5> QED BY <5>1
      <4> QED BY <1>2, <4>1, <4>2
    <3> QED BY <2>1, <3>1, CallOnStack
  <2> QED BY <2>2, <2>3
<1>3. ASSUME NEW hasValue \in BOOLEAN, FiberYield(hasValue) PROVE StepsOn(s)
  <2>1. /\ status = "running" /\ UNCHANGED <<known, numFrames>>
        /\ CASE caller[fiber] # NoFiber ->
                  SwitchTo(caller[fiber], CallersAfterYield, hasError, StatesAfterYield)
             [] OTHER -> /\ ReturnToHost("success", NoFiber, apiStack)
                         /\ caller' = CallersAfterYield /\ state' = StatesAfterYield
                         /\ UNCHANGED hasError
    BY <1>3 DEF FiberYield
  <2>2. /\ caller' = CallersAfterYield /\ state' = StatesAfterYield /\ hasError' = hasError
        /\ caller[fiber] # NoFiber => fiber' = caller[fiber] /\ status' = "running"
        /\ caller[fiber] = NoFiber => status' = "host"
    BY <1>0, <2>1 DEF SwitchTo, LoadFrame, ReturnToHost, Alive
  <2>3. /\ state'[fiber] # "root" /\ numFrames'[fiber] # 0
        /\ \A g \in Fibers \ {fiber} : state'[g] = state[g] /\ numFrames'[g] = numFrames[g]
    BY <1>0, <2>1, <2>2 DEF StatesAfterYield
  <2> QED BY <2>1, <2>2, <2>3, PopOnStack DEF CallersAfterYield
<1>4. CASE Return
  <2> DEFINE left == numFrames[fiber] - 1
  <2>1. /\ status = "running" /\ numFrames' = [numFrames EXCEPT ![fiber] = left]
        /\ UNCHANGED <<known, hasError, state>> /\ left \in 0 .. MaxFrames
    <3>1. /\ status = "running" /\ numFrames' = [numFrames EXCEPT ![fiber] = left]
          /\ UNCHANGED <<known, hasError, state>>
      BY <1>4 DEF Return
    <3>2. left \in 0 .. MaxFrames
      BY <1>0, <3>1, FramesAssumption
    <3> QED BY <3>1, <3>2
  <2>2. CASE left > 0
    <3>1. UNCHANGED <<fiber, status, caller>>
      BY <1>4, <2>2 DEF Return
    <3> QED BY <1>0, <2>1, <2>2, <3>1, StackStays
  <2>3. CASE left = 0
    <3>1. /\ numFrames'[fiber] = 0
          /\ \A g \in Fibers \ {fiber} : state'[g] = state[g] /\ numFrames'[g] = numFrames[g]
      BY <1>0, <2>1, <2>3
    <3>2. /\ caller[fiber] # NoFiber => fiber' = caller[fiber] /\ status' = "running"
          /\ caller[fiber] = NoFiber => status' = "host"
          /\ caller' = [caller EXCEPT ![fiber] = NoFiber]
      BY <1>0, <1>4, <2>3 DEF Return, LoadFrame, ReturnToHost, Alive
    <3>3. PICK p \in {"idle", "done"} : p = "done" /\ p # "idle"
      OBVIOUS
    <3> HIDE DEF left
    <3> QED BY <2>1, <3>1, <3>2, <3>3, PopOnStack
  <2>4. left > 0 \/ left = 0
    <3>1. left \in 0 .. MaxFrames
      BY <2>1
    <3> HIDE DEF left
    <3> QED BY <3>1, FramesAssumption
  <2> QED BY <2>2, <2>3, <2>4
<1>5. CASE FiberSuspend
  BY <1>5, SuspendOnStack
<1>6. CASE FiberAbort
  <2>1. /\ status = "running" /\ UNCHANGED <<known, numFrames>>
        /\ RuntimeError(fiber, caller, [hasError EXCEPT ![fiber] = TRUE], state, apiStack)
    BY <1>6 DEF FiberAbort
  <2> QED BY <1>0, <2>1, ErrorOnStack
<1>7. ASSUME NEW aborts \in BOOLEAN, CallForeign(aborts) PROVE StepsOn(s)
  <2>1. status = "running" /\ UNCHANGED <<known, numFrames>>
    BY <1>7 DEF CallForeign
  <2>2. CASE RuntimeError(fiber, caller, [hasError EXCEPT ![fiber] = TRUE], state, NoFiber)
    BY <1>0, <2>1, <2>2, ErrorOnStack
  <2>3. CASE UNCHANGED <<fiber, status, entry, result, caller, hasError, state>>
    BY <2>1, <2>3, StackStays
  <2> QED BY <1>7, <2>2, <2>3 DEF CallForeign
<1>8. CASE CallFunction
  <2>1. /\ status = "running" /\ UNCHANGED <<fiber, status, caller, hasError, state, known>>
        /\ numFrames' = [numFrames EXCEPT ![fiber] = @ + 1]
    BY <1>8 DEF CallFunction
  <2> QED BY <1>0, <2>1, StackStays
<1>9. CASE FiberAbortNull
  <2>1. /\ status = "running" /\ UNCHANGED <<fiber, status, caller, state, known, numFrames>>
        /\ hasError' = [hasError EXCEPT ![fiber] = FALSE]
    BY <1>9 DEF FiberAbortNull
  <2>2. hasError' = hasError
    BY <1>0, <2>1
  <2> QED BY <2>1, <2>2, StackStays
<1>10. CASE Host
  <2>1. ASSUME NEW f \in Fibers, Interpret(f) PROVE StepsOn(s)
    <3>1. status = "host" /\ f \notin known /\ RunInterpreter(f, "interpret")
      BY <2>1 DEF Interpret, Fresh
    <3> QED BY <3>1, LinkFacts, StartOnStack
  <2>2. CASE InterpretFails \/ \E f \in Fibers : EnsureSlots(f)
    <3>1. status = "host" /\ UNCHANGED <<status, known, fiberVars>>
      BY <2>2 DEF InterpretFails, EnsureSlots
    <3> QED BY <3>1, StackStays DEF fiberVars
  <2>3. CASE Call
    <3>1. status = "host" /\ fiber # NoFiber /\ RunInterpreter(fiber, "call")
      BY <2>3 DEF Call
    <3> QED BY <1>0, <3>1, StartOnStack
  <2>4. ~EnsureStaleSlots
    BY <1>0 DEF EnsureStaleSlots
  <2> QED BY <1>10, <2>1, <2>2, <2>3, <2>4 DEF Host
<1>11. CASE Undefined \/ UNCHANGED vars
  <2>1. /\ UNCHANGED <<fiber, status, caller, hasError, state, known, numFrames>>
    BY <1>11 DEF Undefined, vars, fiberVars
  <2> QED BY <1>0, <2>1, StackStays
<1> QED BY <1>1, <1>2, <1>3, <1>4, <1>5, <1>6, <1>7, <1>8, <1>9, <1>10, <1>11
        DEF Next, WrenCode, FiberTransfer, FiberTransferError

(* The running fiber, its caller, its caller's caller and so on are one    *)
(* finite chain of live fibers.                                            *)
StackInv == ChainInv /\ \E s : StackedNow(s)

(* The chain stays one: it has no cycle, and it ends at the fiber that     *)
(* runInterpreter() started.                                               *)
THEOREM StackInvariant ==
  ASSUME ~Transfers, ~MixedEntry
  PROVE  Spec => []StackInv
<1>1. Init => \E s : StackedNow(s)
  <2>1. Init => StackedNow(<< >>)
    BY DEF Init, StackedNow, Stacked
  <2> QED BY <2>1
<1>2. ChainInv /\ (\E s : StackedNow(s)) /\ [Next]_vars => (\E s : StackedNow(s))'
  <2> SUFFICES ASSUME ChainInv, [Next]_vars, NEW s, StackedNow(s)
               PROVE  (\E t : StackedNow(t))'
    OBVIOUS
  <2>1. StepsOn(s)
    BY NextOnStack DEF ChainInv
  <2> QED BY <2>1 DEF StepsOn, StackedNow, StackedNext
<1> QED BY <1>1, <1>2, ChainInvariant, PTL DEF Spec, StackInv

(* The callers form a chain: runtimeError, RETURN and yield walk along it  *)
(* and come to the fiber that the host waits for, never to one twice.      *)
THEOREM CallersFormChainAlways ==
  ASSUME ~Transfers, ~MixedEntry, IsFiniteSet(Fibers)
  PROVE  Spec => []CallersFormChain
<1>1. StackInv => CallersFormChain
  <2> SUFFICES ASSUME LinkInv, ControlNow({}, {}), NEW s, StackedNow(s)
               PROVE  CallersFormChain
    BY DEF StackInv, ChainInv
  <2>1. OneCalleeEach
    BY ControlImplies
  <2>2. ChainEndsAtRoot
    BY LinkFacts DEF ControlNow, Control, Chains, Busy, Alive, Live, Awaited, ChainEndsAtRoot
  <2>3. Cardinality(InChain) = Depth
    BY ChainIsStack
  <2> QED BY <2>1, <2>2, <2>3 DEF CallersFormChain
<1> QED BY <1>1, StackInvariant, PTL

(* call(), try(), yield(), errors and the ends of fibers treat the fibers  *)
(* as a stack, and the host finds it empty: an error pops the stack down   *)
(* to the nearest fiber that was run with try() and leaves the rest alone. *)
THEOREM FibersAreCoroutines ==
  ASSUME ~Transfers, ~MixedEntry, IsFiniteSet(Fibers)
  PROVE  Spec => ImplementsFiberStack
<1> DEFINE Mapped(s) == /\ ChainOfCallers = s /\ InChain = Members(s)
                        /\ Cardinality(InChain) = Depth
                        /\ \A f : PhaseOf(f) = PhaseNow(s, f)
           Faithful == \A s : StackedNow(s) => Mapped(s)
           stack == ChainOfCallers
           phase == [f \in Fibers |-> PhaseOf(f)]
           tried == {f \in InChain : state[f] = "try"}
<1>1. Faithful
  BY ChainIsStack
<1>2. Faithful'
  BY <1>1, PTL
<1>3. Init => Coroutines!Init
  <2> SUFFICES ASSUME Init PROVE Coroutines!Init
    OBVIOUS
  <2>1. StackedNow(<< >>)
    BY DEF Init, StackedNow, Stacked
  <2>2. /\ ChainOfCallers = << >> /\ InChain = {}
        /\ \A f : PhaseOf(f) = PhaseNow(<< >>, f)
    BY <1>1, <2>1 DEF Members
  <2>3. \A f \in Fibers : PhaseNow(<< >>, f) = "none"
    BY DEF Init, PhaseNow, PhaseFor, Members
  <2> QED BY <2>2, <2>3 DEF Coroutines!Init
<1>4. StackInv /\ [Next]_vars => [Coroutines!Next]_Coroutines!vars
  <2> SUFFICES ASSUME LinkInv, ControlNow({}, {}), NEW s, StackedNow(s), [Next]_vars
               PROVE  [Coroutines!Next]_Coroutines!vars
    BY DEF StackInv, ChainInv
  <2>1. PICK s2 : StackedNext(s2) /\ StackStep(s, s2)
    BY NextOnStack DEF StepsOn
  <2>2. /\ stack = s /\ stack' = s2 /\ s \in Seq(Fibers)
        /\ \A f \in Fibers : phase[f] = PhaseNow(s, f) /\ phase'[f] = PhaseNext(s2, f)
        /\ tried = TriedNow(s) /\ tried' = TriedNext(s2)
    <3>1. Mapped(s) /\ StackedNow(s2)'
      BY <1>1, <2>1 DEF StackedNow, StackedNext
    <3>2. Mapped(s2)'
      BY <1>2, <3>1
    <3> QED BY <3>1, <3>2, StackFacts DEF PhaseNow, PhaseNext, TriedNow, TriedNext
  <2>3. \A fs, p : Moves(s, s2, fs, p) => phase' = [f \in Fibers |-> IF f \in fs THEN p ELSE phase[f]]
    BY <2>2 DEF Moves
  <2>4. CASE s2 = s /\ Moves(s, s2, {}, "none") /\ TriedNext(s2) = TriedNow(s)
    <3>1. stack' = stack /\ phase' = phase /\ tried' = tried
      BY <2>2, <2>3, <2>4
    <3> QED BY <3>1 DEF Coroutines!vars
  <2>5. ASSUME NEW f \in Fibers, s = << >>, PhaseNow(s, f) \in {"none", "done"}, s2 = <<f>>,
               Moves(s, s2, {f}, "active"), TriedNext(s2) = TriedNow(s)
        PROVE  Coroutines!Next
    <3>1. /\ stack = << >> /\ phase[f] \in {"none", "done"} /\ stack' = <<f>>
          /\ phase' = [g \in Fibers |-> IF g \in {f} THEN "active" ELSE phase[g]]
          /\ tried' = tried
      BY <2>2, <2>3, <2>5
    <3>2. Coroutines!Start(f)
      BY <3>1 DEF Coroutines!Start, Coroutines!Moved
    <3> QED BY <3>2 DEF Coroutines!Next
  <2>6. ASSUME NEW f \in Fibers, s # << >>, PhaseNow(s, f) = "none", s2 = s,
               Moves(s, s2, {f}, "idle"), TriedNext(s2) = TriedNow(s)
        PROVE  Coroutines!Next
    <3>1. /\ stack # << >> /\ phase[f] = "none" /\ stack' = stack
          /\ phase' = [g \in Fibers |-> IF g \in {f} THEN "idle" ELSE phase[g]]
          /\ tried' = tried
      BY <2>2, <2>3, <2>6
    <3>2. Coroutines!New(f)
      BY <3>1 DEF Coroutines!New, Coroutines!Moved
    <3> QED BY <3>2 DEF Coroutines!Next
  <2>7. ASSUME NEW f \in Fibers, NEW isTry \in BOOLEAN,
               s # << >>, PhaseNow(s, f) = "idle", s2 = Append(s, f),
               Moves(s, s2, {f}, "active"),
               TriedNext(s2) = IF isTry THEN TriedNow(s) \cup {f} ELSE TriedNow(s)
        PROVE  Coroutines!Next
    <3>1. /\ stack # << >> /\ phase[f] = "idle" /\ stack' = Append(stack, f)
          /\ phase' = [g \in Fibers |-> IF g \in {f} THEN "active" ELSE phase[g]]
          /\ tried' = IF isTry THEN tried \cup {f} ELSE tried
      BY <2>2, <2>3, <2>7
    <3>2. Coroutines!Run(f, isTry)
      BY <3>1 DEF Coroutines!Run, Coroutines!Moved
    <3> QED BY <3>2 DEF Coroutines!Next
  <2>8. ASSUME NEW p \in {"idle", "done"}, s # << >>, s2 = SubSeq(s, 1, Len(s) - 1),
               Moves(s, s2, {s[Len(s)]}, p), TriedNext(s2) = TriedNow(s) \ {s[Len(s)]}
        PROVE  Coroutines!Next
    <3>1. /\ stack # << >> /\ stack' = SubSeq(stack, 1, Len(stack) - 1)
          /\ phase' = [g \in Fibers |-> IF g \in {stack[Len(stack)]} THEN p ELSE phase[g]]
          /\ tried' = tried \ {stack[Len(stack)]}
      BY <2>2, <2>3, <2>8
    <3>2. Coroutines!Leave(p)
      BY <3>1 DEF Coroutines!Leave, Coroutines!Moved, Coroutines!Below, Coroutines!Top
    <3> QED BY <3>2 DEF Coroutines!Next
  <2>9. CASE /\ s # << >> /\ s2 = << >>
             /\ Moves(s, s2, Members(s), "suspended") /\ TriedNext(s2) = {}
    <3>1. Members(s) = Coroutines!Members
      BY <2>2 DEF Members, Coroutines!Members
    <3>2. /\ stack # << >> /\ stack' = << >> /\ tried' = {}
          /\ phase' = [g \in Fibers |-> IF g \in Members(s) THEN "suspended" ELSE phase[g]]
      BY <2>2, <2>3, <2>9
    <3>3. Coroutines!Suspend
      BY <3>1, <3>2 DEF Coroutines!Suspend, Coroutines!Moved
    <3> QED BY <3>3 DEF Coroutines!Next
  <2>10. ASSUME NEW k \in 0 .. Len(s), s # << >>, s2 = SubSeq(s, 1, k - 1),
                k > 0 => s[k] \in TriedNow(s),
                \A i \in k + 1 .. Len(s) : s[i] \notin TriedNow(s),
                Moves(s, s2, {s[i] : i \in (k .. Len(s)) \ {0}}, "aborted"),
                TriedNext(s2) = TriedNow(s) \ {s[i] : i \in (k .. Len(s)) \ {0}}
         PROVE  Coroutines!Next
    <3> DEFINE popped == {stack[i] : i \in (k .. Len(stack)) \ {0}}
    <3>1. /\ stack # << >> /\ k \in 0 .. Len(stack) /\ (k > 0 => stack[k] \in tried)
          /\ \A i \in k + 1 .. Len(stack) : stack[i] \notin tried
          /\ stack' = SubSeq(stack, 1, k - 1)
      BY <2>2, <2>10
    <3>2. /\ phase' = [g \in Fibers |-> IF g \in popped THEN "aborted" ELSE phase[g]]
          /\ tried' = tried \ popped
      BY <2>2, <2>3, <2>10
    <3>3. Coroutines!Abort
      BY <3>1, <3>2 DEF Coroutines!Abort, Coroutines!Moved
    <3> QED BY <3>3 DEF Coroutines!Next
  <2> QED BY <2>1, <2>4, <2>5, <2>6, <2>7, <2>8, <2>9, <2>10 DEF StackStep
<1> QED BY <1>3, <1>4, StackInvariant, PTL DEF Spec, ImplementsFiberStack, Coroutines!Spec

=============================================================================
