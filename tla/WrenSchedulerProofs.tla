------------------------ MODULE WrenSchedulerProofs ------------------------
(***************************************************************************)
(* The command line host, for any number of fibers.                        *)
(*                                                                         *)
(* First its handles: every handle belongs to an outstanding request or to *)
(* the callback that is about to give it back.  The argument does not      *)
(* depend on what the fibers do: a step of the program that touches        *)
(* handles starts a request.                                               *)
(*                                                                         *)
(* Then its queue: whatever the program calls, it cannot reach a fiber     *)
(* that has not been started.                                              *)
(*                                                                         *)
(* Then its transfers.  WrenFibersProofs shows that chains of callers stay *)
(* sound under transfers to the fibers of a set; here that set is Held,    *)
(* the fibers that wait for a request and the scheduled ones, provided     *)
(* that the program does not call them either: ~BusyCalls.                 *)
(***************************************************************************)
EXTENDS WrenScheduler, WrenFibersProofs

(* The part of the type invariant that the argument needs. *)
HandleTypes ==
  /\ requests \in [Fibers -> Nat]
  /\ handles \in [Fibers -> Nat]
  /\ callback \in {"none", "fired", "ready", "called", "resumed"}
  /\ callback \in {"fired", "ready"} => target \in Fibers

HandlesInv == HandleTypes /\ HandlesAccounted

(* Steps that leave the requests, the handles and the callback alone. *)
LEMMA HandlesUntouched ==
  HandlesInv /\ UNCHANGED <<requests, handles, callbackVars>> => HandlesInv'
BY DEF HandlesInv, HandleTypes, HandlesAccounted, callbackVars

(* A new request of any fiber comes with a handle. *)
LEMMA HandlesOfNewRequest ==
  ASSUME HandlesInv, NEW f, StartRequest(f), UNCHANGED callbackVars
  PROVE  HandlesInv'
<1>1. requests' \in [Fibers -> Nat] /\ handles' \in [Fibers -> Nat]
  <2>1. /\ requests' = [g \in Fibers |-> IF g = f THEN requests[g] + 1 ELSE requests[g]]
        /\ handles' = [g \in Fibers |-> IF g = f THEN handles[g] + 1 ELSE handles[g]]
    BY Zenon DEF HandlesInv, HandleTypes, StartRequest
  <2> QED  BY <2>1 DEF HandlesInv, HandleTypes
<1>2. HandleTypes'
  BY <1>1 DEF HandlesInv, HandleTypes, callbackVars
<1>3. ASSUME NEW g \in Fibers
      PROVE  handles'[g] = requests'[g] + (IF callback' \in {"fired", "ready"}
                                              /\ target' = g THEN 1 ELSE 0)
  <2>1. /\ requests[g] \in Nat /\ handles[g] \in Nat
        /\ handles[g] = requests[g] + (IF callback \in {"fired", "ready"}
                                          /\ target = g THEN 1 ELSE 0)
        /\ callback' = callback /\ target' = target
    BY DEF HandlesInv, HandleTypes, HandlesAccounted, callbackVars
  <2>2. CASE g = f
    BY <2>1, <2>2 DEF HandlesInv, HandleTypes, StartRequest
  <2>3. CASE g # f
    BY <2>1, <2>3 DEF HandlesInv, HandleTypes, StartRequest
  <2> QED  BY <2>2, <2>3
<1> QED  BY <1>2, <1>3 DEF HandlesInv, HandlesAccounted

LEMMA HandlesInvInit == SchedulerInit => HandlesInv
BY DEF SchedulerInit, HandlesInv, HandleTypes, HandlesAccounted

(* The steps of a completion: its request becomes the callback's handle,   *)
(* which StoreTarget gives back.                                           *)
LEMMA HandlesInvComplete ==
  ASSUME HandlesInv, NEW f \in Fibers, NEW isError \in BOOLEAN, Complete(f, isError)
  PROVE  HandlesInv'
<1>1. /\ requests' = [requests EXCEPT ![f] = @ - 1] /\ requests[f] > 0
      /\ handles' = handles
      /\ callback = "none" /\ callback' = "fired" /\ target' = f
  BY DEF Complete
<1>2. HandleTypes'
  BY <1>1 DEF HandlesInv, HandleTypes
<1>3. ASSUME NEW g \in Fibers
      PROVE  handles'[g] = requests'[g] + (IF callback' \in {"fired", "ready"}
                                              /\ target' = g THEN 1 ELSE 0)
  <2>1. handles[g] = requests[g] /\ requests[g] \in Nat
    BY <1>1 DEF HandlesInv, HandleTypes, HandlesAccounted
  <2>2. CASE g = f   BY <1>1, <2>1, <2>2 DEF HandlesInv, HandleTypes
  <2>3. CASE g # f   BY <1>1, <2>1, <2>3 DEF HandlesInv, HandleTypes
  <2> QED  BY <2>2, <2>3
<1> QED  BY <1>2, <1>3 DEF HandlesInv, HandlesAccounted

LEMMA HandlesInvCallResume == HandlesInv /\ CallResume => HandlesInv'
<1> SUFFICES ASSUME HandlesInv, CallResume PROVE HandlesInv'
  OBVIOUS
<1>1. /\ handles' = [handles EXCEPT ![target] = @ - 1] /\ requests' = requests
      /\ callback = "ready" /\ callback' = "called" /\ target' = target
  BY DEF CallResume, StoreTarget
<1>2. target \in Fibers /\ handles[target] = requests[target] + 1
  BY <1>1 DEF HandlesInv, HandleTypes, HandlesAccounted
<1>3. HandleTypes'
  BY <1>1, <1>2 DEF HandlesInv, HandleTypes
<1>4. ASSUME NEW g \in Fibers PROVE handles'[g] = requests'[g]
  <2>1. CASE g = target   BY <1>1, <1>2, <2>1 DEF HandlesInv, HandleTypes
  <2>2. CASE g # target
    BY <1>1, <2>2 DEF HandlesInv, HandleTypes, HandlesAccounted
  <2> QED  BY <2>1, <2>2
<1>5. ASSUME NEW g \in Fibers PROVE requests'[g] \in Nat
  BY <1>3 DEF HandleTypes
<1> QED  BY <1>1, <1>3, <1>4, <1>5 DEF HandlesInv, HandlesAccounted

LEMMA HandlesInvNext == HandlesInv /\ [SchedulerNext]_allVars => HandlesInv'
<1> SUFFICES ASSUME HandlesInv, [SchedulerNext]_allVars PROVE HandlesInv'
  OBVIOUS
<1>1. ASSUME NEW f \in Fibers, NewFiber(f) \/ Add(f) \/ CallOrTry(f)
      PROVE  HandlesInv'
  BY <1>1, HandlesUntouched DEF NewFiber, Add, CallOrTry, schedulerVars
<1>2. CASE Sleep
  BY <1>2, HandlesOfNewRequest DEF Sleep
<1>3. CASE Finish \/ AbortOrYield
  BY <1>3, HandlesUntouched DEF Finish, AbortOrYield, schedulerVars
<1>4. ASSUME NEW f \in Fibers, NEW isError \in BOOLEAN, Complete(f, isError)
      PROVE  HandlesInv'
  BY <1>4, HandlesInvComplete
<1>5. CASE ScriptReturns \/ LoopEnds \/ FreeVM
  BY <1>5, HandlesUntouched DEF ScriptReturns, LoopEnds, FreeVM
<1>6. CASE EnsureResumeSlots
  BY <1>6 DEF EnsureResumeSlots, HandlesInv, HandleTypes, HandlesAccounted
<1>7. CASE CallResume
  BY <1>7, HandlesInvCallResume
<1>8. CASE ResumeTarget
  BY <1>8 DEF ResumeTarget, HandlesInv, HandleTypes, HandlesAccounted
<1>9. CASE CallbackReturns
  BY <1>9 DEF CallbackReturns, HandlesInv, HandleTypes, HandlesAccounted
<1>10. CASE Collect
  BY <1>10, HandlesUntouched DEF Collect
<1>11. CASE Ended \/ UNCHANGED allVars
  BY <1>11, HandlesUntouched DEF Ended, allVars, schedulerVars
<1> QED
  BY <1>1, <1>2, <1>3, <1>4, <1>5, <1>6, <1>7, <1>8, <1>9, <1>10, <1>11
  DEF SchedulerNext, Program, Loop

(* No handle of a parked fiber is lost and none is released twice, however *)
(* many fibers park and in whatever order their operations complete        *)
(* (schedulerResume, timerStartTimer).                                     *)
THEOREM HandlesAccountedAlways == SchedulerSpec => []HandlesAccounted
<1>1. SchedulerSpec => []HandlesInv
  BY HandlesInvInit, HandlesInvNext, PTL DEF SchedulerSpec
<1>2. HandlesInv => HandlesAccounted
  BY DEF HandlesInv
<1> QED  BY <1>1, <1>2, PTL

-----------------------------------------------------------------------------
(***************************************************************************)
(* The fibers that the host transfers to.                                  *)
(***************************************************************************)
Parked == {f \in Fibers : requests[f] > 0 \/ f = target}

Held == Parked \cup ToSet(scheduled)

NoneTwice(s) == \A i, j \in DOMAIN s : s[i] = s[j] => i = j

(* A suspended fiber that no other fiber refers to as its caller.          *)
Aside(f, frames, callers, errors, refs, cur) ==
  /\ f \in refs /\ frames[f] > 0 /\ ~errors[f] /\ callers[f] = NoFiber
  /\ f # cur /\ \A g \in Fibers : callers[g] # f

AsideNow(f) == Aside(f, numFrames, caller, hasError, known, fiber)
AsideNext(f) == Aside(f, numFrames', caller', hasError', known', fiber')

(* The queue holds such fibers, once, and they have no request out; the    *)
(* callback has a target until it resumes it.                              *)
QueueInv ==
  /\ NoneTwice(scheduled)
  /\ \A f \in ToSet(scheduled) : AsideNow(f) /\ f \notin Parked
  /\ Parked \subseteq known
  /\ target # NoFiber <=> callback \in {"fired", "ready", "called"}

SchedulerInv == SchedulerTypeOK /\ HandlesInv /\ LinkInv /\ QueueInv

LEMMA SchedulerFacts ==
  ASSUME SchedulerInv
  PROVE  /\ LinkInv /\ QueueInv /\ HandlesInv
         /\ scheduled \in Seq(Fibers) /\ ToSet(scheduled) \in SUBSET Fibers
         /\ Held \in SUBSET Fibers /\ Held \subseteq known
         /\ target \in Fibers \cup {NoFiber} /\ requests \in [Fibers -> Nat]
         /\ NoFiber \notin Fibers
<1>1. /\ LinkInv /\ QueueInv /\ HandlesInv /\ scheduled \in Seq(Fibers)
      /\ target \in Fibers \cup {NoFiber} /\ requests \in [Fibers -> Nat]
      /\ NoFiber \notin Fibers
  BY FibersAssumption DEF SchedulerInv, SchedulerTypeOK
<1>2. ToSet(scheduled) \in SUBSET Fibers
  BY <1>1 DEF ToSet
<1>3. ToSet(scheduled) \subseteq known
  BY <1>1 DEF QueueInv, AsideNow, Aside
<1> QED BY <1>1, <1>2, <1>3 DEF Held, Parked, QueueInv

(* Sets of sequences. *)
LEMMA ToSetOfAppend ==
  ASSUME NEW s \in Seq(Fibers), NEW f \in Fibers
  PROVE  /\ Append(s, f) \in Seq(Fibers)
         /\ ToSet(Append(s, f)) = ToSet(s) \cup {f}
         /\ NoneTwice(s) /\ f \notin ToSet(s) => NoneTwice(Append(s, f))
<1>1. /\ Append(s, f) \in Seq(Fibers) /\ Len(Append(s, f)) = Len(s) + 1
      /\ Append(s, f)[Len(s) + 1] = f /\ Len(s) \in Nat
      /\ \A i \in 1 .. Len(s) : Append(s, f)[i] = s[i]
      /\ DOMAIN s = 1 .. Len(s)
  OBVIOUS
<1>2. DOMAIN Append(s, f) = DOMAIN s \cup {Len(s) + 1}
  BY <1>1
<1>3. ToSet(Append(s, f)) = ToSet(s) \cup {f}
  BY <1>1, <1>2 DEF ToSet
<1>4. ASSUME NoneTwice(s), f \notin ToSet(s) PROVE NoneTwice(Append(s, f))
  BY <1>1, <1>2, <1>4 DEF NoneTwice, ToSet
<1> QED BY <1>1, <1>3, <1>4

LEMMA ToSetOfTail ==
  ASSUME NEW s \in Seq(Fibers), s # <<>>, NoneTwice(s)
  PROVE  /\ Tail(s) \in Seq(Fibers) /\ Head(s) \in ToSet(s)
         /\ ToSet(Tail(s)) = ToSet(s) \ {Head(s)} /\ NoneTwice(Tail(s))
<1>1. /\ Tail(s) \in Seq(Fibers) /\ Len(s) \in Nat \ {0} /\ Len(Tail(s)) = Len(s) - 1
      /\ Head(s) = s[1] /\ DOMAIN s = 1 .. Len(s) /\ DOMAIN Tail(s) = 1 .. Len(s) - 1
      /\ \A i \in 1 .. Len(s) - 1 : Tail(s)[i] = s[i + 1]
  OBVIOUS
<1>2. \A i \in DOMAIN Tail(s) : i + 1 \in DOMAIN s \ {1} /\ Tail(s)[i] = s[i + 1]
  BY <1>1
<1>3. \A i \in DOMAIN s \ {1} : i - 1 \in DOMAIN Tail(s) /\ Tail(s)[i - 1] = s[i]
  BY <1>1
<1>4. 1 \in DOMAIN s
  BY <1>1
<1>5. ToSet(Tail(s)) = {s[i] : i \in DOMAIN s \ {1}}
  BY <1>2, <1>3 DEF ToSet
<1>6. ToSet(Tail(s)) = ToSet(s) \ {Head(s)}
  BY <1>1, <1>4, <1>5 DEF ToSet, NoneTwice
<1>7. NoneTwice(Tail(s))
  <2> SUFFICES ASSUME NEW i \in DOMAIN Tail(s), NEW j \in DOMAIN Tail(s),
                      Tail(s)[i] = Tail(s)[j]
               PROVE  i = j
    BY DEF NoneTwice
  <2>1. i + 1 = j + 1
    BY <1>2 DEF NoneTwice
  <2> QED BY <1>1, <2>1
<1> QED BY <1>1, <1>4, <1>6, <1>7 DEF ToSet

(* An error does not reach a fiber that waits for nobody and that nobody   *)
(* refers to as its caller.                                                *)
LEMMA AsideOfError ==
  ASSUME NEW f \in Fibers, NEW cur \in Fibers \ {f}, NEW callers, NEW errors,
         NEW states, NEW slots,
         callers[f] = NoFiber, \A g \in Fibers : callers[g] \in MaybeFiber \ {f},
         ~errors[f],
         RuntimeError(cur, callers, errors, states, slots)
  PROVE  /\ caller'[f] = NoFiber /\ \A g \in Fibers : caller'[g] # f
         /\ ~hasError'[f] /\ fiber' # f
<1> DEFINE R == Reached(cur, callers, states)
           tried == {g \in R : states[g] = "try"}
<1>1. f \notin R
  <2> DEFINE S == Fibers \ {f}
  <2>1. S \in SUBSET Fibers /\ cur \in S /\ f \notin S
        /\ \A g \in S : callers[g] # NoFiber => callers[g] \in S
    BY DEF MaybeFiber
  <2> HIDE DEF S
  <2>2. R \subseteq S
    BY <2>1, ReachedIsLeast
  <2> QED BY <2>1, <2>2
<1>2. R \subseteq Fibers
  BY DEF Reached
<1>3. /\ hasError' = [g \in Fibers |-> errors[g] \/ g \in R]
      /\ caller' = [g \in Fibers |-> IF g \in R \ tried THEN NoFiber ELSE callers[g]]
      /\ fiber' = NoFiber \/ \E g \in tried : fiber' = callers[g]
  BY DEF RuntimeError, Unhooked, ReturnToHost, LoadFrame
<1> HIDE DEF R
<1> QED BY <1>1, <1>2, <1>3, FibersAssumption

LEMMA AsideOfSwitch ==
  ASSUME NEW f \in Fibers, NEW next \in Fibers \ {f}, NEW callers, NEW errors,
         NEW states,
         callers[f] = NoFiber, \A g \in Fibers : callers[g] \in MaybeFiber \ {f},
         ~errors[f],
         SwitchTo(next, callers, errors, states)
  PROVE  /\ caller'[f] = NoFiber /\ \A g \in Fibers : caller'[g] # f
         /\ ~hasError'[f] /\ fiber' # f
<1>1. CASE errors[next]
  BY <1>1, AsideOfError DEF SwitchTo
<1>2. CASE ~errors[next]
  BY <1>2 DEF SwitchTo, LoadFrame
<1> QED BY <1>1, <1>2

(* No operation touches such a fiber unless it runs it.                    *)
LEMMA AsideStays ==
  ASSUME LinkInv, NEW f \in Fibers, AsideNow(f),
         \/ FiberYield(FALSE) \/ FiberAbort \/ Return \/ FiberSuspend \/ Call
         \/ \E g \in Fibers : FiberNew(g) \/ EnsureSlots(g)
         \/ \E g \in Fibers \ {f} : \/ FiberCall(g) \/ FiberTry(g) \/ FiberTransfer(g)
                                    \/ FiberTransferError(g, FALSE)
  PROVE  AsideNext(f)
<1> DEFINE Apart(callers) == /\ callers[f] = NoFiber
                             /\ \A g \in Fibers : callers[g] \in MaybeFiber \ {f}
           After == /\ caller'[f] = NoFiber /\ \A g \in Fibers : caller'[g] # f
                    /\ ~hasError'[f] /\ fiber' # f
<1>0. /\ f \in known /\ numFrames[f] > 0 /\ ~hasError[f] /\ f # fiber /\ Apart(caller)
      /\ caller \in [Fibers -> MaybeFiber] /\ hasError \in [Fibers -> BOOLEAN]
      /\ numFrames \in [Fibers -> 0 .. MaxFrames] /\ NoFiber \notin Fibers
      /\ status = "running" => fiber \in Fibers \ {f}
      /\ fiber \in MaybeFiber \ {f}
      /\ [hasError EXCEPT ![fiber] = TRUE][f] = hasError[f]
  BY LinkFacts DEF AsideNow, Aside, TypeOK, MaybeFiber
<1>1. Apart(CallersAfterYield) /\ \A g \in Fibers \ {f} : Apart(CallersAfterRun(g, TRUE))
  <2>1. ASSUME NEW h, NEW v \in MaybeFiber \ {f}, h # f \/ v = NoFiber
        PROVE  Apart([caller EXCEPT ![h] = v])
    BY <1>0, <2>1 DEF MaybeFiber
  <2>2. NoFiber \in MaybeFiber \ {f}
    BY <1>0 DEF MaybeFiber
  <2> HIDE DEF Apart
  <2> QED BY <1>0, <2>1, <2>2 DEF CallersAfterYield, CallersAfterRun
<1>2. \A g \in Fibers : Apart(CallersAfterRun(g, FALSE))
  BY <1>0 DEF CallersAfterRun
<1>3. ASSUME NEW callers, Apart(callers), status = "running", NEW slots,
             RuntimeError(fiber, callers, [hasError EXCEPT ![fiber] = TRUE], state, slots)
      PROVE  After
  BY <1>0, <1>3, AsideOfError
<1>4. ASSUME NEW next \in Fibers \ {f}, NEW callers, Apart(callers), NEW states,
             SwitchTo(next, callers, hasError, states)
      PROVE  After
  BY <1>0, <1>4, AsideOfSwitch
<1> SUFFICES f \in known' /\ numFrames'[f] > 0 /\ After
  BY DEF AsideNext, Aside
<1> HIDE DEF Apart
<1>5. CASE FiberYield(FALSE)
  <2>1. CASE caller[fiber] # NoFiber
    <3>1. caller[fiber] \in Fibers \ {f}
      BY <1>0, <1>5, <2>1 DEF FiberYield, MaybeFiber, Apart
    <3> QED BY <1>0, <1>1, <1>4, <1>5, <2>1, <3>1 DEF FiberYield
  <2>2. CASE caller[fiber] = NoFiber
    BY <1>0, <1>1, <1>5, <2>2 DEF FiberYield, ReturnToHost, Apart
  <2> QED BY <2>1, <2>2
<1>6. CASE FiberAbort
  BY <1>0, <1>3, <1>6 DEF FiberAbort
<1>7. CASE Return
  <2>1. /\ status = "running" /\ hasError' = hasError /\ known' = known
        /\ numFrames' = [numFrames EXCEPT ![fiber] = numFrames[fiber] - 1]
        /\ caller' \in {caller, [caller EXCEPT ![fiber] = NoFiber]}
        /\ fiber' \in {fiber, caller[fiber]}
    BY <1>7 DEF Return, ReturnToHost, LoadFrame
  <2> QED BY <1>0, <2>1 DEF Apart
<1>8. CASE FiberSuspend
  BY <1>0, <1>8 DEF FiberSuspend, ReturnToHost, fiberVars, Apart
<1>9. CASE Call
  BY <1>0, <1>9 DEF Call, RunInterpreter, Apart
<1>10. ASSUME NEW g \in Fibers, FiberNew(g) \/ EnsureSlots(g)
       PROVE  f \in known' /\ numFrames'[f] > 0 /\ After
  BY <1>0, <1>10 DEF FiberNew, EnsureSlots, Fresh, fiberVars, Apart
<1>11. ASSUME NEW g \in Fibers \ {f}, NEW isCall \in BOOLEAN, RunFiberFails(g, isCall),
              status = "running"
       PROVE  f \in known' /\ numFrames'[f] > 0 /\ After
  <2>1. Apart(CallersAfterRun(g, isCall))
    BY <1>1, <1>2
  <2> QED BY <1>0, <1>3, <1>11, <2>1 DEF RunFiberFails
<1>12. ASSUME NEW g \in Fibers \ {f}, FiberCall(g) \/ FiberTry(g)
       PROVE  f \in known' /\ numFrames'[f] > 0 /\ After
  BY <1>0, <1>1, <1>4, <1>11, <1>12 DEF FiberCall, FiberTry
<1>13. ASSUME NEW g \in Fibers \ {f}, FiberTransfer(g)
       PROVE  f \in known' /\ numFrames'[f] > 0 /\ After
  BY <1>0, <1>4, <1>11, <1>13 DEF FiberTransfer
<1>14. ASSUME NEW g \in Fibers \ {f}, FiberTransferError(g, FALSE)
       PROVE  f \in known' /\ numFrames'[f] > 0 /\ After
  <2>1. PICK next \in Fibers \ {f} :
          SwitchTo(next, caller, [hasError EXCEPT ![next] = ~FALSE], state)
    BY <1>0, <1>14 DEF FiberTransferError
  <2>2. ~[hasError EXCEPT ![next] = ~FALSE][f]
    BY <1>0
  <2>3. After
    BY <1>0, <2>1, <2>2, AsideOfSwitch DEF Apart
  <2> QED BY <1>0, <1>14, <2>3 DEF FiberTransferError
<1> QED BY <1>5, <1>6, <1>7, <1>8, <1>9, <1>10, <1>12, <1>13, <1>14

LEMMA LinksAfter ==
  ASSUME LinkInv, WrenCode \/ Host
  PROVE  LinkInv'
BY WrenCodeTypes, HostTypes, WrenCodeLinks, HostLinks DEF LinkInv

(* The fibers that the program knows become more, or stay the same.        *)
LEMMA KnownStay ==
  ASSUME \/ FiberYield(FALSE) \/ FiberAbort \/ Return \/ FiberSuspend \/ Call
         \/ \E g \in Fibers : FiberNew(g) \/ EnsureSlots(g)
         \/ \E g \in Fibers : \/ FiberCall(g) \/ FiberTry(g) \/ FiberTransfer(g)
                              \/ FiberTransferError(g, FALSE)
  PROVE  known \subseteq known'
BY DEF FiberYield, FiberAbort, Return, FiberSuspend, Call, RunInterpreter, FiberNew,
       EnsureSlots, FiberCall, FiberTry, FiberTransfer, FiberTransferError,
       RunFiberFails

-----------------------------------------------------------------------------
(***************************************************************************)
(* Every action keeps the queue.                                           *)
(***************************************************************************)

(* A step of the fibers that runs none of those that stay in the queue.    *)
LEMMA StepKeepsQueue ==
  ASSUME SchedulerInv,
         \/ FiberYield(FALSE) \/ FiberAbort \/ Return \/ FiberSuspend \/ Call
         \/ \E g \in Fibers : FiberNew(g) \/ EnsureSlots(g)
         \/ \E g \in Fibers \ ToSet(scheduled') :
              \/ FiberCall(g) \/ FiberTry(g) \/ FiberTransfer(g)
              \/ FiberTransferError(g, FALSE),
         NoneTwice(scheduled'), ToSet(scheduled') \subseteq ToSet(scheduled),
         Parked' \subseteq Parked \cup (IF status = "running" THEN {fiber} ELSE {}),
         target' # NoFiber <=> callback' \in {"fired", "ready", "called"}
  PROVE  LinkInv' /\ QueueInv'
<1>0. /\ LinkInv /\ QueueInv /\ ToSet(scheduled) \in SUBSET Fibers
      /\ status = "running" => fiber \in known
  BY SchedulerFacts DEF LinkInv, FiberLinks
<1>1. LinkInv'
  BY <1>0, LinksAfter DEF WrenCode, Host
<1>2. known \subseteq known'
  BY KnownStay
<1>3. ASSUME NEW f \in ToSet(scheduled')
      PROVE  AsideNext(f) /\ f \notin Parked'
  <2>1. f \in Fibers /\ AsideNow(f) /\ f \notin Parked /\ f # fiber
    BY <1>0, <1>3 DEF QueueInv, AsideNow, Aside
  <2>2. AsideNext(f)
    BY <1>0, <1>3, <2>1, AsideStays
  <2> QED BY <2>1, <2>2
<1>4. Parked' \subseteq known'
  BY <1>0, <1>2 DEF QueueInv
<1> QED BY <1>1, <1>3, <1>4 DEF QueueInv, AsideNow, AsideNext

(* A step of the loop that leaves the fibers alone.                        *)
LEMMA LoopKeepsQueue ==
  ASSUME SchedulerInv, UNCHANGED <<vars, scheduled>>, Parked' \subseteq Parked,
         target' # NoFiber <=> callback' \in {"fired", "ready", "called"}
  PROVE  LinkInv' /\ QueueInv'
<1>1. LinkInv'
  BY DEF SchedulerInv, vars, fiberVars, LinkInv, FiberLinks, Links, TypeInv, TypeOK,
         RunningHasFrames
<1>2. \A f : AsideNow(f)' <=> AsideNow(f)
  BY DEF AsideNow, Aside, vars, fiberVars
<1> QED BY <1>1, <1>2 DEF SchedulerInv, QueueInv, vars

(* Scheduler.add: nobody has a reference to the new fiber.                 *)
LEMMA AddKeepsQueue ==
  ASSUME SchedulerInv, NEW f \in Fibers, Add(f)
  PROVE  LinkInv' /\ QueueInv'
<1>0. /\ LinkInv /\ QueueInv /\ scheduled \in Seq(Fibers)
      /\ ToSet(scheduled) \in SUBSET Fibers
      /\ FiberNew(f) /\ scheduled' = Append(scheduled, f)
      /\ UNCHANGED <<requests, callback, target>>
  BY SchedulerFacts DEF Add, callbackVars
<1>1. LinkInv'
  BY <1>0, LinksAfter DEF WrenCode
<1>2. /\ f \notin known /\ f # fiber /\ known' = known \cup {f}
      /\ numFrames' = [numFrames EXCEPT ![f] = 1]
      /\ UNCHANGED <<fiber, caller, hasError>>
  BY <1>0 DEF FiberNew, Fresh
<1>3. AsideNext(f)
  <2>1. caller[f] = NoFiber /\ ~hasError[f] /\ numFrames'[f] = 1
    BY <1>0, <1>2, LinkFacts
  <2>2. \A g \in Fibers : caller[g] # f
    BY <1>0, <1>2, FibersAssumption DEF LinkInv, FiberLinks, Links
  <2> QED BY <1>2, <2>1, <2>2 DEF AsideNext, Aside
<1>4. \A g \in ToSet(scheduled) : AsideNext(g)
  BY <1>0, AsideStays DEF QueueInv
<1>5. f \notin Parked /\ Parked' = Parked /\ f \notin ToSet(scheduled)
  BY <1>0, <1>2 DEF QueueInv, Parked, AsideNow, Aside
<1>6. ToSet(scheduled') = ToSet(scheduled) \cup {f} /\ NoneTwice(scheduled')
  BY <1>0, <1>5, ToSetOfAppend DEF QueueInv
<1> QED BY <1>0, <1>1, <1>2, <1>3, <1>4, <1>5, <1>6 DEF QueueInv, AsideNow, AsideNext

(* The next scheduled fiber runs, and the last one is over, or waits for a *)
(* request.                                                                *)
LEMMA NextKeepsQueue ==
  ASSUME SchedulerInv, RunNextScheduled, status = "running", UNCHANGED <<callback, target>>,
         requests' = requests \/ StartRequest(fiber)
  PROVE  LinkInv' /\ QueueInv'
<1>0. /\ QueueInv /\ scheduled \in Seq(Fibers) /\ requests \in [Fibers -> Nat]
      /\ ToSet(scheduled) \in SUBSET Fibers
  BY SchedulerFacts
<1>1. scheduled # <<>> =>
        /\ Head(scheduled) \in Fibers \ ToSet(scheduled') /\ FiberTransfer(Head(scheduled))
        /\ NoneTwice(scheduled') /\ ToSet(scheduled') \subseteq ToSet(scheduled)
  BY <1>0, ToSetOfTail DEF RunNextScheduled, QueueInv
<1>2. scheduled = <<>> => FiberSuspend /\ scheduled' = scheduled
  BY DEF RunNextScheduled
<1>3. Parked' \subseteq Parked \cup {fiber}
  <2>1. ASSUME NEW f \in Fibers, requests'[f] > 0, f # fiber PROVE requests[f] > 0
    BY <1>0, <2>1 DEF StartRequest
  <2> QED BY <2>1 DEF Parked
<1> QED BY <1>0, <1>1, <1>2, <1>3, StepKeepsQueue DEF QueueInv

(* The marked fibers contain the roots and the callers of all of them.     *)
LEMMA RootedIsClosed ==
  ASSUME SchedulerInv
  PROVE  /\ Roots \subseteq Rooted /\ Rooted \subseteq Fibers
         /\ \A f \in Rooted : caller[f] # NoFiber => caller[f] \in Rooted
<1>1. Roots \subseteq Fibers /\ caller \in [Fibers -> MaybeFiber]
  BY SchedulerFacts, LinkFacts DEF Roots, MaybeFiber
<1> QED BY <1>1 DEF Rooted, MaybeFiber

(* What the host holds is marked.                                          *)
LEMMA HeldIsRooted ==
  ASSUME SchedulerInv
  PROVE  Held \subseteq Rooted /\ (fiber # NoFiber => fiber \in Rooted)
<1>0. /\ HandlesInv /\ QueueInv /\ requests \in [Fibers -> Nat]
      /\ ToSet(scheduled) \in SUBSET Fibers /\ NoFiber \notin Fibers
  BY SchedulerFacts
<1>1. ASSUME NEW f \in Fibers, requests[f] > 0 PROVE f \in Roots
  BY <1>0, <1>1 DEF HandlesInv, HandleTypes, HandlesAccounted, Roots
<1>2. ASSUME target \in Fibers PROVE target \in Roots
  <2>1. callback \in {"fired", "ready", "called"}
    BY <1>0, <1>2 DEF QueueInv
  <2>2. CASE callback = "fired"
    BY <1>0, <1>2, <2>2 DEF HandlesInv, HandleTypes, HandlesAccounted, Roots
  <2>3. CASE callback \in {"ready", "called"}
    BY <1>0, <1>2, <2>3 DEF Roots
  <2> QED BY <2>1, <2>2, <2>3
<1>3. Held \subseteq Roots
  BY <1>1, <1>2 DEF Held, Parked, Roots
<1>4. fiber # NoFiber => fiber \in Roots
  BY DEF Roots
<1> QED BY <1>3, <1>4, RootedIsClosed

(* The collector frees fibers that no fiber waits for but those that are   *)
(* freed with them.                                                        *)
LEMMA FreedAreApart ==
  ASSUME SchedulerInv, NEW S \in SUBSET (known \ Rooted),
         \A f \in known \ (Rooted \cup S) : caller[f] \notin S
  PROVE  /\ S \in SUBSET Fibers /\ S \cap Held = {} /\ fiber \notin S
         /\ \A g \in Fibers \ S : caller[g] \notin S
<1>0. LinkInv /\ NoFiber \notin Fibers /\ S \in SUBSET Fibers
  BY SchedulerFacts, LinkFacts
<1>1. ASSUME NEW g \in Fibers \ S, caller[g] \in S PROVE FALSE
  <2>1. g \in Rooted
    BY <1>0, <1>1, LinkFacts
  <2> QED BY <1>0, <1>1, <2>1, RootedIsClosed
<1>2. S \cap Held = {} /\ fiber \notin S
  BY <1>0, HeldIsRooted, SchedulerFacts
<1> QED BY <1>0, <1>1, <1>2

LEMMA CollectKeepsQueue ==
  ASSUME SchedulerInv, Collect
  PROVE  LinkInv' /\ QueueInv'
<1>0. /\ LinkInv /\ QueueInv /\ TypeInv /\ TypeOK /\ NoFiber \notin Fibers
      /\ ToSet(scheduled) \subseteq Held /\ Parked \subseteq Held
      /\ caller \in [Fibers -> MaybeFiber] /\ hasError \in [Fibers -> BOOLEAN]
      /\ state \in [Fibers -> FiberState] /\ numFrames \in [Fibers -> 0 .. MaxFrames]
      /\ shifted \in [Fibers -> SUBSET (1 .. MaxFrames)] /\ known \in SUBSET Fibers
  BY SchedulerFacts, LinkFacts DEF Held, TypeOK
<1>1. PICK S \in SUBSET (known \ Rooted) :
        Free(S) /\ \A f \in known \ (Rooted \cup S) : caller[f] \notin S
  BY DEF Collect
<1>2. /\ S \in SUBSET Fibers /\ S \cap Held = {} /\ fiber \notin S
      /\ \A g \in Fibers \ S : caller[g] \notin S
  BY <1>1, FreedAreApart
<1>3. UNCHANGED <<fiber, apiStack, status, entry, result, scheduled, requests,
                  callback, target>>
  BY DEF Collect, callbackVars
<1>4. /\ known' = known \ S
      /\ numFrames' = [g \in Fibers |-> IF g \in S THEN 0 ELSE numFrames[g]]
      /\ caller' = [g \in Fibers |-> IF g \in S THEN NoFiber ELSE caller[g]]
      /\ hasError' = [g \in Fibers |-> g \notin S /\ hasError[g]]
      /\ state' = [g \in Fibers |-> IF g \in S THEN "other" ELSE state[g]]
      /\ shifted' = [g \in Fibers |-> IF g \in S THEN {} ELSE shifted[g]]
  BY <1>1 DEF Free
<1>5. TypeInv'
  <2>1. numFrames' \in [Fibers -> 0 .. MaxFrames]
    BY <1>0, <1>4, FramesAssumption
  <2>2. hasError' \in [Fibers -> BOOLEAN] /\ state' \in [Fibers -> FiberState]
    BY <1>0, <1>4 DEF FiberState
  <2>3. caller' \in [Fibers -> MaybeFiber]
    BY <1>0, <1>4 DEF MaybeFiber
  <2>4. shifted' \in [Fibers -> SUBSET (1 .. MaxFrames)]
    BY <1>0, <1>4
  <2>5. status' = "running" => numFrames'[fiber'] > 0
    BY <1>0, <1>2, <1>3, <1>4 DEF TypeInv, TypeOK, RunningHasFrames
  <2> QED BY <1>0, <1>3, <1>4, <2>1, <2>2, <2>3, <2>4, <2>5
          DEF TypeInv, TypeOK, RunningHasFrames, MaybeFiber
<1>6. FiberLinks'
  <2>1. ASSUME NEW g \in Fibers
        PROVE  /\ state'[g] = "try" /\ numFrames'[g] > 0 => caller'[g] # NoFiber
               /\ state'[g] = "root" => caller'[g] = NoFiber
               /\ hasError'[g] /\ state'[g] # "try" /\ g # NoFiber
                    => caller'[g] = NoFiber
               /\ caller'[g] \in known' \cup {NoFiber}
               /\ g \notin known' => /\ caller'[g] = NoFiber /\ ~hasError'[g]
                                    /\ state'[g] = "other" /\ numFrames'[g] = 0
    BY <1>0, <1>2, <1>4 DEF LinkInv, FiberLinks, Links
  <2>2. Links(caller, hasError, state, numFrames, known, NoFiber)'
    BY <2>1 DEF Links
  <2>3. /\ status' = "running" => fiber' \in known'
        /\ status' = "host" /\ fiber' # NoFiber => caller'[fiber'] = NoFiber
    BY <1>0, <1>2, <1>3, <1>4 DEF LinkInv, FiberLinks, TypeOK
  <2> QED BY <2>2, <2>3 DEF FiberLinks
<1>7. Parked' = Parked /\ Parked' \subseteq known'
  BY <1>0, <1>2, <1>3, <1>4 DEF Parked, QueueInv
<1>8. \A f \in ToSet(scheduled) : AsideNext(f)
  BY <1>0, <1>2, <1>3, <1>4 DEF QueueInv, AsideNow, AsideNext, Aside
<1> QED BY <1>0, <1>3, <1>5, <1>6, <1>7, <1>8 DEF LinkInv, QueueInv, AsideNow, AsideNext

LEMMA QueueNext ==
  ASSUME SchedulerInv, [SchedulerNext]_allVars
  PROVE  LinkInv' /\ QueueInv'
<1>0. /\ LinkInv /\ QueueInv /\ requests \in [Fibers -> Nat]
      /\ scheduled \in Seq(Fibers) /\ ToSet(scheduled) \in SUBSET Fibers
      /\ NoFiber \notin Fibers /\ target \in Fibers \cup {NoFiber}
  BY SchedulerFacts
<1>1. UNCHANGED <<scheduled, requests, target>> =>
        /\ NoneTwice(scheduled') /\ ToSet(scheduled') = ToSet(scheduled) /\ Parked' = Parked
  BY <1>0 DEF QueueInv, Parked
<1>2. UNCHANGED schedulerVars =>
        /\ UNCHANGED <<scheduled, requests, target>>
        /\ target' # NoFiber <=> callback' \in {"fired", "ready", "called"}
  BY <1>0 DEF QueueInv, schedulerVars, callbackVars
<1>3. ASSUME NEW f \in Fibers, NewFiber(f) \/ CallOrTry(f) PROVE LinkInv' /\ QueueInv'
  BY <1>1, <1>2, <1>3, StepKeepsQueue DEF NewFiber, CallOrTry
<1>4. ASSUME NEW f \in Fibers, Add(f) PROVE LinkInv' /\ QueueInv'
  BY <1>4, AddKeepsQueue
<1>5. CASE Sleep
  BY <1>5, NextKeepsQueue DEF Sleep, ProgramRuns, CodeRuns, callbackVars
<1>6. CASE Finish
  <2>1. CASE RunNextScheduled
    BY <1>6, <2>1, NextKeepsQueue DEF Finish, CodeRuns, callbackVars
  <2>2. CASE Return /\ UNCHANGED scheduled
    BY <1>0, <1>1, <1>6, <2>2, StepKeepsQueue DEF Finish, callbackVars, QueueInv
  <2> QED BY <1>6, <2>1, <2>2 DEF Finish
<1>7. CASE AbortOrYield
  BY <1>1, <1>2, <1>7, StepKeepsQueue DEF AbortOrYield
<1>8. ASSUME NEW f \in Fibers, NEW isError \in BOOLEAN, Complete(f, isError)
      PROVE  LinkInv' /\ QueueInv'
  <2>1. /\ requests[f] > 0 /\ requests' = [requests EXCEPT ![f] = @ - 1]
        /\ callback = "none" /\ callback' = "fired" /\ target' = f
        /\ UNCHANGED <<vars, scheduled>>
    BY <1>8 DEF Complete
  <2>2. \A g \in Fibers : requests'[g] > 0 => requests[g] > 0
    BY <1>0, <2>1
  <2>3. Parked' \subseteq Parked
    BY <2>1, <2>2 DEF Parked
  <2> QED BY <1>0, <2>1, <2>3, LoopKeepsQueue
<1>9. CASE ScriptReturns \/ LoopEnds \/ FreeVM \/ CallbackReturns \/ Ended \/ UNCHANGED allVars
  <2>1. /\ UNCHANGED <<vars, scheduled, requests, target>>
        /\ callback' = callback \/ (callback = "resumed" /\ callback' = "none")
    BY <1>9 DEF ScriptReturns, LoopEnds, FreeVM, CallbackReturns, Ended, allVars,
                schedulerVars, callbackVars
  <2> QED BY <1>0, <1>1, <2>1, LoopKeepsQueue DEF QueueInv
<1>10. CASE EnsureResumeSlots
  <2>1. /\ callback = "fired" /\ callback' = "ready"
        /\ UNCHANGED <<scheduled, requests, target>>
        /\ UNCHANGED vars \/ \E f \in Fibers : EnsureSlots(f)
    BY <1>10 DEF EnsureResumeSlots
  <2> QED BY <1>0, <1>1, <2>1, LoopKeepsQueue, StepKeepsQueue DEF QueueInv
<1>11. CASE CallResume
  BY <1>0, <1>1, <1>11, StepKeepsQueue DEF CallResume, QueueInv
<1>12. CASE ResumeTarget
  <2>1. /\ callback = "called" /\ callback' = "resumed" /\ target' = NoFiber
        /\ UNCHANGED <<scheduled, requests>>
        /\ FiberTransferError(target, FALSE) \/ FiberTransfer(target)
    BY <1>12 DEF ResumeTarget
  <2>2. target \in Fibers \ ToSet(scheduled)
    BY <1>0, <2>1 DEF QueueInv, Parked
  <2>3. Parked' \subseteq Parked
    BY <1>0, <2>1 DEF Parked
  <2> QED BY <1>0, <2>1, <2>2, <2>3, StepKeepsQueue DEF QueueInv
<1>13. CASE Collect
  BY <1>13, CollectKeepsQueue
<1> QED BY <1>3, <1>4, <1>5, <1>6, <1>7, <1>8, <1>9, <1>10, <1>11, <1>12, <1>13
        DEF SchedulerNext, Program, Loop

-----------------------------------------------------------------------------
(***************************************************************************)
(* What holds of every program.                                            *)
(***************************************************************************)

LEMMA SchedulerTypesNext ==
  ASSUME SchedulerInv, HandlesInv', [SchedulerNext]_allVars
  PROVE  SchedulerTypeOK'
<1>0. /\ SchedulerTypeOK /\ requests' \in [Fibers -> Nat] /\ handles' \in [Fibers -> Nat]
      /\ callback' \in {"none", "fired", "ready", "called", "resumed"}
  BY DEF SchedulerInv, HandlesInv, HandleTypes
<1>1. /\ phase' \in {"script", "loop", "exit", "freed"}
      /\ stopping' \in BOOLEAN /\ exitCode' \in {0, 70}
  BY <1>0
  DEF SchedulerTypeOK, SchedulerNext, Program, Loop, NewFiber, Add, CallOrTry, Sleep,
      Finish, AbortOrYield, ScriptReturns, Complete, EnsureResumeSlots, CallResume,
      ResumeTarget, CallbackReturns, StopOnError, LoopEnds, FreeVM, Collect, Ended,
      allVars, schedulerVars, hostVars
<1>2. target' \in Fibers \cup {NoFiber} /\ fails' \in BOOLEAN
  BY <1>0
  DEF SchedulerTypeOK, SchedulerNext, Program, Loop, NewFiber, Add, CallOrTry, Sleep,
      Finish, AbortOrYield, ScriptReturns, Complete, EnsureResumeSlots, CallResume,
      ResumeTarget, CallbackReturns, LoopEnds, FreeVM, Collect, Ended,
      allVars, schedulerVars, callbackVars
<1>3. scheduled' \in Seq(Fibers)
  <2>1. \A f \in Fibers : Append(scheduled, f) \in Seq(Fibers)
    BY <1>0, ToSetOfAppend DEF SchedulerTypeOK
  <2>2. scheduled # <<>> => Tail(scheduled) \in Seq(Fibers)
    BY <1>0 DEF SchedulerTypeOK
  <2> QED
    BY <1>0, <2>1, <2>2
    DEF SchedulerTypeOK, SchedulerNext, Program, Loop, NewFiber, Add, CallOrTry, Sleep,
        Finish, AbortOrYield, RunNextScheduled, ScriptReturns, Complete,
        EnsureResumeSlots, CallResume, ResumeTarget, CallbackReturns, LoopEnds, FreeVM,
        Collect, Ended, allVars, schedulerVars
<1>4. added' \in SUBSET Fibers /\ ended' \in SUBSET Fibers
  <2>1. fiber \in Fibers \/ status # "running"
    BY LinkFacts DEF SchedulerInv, TypeOK
  <2>2. /\ \/ added' = added
           \/ \E f \in Fibers : added' = added \cup {f}
           \/ \E S : added' = added \ S
        /\ \/ ended' = ended \/ (status = "running" /\ ended' = ended \cup {fiber})
           \/ \E S : ended' = ended \ S
    BY DEF SchedulerNext, Program, Loop, NewFiber, Add, CallOrTry, Sleep, CodeRuns,
      Finish, AbortOrYield, ScriptReturns, Complete, EnsureResumeSlots, CallResume,
      ResumeTarget, CallbackReturns, LoopEnds, FreeVM, Collect, Free, Ended,
      allVars, schedulerVars
  <2> QED BY <1>0, <2>1, <2>2 DEF SchedulerTypeOK
<1> QED BY <1>0, <1>1, <1>2, <1>3, <1>4 DEF SchedulerTypeOK

LEMMA SchedulerInvInit == SchedulerInit => SchedulerInv
<1> SUFFICES ASSUME SchedulerInit PROVE SchedulerInv
  OBVIOUS
<1>1. PICK main \in Fibers :
        /\ fiber = main /\ known = {main}
        /\ numFrames = [f \in Fibers |-> IF f = main THEN 1 ELSE 0]
        /\ state = [f \in Fibers |-> IF f = main THEN "root" ELSE "other"]
  BY DEF SchedulerInit
<1>2. /\ apiStack = NoFiber
      /\ status = "running" /\ entry = "interpret" /\ result = "none"
      /\ caller = [f \in Fibers |-> NoFiber]
      /\ hasError = [f \in Fibers |-> FALSE]
      /\ shifted = [f \in Fibers |-> {}]
      /\ phase = "script" /\ scheduled = <<>> /\ added = {} /\ ended = {}
      /\ requests = [f \in Fibers |-> 0] /\ handles = [f \in Fibers |-> 0]
      /\ callback = "none" /\ target = NoFiber /\ fails = FALSE
      /\ stopping = FALSE /\ exitCode = 0
  BY DEF SchedulerInit
<1>3. SchedulerTypeOK
  <2>1. scheduled \in Seq(Fibers)
    BY <1>2
  <2>2. requests \in [Fibers -> Nat] /\ handles \in [Fibers -> Nat]
    BY <1>2
  <2> QED BY <1>2, <2>1, <2>2 DEF SchedulerTypeOK
<1>4. LinkInv
  <2>1. numFrames \in [Fibers -> 0 .. MaxFrames] /\ numFrames[fiber] = 1
    BY <1>1, FramesAssumption
  <2>2. state \in [Fibers -> FiberState]
    BY <1>1 DEF FiberState
  <2>3. /\ caller \in [Fibers -> Fibers \cup {NoFiber}] /\ hasError \in [Fibers -> BOOLEAN]
        /\ shifted \in [Fibers -> SUBSET (1 .. MaxFrames)]
    BY <1>2
  <2>4. fiber \in Fibers /\ known \in SUBSET Fibers /\ fiber # NoFiber
    BY <1>1, FibersAssumption
  <2>5. TypeInv
    BY <1>2, <2>1, <2>2, <2>3, <2>4 DEF TypeInv, TypeOK, RunningHasFrames, Status, Result
  <2>6. FiberLinks
    BY <1>1, <1>2 DEF FiberLinks, Links
  <2> QED BY <2>5, <2>6 DEF LinkInv
<1>5. QueueInv
  <2>1. ToSet(<<>>) = {} /\ NoneTwice(<<>>)
    BY DEF ToSet, NoneTwice
  <2>2. \A f \in Fibers : requests[f] = 0 /\ f # target
    BY <1>2, FibersAssumption
  <2> QED BY <1>2, <2>1, <2>2 DEF Parked, QueueInv
<1> QED BY <1>3, <1>4, <1>5, HandlesInvInit DEF SchedulerInv

LEMMA SchedulerInvNext == SchedulerInv /\ [SchedulerNext]_allVars => SchedulerInv'
<1> SUFFICES ASSUME SchedulerInv, [SchedulerNext]_allVars PROVE SchedulerInv'
  OBVIOUS
<1>1. HandlesInv'
  BY HandlesInvNext DEF SchedulerInv
<1> QED BY <1>1, SchedulerTypesNext, QueueNext DEF SchedulerInv

THEOREM SchedulerInvariant == SchedulerSpec => []SchedulerInv
BY SchedulerInvInit, SchedulerInvNext, PTL DEF SchedulerSpec

(* The model of the host is well typed.                                    *)
THEOREM SchedulerTypeCorrect == SchedulerSpec => []SchedulerTypeOK
<1>1. SchedulerInv => SchedulerTypeOK
  BY DEF SchedulerInv
<1> QED BY <1>1, SchedulerInvariant, PTL

(* A fiber of Scheduler.add is in the list once, and has not run, is not   *)
(* parked and has no caller as long as it is there (scheduler.wren).       *)
THEOREM QueuedHasNotStartedAlways == SchedulerSpec => []QueuedHasNotStarted
<1>1. SchedulerInv => QueuedHasNotStarted
  <2> SUFFICES ASSUME SchedulerInv PROVE QueuedHasNotStarted
    OBVIOUS
  <2>0. /\ QueueInv /\ ToSet(scheduled) \in SUBSET Fibers
        /\ requests \in [Fibers -> Nat]
    BY SchedulerFacts
  <2>1. ASSUME NEW f \in ToSet(scheduled)
        PROVE  Live(f) /\ caller[f] = NoFiber /\ f # fiber /\ requests[f] = 0
    BY <2>0 DEF QueueInv, AsideNow, Aside, Live, Parked
  <2> QED BY <2>0, <2>1 DEF QueuedHasNotStarted, QueueInv, NoneTwice
<1> QED BY <1>1, SchedulerInvariant, PTL

-----------------------------------------------------------------------------
(***************************************************************************)
(* What holds of the programs that call no busy fiber: control passes      *)
(* along the chains, and each held fiber waits for one thing.              *)
(***************************************************************************)
HoldInv ==
  /\ ControlNow(Held, Fibers)
  /\ \A f \in Fibers : requests[f] <= (IF f = target THEN 0 ELSE 1)

(* A held fiber can run when the host transfers to it.                     *)
LEMMA HoldFacts ==
  ASSUME SchedulerInv, HoldInv
  PROVE  /\ LinkInv /\ Held \in SUBSET Fibers /\ ControlNow(Held, Fibers)
         /\ \A f \in Held : f \in known /\ Alive(f, numFrames, hasError)
         /\ status = "running" => fiber \in Fibers \ Held
<1>1. LinkInv /\ Held \in SUBSET Fibers /\ Held \subseteq known /\ ControlNow(Held, Fibers)
  BY SchedulerFacts DEF HoldInv
<1> QED BY <1>1, ControlFacts DEF Chains

(* The host holds the same fibers.                                         *)
LEMMA HoldAfter ==
  ASSUME HoldInv, ControlNext(Held, Fibers), UNCHANGED <<scheduled, requests, target>>
  PROVE  HoldInv'
BY DEF HoldInv, ControlNow, ControlNext, Held, Parked

(* The program calls a fiber that waits for nothing, or one that runFiber  *)
(* refuses.                                                                *)
LEMMA CallKeepsHold ==
  ASSUME ~BusyCalls, SchedulerInv, HoldInv, NEW f \in Fibers, CallOrTry(f)
  PROVE  HoldInv'
<1>1. /\ callback \in {"none", "resumed"} /\ f \notin ToSet(scheduled)
      /\ FiberCall(f) \/ FiberTry(f)
      /\ UNCHANGED <<scheduled, requests, target>>
      /\ ~(CanRun(f, TRUE) /\ Engaged(f))
  BY DEF CallOrTry, ProgramRuns, CodeRuns, schedulerVars, callbackVars
<1>2. target = NoFiber
  BY <1>1, SchedulerFacts DEF QueueInv
<1>3. CanRun(f, TRUE) => /\ f \notin Held \cup {fiber}
                         /\ \A g \in Fibers : Alive(g, numFrames, hasError) => caller[g] # f
  BY <1>1, <1>2, FibersAssumption DEF Engaged, Held, Parked, Live, Alive
<1>4. ControlNext(Held, Fibers)
  BY <1>1, <1>3, HoldFacts, RunIdleHandsOver
<1> QED BY <1>1, <1>4, HoldAfter

LEMMA AddKeepsHold ==
  ASSUME SchedulerInv, HoldInv, NEW f \in Fibers, Add(f)
  PROVE  HoldInv'
<1>1. /\ FiberNew(f) /\ scheduled' = Append(scheduled, f) /\ UNCHANGED <<requests, target>>
  BY DEF Add, callbackVars
<1>2. ControlNext(Held \cup {f}, Fibers \cup {f})
  BY <1>1, HoldFacts, NewHandsOver
<1>3. Held' = Held \cup {f} /\ Fibers \cup {f} = Fibers
  BY <1>1, SchedulerFacts, ToSetOfAppend DEF Held, Parked
<1> QED BY <1>1, <1>2, <1>3 DEF HoldInv, ControlNow, ControlNext

(* The next scheduled fiber runs, and the last one is over, or waits for a *)
(* request.                                                                *)
LEMMA NextKeepsHold ==
  ASSUME SchedulerInv, HoldInv, RunNextScheduled, status = "running", target' = target,
         requests' = requests \/ StartRequest(fiber)
  PROVE  HoldInv'
<1> DEFINE h == Head(scheduled)
           rest == IF scheduled = <<>> THEN Held ELSE Held \ {h}
<1>0. /\ QueueInv /\ scheduled \in Seq(Fibers) /\ requests \in [Fibers -> Nat]
      /\ ToSet(scheduled) \in SUBSET Fibers /\ fiber \in Fibers \ Held
  BY SchedulerFacts, HoldFacts
<1>1. scheduled # <<>> =>
        /\ h \in ToSet(scheduled) /\ FiberTransfer(h)
        /\ ToSet(scheduled') = ToSet(scheduled) \ {h}
  BY <1>0, ToSetOfTail DEF RunNextScheduled, QueueInv
<1>2. scheduled = <<>> => FiberSuspend /\ scheduled' = scheduled
  BY DEF RunNextScheduled
<1>3. ControlNext(rest, Fibers) /\ ControlNext(rest \cup {fiber}, Fibers)
  BY <1>0, <1>1, <1>2, HoldFacts, TransferHandsOver, SuspendHandsOver DEF Held
<1>4. Parked' \in {Parked, Parked \cup {fiber}}
  <2>1. CASE requests' = requests
    BY <2>1 DEF Parked
  <2>2. CASE StartRequest(fiber)
    <3>1. \A f \in Fibers : requests'[f] > 0 <=> requests[f] > 0 \/ f = fiber
      BY <1>0, <2>2 DEF StartRequest
    <3> QED BY <1>0, <3>1 DEF Parked
  <2> QED BY <2>1, <2>2
<1>5. Held' \in {rest, rest \cup {fiber}}
  BY <1>0, <1>1, <1>2, <1>4 DEF QueueInv, Held
<1> HIDE DEF rest
<1>6. ControlNow(Held, Fibers)'
  BY <1>3, <1>5 DEF ControlNow, ControlNext
<1>7. \A f \in Fibers : requests'[f] <= (IF f = target' THEN 0 ELSE 1)
  <2>1. requests[fiber] = 0 /\ fiber # target
    BY <1>0 DEF Held, Parked
  <2> QED BY <1>0, <2>1 DEF HoldInv, StartRequest
<1> QED BY <1>6, <1>7 DEF HoldInv

(* The fiber that waited for the request is the callback's target.         *)
LEMMA CompleteKeepsHold ==
  ASSUME SchedulerInv, HoldInv, NEW f \in Fibers, NEW isError \in BOOLEAN,
         Complete(f, isError)
  PROVE  HoldInv'
<1>1. /\ callback = "none" /\ target' = f
      /\ requests[f] > 0 /\ requests' = [requests EXCEPT ![f] = @ - 1]
      /\ UNCHANGED <<vars, scheduled>>
  BY DEF Complete
<1>2. requests \in [Fibers -> Nat] /\ NoFiber \notin Fibers /\ target = NoFiber
  BY <1>1, SchedulerFacts DEF QueueInv
<1>3. \A g \in Fibers : requests'[g] = IF g = f THEN 0 ELSE requests[g]
  <2>1. requests[f] = 1
    BY <1>1, <1>2 DEF HoldInv
  <2> QED BY <1>1, <1>2, <2>1
<1>4. Held' = Held
  <2>1. Parked' = Parked
    BY <1>1, <1>2, <1>3 DEF Parked
  <2> QED BY <1>1, <2>1 DEF Held
<1>5. ControlNow(Held, Fibers)'
  BY <1>1, <1>4 DEF vars, fiberVars, HoldInv, ControlNow
<1>6. \A g \in Fibers : requests'[g] <= (IF g = target' THEN 0 ELSE 1)
  BY <1>1, <1>2, <1>3 DEF HoldInv
<1> QED BY <1>5, <1>6 DEF HoldInv

(* resume_ and resumeError_ run the target, or give it the error.          *)
LEMMA ResumeTargetKeepsHold ==
  ASSUME SchedulerInv, HoldInv, ResumeTarget
  PROVE  HoldInv'
<1>1. /\ callback = "called" /\ target' = NoFiber /\ UNCHANGED <<scheduled, requests>>
      /\ FiberTransferError(target, FALSE) \/ FiberTransfer(target)
  BY DEF ResumeTarget
<1>2. /\ QueueInv /\ requests \in [Fibers -> Nat] /\ NoFiber \notin Fibers
      /\ target \in Fibers /\ target \in Held
  BY <1>1, SchedulerFacts DEF QueueInv, Held, Parked
<1>3. ControlNext(Held \ {target}, Fibers)
  BY <1>1, <1>2, HoldFacts, TransferHandsOver, TransferErrorHandsOver
<1>4. Held' = Held \ {target}
  <2>1. requests[target] = 0 /\ target \notin ToSet(scheduled)
    BY <1>2 DEF HoldInv, QueueInv, Parked
  <2>2. Parked' = Parked \ {target}
    BY <1>1, <1>2, <2>1 DEF Parked
  <2> QED BY <1>1, <2>1, <2>2 DEF Held
<1>5. \A f \in Fibers : requests'[f] <= (IF f = target' THEN 0 ELSE 1)
  BY <1>1, <1>2 DEF HoldInv
<1> QED BY <1>3, <1>4, <1>5 DEF HoldInv, ControlNow, ControlNext

(* What the collector frees is in no chain that goes on.                   *)
LEMMA CollectKeepsHold ==
  ASSUME SchedulerInv, HoldInv, Collect
  PROVE  HoldInv'
<1>0. /\ LinkInv /\ Held \in SUBSET Fibers /\ ControlNow(Held, Fibers) /\ TypeOK
      /\ NoFiber \notin Fibers /\ caller \in [Fibers -> MaybeFiber]
      /\ hasError \in [Fibers -> BOOLEAN] /\ numFrames \in [Fibers -> 0 .. MaxFrames]
  BY HoldFacts, LinkFacts
<1>1. PICK S \in SUBSET (known \ Rooted) :
        Free(S) /\ \A f \in known \ (Rooted \cup S) : caller[f] \notin S
  BY DEF Collect
<1>2. /\ S \in SUBSET Fibers /\ S \cap Held = {} /\ fiber \notin S
      /\ \A g \in Fibers \ S : caller[g] \notin S
  BY <1>1, FreedAreApart
<1>3. UNCHANGED <<fiber, apiStack, status, scheduled, requests, target>>
  BY DEF Collect, callbackVars
<1>4. /\ numFrames' = [g \in Fibers |-> IF g \in S THEN 0 ELSE numFrames[g]]
      /\ caller' = [g \in Fibers |-> IF g \in S THEN NoFiber ELSE caller[g]]
      /\ hasError' = [g \in Fibers |-> g \notin S /\ hasError[g]]
  BY <1>1 DEF Free
<1>5. ASSUME NEW T \in SUBSET Fibers, T \cap S = {},
             Chains(T, Fibers, numFrames, caller, hasError, state)
      PROVE  Chains(T, Fibers, numFrames', caller', hasError', state')
  <2>1. \A g \in Fibers : Alive(g, numFrames', hasError')
                            <=> g \notin S /\ Alive(g, numFrames, hasError)
    <3>1. ASSUME NEW g \in Fibers
          PROVE  /\ numFrames'[g] = IF g \in S THEN 0 ELSE numFrames[g]
                 /\ g \notin S => (hasError'[g] <=> hasError[g])
      BY <1>4, Zenon
    <3> QED BY <3>1, FramesAssumption DEF Alive
  <2>2. \A g \in Fibers \ S : caller'[g] = caller[g]
    BY <1>4
  <2>3. \A g \in Fibers : Busy(g, Fibers, caller', state')
    BY DEF Busy
  <2> QED BY <1>0, <1>2, <1>5, <2>1, <2>2, <2>3 DEF Chains
<1>6. ControlNext(Held, Fibers)
  <2>1. CASE status = "running"
    <3>1. fiber \in Fibers \ Held /\ apiStack = NoFiber
          /\ Chains(Held \cup {fiber}, Fibers, numFrames, caller, hasError, state)
      BY <1>0, <2>1, ControlFacts
    <3>2. Chains(Held \cup {fiber}, Fibers, numFrames', caller', hasError', state')
      BY <1>0, <1>2, <1>5, <3>1
    <3> QED BY <1>3, <2>1, <3>1, <3>2 DEF ControlNext, Control
  <2>2. CASE status # "running"
    <3>1. Chains(Held, Fibers, numFrames', caller', hasError', state')
      BY <1>0, <1>2, <1>5, ControlFacts
    <3>2. /\ status = "host" /\ apiStack \in {NoFiber, fiber}
          /\ fiber # NoFiber => numFrames[fiber] = 0 /\ ~hasError[fiber]
      BY <1>0, <2>2 DEF ControlNow, Control
    <3>3. fiber # NoFiber => numFrames'[fiber] = 0 /\ ~hasError'[fiber]
      BY <1>0, <1>2, <1>4, <3>2 DEF TypeOK
    <3> QED BY <1>3, <2>2, <3>1, <3>2, <3>3 DEF ControlNext, Control
  <2> QED BY <2>1, <2>2
<1> QED BY <1>3, <1>6, HoldAfter

LEMMA HoldNext ==
  ASSUME ~BusyCalls, SchedulerInv, HoldInv, [SchedulerNext]_allVars
  PROVE  HoldInv'
<1>1. UNCHANGED schedulerVars => UNCHANGED <<scheduled, requests, target>>
  BY DEF schedulerVars, callbackVars
<1>2. UNCHANGED vars => ControlNext(Held, Fibers)
  BY DEF HoldInv, ControlNow, ControlNext, vars, fiberVars
<1>3. ASSUME NEW f \in Fibers, NewFiber(f) PROVE HoldInv'
  BY <1>1, <1>3, HoldFacts, NewHandsOver, HoldAfter DEF NewFiber
<1>4. ASSUME NEW f \in Fibers, Add(f) \/ CallOrTry(f) PROVE HoldInv'
  BY <1>4, AddKeepsHold, CallKeepsHold
<1>5. CASE Sleep
  BY <1>5, NextKeepsHold DEF Sleep, ProgramRuns, CodeRuns, callbackVars
<1>6. CASE Finish
  <2>1. CASE RunNextScheduled
    BY <1>6, <2>1, NextKeepsHold DEF Finish, CodeRuns, callbackVars
  <2>2. CASE Return /\ UNCHANGED scheduled
    BY <1>6, <2>2, HoldFacts, ReturnHandsOver, HoldAfter DEF Finish, callbackVars
  <2> QED BY <1>6, <2>1, <2>2 DEF Finish
<1>7. CASE AbortOrYield
  BY <1>1, <1>7, HoldFacts, AbortHandsOver, YieldHandsOver, HoldAfter DEF AbortOrYield
<1>8. ASSUME NEW f \in Fibers, NEW isError \in BOOLEAN, Complete(f, isError)
      PROVE  HoldInv'
  BY <1>8, CompleteKeepsHold
<1>9. CASE ScriptReturns \/ LoopEnds \/ FreeVM \/ CallbackReturns \/ Ended \/ UNCHANGED allVars
  BY <1>2, <1>9, HoldAfter DEF ScriptReturns, LoopEnds, FreeVM, CallbackReturns, Ended,
     allVars, schedulerVars, callbackVars
<1>10. CASE EnsureResumeSlots
  BY <1>2, <1>10, HoldFacts, HostHandsOver, HoldAfter DEF EnsureResumeSlots
<1>11. CASE CallResume
  BY <1>11, HoldFacts, HostHandsOver, HoldAfter DEF CallResume
<1>12. CASE ResumeTarget
  BY <1>12, ResumeTargetKeepsHold
<1>13. CASE Collect
  BY <1>13, CollectKeepsHold
<1> QED BY <1>3, <1>4, <1>5, <1>6, <1>7, <1>8, <1>9, <1>10, <1>11, <1>12, <1>13
        DEF SchedulerNext, Program, Loop

THEOREM HoldInvariant ==
  ASSUME ~BusyCalls
  PROVE  SchedulerSpec => [](SchedulerInv /\ HoldInv)
<1>1. SchedulerInit => HoldInv
  <2> SUFFICES ASSUME SchedulerInit PROVE HoldInv
    OBVIOUS
  <2>1. PICK main \in Fibers :
          /\ fiber = main
          /\ numFrames = [f \in Fibers |-> IF f = main THEN 1 ELSE 0]
    BY DEF SchedulerInit
  <2>2. /\ apiStack = NoFiber /\ status = "running" /\ scheduled = <<>>
        /\ caller = [f \in Fibers |-> NoFiber] /\ hasError = [f \in Fibers |-> FALSE]
        /\ requests = [f \in Fibers |-> 0] /\ target = NoFiber
    BY DEF SchedulerInit
  <2>3. Held = {}
    <3>1. ToSet(<<>>) = {}
      BY DEF ToSet
    <3>2. \A f \in Fibers : requests[f] = 0 /\ f # target
      BY <2>2, FibersAssumption
    <3> QED BY <2>2, <3>1, <3>2 DEF Held, Parked
  <2>4. Chains({fiber}, Fibers, numFrames, caller, hasError, state)
    BY <2>1, <2>2 DEF Chains, Alive, Busy
  <2> QED BY <2>1, <2>2, <2>3, <2>4 DEF HoldInv, ControlNow, Control
<1>2. SchedulerInv /\ HoldInv /\ [SchedulerNext]_allVars => HoldInv'
  BY HoldNext
<1> QED BY <1>1, <1>2, SchedulerInvariant, PTL DEF SchedulerSpec

(* A fiber that waits for an operation does not run before the completion  *)
(* of the operation resumes it, and is still alive then (schedulerResume), *)
(* in a program that calls no fiber that runs or waits.                    *)
THEOREM ParkedWaitsAlways ==
  ASSUME ~BusyCalls
  PROVE  SchedulerSpec => []ParkedWaitsForItsRequest
<1>1. SchedulerInv /\ HoldInv => ParkedWaitsForItsRequest
  <2> SUFFICES ASSUME SchedulerInv, HoldInv PROVE ParkedWaitsForItsRequest
    OBVIOUS
  <2>0. requests \in [Fibers -> Nat]
    BY SchedulerFacts
  <2>1. status = "running" => requests[fiber] = 0
    BY <2>0, HoldFacts DEF Held, Parked
  <2>2. ASSUME NEW f \in Fibers, requests[f] > 0 \/ f = target
        PROVE  f \in known /\ Live(f)
    BY <2>2, HoldFacts DEF Held, Parked, Alive, Live
  <2> QED BY <2>1, <2>2 DEF ParkedWaitsForItsRequest
<1> QED BY <1>1, HoldInvariant, PTL

(* Programs that transfer only through the scheduler, and call no fiber    *)
(* that runs or waits, keep the chains of callers sound (transferError and *)
(* transfer in scheduler.wren).                                            *)
THEOREM ScheduledWaitersAlways ==
  ASSUME ~BusyCalls
  PROVE  SchedulerSpec => []ScheduledWaitersAreLive
<1>1. SchedulerInv /\ HoldInv => ScheduledWaitersAreLive
  BY HoldFacts, ControlImplies DEF ScheduledWaitersAreLive
<1> QED BY <1>1, HoldInvariant, PTL

(* They never read a call frame that does not exist, and run no aborted    *)
(* fiber, whatever else the fibers do and whenever the collector runs.     *)
THEOREM ScheduledNeverUndefinedAlways ==
  ASSUME ~BusyCalls
  PROVE  SchedulerSpec => []ScheduledNeverUndefined
<1>1. SchedulerInv /\ HoldInv => ScheduledNeverUndefined
  BY HoldFacts, ControlImplies DEF ScheduledNeverUndefined
<1> QED BY <1>1, HoldInvariant, PTL

=============================================================================
