--------------------------- MODULE WrenScheduler ---------------------------
(***************************************************************************)
(* The command line host on top of the fibers of WrenFibers: the Scheduler *)
(* class (scheduler.wren, scheduler.c), operations that park a fiber until *)
(* the event loop completes them (Timer.sleep in timer.wren and timer.c;   *)
(* the File, Directory and Stat operations of io.c have the same form),    *)
(* and the life of the process (runFile and freeVM in cli/vm.c).           *)
(*                                                                         *)
(* The fiber operations are the actions of WrenFibers, so the links        *)
(* between fibers, the error path and the API slots behave as they do      *)
(* there.  Every transfer is one of scheduler.wren: what transfers of the  *)
(* program's own do is the subject of WrenFibers.  The program does call   *)
(* and try every fiber it has a reference to, and Fiber.current gives it   *)
(* one to each fiber that has run, those of Scheduler.add included.        *)
(* The loop of libuv is external: it completes the outstanding requests    *)
(* one at a time, in any order, and runs until there are none or until it  *)
(* is stopped.                                                             *)
(*                                                                         *)
(* Fiber objects are finite in number here and the collector reuses them,  *)
(* so that a program may park forever often; it runs when an allocation    *)
(* finds no room.                                                          *)
(***************************************************************************)
EXTENDS WrenFibers, SequencesExt

CONSTANTS
  BusyCalls,   (* Whether the program calls or tries a fiber that is busy. *)
  MaxRequests, (* Bound on the requests of one fiber that are out at once. *)
  Watched      (* The fibers that ParkedIsResumed follows: the model treats*)
               (* all alike, so that one stands for the others.            *)

ASSUME CallsAssumption == BusyCalls \in BOOLEAN
ASSUME RequestsAssumption == MaxRequests \in Nat \ {0}
ASSUME WatchedAssumption == Watched \subseteq Fibers

VARIABLES
  phase,       (* "script": wrenInterpret has not returned; "loop": uv_run;*)
               (* "exit": freeVM; "freed".                                 *)
  scheduled,   (* Scheduler.__scheduled                                    *)
  added,       (* Fibers made by Scheduler.add: their code ends with a     *)
               (* call to runNextScheduled_ ...                            *)
  ended,       (* ... and these have made that call.                       *)
  requests,    (* Outstanding libuv requests that hold the fiber's handle. *)
  handles,     (* WrenHandles to the fiber.                                *)
  callback,    (* How far the running completion callback is.              *)
  target,      (* The fiber that the callback resumes.                     *)
  fails,       (* Whether the operation failed: the callback resumes the   *)
               (* fiber with transferError.                                *)
  stopping,    (* uv_stop was called.                                      *)
  exitCode     (* What the process returns.                                *)

callbackVars == <<callback, target, fails>>
hostVars == <<phase, stopping, exitCode>>
schedulerVars ==
  <<hostVars, scheduled, added, ended, requests, handles, callbackVars>>
allVars == <<vars, schedulerVars>>

SchedulerTypeOK ==
  /\ phase \in {"script", "loop", "exit", "freed"}
  /\ scheduled \in Seq(Fibers)
  /\ added \in SUBSET Fibers /\ ended \in SUBSET Fibers
  /\ requests \in [Fibers -> Nat]
  /\ handles \in [Fibers -> Nat]
  /\ callback \in {"none", "fired", "ready", "called", "resumed"}
  /\ target \in Fibers \cup {NoFiber}
  /\ fails \in BOOLEAN
  /\ stopping \in BOOLEAN
  /\ exitCode \in {0, 70}

(* runFile: the script's main fiber runs. *)
SchedulerInit ==
  /\ \E main \in Fibers :
       /\ fiber = main /\ known = {main}
       /\ numFrames = [f \in Fibers |-> IF f = main THEN 1 ELSE 0]
       /\ state = [f \in Fibers |-> IF f = main THEN "root" ELSE "other"]
  /\ apiStack = NoFiber
  /\ status = "running" /\ entry = "interpret" /\ result = "none"
  /\ caller = [f \in Fibers |-> NoFiber]
  /\ hasError = [f \in Fibers |-> FALSE]
  /\ shifted = [f \in Fibers |-> {}]
  /\ phase = "script"
  /\ scheduled = <<>> /\ added = {} /\ ended = {}
  /\ requests = [f \in Fibers |-> 0] /\ handles = [f \in Fibers |-> 0]
  /\ callback = "none" /\ target = NoFiber /\ fails = FALSE
  /\ stopping = FALSE /\ exitCode = 0

-----------------------------------------------------------------------------
(***************************************************************************)
(* Wren programs.                                                          *)
(***************************************************************************)

(* Wren code runs that is not a resume_ method of Scheduler ...             *)
CodeRuns == status = "running" /\ callback \in {"none", "resumed"}

(* ... and it is not the end of the fiber's last runNextScheduled_.        *)
ProgramRuns == CodeRuns /\ fiber \notin ended

(* Bound: the program leaves one fiber object to the host. *)
NoRoom == Cardinality(Fresh) <= 1

(* A fiber made by the program itself, to be called or tried. *)
NewFiber(f) == ProgramRuns /\ ~NoRoom /\ FiberNew(f) /\ UNCHANGED schedulerVars

(* Scheduler.add(callable) *)
Add(f) ==
  /\ ProgramRuns /\ ~NoRoom
  /\ FiberNew(f)
  /\ scheduled' = Append(scheduled, f)
  /\ added' = added \cup {f}
  /\ UNCHANGED <<hostVars, ended, requests, handles, callbackVars>>

(* A fiber that runs, waits for a request, or waits for a fiber it called. *)
Engaged(f) ==
  f = fiber \/ requests[f] > 0 \/ \E g \in Fibers : Live(g) /\ caller[g] = f

(* fiber.call() and fiber.try().  The program has references to the fibers *)
(* it made and, by Fiber.current, to every fiber that has run: to all but  *)
(* the ones in Scheduler's own list.  runFiber refuses a fiber that was    *)
(* called, the root, and one that is finished or aborted.  It lets a fiber *)
(* of Scheduler.add, which was transferred to and has no caller, be called *)
(* while it runs, while it is parked and while it waits for a callee: the  *)
(* program does so only if BusyCalls.                                      *)
CallOrTry(f) ==
  /\ ProgramRuns /\ f \notin ToSet(scheduled)
  /\ BusyCalls \/ ~(CanRun(f, TRUE) /\ Engaged(f))
  /\ FiberCall(f) \/ FiberTry(f)
  /\ UNCHANGED schedulerVars

(* Mutation: the next fiber stays in the list.                             *)
RunNextScheduledKept ==
  IF scheduled = <<>>
  THEN FiberSuspend /\ UNCHANGED scheduled
  ELSE FiberTransfer(Head(scheduled)) /\ UNCHANGED scheduled

(* Scheduler.runNextScheduled_() *)
RunNextScheduled ==
  IF scheduled = <<>>
  THEN FiberSuspend /\ UNCHANGED scheduled
  ELSE FiberTransfer(Head(scheduled)) /\ scheduled' = Tail(scheduled)

(* Mutation: the request keeps a bare reference to the fiber.              *)
StartRequestUnrooted(f) ==
  /\ requests' = [requests EXCEPT ![f] = @ + 1]
  /\ UNCHANGED handles

(* timerStartTimer: a libuv request that owns a handle to the fiber.       *)
StartRequest(f) ==
  /\ requests' = [requests EXCEPT ![f] = @ + 1]
  /\ handles' = [handles EXCEPT ![f] = @ + 1]

(* Timer.sleep: start the timer, give control away. *)
Sleep ==
  /\ ProgramRuns /\ requests[fiber] < MaxRequests
  /\ StartRequest(fiber)
  /\ RunNextScheduled
  /\ UNCHANGED <<hostVars, added, ended, callbackVars>>

(* The end of a fiber.  One that Scheduler.add made runs the next one and  *)
(* stays suspended in that call; it returns if it ever gets control again. *)
Finish ==
  /\ CodeRuns
  /\ IF fiber \in added \ ended
     THEN RunNextScheduled /\ ended' = ended \cup {fiber}
     ELSE Return /\ UNCHANGED <<scheduled, ended>>
  /\ UNCHANGED <<hostVars, added, requests, handles, callbackVars>>

(* A runtime error, or a yield, of the running fiber. *)
AbortOrYield ==
  /\ ProgramRuns
  /\ FiberAbort \/ FiberYield(FALSE)
  /\ UNCHANGED schedulerVars

-----------------------------------------------------------------------------
(***************************************************************************)
(* The event loop.                                                         *)
(***************************************************************************)

(* wrenInterpret returned to runFile. *)
ScriptReturns ==
  /\ phase = "script" /\ status = "host"
  /\ phase' = IF result = "success" THEN "loop" ELSE "exit"
  /\ exitCode' = IF result = "success" THEN exitCode ELSE 70
  /\ UNCHANGED <<vars, stopping, scheduled, added, ended, requests, handles,
                 callbackVars>>

(* libuv completes a request and calls its callback.  A stopped loop still *)
(* makes the callbacks of the iteration it is in.                          *)
Complete(f, isError) ==
  /\ phase = "loop" /\ callback = "none"
  /\ requests[f] > 0
  /\ requests' = [requests EXCEPT ![f] = @ - 1]
  /\ callback' = "fired" /\ target' = f /\ fails' = isError
  /\ UNCHANGED <<vars, hostVars, scheduled, added, ended, handles>>

(* schedulerResume, wrenEnsureSlots: the API slots, on a new fiber if there*)
(* are none, which may run the collector.                                  *)
EnsureResumeSlots ==
  /\ callback = "fired"
  /\ \/ apiStack = fiber /\ fiber # NoFiber /\ UNCHANGED vars
     \/ \E f \in Fibers : EnsureSlots(f)
  /\ callback' = "ready"
  /\ UNCHANGED <<hostVars, scheduled, added, ended, requests, handles, target, fails>>

(* Mutation: the handle is not released.                                   *)
StoreTargetKept == UNCHANGED handles

(* Mutation: the handle is released twice.                                 *)
StoreTargetTwice == handles' = [handles EXCEPT ![target] = @ - 2]

(* schedulerResume: the fiber is in a slot now, the handle is released.    *)
StoreTarget == handles' = [handles EXCEPT ![target] = @ - 1]

(* Mutation: the callback does not call schedulerFinishResume.             *)
CallResumeForgotten ==
  /\ callback = "ready"
  /\ StoreTarget
  /\ callback' = "none" /\ target' = NoFiber /\ fails' = FALSE
  /\ UNCHANGED <<vars, hostVars, scheduled, added, ended, requests>>

(* resume(): wrenCall of a resume_ method of Scheduler. *)
CallResume ==
  /\ callback = "ready"
  /\ StoreTarget
  /\ Call
  /\ callback' = "called"
  /\ UNCHANGED <<hostVars, scheduled, added, ended, requests, target, fails>>

(* resume_(fiber) and resumeError_(fiber, error) of scheduler.wren. *)
ResumeTarget ==
  /\ callback = "called" /\ status = "running"
  /\ IF fails THEN FiberTransferError(target, FALSE) ELSE FiberTransfer(target)
  /\ callback' = "resumed" /\ target' = NoFiber /\ fails' = FALSE
  /\ UNCHANGED <<hostVars, scheduled, added, ended, requests, handles>>

(* Mutation: the result of wrenCall is not looked at.                      *)
StopOnErrorNever == UNCHANGED <<stopping, exitCode>>

(* resume(): a runtime error that nobody caught stops the loop.            *)
StopOnError ==
  IF result = "runtimeError"
  THEN stopping' = TRUE /\ exitCode' = 70
  ELSE UNCHANGED <<stopping, exitCode>>

(* wrenCall returned to resume(), and the callback to the loop. *)
CallbackReturns ==
  /\ callback = "resumed" /\ status = "host"
  /\ StopOnError
  /\ callback' = "none"
  /\ UNCHANGED <<vars, phase, scheduled, added, ended, requests, handles, target, fails>>

(* uv_run returns. *)
LoopEnds ==
  /\ phase = "loop" /\ callback = "none"
  /\ stopping \/ \A f \in Fibers : requests[f] = 0
  /\ phase' = "exit"
  /\ UNCHANGED <<vars, stopping, exitCode, scheduled, added, ended, requests, handles,
                 callbackVars>>

(* freeVM: the loop is closed, and the requests in it are never completed. *)
FreeVM ==
  /\ phase = "exit"
  /\ phase' = "freed"
  /\ UNCHANGED <<vars, stopping, exitCode, scheduled, added, ended, requests, handles,
                 callbackVars>>

-----------------------------------------------------------------------------
(***************************************************************************)
(* The collector.                                                          *)
(***************************************************************************)

(* What wrenCollectGarbage marks fibers from: vm->fiber, the list of       *)
(* scheduled fibers, the handles, and the arguments of a resume_ call.     *)
Roots ==
  ({fiber, IF callback \in {"ready", "called"} THEN target ELSE NoFiber} \ {NoFiber})
  \cup ToSet(scheduled) \cup {f \in Fibers : handles[f] > 0}

(* Mutation: blackenFiber does not mark the caller.                        *)
RootedAlone == Roots

(* The marked fibers: a fiber keeps its caller. *)
Rooted ==
  LET Closed(S) == \A f \in S : caller[f] # NoFiber => caller[f] \in S
  IN {f \in Fibers : \A S \in SUBSET Fibers : Roots \subseteq S /\ Closed(S) => f \in S}

(* The unmarked fibers that the program has no reference to are freed.     *)
Free(S) ==
  /\ known' = known \ S /\ added' = added \ S /\ ended' = ended \ S
  /\ numFrames' = [f \in Fibers |-> IF f \in S THEN 0 ELSE numFrames[f]]
  /\ caller' = [f \in Fibers |-> IF f \in S THEN NoFiber ELSE caller[f]]
  /\ hasError' = [f \in Fibers |-> f \notin S /\ hasError[f]]
  /\ state' = [f \in Fibers |-> IF f \in S THEN "other" ELSE state[f]]
  /\ shifted' = [f \in Fibers |-> IF f \in S THEN {} ELSE shifted[f]]

(* A fiber that the program kept keeps its caller. *)
Collect ==
  /\ NoRoom /\ phase \in {"script", "loop"}
  /\ ProgramRuns \/ callback = "fired"
  /\ \E S \in SUBSET (known \ Rooted) :
       /\ S # {} /\ \A f \in known \ (Rooted \cup S) : caller[f] \notin S
       /\ Free(S)
  /\ UNCHANGED <<fiber, apiStack, status, entry, result, hostVars, scheduled,
                 requests, handles, callbackVars>>

Program ==
  \/ \E f \in Fibers : NewFiber(f) \/ Add(f) \/ CallOrTry(f)
  \/ Sleep \/ Finish \/ AbortOrYield

Loop ==
  \/ \E f \in Fibers, isError \in BOOLEAN : Complete(f, isError)
  \/ ScriptReturns \/ EnsureResumeSlots \/ CallResume \/ ResumeTarget
  \/ CallbackReturns \/ LoopEnds

(* The process has ended, or nothing is known of it any more. *)
Ended == (phase = "freed" \/ status = "undefined") /\ UNCHANGED allVars

SchedulerNext == Program \/ Loop \/ FreeVM \/ Collect \/ Ended

SchedulerSpec == SchedulerInit /\ [][SchedulerNext]_allVars

(* The C code between two callbacks does not stop, and libuv completes     *)
(* every request if the loop keeps running.  Nothing is assumed of the     *)
(* program.                                                                *)
Fairness ==
  /\ WF_allVars(ScriptReturns \/ (callback = "fired" /\ Collect) \/ EnsureResumeSlots
                \/ CallResume \/ ResumeTarget \/ CallbackReturns \/ FreeVM)
  /\ SF_allVars(LoopEnds)
  /\ \A f \in Fibers : SF_allVars(\E isError \in BOOLEAN : Complete(f, isError))

FairSchedulerSpec == SchedulerSpec /\ Fairness

-----------------------------------------------------------------------------
(***************************************************************************)
(* Properties of every program.                                            *)
(***************************************************************************)

(* Every handle belongs to a request or to the callback that has not yet   *)
(* given it back; no handle is lost and none is released twice.            *)
HandlesAccounted ==
  \A f \in Fibers : handles[f] = requests[f] + (IF callback \in {"fired", "ready"}
                                                   /\ target = f THEN 1 ELSE 0)

(* A scheduled fiber runs for the first time when it leaves the list, once.*)
QueuedHasNotStarted ==
  /\ \A i, j \in DOMAIN scheduled : scheduled[i] = scheduled[j] => i = j
  /\ \A f \in ToSet(scheduled) :
       Live(f) /\ caller[f] = NoFiber /\ f # fiber /\ requests[f] = 0

(* The program gives control back again and again.                         *)
LoopGetsControl == []<>(status = "host")

(* Every operation that a fiber waits for hands its outcome to the fiber:  *)
(* it runs again, or gets the error, unless the process fails first.       *)
ParkedIsResumed ==
  LoopGetsControl =>
    \A f \in Watched :
      requests[f] > 0 ~> \/ status = "running" /\ fiber = f
                         \/ hasError[f] \/ exitCode = 70

(* "If a runtime error occurs in response to an async operation and nothing*)
(* catches the error in the fiber, then exit the CLI." (scheduler.c), with *)
(* the exit status of main.c.                                              *)
UncaughtErrorExits ==
  LoopGetsControl =>
    (status = "host" /\ result = "runtimeError" ~> phase = "freed" /\ exitCode = 70)

(***************************************************************************)
(* Properties of programs that call no busy fiber.                         *)
(***************************************************************************)

(* A fiber that waits for an operation gets control from the completion of *)
(* that operation and from nothing else: neither a callee that comes back, *)
(* nor an error, nor the scheduler runs it while the request is out; and   *)
(* it is still there and able to run when the request completes.           *)
ParkedWaitsForItsRequest ==
  /\ status = "running" => requests[fiber] = 0
  /\ \A f \in Fibers : requests[f] > 0 \/ f = target => f \in known /\ Live(f)

(* Programs that only transfer through the scheduler keep the chains of    *)
(* callers sound, although WrenFibers shows that transfers in general do   *)
(* not: whoever is awaited hands control to a live fiber that waits for it.*)
ScheduledWaitersAreLive == WaitersAreLive /\ OneCalleeEach

(* And nothing undefined happens, and no aborted fiber runs again.         *)
ScheduledNeverUndefined == NeverUndefined /\ AbortedNeverRuns

=============================================================================
