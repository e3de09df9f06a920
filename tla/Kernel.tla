------------------------------- MODULE Kernel -------------------------------
(***************************************************************************)
(* The warps of Core/System/Kernel.cpp: serial task queues that the worker *)
(* threads of a pool drain in parallel, at most maxParallelCount of them   *)
(* at a time.                                                              *)
(*                                                                         *)
(* The pool appears here only by what ThreadPool promises: a task that is  *)
(* dispatched while it is queued is refused, and a dispatched task is      *)
(* taken by one worker (the module ThreadPool has the details).            *)
(*                                                                         *)
(* A step is one atomic operation of the code.  Flush, ReleaseFlush and    *)
(* YieldExecution are called from several places: args holds what they are *)
(* called with and the label they return to.  A thread that waits polls    *)
(* the pool, and a routine may run another one at once, so the activations *)
(* of a thread form a stack.                                               *)
(***************************************************************************)
EXTENDS Integers, Sequences, SequencesExt, FiniteSetsExt

CONSTANTS
    Threads,        \* the workers of the pool
    Warps,          \* the indices of taskQueueGrid
    Tasks,          \* the routines queued
    None,           \* no thread, no warp, no task
    Homes,          \* the warps each task may belong to: a set of functions
    WaitsFor,       \* what each routine may wait for: sets of tasks
    MaxParallel,    \* maxParallelCount
    Rings,          \* the order of the ring buffers: a sequence of Threads
    CounterSize,    \* currentParallelCount wraps at this value
    Directs,        \* whether QueueRoutine is called: if not, QueueRoutinePost
    MaxSuspends,    \* bound: calls of SuspendWarp
    MaxTurns        \* bound: calls of Wait that do wait, WarpYieldGuards
                    \* and calls of SetWarpIndex

ASSUME KernelAssumption ==
    /\ IsFiniteSet(Threads) /\ IsFiniteSet(Warps) /\ IsFiniteSet(Tasks)
    /\ None \notin Threads \cup Warps \cup Tasks
    /\ Homes \subseteq [Tasks -> Warps]
    /\ WaitsFor \in [Tasks -> SUBSET Tasks]
    /\ MaxParallel \in Nat \ {0}
    /\ Rings \in Seq(Threads)
    /\ \A t \in Threads : \E i \in DOMAIN Rings : Rings[i] = t
    /\ CounterSize \in Nat /\ CounterSize > MaxParallel
    /\ Directs \in BOOLEAN
    /\ MaxSuspends \in Nat /\ MaxTurns \in Nat

VARIABLES
    \* of each warp (SubTaskQueue)
    ring,           \* ringBuffers: for each thread, what it has pushed
    queueing,       \* "idle", "queueing" or "flushing"
    suspendCount,
    threadWarp,     \* the thread that has preempted the warp
    stackQueue,     \* the warp that thread was in before
    \* of the kernel
    parallel,       \* currentParallelCount
    anyFlush,
    fullFlush,      \* the warps whose bit is set in fullFlushMask
    pooled,         \* the warps that are queued in the thread pool
    home,           \* the warp index of the object each task belongs to
    \* of each thread
    pc,
    warpIndex,      \* WarpIndex
    inRoutine,      \* InWarpRoutine
    frame,          \* the activation of Execute or QueueRoutine it is in
    stack,          \* the activations that one interrupts
    args,           \* of the calls of Flush, YieldExecution and ReleaseFlush
    \* history and bounds
    fresh,          \* tasks not queued yet
    done,           \* tasks that have run
    inside,         \* warps that a routine of their own has suspended
    suspends, waits, moves

warpState == <<ring, queueing, suspendCount, threadWarp, stackQueue>>
kernelState == <<parallel, anyFlush, fullFlush, pooled, home>>
activation == <<frame, stack, inRoutine>>
history == <<fresh, done, inside, suspends, waits, moves>>
vars == <<warpState, kernelState, pc, warpIndex, activation, args, history>>

(* queue: the warp whose Execute this is, None in a QueueRoutine; scan,      *)
(* executed: i and executeCounter # 0 of OnOperation; guard: the warp that   *)
(* its PreemptGuard has preempted; task: the routine it runs; until, left:   *)
(* what that routine waits for, and the warp it has left meanwhile.          *)
Idle == [queue |-> None, scan |-> 1, executed |-> FALSE, guard |-> None, task |-> None,
         until |-> None, left |-> None]

NoArgs == [flush |-> None, flushRet |-> "poll", yield |-> None, yieldRet |-> "poll",
           releaseRet |-> "poll"]

Goto(t, label) == pc' = [pc EXCEPT ![t] = label]

(* A thread polls at the top, and while it waits: then it looks again at     *)
(* what it waits for after each poll.                                        *)
Polling(t) == pc[t] \in {"poll", "waiting", "rewaiting"}

AfterPoll(t) ==
    CASE pc[t] = "waiting" -> "wait" [] pc[t] = "rewaiting" -> "rewarp" [] OTHER -> pc[t]

(* A call of Execute or QueueRoutine from where the thread is, to come back  *)
(* at the label back.                                                        *)
Activate(t, f, back) ==
    /\ stack' = [stack EXCEPT ![t] = <<[frame |-> frame[t], pc |-> back,
                                        warp |-> warpIndex[t]]>> \o @]
    /\ frame' = [frame EXCEPT ![t] = f]

Init ==
    /\ ring = [w \in Warps |-> [t \in Threads |-> <<>>]]
    /\ queueing = [w \in Warps |-> "idle"]
    /\ suspendCount = [w \in Warps |-> 0]
    /\ threadWarp = [w \in Warps |-> None]
    /\ stackQueue = [w \in Warps |-> None]
    /\ parallel = 0 /\ anyFlush = "idle" /\ fullFlush = {} /\ pooled = {}
    /\ home \in Homes
    /\ pc = [t \in Threads |-> "poll"]
    /\ warpIndex = [t \in Threads |-> None]
    /\ inRoutine = [t \in Threads |-> FALSE]
    /\ frame = [t \in Threads |-> Idle]
    /\ stack = [t \in Threads |-> <<>>]
    /\ args = [t \in Threads |-> NoArgs]
    /\ fresh = Tasks /\ done = {}
    /\ inside = {} /\ suspends = 0 /\ waits = 0 /\ moves = 0

-----------------------------------------------------------------------------
(* SubTaskQueue::Flush: have the warp executed by the pool, unless that is   *)
(* arranged already.                                                         *)

FlushArgs(t, w, back) == [args[t] EXCEPT !.flush = w, !.flushRet = back]

CallFlush(t, w, back) ==
    /\ args' = [args EXCEPT ![t] = FlushArgs(t, w, back)]
    /\ Goto(t, "flush")

(* Only ReleaseFlush looks at the result: it is done at the first TRUE.      *)
FlushReturns(t, result) ==
    /\ Goto(t, IF result /\ args[t].flushRet = "unmask" THEN args[t].releaseRet
                                                        ELSE args[t].flushRet)
    /\ args' = [args EXCEPT ![t] = FlushArgs(t, None, "poll")]

FlushMark(t) ==
    /\ pc[t] = "flush"
    /\ queueing' = [queueing EXCEPT ![args[t].flush] = "queueing"]
    /\ IF queueing[args[t].flush] = "idle"
       THEN Goto(t, "acquire") /\ UNCHANGED args
       ELSE FlushReturns(t, FALSE)
    /\ UNCHANGED <<ring, suspendCount, threadWarp, stackQueue, kernelState, warpIndex,
                   activation, history>>

(* Mutant: an off-by-one in the limit. *)
FlushAcquireOneMore(t) ==
    /\ pc[t] = "acquire"
    /\ IF parallel <= MaxParallel
       THEN parallel' = parallel + 1 /\ Goto(t, "dispatch")
       ELSE parallel' = parallel /\ Goto(t, "setmask")
    /\ UNCHANGED <<warpState, anyFlush, fullFlush, pooled, home, warpIndex, activation, args,
                   history>>

(* AcquireFlush *)
FlushAcquire(t) ==
    /\ pc[t] = "acquire"
    /\ IF parallel < MaxParallel
       THEN parallel' = parallel + 1 /\ Goto(t, "dispatch")
       ELSE parallel' = parallel /\ Goto(t, "setmask")
    /\ UNCHANGED <<warpState, anyFlush, fullFlush, pooled, home, warpIndex, activation, args,
                   history>>

(* ThreadPool::Dispatch refuses a task that is queued. *)
FlushDispatch(t) ==
    /\ pc[t] = "dispatch"
    /\ pooled' = pooled \cup {args[t].flush}
    /\ IF args[t].flush \in pooled
       THEN Goto(t, "undo") /\ UNCHANGED args
       ELSE FlushReturns(t, TRUE)
    /\ UNCHANGED <<warpState, parallel, anyFlush, fullFlush, home, warpIndex, activation,
                   history>>

FlushUndo(t) ==
    /\ pc[t] = "undo"
    /\ parallel' = (parallel - 1) % CounterSize
    /\ FlushReturns(t, FALSE)
    /\ UNCHANGED <<warpState, anyFlush, fullFlush, pooled, home, warpIndex, activation, history>>

FlushSetMask(t) ==
    /\ pc[t] = "setmask"
    /\ fullFlush' = fullFlush \cup {args[t].flush}
    /\ Goto(t, "announce")
    /\ UNCHANGED <<warpState, parallel, anyFlush, pooled, home, warpIndex, activation, args,
                   history>>

FlushAnnounce(t) ==
    /\ pc[t] = "announce"
    /\ anyFlush' = "queueing"
    /\ IF anyFlush # "queueing"
       THEN Goto(t, "acquire") /\ UNCHANGED args
       ELSE FlushReturns(t, FALSE)
    /\ UNCHANGED <<warpState, parallel, fullFlush, pooled, home, warpIndex, activation, history>>

FlushStep(t) ==
    \/ FlushMark(t) \/ FlushAcquire(t) \/ FlushDispatch(t) \/ FlushUndo(t)
    \/ FlushSetMask(t) \/ FlushAnnounce(t)

-----------------------------------------------------------------------------
(* ReleaseFlush: give the place back, and let a warp have it that found them *)
(* all taken.                                                                *)

Release(t) ==
    /\ pc[t] = "release"
    /\ parallel' = (parallel - 1) % CounterSize
    /\ Goto(t, "announced")
    /\ UNCHANGED <<warpState, anyFlush, fullFlush, pooled, home, warpIndex, activation, args,
                   history>>

ReleaseAnnounced(t) ==
    /\ pc[t] = "announced"
    /\ anyFlush' = "flushing"
    /\ Goto(t, IF anyFlush # "idle" THEN "unmask" ELSE "unannounce")
    /\ UNCHANGED <<warpState, parallel, fullFlush, pooled, home, warpIndex, activation, args,
                   history>>

(* s.fetch_and(~bit): the lowest bit first, which the model leaves open. *)
ReleaseUnmask(t) ==
    /\ pc[t] = "unmask"
    /\ \/ /\ fullFlush = {}
          /\ Goto(t, "unannounce")
          /\ UNCHANGED <<fullFlush, args>>
       \/ \E w \in fullFlush :
          /\ fullFlush' = fullFlush \ {w}
          /\ args' = [args EXCEPT ![t] = FlushArgs(t, w, "unmask")]
          /\ Goto(t, "reflush")
    /\ UNCHANGED <<warpState, parallel, anyFlush, pooled, home, warpIndex, activation, history>>

ReleaseFlushWarp(t) ==
    /\ pc[t] = "reflush"
    /\ queueing' = [queueing EXCEPT ![args[t].flush] = "idle"]
    /\ IF queueing[args[t].flush] = "queueing"
       THEN Goto(t, "flush") /\ UNCHANGED args
       ELSE FlushReturns(t, FALSE)
    /\ UNCHANGED <<ring, suspendCount, threadWarp, stackQueue, kernelState, warpIndex,
                   activation, history>>

ReleaseUnannounce(t) ==
    /\ pc[t] = "unannounce"
    /\ IF anyFlush = "flushing"
       THEN anyFlush' = "idle" /\ Goto(t, args[t].releaseRet)
       ELSE UNCHANGED anyFlush /\ Goto(t, "announced")
    /\ UNCHANGED <<warpState, parallel, fullFlush, pooled, home, warpIndex, activation, args,
                   history>>

ReleaseStep(t) ==
    \/ Release(t) \/ ReleaseAnnounced(t) \/ ReleaseUnmask(t) \/ ReleaseFlushWarp(t)
    \/ ReleaseUnannounce(t)

-----------------------------------------------------------------------------
(* YieldExecution: leave the warp, and flush it again if something came in.  *)

CallYield(t, w, back) ==
    /\ args' = [args EXCEPT ![t].yield = w, ![t].yieldRet = back]
    /\ Goto(t, "yield")

YieldReturns(t) ==
    /\ Goto(t, args[t].yieldRet)
    /\ args' = [args EXCEPT ![t].yield = None, ![t].yieldRet = "poll"]

(* It returns FALSE at once if the thread does not hold the warp. *)
YieldLeave(t) ==
    /\ pc[t] = "yield"
    /\ LET w == args[t].yield IN
       IF threadWarp[w] = t
       THEN /\ threadWarp' = [threadWarp EXCEPT ![w] = None]
            /\ warpIndex' = [warpIndex EXCEPT ![t] = stackQueue[w]]
            /\ stackQueue' = [stackQueue EXCEPT ![w] = None]
            /\ Goto(t, "yielded")
            /\ UNCHANGED args
       ELSE YieldReturns(t) /\ UNCHANGED <<threadWarp, warpIndex, stackQueue>>
    /\ UNCHANGED <<ring, queueing, suspendCount, kernelState, activation, history>>

(* Mutant: what came in meanwhile is not flushed. *)
YieldReflushNot(t) ==
    /\ pc[t] = "yielded"
    /\ LET w == args[t].yield IN
       /\ queueing' = [queueing EXCEPT ![w] = "idle"]
       /\ IF FALSE
          THEN /\ Goto(t, "flush")
               /\ args' = [args EXCEPT ![t].yield = None, ![t].yieldRet = "poll",
                                       ![t].flush = w, ![t].flushRet = args[t].yieldRet]
          ELSE YieldReturns(t)
    /\ UNCHANGED <<ring, suspendCount, threadWarp, stackQueue, kernelState, warpIndex,
                   activation, history>>

YieldReflush(t) ==
    /\ pc[t] = "yielded"
    /\ LET w == args[t].yield IN
       /\ queueing' = [queueing EXCEPT ![w] = "idle"]
       /\ IF queueing[w] = "queueing"
          THEN /\ Goto(t, "flush")
               /\ args' = [args EXCEPT ![t].yield = None, ![t].yieldRet = "poll",
                                       ![t].flush = w, ![t].flushRet = args[t].yieldRet]
          ELSE YieldReturns(t)
    /\ UNCHANGED <<ring, suspendCount, threadWarp, stackQueue, kernelState, warpIndex,
                   activation, history>>

YieldStep(t) == YieldLeave(t) \/ YieldReflush(t)

(* Mutant: the thread that is in the warp is overwritten. *)
PreemptUntested(t, w) ==
    /\ threadWarp' = [threadWarp EXCEPT ![w] = t]
    /\ stackQueue' = [stackQueue EXCEPT ![w] = warpIndex[t]]
    /\ warpIndex' = [warpIndex EXCEPT ![t] = w]

(* PreemptExecution, when it succeeds *)
Preempt(t, w) ==
    /\ threadWarp[w] = None
    /\ threadWarp' = [threadWarp EXCEPT ![w] = t]
    /\ stackQueue' = [stackQueue EXCEPT ![w] = warpIndex[t]]
    /\ warpIndex' = [warpIndex EXCEPT ![t] = w]

-----------------------------------------------------------------------------
(* Execute of a SubTaskQueue that a worker took from the pool.               *)

Take(t) ==
    /\ Polling(t)
    /\ \E w \in pooled :
       /\ pooled' = pooled \ {w}
       /\ Activate(t, [Idle EXCEPT !.queue = w], AfterPoll(t))
    /\ inRoutine' = [inRoutine EXCEPT ![t] = TRUE]
    /\ Goto(t, "enter")
    /\ UNCHANGED <<warpState, parallel, anyFlush, fullFlush, home, warpIndex, args, history>>

(* ReleaseFlush at the end of Execute *)
ExecuteReleases(t) ==
    /\ args' = [args EXCEPT ![t].releaseRet = "return"]
    /\ Goto(t, "release")

EnterSuspended(t) ==
    /\ pc[t] = "enter"
    /\ suspendCount[frame[t].queue] # 0
    /\ ExecuteReleases(t)
    /\ UNCHANGED <<warpState, kernelState, warpIndex, activation, history>>

Enter(t) ==
    /\ pc[t] = "enter"
    /\ suspendCount[frame[t].queue] = 0
    /\ Goto(t, "guard")
    /\ UNCHANGED <<warpState, kernelState, warpIndex, activation, args, history>>

(* PreemptGuard<false>, on a warp that the thread is not in *)
Guard(t) ==
    /\ pc[t] = "guard" /\ warpIndex[t] # frame[t].queue
    /\ \/ /\ Preempt(t, frame[t].queue)
          /\ frame' = [frame EXCEPT ![t].guard = frame[t].queue]
          /\ Goto(t, "guarded")
          /\ UNCHANGED args
       \/ /\ threadWarp[frame[t].queue] # None
          /\ ExecuteReleases(t)
          /\ UNCHANGED <<threadWarp, stackQueue, warpIndex, frame>>
    /\ UNCHANGED <<ring, queueing, suspendCount, kernelState, stack, inRoutine, history>>

GuardOwn(t) ==
    /\ pc[t] = "guard" /\ warpIndex[t] = frame[t].queue
    /\ Goto(t, "begin")
    /\ UNCHANGED <<warpState, kernelState, warpIndex, activation, args, history>>

(* The guard, when it goes out of scope, yields what it has preempted. *)
LeaveGuard(t) ==
    LET w == frame[t].guard IN
    IF w = None THEN ExecuteReleases(t)
    ELSE /\ Goto(t, "yield")
         /\ args' = [args EXCEPT ![t].yield = w, ![t].yieldRet = "release",
                                 ![t].releaseRet = "return"]

(* Mutant: the guard of a suspended warp yields and is taken as held. *)
GuardRecheckGoesOn(t) ==
    /\ pc[t] = "guarded"
    /\ IF suspendCount[frame[t].queue] = 0
       THEN Goto(t, "begin") /\ UNCHANGED args
       ELSE CallYield(t, frame[t].queue, "begin")
    /\ UNCHANGED <<warpState, kernelState, warpIndex, activation, history>>

GuardRecheck(t) ==
    /\ pc[t] = "guarded"
    /\ IF suspendCount[frame[t].queue] = 0
       THEN Goto(t, "begin") /\ UNCHANGED args
       ELSE LeaveGuard(t)
    /\ UNCHANGED <<warpState, kernelState, warpIndex, activation, history>>

ExecuteRecheck(t) ==
    /\ pc[t] = "begin"
    /\ Goto(t, IF suspendCount[frame[t].queue] = 0 THEN "flushing" ELSE "requeue")
    /\ UNCHANGED <<warpState, kernelState, warpIndex, activation, args, history>>

ExecuteRequeue(t) ==
    /\ pc[t] = "requeue"
    /\ queueing' = [queueing EXCEPT ![frame[t].queue] = "queueing"]
    /\ LeaveGuard(t)
    /\ UNCHANGED <<ring, suspendCount, threadWarp, stackQueue, kernelState, warpIndex,
                   activation, history>>

ExecuteBegin(t) ==
    /\ pc[t] = "flushing"
    /\ queueing' = [queueing EXCEPT ![frame[t].queue] = "flushing"]
    /\ Goto(t, "scan")
    /\ UNCHANGED <<ring, suspendCount, threadWarp, stackQueue, kernelState, warpIndex,
                   activation, args, history>>

(* OnOperation: the ring buffers in turn, until a pass finds nothing. *)
Pop(t) ==
    /\ pc[t] = "scan" /\ frame[t].scan <= Len(Rings)
    /\ LET w == frame[t].queue
           s == Rings[frame[t].scan]
       IN  /\ ring[w][s] # <<>>
           /\ frame' = [frame EXCEPT ![t].task = Head(ring[w][s]), ![t].executed = TRUE]
           /\ ring' = [ring EXCEPT ![w][s] = Tail(@)]
    /\ Goto(t, "invoke")
    /\ UNCHANGED <<queueing, suspendCount, threadWarp, stackQueue, kernelState, warpIndex,
                   stack, inRoutine, args, history>>

NextRing(t) ==
    /\ pc[t] = "scan" /\ frame[t].scan <= Len(Rings)
    /\ ring[frame[t].queue][Rings[frame[t].scan]] = <<>>
    /\ frame' = [frame EXCEPT ![t].scan = @ + 1]
    /\ UNCHANGED <<warpState, kernelState, pc, warpIndex, stack, inRoutine, args, history>>

NextPass(t) ==
    /\ pc[t] = "scan" /\ frame[t].scan > Len(Rings)
    /\ frame' = [frame EXCEPT ![t].scan = 1, ![t].executed = FALSE]
    /\ Goto(t, IF frame[t].executed THEN "scan" ELSE "end")
    /\ UNCHANGED <<warpState, kernelState, warpIndex, stack, inRoutine, args, history>>

(* InvokeOperation: a task whose object has moved to another warp follows it. *)
Invoke(t) ==
    /\ pc[t] = "invoke" /\ home[frame[t].task] = frame[t].queue
    /\ Goto(t, "body")
    /\ UNCHANGED <<warpState, kernelState, warpIndex, activation, args, history>>

(* Mutant: the other warp is not flushed. *)
ForwardUnflushed(t) ==
    /\ pc[t] = "invoke" /\ home[frame[t].task] # frame[t].queue
    /\ LET w == home[frame[t].task] IN
       /\ ring' = [ring EXCEPT ![w][t] = Append(@, frame[t].task)]
       /\ Goto(t, "invoked") /\ UNCHANGED args
    /\ frame' = [frame EXCEPT ![t].task = None]
    /\ UNCHANGED <<queueing, suspendCount, threadWarp, stackQueue, kernelState, warpIndex,
                   stack, inRoutine, history>>

(* Mutant: the task is queued again and invoked as well. *)
ForwardInvokes(t) ==
    /\ pc[t] = "invoke" /\ home[frame[t].task] # frame[t].queue
    /\ LET w == home[frame[t].task] IN
       /\ ring' = [ring EXCEPT ![w][t] = Append(@, frame[t].task)]
       /\ CallFlush(t, w, "body")
    /\ UNCHANGED frame
    /\ UNCHANGED <<queueing, suspendCount, threadWarp, stackQueue, kernelState, warpIndex,
                   stack, inRoutine, history>>

Forward(t) ==
    /\ pc[t] = "invoke" /\ home[frame[t].task] # frame[t].queue
    /\ LET w == home[frame[t].task] IN
       /\ ring' = [ring EXCEPT ![w][t] = Append(@, frame[t].task)]
       /\ CallFlush(t, w, "invoked")
    /\ frame' = [frame EXCEPT ![t].task = None]
    /\ UNCHANGED <<queueing, suspendCount, threadWarp, stackQueue, kernelState, warpIndex,
                   stack, inRoutine, history>>

(* Mutant: suspendCount is not looked at again. *)
InvokeReturnUnsuspended(t) ==
    /\ pc[t] = "invoked"
    /\ LET w == frame[t].queue IN
       Goto(t, IF warpIndex[t] = w THEN "scan" ELSE "end")
    /\ UNCHANGED <<warpState, kernelState, warpIndex, activation, args, history>>

InvokeReturn(t) ==
    /\ pc[t] = "invoked"
    /\ LET w == frame[t].queue IN
       Goto(t, IF suspendCount[w] = 0 /\ warpIndex[t] = w THEN "scan" ELSE "end")
    /\ UNCHANGED <<warpState, kernelState, warpIndex, activation, args, history>>

(* guard.Cleanup, then YieldExecution; a Flush if the warp is not held.      *)
ExecuteEnd(t) ==
    /\ pc[t] = "end"
    /\ Goto(t, IF threadWarp[frame[t].queue] = t THEN "yield" ELSE "flush")
    /\ args' = [args EXCEPT ![t] =
           IF threadWarp[frame[t].queue] = t
           THEN [@ EXCEPT !.yield = frame[t].queue, !.yieldRet = "release",
                          !.releaseRet = "return"]
           ELSE [@ EXCEPT !.flush = frame[t].queue, !.flushRet = "release",
                          !.releaseRet = "return"]]
    /\ UNCHANGED <<warpState, kernelState, warpIndex, activation, history>>

(* Execute and QueueRoutine return to what they interrupted. *)
Return(t) ==
    /\ pc[t] = "return"
    /\ Goto(t, Head(stack[t]).pc)
    /\ frame' = [frame EXCEPT ![t] = Head(stack[t]).frame]
    /\ stack' = [stack EXCEPT ![t] = Tail(@)]
    /\ inRoutine' = [inRoutine EXCEPT ![t] = @ /\ frame[t].queue = None]
    /\ args' = [args EXCEPT ![t] = NoArgs]
    /\ UNCHANGED <<warpState, kernelState, warpIndex, history>>

ExecuteStep(t) ==
    \/ Take(t) \/ EnterSuspended(t) \/ Enter(t) \/ Guard(t) \/ GuardOwn(t) \/ GuardRecheck(t)
    \/ ExecuteRecheck(t) \/ ExecuteRequeue(t) \/ ExecuteBegin(t) \/ Pop(t) \/ NextRing(t)
    \/ NextPass(t) \/ Invoke(t) \/ Forward(t) \/ InvokeReturn(t) \/ ExecuteEnd(t) \/ Return(t)

-----------------------------------------------------------------------------
(* Queueing a routine: QueueRoutinePost, which ForwardRoutine too calls for  *)
(* an external thread when the pool polls it; QueueRoutine runs the routine  *)
(* at once if it can have the warp.                                          *)
Post(t) ==
    /\ Polling(t) \/ pc[t] = "body"
    /\ \E x \in fresh :
       /\ fresh' = fresh \ {x}
       /\ ring' = [ring EXCEPT ![home[x]][t] = Append(@, x)]
       /\ CallFlush(t, home[x], AfterPoll(t))
    /\ UNCHANGED <<queueing, suspendCount, threadWarp, stackQueue, kernelState, warpIndex,
                   activation, done, inside, suspends, waits, moves>>

Direct(t) ==
    /\ Directs
    /\ Polling(t) \/ pc[t] = "body"
    /\ \E x \in fresh :
       /\ fresh' = fresh \ {x}
       /\ suspendCount[home[x]] = 0
       /\ \/ /\ warpIndex[t] = home[x]
             /\ Activate(t, [Idle EXCEPT !.task = x], AfterPoll(t))
             /\ Goto(t, "body")
             /\ UNCHANGED <<threadWarp, stackQueue, warpIndex>>
          \/ /\ warpIndex[t] # home[x]
             /\ Preempt(t, home[x])
             /\ Activate(t, [Idle EXCEPT !.task = x, !.guard = home[x]], AfterPoll(t))
             /\ Goto(t, "directed")
    /\ UNCHANGED <<ring, queueing, suspendCount, kernelState, inRoutine, args, done, inside, suspends,
                   waits, moves>>

DirectRecheck(t) ==
    /\ pc[t] = "directed"
    /\ LET w == home[frame[t].task] IN
       IF suspendCount[frame[t].guard] = 0
       THEN Goto(t, "body") /\ UNCHANGED <<ring, frame, args>>
       ELSE /\ ring' = [ring EXCEPT ![w][t] = Append(@, frame[t].task)]
            /\ frame' = [frame EXCEPT ![t].task = None]
            /\ CallFlush(t, w, "undirect")
    /\ UNCHANGED <<queueing, suspendCount, threadWarp, stackQueue, kernelState, warpIndex,
                   stack, inRoutine, history>>

(* ~PreemptGuard of QueueRoutine *)
DirectEnd(t) ==
    /\ pc[t] = "undirect"
    /\ IF frame[t].guard = None
       THEN Goto(t, "return") /\ UNCHANGED args
       ELSE CallYield(t, frame[t].guard, "return")
    /\ UNCHANGED <<warpState, kernelState, warpIndex, activation, history>>

QueueStep(t) == Post(t) \/ Direct(t) \/ DirectRecheck(t) \/ DirectEnd(t)

-----------------------------------------------------------------------------
(* What a routine does: queue others (above), suspend the warp it runs in,   *)
(* move an object to another warp, wait for another routine, and return.     *)

Finish(t) ==
    /\ pc[t] = "body"
    /\ done' = done \cup {frame[t].task}
    /\ frame' = [frame EXCEPT ![t].task = None]
    /\ Goto(t, IF frame[t].queue # None THEN "invoked" ELSE "undirect")
    /\ UNCHANGED <<warpState, kernelState, warpIndex, stack, inRoutine, args, fresh, inside, suspends,
                   waits, moves>>

SuspendWarp(t) ==
    /\ suspends < MaxSuspends
    /\ \E w \in Warps :
       /\ \/ pc[t] = "body" /\ w = warpIndex[t] /\ inside' = inside \cup {w}
          \/ pc[t] = "poll" /\ UNCHANGED inside
       /\ suspendCount' = [suspendCount EXCEPT ![w] = @ + 1]
    /\ suspends' = suspends + 1
    /\ UNCHANGED <<ring, queueing, threadWarp, stackQueue, kernelState, pc, warpIndex,
                   activation, args, fresh, done, waits, moves>>

(* The caller goes on to exchange queueing if this was the last suspension.  *)
ResumeWarp(t) ==
    /\ Polling(t)
    /\ \E w \in Warps :
       /\ suspendCount[w] # 0
       /\ suspendCount' = [suspendCount EXCEPT ![w] = @ - 1]
       /\ inside' = inside \ {w}
       /\ IF suspendCount[w] = 1
          THEN /\ args' = [args EXCEPT ![t].yield = w, ![t].yieldRet = AfterPoll(t)]
               /\ Goto(t, "yielded")
          ELSE Goto(t, AfterPoll(t)) /\ UNCHANGED args
    /\ UNCHANGED <<ring, queueing, threadWarp, stackQueue, kernelState, warpIndex, activation,
                   fresh, done, suspends, waits, moves>>

SetWarpIndex(t) ==
    /\ waits + moves < MaxTurns
    /\ pc[t] \in {"poll", "body"}
    /\ \E x \in Tasks \ done, w \in Warps :
       /\ w # home[x]
       /\ home' = [home EXCEPT ![x] = w]
    /\ moves' = moves + 1
    /\ UNCHANGED <<warpState, parallel, anyFlush, fullFlush, pooled, pc, warpIndex, activation,
                   args, fresh, done, inside, suspends, waits>>

(* The routines a thread is in the middle of. *)
Held(t) == {frame[t].task} \cup {s.frame.task : s \in Range(stack[t])}

(* A routine of Execute, or one that such a routine runs by QueueRoutine.     *)
InExecute(t) ==
    \/ frame[t].queue # None
    \/ \E i \in DOMAIN stack[t] :
        /\ stack[t][i].frame.queue # None
        /\ \A j \in 1 .. i : stack[t][j].pc = "body"

(* Kernel::Wait, when the variable is not set yet: YieldCurrentWarp and      *)
(* ReleaseFlush, then PollWait, WaitWarpInternal and AcquireFlushOnWait.     *)
(* Nobody waits for a routine that has called it, nor out of every warp,     *)
(* where a Wait is but a PollWait.                                           *)
Awaited(t) == WaitsFor[frame[t].task] \ (done \cup Held(t))

CanWait(t) ==
    /\ waits + moves < MaxTurns
    /\ pc[t] = "body" /\ InExecute(t) /\ warpIndex[t] # None
    /\ Awaited(t) # {}

Wait(t) ==
    /\ CanWait(t)
    /\ \E x \in Awaited(t) :
          frame' = [frame EXCEPT ![t].until = x, ![t].left = warpIndex[t]]
    /\ args' = [args EXCEPT ![t].yield = warpIndex[t], ![t].yieldRet = "release",
                            ![t].releaseRet = "wait"]
    /\ Goto(t, "yield")
    /\ waits' = waits + 1
    /\ UNCHANGED <<warpState, kernelState, warpIndex, stack, inRoutine, fresh, done, inside, suspends,
                   moves>>

(* WarpYieldGuard, around what a routine does out of its warp: the place is  *)
(* kept, and the warp is waited for at the end.  (In a warp that has not     *)
(* been entered from another one.)                                           *)
YieldWarp(t) ==
    /\ waits + moves < MaxTurns
    /\ pc[t] = "body" /\ warpIndex[t] # None /\ stackQueue[warpIndex[t]] = None
    /\ frame' = [frame EXCEPT ![t].left = warpIndex[t]]
    /\ CallYield(t, warpIndex[t], "rewarp")
    /\ waits' = waits + 1
    /\ UNCHANGED <<warpState, kernelState, warpIndex, stack, inRoutine, fresh, done, inside, suspends,
                   moves>>

WaitCheck(t) ==
    /\ pc[t] = "wait"
    /\ Goto(t, IF frame[t].until \in done THEN "rewarp" ELSE "waiting")
    /\ args' = [args EXCEPT ![t] = NoArgs]
    /\ UNCHANGED <<warpState, kernelState, warpIndex, activation, history>>

(* A poll that finds nothing returns after a while. *)
WaitPoll(t) ==
    /\ pc[t] \in {"waiting", "rewaiting"} /\ pooled = {}
    /\ Goto(t, AfterPoll(t))
    /\ UNCHANGED <<warpState, kernelState, warpIndex, activation, args, history>>

WaitWarp(t) ==
    /\ pc[t] = "rewarp"
    /\ \/ /\ Preempt(t, frame[t].left)
          /\ frame' = [frame EXCEPT ![t].until = None, ![t].left = None]
          /\ Goto(t, IF frame[t].until = None THEN "body" ELSE "reacquire")
       \/ /\ threadWarp[frame[t].left] # None
          /\ Goto(t, "rewaiting")
          /\ UNCHANGED <<threadWarp, stackQueue, warpIndex, frame>>
    /\ UNCHANGED <<ring, queueing, suspendCount, kernelState, stack, inRoutine, args, history>>

(* Mutant: the place given up to wait is not taken again. *)
AcquireFlushOnWaitNot(t) ==
    /\ pc[t] = "reacquire"
    /\ UNCHANGED parallel
    /\ Goto(t, "body")
    /\ UNCHANGED <<warpState, anyFlush, fullFlush, pooled, home, warpIndex, activation, args,
                   history>>

AcquireFlushOnWait(t) ==
    /\ pc[t] = "reacquire"
    /\ parallel' = IF parallel < MaxParallel THEN parallel + 1 ELSE parallel
    /\ Goto(t, "body")
    /\ UNCHANGED <<warpState, anyFlush, fullFlush, pooled, home, warpIndex, activation, args,
                   history>>

WaitStep(t) ==
    \/ Wait(t) \/ YieldWarp(t) \/ WaitCheck(t) \/ WaitPoll(t) \/ WaitWarp(t)
    \/ AcquireFlushOnWait(t)

-----------------------------------------------------------------------------

(* Nothing is left to do: every routine has run. *)
Terminated ==
    /\ done = Tasks /\ pooled = {}
    /\ \A t \in Threads : pc[t] = "poll"
    /\ \A w \in Warps : suspendCount[w] = 0
    /\ UNCHANGED vars

ThreadStep(t) ==
    \/ FlushStep(t) \/ ReleaseStep(t) \/ YieldStep(t) \/ ExecuteStep(t) \/ QueueStep(t)
    \/ Finish(t) \/ SuspendWarp(t) \/ ResumeWarp(t) \/ SetWarpIndex(t) \/ WaitStep(t)

Next == (\E t \in Threads : ThreadStep(t)) \/ Terminated

Spec == Init /\ [][Next]_vars

(* A thread goes on with what it is doing, and a worker polls; nobody has to *)
(* wait, but a routine returns, and what is to be queued is: the pool gets a *)
(* ForwardRoutine from outside, however often the workers poll in between.   *)
Progress(t) ==
    \/ FlushStep(t) \/ ReleaseStep(t) \/ YieldStep(t) \/ ExecuteStep(t)
    \/ DirectRecheck(t) \/ DirectEnd(t) \/ Finish(t)
    \/ WaitCheck(t) \/ WaitPoll(t) \/ WaitWarp(t) \/ AcquireFlushOnWait(t)

Fairness ==
    \A t \in Threads :
        /\ WF_vars(Progress(t))
        /\ SF_vars(Polling(t) /\ Post(t))
        /\ WF_vars(ResumeWarp(t))

FairSpec == Spec /\ Fairness

-----------------------------------------------------------------------------
(* Properties                                                                *)

Queued(w) == {x \in Tasks : \E t \in Threads : x \in Range(ring[w][t])}

TypeOK ==
    /\ ring \in [Warps -> [Threads -> Seq(Tasks)]]
    /\ queueing \in [Warps -> {"idle", "queueing", "flushing"}]
    /\ suspendCount \in [Warps -> Nat]
    /\ threadWarp \in [Warps -> Threads \cup {None}]
    /\ stackQueue \in [Warps -> Warps \cup {None}]
    /\ parallel \in 0 .. CounterSize - 1
    /\ anyFlush \in {"idle", "queueing", "flushing"}
    /\ fullFlush \subseteq Warps /\ pooled \subseteq Warps
    /\ home \in [Tasks -> Warps]
    /\ warpIndex \in [Threads -> Warps \cup {None}]
    /\ inRoutine \in [Threads -> BOOLEAN]
    /\ fresh \subseteq Tasks /\ done \subseteq Tasks

(* The warps that a thread is in the middle of a routine of, or about to     *)
(* take one from.                                                            *)
InWarp(f) == f.task # None /\ f.left = None

Occupies(t) ==
    {w \in Warps :
        \/ w = warpIndex[t] /\ InWarp(frame[t])
        \/ w = frame[t].queue /\ pc[t] = "scan"
        \/ \E s \in Range(stack[t]) : w = s.warp /\ InWarp(s.frame)}

(* A warp is serial: while a thread runs a routine of it, or reads its ring  *)
(* buffers, no other thread does (threadWarp, whoever preempts it).          *)
WarpsAreSerial ==
    \A t, u \in Threads : t # u => Occupies(t) \cap Occupies(u) = {}

(* The assertions of ReleaseFlush (Kernel.cpp, line 84), InvokeOperation     *)
(* (line 578) and PreemptExecution (line 508).                               *)
ReleaseAssertion == \A t \in Threads : pc[t] = "release" => parallel # 0

CodeAssertions ==
    /\ TypeOK
    /\ ReleaseAssertion
    /\ \A t \in Threads :
        /\ pc[t] = "invoke" => warpIndex[t] = frame[t].queue
        /\ pc[t] = "rewaiting" => warpIndex[t] # frame[t].left

(* A routine is where it should be once: not queued yet, in one ring buffer, *)
(* run by one thread, or done.  None is dropped and none runs twice.         *)
Places(x) ==
      (IF x \in fresh THEN 1 ELSE 0) + (IF x \in done THEN 1 ELSE 0)
    + Cardinality({t \in Threads : x \in Held(t)})
    + Cardinality({r \in Warps \X Threads \X (1 .. Cardinality(Tasks)) :
                    r[3] <= Len(ring[r[1]][r[2]]) /\ ring[r[1]][r[2]][r[3]] = x})

RoutinesConserved == \A x \in Tasks : Places(x) = 1

(* Every worker is idle and the pool is empty. *)
Quiescent == pooled = {} /\ \A t \in Threads : pc[t] = "poll"

(* "STATE_IDLE = 0u, // task (list) is empty" (Kernel.cpp, line 6), and as    *)
(* well while it is marked as flushing, once nobody is in the warp, nor about *)
(* to flush it.  A routine that suspends its warp, or waits, leaves tasks     *)
(* behind in an idle warp: as long as none has done so.                       *)
IdleIsEmpty ==
    suspends = 0 /\ waits = 0 =>
        \A w \in Warps :
            /\ queueing[w] # "queueing" /\ threadWarp[w] = None
            /\ \A t \in Threads : w # args[t].flush
            => Queued(w) = {}

(* "STATE_QUEUEING = 1u, // task (list) is scheduled to be flushed"          *)
(* (Kernel.cpp, line 7): if nothing is under way, only the resumption of the *)
(* warp can be what it is scheduled for.  ReleaseFlush sees every warp that  *)
(* found the kernel full, YieldExecution every push to a running warp.       *)
QueueingIsScheduled ==
    Quiescent => \A w \in Warps : queueing[w] = "queueing" => suspendCount[w] # 0

(* No place of maxParallelCount leaks: they are all free when the workers    *)
(* are idle (the assertion of Reset, Kernel.cpp, line 276).                  *)
PlacesReturned == Quiescent => parallel = 0

(* At most maxParallelCount threads execute warps (SetMaxParallelCount).     *)
Executes(t) ==
    frame[t].queue # None /\ pc[t] \in {"scan", "invoke", "body"}

ParallelBound == Cardinality({t \in Threads : Executes(t)}) <= MaxParallel

(* "Block/Allow all tasks preemptions" (Kernel.h, line 147): once a routine  *)
(* has suspended its warp, no other of that warp begins until it is resumed. *)
(* (Suspended from outside, the warp may begin one it has already taken.)    *)
SuspendedWarpWaits ==
    [][\A t \in Threads :
          pc[t] # "body" /\ pc'[t] = "body" /\ Len(stack'[t]) = Len(stack[t])
            /\ pc[t] \in {"invoke", "directed"} => warpIndex[t] \notin inside]_vars

(* Every routine that is queued runs. *)
EveryRoutineRuns == <>(done = Tasks)

=============================================================================
