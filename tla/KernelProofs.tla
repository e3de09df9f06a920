---------------------------- MODULE KernelProofs ----------------------------
(***************************************************************************)
(* Theorems about Kernel, for any number of workers, warps, routines and   *)
(* places: some as long as no routine has waited or yielded its warp, and  *)
(* the conservation of routines whoever waits.                             *)
(*                                                                         *)
(* That a warp is serial follows from who may change threadWarp.  What has *)
(* to be known is that a thread yields only the warp it has preempted last *)
(* and is in, although executions nest: Nested says which warp belongs to  *)
(* which activation.  That the limit holds follows from Tallied, which     *)
(* says what currentParallelCount counts.  That no routine is lost or runs *)
(* twice follows from Conserved: each is in one of the ring buffers, the   *)
(* activations, fresh and done.  That none is left in a warp that nobody   *)
(* will come to follows from Settled, which says who will.                 *)
(***************************************************************************)
EXTENDS Kernel, FiniteSetTheorems, SequenceTheorems, TLAPS

-----------------------------------------------------------------------------
(* The invariant                                                             *)

Labels ==
    {"poll", "flush", "acquire", "dispatch", "undo", "setmask", "announce", "release",
     "announced", "unmask", "reflush", "unannounce", "yield", "yielded", "enter", "guard",
     "guarded", "begin", "requeue", "flushing", "scan", "invoke", "invoked", "end", "return",
     "directed", "body", "undirect"}

FrameType ==
    [queue : Warps \cup {None}, scan : 1 .. Len(Rings) + 1, executed : BOOLEAN,
     guard : Warps \cup {None}, task : Tasks \cup {None}, until : Tasks \cup {None},
     left : Warps \cup {None}]

EntryType == [frame : FrameType, pc : Labels, warp : Warps \cup {None}]

ArgsType ==
    [flush : Warps \cup {None}, flushRet : Labels, yield : Warps \cup {None},
     yieldRet : Labels, releaseRet : Labels]

LocalTyped == pc \in [Threads -> Labels] /\ args \in [Threads -> ArgsType]

WarpsTyped ==
    /\ ring \in [Warps -> [Threads -> Seq(Tasks)]]
    /\ queueing \in [Warps -> {"idle", "queueing", "flushing"}]
    /\ suspendCount \in [Warps -> Nat]
    /\ threadWarp \in [Warps -> Threads \cup {None}]
    /\ stackQueue \in [Warps -> Warps \cup {None}]

KernelTyped ==
    /\ parallel \in 0 .. CounterSize - 1
    /\ anyFlush \in {"idle", "queueing", "flushing"}
    /\ fullFlush \subseteq Warps /\ pooled \subseteq Warps
    /\ home \in [Tasks -> Warps]

ActivationTyped ==
    /\ warpIndex \in [Threads -> Warps \cup {None}]
    /\ inRoutine \in [Threads -> BOOLEAN]
    /\ frame \in [Threads -> FrameType]
    /\ stack \in [Threads -> Seq(EntryType)]

HistoryTyped == fresh \subseteq Tasks /\ done \subseteq Tasks /\ waits \in Nat /\ moves \in Nat

Typed == LocalTyped /\ WarpsTyped /\ KernelTyped /\ ActivationTyped /\ HistoryTyped

(* Where a thread is in its activation: in a call, where the call returns.   *)
FlushLabels == {"flush", "acquire", "dispatch", "undo", "setmask", "announce"}

Point(t) ==
    IF pc[t] \in FlushLabels THEN args[t].flushRet
    ELSE IF pc[t] = "yielded" THEN args[t].yieldRet ELSE pc[t]

(* Where Execute has its guard, where it gives the place back, and the       *)
(* points of QueueRoutine.                                                   *)
Guarded == {"guarded", "begin", "requeue", "flushing", "scan", "invoke", "body", "invoked",
            "end", "yield"}
Releasing == {"announced", "unmask", "reflush", "unannounce"}
Directed == {"directed", "body", "undirect", "yield"}

Holds(t) == frame[t].guard # None /\ Point(t) \in Guarded \cup Directed

(* The warp an activation is in: the one it has preempted, or the one of the *)
(* activation below it; and the one it goes back to.                         *)
Stands(g, w, below, rest) ==
    IF g = None THEN w = below
    ELSE w = g /\ stackQueue[g] = below /\ \A s \in rest : s.warp # g

Entries(t, i) == {stack[t][j] : j \in i .. Len(stack[t])}

EntryOK(t, i) ==
    LET s == stack[t][i] IN
    IF i = Len(stack[t]) THEN s = [frame |-> Idle, pc |-> "poll", warp |-> None]
    ELSE /\ s.pc = "body" /\ s.frame.task # None
         /\ s.frame.queue # None => s.frame.guard = s.frame.queue /\ i + 1 = Len(stack[t])
         /\ Stands(s.frame.guard, s.warp, stack[t][i + 1].warp, Entries(t, i + 1))

ActivationOK(t) ==
    IF stack[t] = <<>> THEN Point(t) = "poll" /\ warpIndex[t] = None /\ frame[t] = Idle
    ELSE
    /\ Stands(IF Holds(t) THEN frame[t].guard ELSE None, warpIndex[t], stack[t][1].warp,
              Entries(t, 1))
    /\ Point(t) \in {"invoke", "body", "directed"} => frame[t].task # None
    /\ IF frame[t].queue = None
       THEN Point(t) \in Directed \cup {"return"}
       ELSE /\ Len(stack[t]) = 1
            /\ Point(t) \in Guarded \cup Releasing \cup {"enter", "guard", "release", "return"}
            /\ Point(t) \in Guarded => frame[t].guard = frame[t].queue

(* Where the calls of Flush and YieldExecution return to.                     *)
CallPoints == {"poll", "body", "invoked", "undirect", "release", "return", "unmask"}

ArgsOK(t) ==
    /\ pc[t] \in FlushLabels \cup {"yielded"} => Point(t) \in CallPoints
    /\ pc[t] \in FlushLabels \cup {"reflush"} => args[t].flush # None
    /\ pc[t] = "reflush" => args[t].flushRet = "unmask"
    /\ pc[t] \in {"yield", "yielded"} => args[t].yield # None
    /\ pc[t] = "yield" =>
        /\ frame[t].guard # None /\ args[t].yield = frame[t].guard
        /\ args[t].yieldRet = IF frame[t].queue = None THEN "return" ELSE "release"
        /\ frame[t].queue # None => args[t].releaseRet = "return"
    /\ Point(t) \in Releasing \cup {"release"} => args[t].releaseRet = "return"

(* The warps a thread is in belong to it.                                    *)
Mine(t, w) == w # None => threadWarp[w] = t

StackOK(t) == \A i \in DOMAIN stack[t] : EntryOK(t, i) /\ Mine(t, stack[t][i].warp)

NestedAt(t) == ActivationOK(t) /\ ArgsOK(t) /\ Mine(t, warpIndex[t]) /\ StackOK(t)

Nested == \A t \in Threads : NestedAt(t)

(* The threads that have a place, in an Execute that has not given it back.  *)
Gone == Releasing \cup {"return"}
Below(t) == \E i \in DOMAIN stack[t] : stack[t][i].frame.queue # None
Placed(t) == (frame[t].queue # None /\ Point(t) \notin Gone) \/ Below(t)

Acquired(t) == pc[t] \in {"dispatch", "undo"}

Tallied ==
    /\ parallel = Cardinality(pooled) + Cardinality({t \in Threads : Placed(t)})
                    + Cardinality({t \in Threads : Acquired(t)})
    /\ parallel <= MaxParallel

IInv == waits \in Nat /\ (waits = 0 => Typed /\ Nested /\ Tallied)

-----------------------------------------------------------------------------
(* Types                                                                     *)

(* No warp, thread or task is None.                                          *)
LEMMA NoneApart == None \notin Threads /\ None \notin Warps /\ None \notin Tasks
BY KernelAssumption

(* There are finitely many ring buffers, and the first one is number 1.      *)
LEMMA IdleType == Len(Rings) \in Nat /\ Idle \in FrameType /\ NoArgs \in ArgsType
<1>1. Len(Rings) \in Nat
    BY KernelAssumption, LenProperties
<1> QED
    BY <1>1 DEF Idle, FrameType, NoArgs, ArgsType, Labels

(* The fields of an argument record, and what becomes of it in a call.       *)
LEMMA ArgsFields ==
    ASSUME NEW a \in ArgsType
    PROVE  /\ a.flush \in Warps \cup {None} /\ a.yield \in Warps \cup {None}
           /\ a.flushRet \in Labels /\ a.yieldRet \in Labels /\ a.releaseRet \in Labels
BY DEF ArgsType

(* What becomes of an argument record in a call.                             *)
LEMMA ArgsCalls ==
    ASSUME NEW a \in ArgsType, NEW w \in Warps \cup {None}, NEW l \in Labels, NEW m \in Labels
    PROVE  /\ [a EXCEPT !.flush = w, !.flushRet = l] \in ArgsType
           /\ [a EXCEPT !.yield = w, !.yieldRet = l] \in ArgsType
           /\ [a EXCEPT !.releaseRet = l] \in ArgsType
           /\ [a EXCEPT !.yield = w, !.yieldRet = l, !.releaseRet = m] \in ArgsType
           /\ [a EXCEPT !.flush = w, !.flushRet = l, !.releaseRet = m] \in ArgsType
<1>1. [a EXCEPT !.flush = w, !.flushRet = l] \in ArgsType
    BY DEF ArgsType
<1>2. [a EXCEPT !.yield = w, !.yieldRet = l] \in ArgsType
    BY DEF ArgsType
<1>3. [a EXCEPT !.releaseRet = l] \in ArgsType
    BY DEF ArgsType
<1>4. [a EXCEPT !.yield = w, !.yieldRet = l, !.releaseRet = m] \in ArgsType
    BY DEF ArgsType
<1>5. [a EXCEPT !.flush = w, !.flushRet = l, !.releaseRet = m] \in ArgsType
    BY DEF ArgsType
<1> QED
    BY <1>1, <1>2, <1>3, <1>4, <1>5

(* A thread goes to a label with arguments of the right type.                *)
LEMMA LocalMoves ==
    ASSUME Typed, NEW t \in Threads, NEW l \in Labels, NEW a \in ArgsType,
           pc' = [pc EXCEPT ![t] = l], args' = [args EXCEPT ![t] = a]
    PROVE  LocalTyped'
BY DEF Typed, LocalTyped

(* The caller of Flush is at a label again.                                  *)
LEMMA ReturnLocal ==
    ASSUME NEW t \in Threads, Typed, FlushReturns(t, TRUE) \/ FlushReturns(t, FALSE)
    PROVE  LocalTyped'
<1>1. args[t] \in ArgsType
    BY DEF Typed, LocalTyped
<1>2. FlushArgs(t, None, "poll") \in ArgsType
    BY ZenonT(60), <1>1, ArgsCalls DEF FlushArgs, Labels
<1> QED
    BY <1>1, <1>2, LocalMoves, ArgsFields DEF FlushReturns, Goto, Labels

(* A call of Flush is of the right type.                                     *)
LEMMA CallFlushLocal ==
    ASSUME NEW t \in Threads, Typed, NEW w \in Warps, NEW l \in Labels, CallFlush(t, w, l)
    PROVE  LocalTyped'
<1>1. args[t] \in ArgsType
    BY DEF Typed, LocalTyped
<1>2. FlushArgs(t, w, l) \in ArgsType
    BY <1>1, ArgsCalls DEF FlushArgs
<1> QED
    BY <1>2, LocalMoves DEF CallFlush, Goto, Labels

(* A thread goes to a label.                                                 *)
LEMMA GotoLocal ==
    ASSUME NEW t \in Threads, Typed, NEW l \in Labels, Goto(t, l), UNCHANGED args
    PROVE  LocalTyped'
BY DEF Typed, LocalTyped, Goto

(* The labels and arguments in Flush.                                        *)
LEMMA FlushLocal ==
    ASSUME NEW t \in Threads, Typed, FlushStep(t)
    PROVE  LocalTyped'
BY ReturnLocal, GotoLocal
   DEF FlushStep, FlushMark, FlushAcquire, FlushDispatch, FlushUndo, FlushSetMask,
       FlushAnnounce, Labels

(* The numbers the counter depends on.                                       *)
LEMMA Numbers ==
    CounterSize \in Nat /\ MaxParallel \in Nat /\ MaxParallel > 0 /\ CounterSize > MaxParallel
BY KernelAssumption

(* The counter stays in its range.                                           *)
LEMMA CounterMoves ==
    ASSUME NEW n \in 0 .. CounterSize - 1
    PROVE  /\ n < MaxParallel => n + 1 \in 0 .. CounterSize - 1
           /\ (n - 1) % CounterSize \in 0 .. CounterSize - 1
BY Numbers

(* The types are kept by Flush.                                              *)
LEMMA FlushTyped ==
    ASSUME NEW t \in Threads, Typed, NestedAt(t), FlushStep(t)
    PROVE  Typed'
<1> USE DEF FlushStep, FlushMark, FlushAcquire, FlushDispatch, FlushUndo, FlushSetMask,
            FlushAnnounce
<1>1. LocalTyped'
    BY FlushLocal DEF Typed
<1>2. args[t].flush \in Warps
    BY ArgsFields, NoneApart DEF NestedAt, ArgsOK, FlushLabels, Typed, LocalTyped
<1>3. WarpsTyped'
    BY <1>2 DEF Typed, WarpsTyped, warpState
<1>4. KernelTyped'
  <2>1. \/ parallel' = parallel \/ parallel' = (parallel - 1) % CounterSize
        \/ parallel < MaxParallel /\ parallel' = parallel + 1
      BY DEF kernelState
  <2>2. (parallel \in 0 .. CounterSize - 1)'
      BY <2>1, CounterMoves DEF Typed, KernelTyped
  <2> QED
      BY <1>2, <2>2 DEF Typed, KernelTyped, kernelState
<1>5. ActivationTyped' /\ HistoryTyped'
    BY DEF Typed, ActivationTyped, HistoryTyped, activation, history
<1> QED
    BY <1>1, <1>3, <1>4, <1>5 DEF Typed

(* The types are kept by ReleaseFlush.                                       *)
LEMMA ReleaseTyped ==
    ASSUME NEW t \in Threads, Typed, NestedAt(t), ReleaseStep(t)
    PROVE  Typed'
<1> USE DEF ReleaseStep, Release, ReleaseAnnounced, ReleaseUnmask, ReleaseFlushWarp,
            ReleaseUnannounce
<1>1. LocalTyped'
  <2> USE DEF Typed, LocalTyped, Goto
  <2>0. args[t] \in ArgsType
      OBVIOUS
  <2>1. ASSUME NEW w \in fullFlush, Goto(t, "reflush"),
               args' = [args EXCEPT ![t] = FlushArgs(t, w, "unmask")]
        PROVE  LocalTyped'
    <3>1. FlushArgs(t, w, "unmask") \in ArgsType
        BY ZenonT(60), <2>0, ArgsCalls DEF FlushArgs, Labels, KernelTyped
    <3> QED
        BY <2>1, <3>1, LocalMoves DEF Labels
  <2>2. args[t].releaseRet \in Labels
      BY <2>0, ArgsFields
  <2> QED
      BY ZenonT(60), <2>1, <2>2, ReturnLocal, GotoLocal DEF Labels
<1>3. WarpsTyped'
    BY DEF Typed, WarpsTyped, warpState
<1>4. KernelTyped'
  <2>1. \/ parallel' = parallel \/ parallel' = (parallel - 1) % CounterSize
        \/ parallel < MaxParallel /\ parallel' = parallel + 1
      BY DEF kernelState
  <2>2. (parallel \in 0 .. CounterSize - 1)'
      BY <2>1, CounterMoves DEF Typed, KernelTyped
  <2> QED
      BY <2>2 DEF Typed, KernelTyped, kernelState
<1>5. ActivationTyped' /\ HistoryTyped'
    BY DEF Typed, ActivationTyped, HistoryTyped, activation, history
<1> QED
    BY <1>1, <1>3, <1>4, <1>5 DEF Typed

(* The types are kept by YieldExecution.                                     *)
LEMMA YieldTyped ==
    ASSUME NEW t \in Threads, Typed, NestedAt(t), YieldStep(t)
    PROVE  Typed'
<1> USE DEF YieldStep, YieldLeave, YieldReflush
<1>0. args[t] \in ArgsType /\ args[t].yield \in Warps
    BY ArgsFields, NoneApart DEF NestedAt, ArgsOK, Typed, LocalTyped
<1>1. LocalTyped'
  <2> DEFINE back == [args[t] EXCEPT !.yield = None, !.yieldRet = "poll"]
  <2>1. back \in ArgsType /\ args[t].yieldRet \in Labels
      BY ZenonT(60), <1>0, ArgsCalls, ArgsFields DEF Labels
  <2>2. [back EXCEPT !.flush = args[t].yield, !.flushRet = args[t].yieldRet] \in ArgsType
      BY <1>0, <2>1, ArgsCalls
  <2>3. [args[t] EXCEPT !.yield = None, !.yieldRet = "poll", !.flush = args[t].yield,
                        !.flushRet = args[t].yieldRet] \in ArgsType
      BY <2>2
  <2> QED
      BY ZenonT(60), <1>0, <2>1, <2>3 DEF Typed, LocalTyped, YieldReturns, Goto, Labels
<1>3. WarpsTyped'
    BY <1>0 DEF Typed, WarpsTyped, warpState
<1>4. KernelTyped' /\ HistoryTyped'
    BY DEF Typed, KernelTyped, HistoryTyped, kernelState, history
<1>5. ActivationTyped'
  <2>1. stackQueue[args[t].yield] \in Warps \cup {None}
      BY <1>0 DEF Typed, WarpsTyped
  <2> QED
      BY <2>1 DEF Typed, ActivationTyped, activation
<1> QED
    BY <1>1, <1>3, <1>4, <1>5 DEF Typed

(* In the labels of Execute there is a warp it executes; with the guard, it  *)
(* is the warp the thread is in.                                             *)
ExecuteLabels == (Guarded \ {"body", "yield"}) \cup {"enter", "guard", "release"}

(* There, Execute has a warp, and with its guard the thread is in it.        *)
LEMMA InExecuteLabels ==
    ASSUME NEW t \in Threads, Typed, NestedAt(t), pc[t] \in ExecuteLabels
    PROVE  /\ stack[t] # <<>> /\ Len(stack[t]) = 1
           /\ frame[t].queue \in Warps
           /\ pc[t] \in Guarded => /\ frame[t].guard = frame[t].queue /\ Holds(t)
                                   /\ warpIndex[t] = frame[t].queue
                                   /\ threadWarp[frame[t].queue] = t
<1>1. Point(t) = pc[t]
    BY DEF Point, ExecuteLabels, Guarded, FlushLabels
<1>2. /\ stack[t] # <<>> /\ Len(stack[t]) = 1 /\ frame[t].queue # None
      /\ pc[t] \in Guarded => frame[t].guard = frame[t].queue
    BY <1>1 DEF NestedAt, ActivationOK, ExecuteLabels, Guarded, Directed
<1>3. frame[t].queue \in Warps
    BY <1>2 DEF Typed, ActivationTyped, FrameType
<1>4. ASSUME pc[t] \in Guarded
      PROVE  Holds(t) /\ warpIndex[t] = frame[t].queue
    BY <1>1, <1>2, <1>3, <1>4, NoneApart DEF NestedAt, ActivationOK, Holds, Stands
<1>5. ASSUME pc[t] \in Guarded
      PROVE  threadWarp[frame[t].queue] = t
    BY <1>2, <1>4, <1>5 DEF NestedAt, Mine
<1> QED
    BY <1>2, <1>3, <1>4, <1>5

(* Nobody waits yet: a thread polls at the top only.                         *)
LEMMA PollsAtTop ==
    ASSUME NEW t \in Threads, Typed
    PROVE  (Polling(t) <=> pc[t] = "poll") /\ AfterPoll(t) = pc[t]
BY DEF Typed, LocalTyped, Polling, AfterPoll, Labels

(* The fields of an activation.                                              *)
LEMMA FrameFields ==
    ASSUME NEW f \in FrameType
    PROVE  /\ f.queue \in Warps \cup {None} /\ f.guard \in Warps \cup {None}
           /\ f.task \in Tasks \cup {None} /\ f.left \in Warps \cup {None}
           /\ f.scan \in 1 .. Len(Rings) + 1 /\ f.executed \in BOOLEAN
BY DEF FrameType

(* The activation that is popped.                                            *)
LEMMA HeadType ==
    ASSUME NEW t \in Threads, Typed, stack[t] # <<>>
    PROVE  /\ Head(stack[t]) = stack[t][1] /\ stack[t][1] \in EntryType
           /\ stack[t][1].frame \in FrameType
           /\ stack[t][1].pc \in Labels
           /\ stack[t][1].warp \in Warps \cup {None}
           /\ Tail(stack[t]) \in Seq(EntryType)
<1>1. stack[t] \in Seq(EntryType)
    BY DEF Typed, ActivationTyped
<1>2. Head(stack[t]) = stack[t][1] /\ stack[t][1] \in EntryType /\ Tail(stack[t]) \in Seq(EntryType)
    BY <1>1, HeadTailProperties, EmptySeq, ElementOfSeq, LenProperties
<1> QED
    BY <1>2 DEF EntryType

(* Leaving Execute, without the guard or with it.                            *)
LEMMA LeaveLocal ==
    ASSUME NEW t \in Threads, Typed, ExecuteReleases(t) \/ LeaveGuard(t)
    PROVE  LocalTyped'
<1>1. args[t] \in ArgsType /\ frame[t].guard \in Warps \cup {None}
    BY FrameFields DEF Typed, LocalTyped, ActivationTyped
<1>2. CASE ExecuteReleases(t)
    BY <1>1, <1>2, ArgsCalls, LocalMoves DEF ExecuteReleases, Goto, Labels
<1>3. CASE LeaveGuard(t) /\ ~ExecuteReleases(t)
  <2>1. [args[t] EXCEPT !.yield = frame[t].guard, !.yieldRet = "release",
                        !.releaseRet = "return"] \in ArgsType
      BY <1>1 DEF ArgsType, Labels
  <2> QED
      BY <1>3, <2>1 DEF LeaveGuard, Goto, Labels, Typed, LocalTyped
<1> QED
    BY <1>2, <1>3

(* A new activation is a frame, and what it interrupts is an entry.          *)
LEMMA ActivateTyped ==
    ASSUME NEW t \in Threads, Typed, NEW f \in FrameType, NEW l \in Labels, Activate(t, f, l),
           warpIndex' \in [Threads -> Warps \cup {None}], inRoutine' \in [Threads -> BOOLEAN]
    PROVE  ActivationTyped'
<1> DEFINE e == [frame |-> frame[t], pc |-> l, warp |-> warpIndex[t]]
<1>1. e \in EntryType
    BY DEF Typed, ActivationTyped, EntryType
<1>2. <<e>> \in Seq(EntryType)
    BY <1>1
<1>3. stack[t] \in Seq(EntryType)
    BY DEF Typed, ActivationTyped
<1>4. <<e>> \o stack[t] \in Seq(EntryType)
    BY <1>2, <1>3, ConcatProperties
<1>5. stack' = [stack EXCEPT ![t] = <<e>> \o stack[t]] /\ frame' = [frame EXCEPT ![t] = f]
    BY DEF Activate
<1>6. stack' \in [Threads -> Seq(EntryType)]
    BY <1>4, <1>5 DEF Typed, ActivationTyped
<1>7. frame' \in [Threads -> FrameType]
    BY <1>5 DEF Typed, ActivationTyped
<1> QED
    BY <1>6, <1>7 DEF ActivationTyped

(* The frame of QueueRoutine at the beginning.                               *)
LEMMA FrameBegins ==
    ASSUME NEW w \in Warps, NEW x \in Tasks
    PROVE  /\ [Idle EXCEPT !.task = x, !.guard = w] \in FrameType
           /\ [Idle EXCEPT !.task = x] \in FrameType
<1> USE IdleType DEF FrameType
<1>2. [Idle EXCEPT !.task = x, !.guard = w] \in FrameType
    OBVIOUS
<1>3. [Idle EXCEPT !.task = x] \in FrameType
    OBVIOUS
<1> QED
    BY <1>2, <1>3

(* The steps of Execute without a routine at hand.                           *)
LEMMA TakeTyped ==
    ASSUME NEW t \in Threads, Typed, Take(t)
    PROVE  Typed'
<1>1. LocalTyped'
    BY GotoLocal DEF Take, Labels
<1>2. ActivationTyped'
  <2>1. PICK w \in pooled : Activate(t, [Idle EXCEPT !.queue = w], AfterPoll(t))
      BY DEF Take
  <2>2. w \in Warps /\ AfterPoll(t) \in Labels /\ frame[t] \in FrameType
      BY PollsAtTop DEF Typed, KernelTyped, LocalTyped, ActivationTyped
  <2>3. [Idle EXCEPT !.queue = w] \in FrameType
      BY <2>2, IdleType DEF FrameType
  <2>4. warpIndex' \in [Threads -> Warps \cup {None}] /\ inRoutine' \in [Threads -> BOOLEAN]
      BY DEF Take, Typed, ActivationTyped
  <2> QED
      BY <2>1, <2>2, <2>3, <2>4, ActivateTyped
<1> QED
    BY <1>1, <1>2 DEF Take, Typed, WarpsTyped, KernelTyped, HistoryTyped, warpState, history

(* The steps of Execute that only move, or change a field of the frame.      *)
PlainExecute(t) ==
    \/ EnterSuspended(t) \/ Enter(t) \/ GuardOwn(t) \/ GuardRecheck(t) \/ ExecuteRecheck(t)
    \/ ExecuteRequeue(t) \/ ExecuteBegin(t) \/ Invoke(t) \/ InvokeReturn(t) \/ ExecuteEnd(t)

(* The types are kept by them.                                               *)
LEMMA PlainTyped ==
    ASSUME NEW t \in Threads, Typed, NestedAt(t), PlainExecute(t)
    PROVE  Typed'
<1> USE DEF PlainExecute, EnterSuspended, Enter, GuardOwn, GuardRecheck, ExecuteRecheck,
            ExecuteRequeue, ExecuteBegin, Invoke, InvokeReturn, ExecuteEnd
<1>1. frame[t].queue \in Warps
    BY InExecuteLabels DEF ExecuteLabels, Guarded
<1>2. LocalTyped'
  <2>1. CASE ExecuteEnd(t)
    <3>1. args[t] \in ArgsType
        BY DEF Typed, LocalTyped
    <3>2. [args[t] EXCEPT !.yield = frame[t].queue, !.yieldRet = "release",
                          !.releaseRet = "return"] \in ArgsType
        BY <1>1, <3>1 DEF ArgsType, Labels
    <3>3. [args[t] EXCEPT !.flush = frame[t].queue, !.flushRet = "release",
                          !.releaseRet = "return"] \in ArgsType
        BY <1>1, <3>1 DEF ArgsType, Labels
    <3> QED
        BY <2>1, <3>2, <3>3 DEF Typed, LocalTyped, Goto, Labels
  <2> QED
      BY <2>1, GotoLocal, LeaveLocal DEF Labels
<1>3. WarpsTyped'
    BY <1>1 DEF Typed, WarpsTyped, warpState
<1>4. KernelTyped' /\ HistoryTyped'
    BY DEF Typed, KernelTyped, HistoryTyped, kernelState, history
<1>5. ActivationTyped'
    BY DEF Typed, ActivationTyped, activation
<1> QED
    BY <1>2, <1>3, <1>4, <1>5 DEF Typed

(* The types are kept when the guard preempts the warp, or fails to.         *)
LEMMA GuardTyped ==
    ASSUME NEW t \in Threads, Typed, NestedAt(t), Guard(t)
    PROVE  Typed'
<1>1. frame[t].queue \in Warps
    BY InExecuteLabels DEF ExecuteLabels, Guarded, Guard
<1>2. LocalTyped'
    BY GotoLocal, LeaveLocal DEF Guard, Labels
<1>3. WarpsTyped' /\ ActivationTyped'
  <2>1. frame[t] \in FrameType /\ warpIndex[t] \in Warps \cup {None}
      BY DEF Typed, ActivationTyped
  <2>2. [frame[t] EXCEPT !.guard = frame[t].queue] \in FrameType
      BY <1>1, <2>1 DEF FrameType
  <2>3. WarpsTyped'
      BY ZenonT(60), <1>1, <2>1 DEF Guard, Preempt, Typed, WarpsTyped
  <2>4. frame' \in [Threads -> FrameType] /\ warpIndex' \in [Threads -> Warps \cup {None}]
      BY ZenonT(60), <1>1, <2>1, <2>2 DEF Guard, Preempt, Typed, ActivationTyped
  <2> QED
      BY <2>3, <2>4 DEF Guard, Typed, ActivationTyped
<1>4. KernelTyped' /\ HistoryTyped'
    BY DEF Guard, Typed, KernelTyped, HistoryTyped, kernelState, history
<1> QED
    BY <1>2, <1>3, <1>4 DEF Typed

(* OnOperation, and the routine that is forwarded.                           *)
LEMMA ScanTyped ==
    ASSUME NEW t \in Threads, Typed, NestedAt(t), Pop(t) \/ NextRing(t) \/ NextPass(t)
    PROVE  Typed'
<1> DEFINE f == frame[t]
           w == f.queue
           s == Rings[f.scan]
<1>1. f \in FrameType /\ w \in Warps
    BY InExecuteLabels DEF Pop, NextRing, NextPass, Typed, ActivationTyped, ExecuteLabels, Guarded
<1>2. LocalTyped'
    BY GotoLocal DEF Pop, NextRing, NextPass, Labels, Typed, LocalTyped
<1>3. CASE Pop(t)
  <2>1. s \in Threads
    <3>1. f.scan \in 1 .. Len(Rings)
      <4>1. f.scan <= Len(Rings)
          BY <1>3 DEF Pop
      <4>2. f.scan \in 1 .. Len(Rings) + 1 /\ Len(Rings) \in Nat
          BY <1>1, FrameFields, IdleType
      <4> QED
          BY <4>1, <4>2
    <3> QED
        BY <3>1, KernelAssumption, ElementOfSeq
  <2>2. ring[w][s] \in Seq(Tasks) /\ ring[w][s] # <<>>
      BY <1>1, <1>3, <2>1 DEF Pop, Typed, WarpsTyped
  <2>3. Head(ring[w][s]) \in Tasks /\ Tail(ring[w][s]) \in Seq(Tasks)
      BY <2>2, HeadTailProperties
  <2>4. ring' \in [Warps -> [Threads -> Seq(Tasks)]]
      BY <1>1, <1>3, <2>1, <2>3 DEF Pop, Typed, WarpsTyped
  <2>5. [f EXCEPT !.task = Head(ring[w][s]), !.executed = TRUE] \in FrameType
      BY <1>1, <2>3 DEF FrameType
  <2>6. frame' \in [Threads -> FrameType]
      BY <1>3, <2>5 DEF Pop, Typed, ActivationTyped
  <2> QED
      BY <1>2, <1>3, <2>4, <2>6
         DEF Pop, Typed, WarpsTyped, ActivationTyped, KernelTyped, HistoryTyped, kernelState,
             history
<1>4. CASE NextRing(t) \/ NextPass(t)
  <2>0. Len(Rings) \in Nat /\ 1 \in 1 .. Len(Rings) + 1
      BY IdleType
  <2>1. [f EXCEPT !.scan = 1, !.executed = FALSE] \in FrameType
      BY <1>1, <2>0 DEF FrameType
  <2>2. NextRing(t) => [f EXCEPT !.scan = f.scan + 1] \in FrameType
      BY <1>1, <2>0 DEF FrameType, NextRing
  <2>3. frame' \in [Threads -> FrameType]
      BY <1>4, <2>1, <2>2 DEF NextRing, NextPass, Typed, ActivationTyped
  <2> QED
      BY <1>2, <1>4, <2>3
         DEF NextRing, NextPass, Typed, WarpsTyped, ActivationTyped, KernelTyped, HistoryTyped,
             warpState, kernelState, history
<1> QED
    BY <1>3, <1>4

(* A routine that is pushed to a ring.                                       *)
LEMMA PushTyped ==
    ASSUME NEW t \in Threads, Typed, NEW w \in Warps, NEW x \in Tasks,
           ring' = [ring EXCEPT ![w][t] = Append(@, x)]
    PROVE  ring' \in [Warps -> [Threads -> Seq(Tasks)]]
<1>1. Append(ring[w][t], x) \in Seq(Tasks)
    BY AppendProperties DEF Typed, WarpsTyped
<1> QED
    BY <1>1 DEF Typed, WarpsTyped

(* The types are kept when a task follows its object to another warp.        *)
LEMMA ForwardTyped ==
    ASSUME NEW t \in Threads, Typed, NestedAt(t), Forward(t)
    PROVE  Typed'
<1>1. frame[t] \in FrameType /\ frame[t].task \in Tasks /\ home[frame[t].task] \in Warps
  <2>1. Point(t) = "invoke"
      BY DEF Forward, Point, FlushLabels
  <2>2. frame[t].task # None
      BY <2>1 DEF NestedAt, ActivationOK
  <2> QED
      BY <2>2, FrameFields DEF Typed, ActivationTyped, KernelTyped
<1>2. LocalTyped'
    BY <1>1, CallFlushLocal DEF Forward, Labels
<1>3. ring' \in [Warps -> [Threads -> Seq(Tasks)]]
    BY <1>1, PushTyped DEF Forward
<1>4. [frame[t] EXCEPT !.task = None] \in FrameType
    BY <1>1 DEF FrameType
<1>5. frame' \in [Threads -> FrameType]
    BY <1>4 DEF Forward, Typed, ActivationTyped
<1> QED
    BY <1>2, <1>3, <1>5
       DEF Forward, Typed, WarpsTyped, ActivationTyped, KernelTyped, HistoryTyped, kernelState,
           history

(* The types are kept when an activation is popped.                          *)
LEMMA ReturnTyped ==
    ASSUME NEW t \in Threads, Typed, NestedAt(t), Return(t)
    PROVE  Typed'
<1>1. stack[t] # <<>>
    BY DEF Return, NestedAt, ActivationOK, Point, FlushLabels
<1>2. LocalTyped'
  <2>1. Goto(t, stack[t][1].pc) /\ args' = [args EXCEPT ![t] = NoArgs]
      BY <1>1, HeadType DEF Return
  <2> QED
      BY <1>1, <2>1, HeadType, IdleType, LocalMoves DEF Goto
<1>3. ActivationTyped'
  <2>1. frame' = [frame EXCEPT ![t] = stack[t][1].frame] /\ stack' = [stack EXCEPT ![t] = Tail(stack[t])]
      BY <1>1, HeadType DEF Return
  <2>2. frame' \in [Threads -> FrameType] /\ stack' \in [Threads -> Seq(EntryType)]
      BY <1>1, <2>1, HeadType DEF Typed, ActivationTyped
  <2>3. inRoutine' \in [Threads -> BOOLEAN]
      BY DEF Return, Typed, ActivationTyped
  <2> QED
      BY <2>2, <2>3 DEF Return, Typed, ActivationTyped
<1> QED
    BY <1>2, <1>3
       DEF Return, Typed, WarpsTyped, KernelTyped, HistoryTyped, warpState, kernelState, history

(* The types are kept by Execute.                                            *)
LEMMA ExecuteTyped ==
    ASSUME NEW t \in Threads, Typed, NestedAt(t), ExecuteStep(t)
    PROVE  Typed'
BY PlainTyped, TakeTyped, GuardTyped, ScanTyped, ForwardTyped, ReturnTyped
   DEF ExecuteStep, PlainExecute

(* Queueing a routine.                                                       *)
LEMMA QueueTyped ==
    ASSUME NEW t \in Threads, Typed, NestedAt(t), QueueStep(t)
    PROVE  Typed'
<1>0. AfterPoll(t) \in Labels
    BY PollsAtTop DEF Typed, LocalTyped
<1>1. CASE Post(t)
  <2>1. PICK x \in fresh : /\ fresh' = fresh \ {x}
                           /\ ring' = [ring EXCEPT ![home[x]][t] = Append(@, x)]
                           /\ CallFlush(t, home[x], AfterPoll(t))
      BY <1>1 DEF Post
  <2>2. x \in Tasks /\ home[x] \in Warps
      BY DEF Typed, HistoryTyped, KernelTyped
  <2>3. LocalTyped'
      BY <1>0, <2>1, <2>2, CallFlushLocal
  <2>4. ring' \in [Warps -> [Threads -> Seq(Tasks)]]
      BY <2>1, <2>2, PushTyped
  <2> QED
      BY <1>1, <2>1, <2>3, <2>4
         DEF Post, Typed, WarpsTyped, ActivationTyped, KernelTyped, HistoryTyped, kernelState,
             activation
<1>2. CASE Direct(t)
  <2>1. PICK x \in fresh :
          /\ fresh' = fresh \ {x}
          /\ \/ /\ warpIndex[t] = home[x]
                /\ Activate(t, [Idle EXCEPT !.task = x], AfterPoll(t))
                /\ Goto(t, "body")
                /\ UNCHANGED <<threadWarp, stackQueue, warpIndex>>
             \/ /\ warpIndex[t] # home[x]
                /\ Preempt(t, home[x])
                /\ Activate(t, [Idle EXCEPT !.task = x, !.guard = home[x]], AfterPoll(t))
                /\ Goto(t, "directed")
      BY <1>2 DEF Direct
  <2>2. x \in Tasks /\ home[x] \in Warps
      BY DEF Typed, HistoryTyped, KernelTyped
  <2>3. LocalTyped'
      BY <1>2, <2>1, GotoLocal DEF Direct, Labels
  <2>4. /\ threadWarp' \in [Warps -> Threads \cup {None}]
        /\ stackQueue' \in [Warps -> Warps \cup {None}]
        /\ warpIndex' \in [Threads -> Warps \cup {None}]
    <3>1. CASE UNCHANGED <<threadWarp, stackQueue, warpIndex>>
        BY <3>1 DEF Typed, WarpsTyped, ActivationTyped
    <3>2. CASE Preempt(t, home[x])
      <4>1. warpIndex[t] \in Warps \cup {None}
          BY DEF Typed, ActivationTyped
      <4> QED
          BY <2>2, <3>2, <4>1 DEF Preempt, Typed, WarpsTyped, ActivationTyped
    <3> QED
        BY <2>1, <3>1, <3>2
  <2>5. inRoutine' \in [Threads -> BOOLEAN]
      BY <1>2 DEF Direct, Typed, ActivationTyped
  <2>6. ActivationTyped'
    <3>1. PICK f \in {[Idle EXCEPT !.task = x], [Idle EXCEPT !.task = x, !.guard = home[x]]} :
             Activate(t, f, AfterPoll(t))
        BY <2>1
    <3>2. f \in FrameType
        BY <2>2, FrameBegins
    <3> QED
        BY <1>0, <2>4, <2>5, <3>1, <3>2, ActivateTyped
  <2> QED
      BY <1>2, <2>1, <2>3, <2>4, <2>6
         DEF Direct, Typed, WarpsTyped, KernelTyped, HistoryTyped, kernelState
<1>3. CASE DirectRecheck(t)
  <2>1. frame[t] \in FrameType /\ frame[t].task \in Tasks /\ home[frame[t].task] \in Warps
    <3>1. Point(t) = "directed"
        BY <1>3 DEF DirectRecheck, Point, FlushLabels
    <3>2. frame[t].task # None
        BY <3>1 DEF NestedAt, ActivationOK
    <3> QED
        BY <3>2, FrameFields DEF Typed, ActivationTyped, KernelTyped
  <2>2. LocalTyped'
      BY <1>3, <2>1, CallFlushLocal, GotoLocal DEF DirectRecheck, Labels
  <2>3. ring' \in [Warps -> [Threads -> Seq(Tasks)]]
      BY <1>3, <2>1, PushTyped DEF DirectRecheck, Typed, WarpsTyped
  <2>4. [frame[t] EXCEPT !.task = None] \in FrameType
      BY <2>1 DEF FrameType
  <2>5. frame' \in [Threads -> FrameType]
      BY <1>3, <2>4 DEF DirectRecheck, Typed, ActivationTyped
  <2> QED
      BY <1>3, <2>2, <2>3, <2>5
         DEF DirectRecheck, Typed, WarpsTyped, ActivationTyped, KernelTyped, HistoryTyped,
             kernelState, history
<1>4. CASE DirectEnd(t)
  <2>1. args[t] \in ArgsType /\ frame[t].guard \in Warps \cup {None}
      BY FrameFields DEF Typed, LocalTyped, ActivationTyped
  <2>2. [args[t] EXCEPT !.yield = frame[t].guard, !.yieldRet = "return"] \in ArgsType
      BY <2>1 DEF ArgsType, Labels
  <2>3. LocalTyped'
      BY <1>4, <2>2 DEF DirectEnd, CallYield, Goto, Typed, LocalTyped, Labels
  <2> QED
      BY <1>4, <2>3
         DEF DirectEnd, Typed, WarpsTyped, ActivationTyped, KernelTyped, HistoryTyped, warpState,
             kernelState, activation, history
<1> QED
    BY <1>1, <1>2, <1>3, <1>4 DEF QueueStep

(* What a routine does, except to wait.                                      *)
RoutineStep(t) == Finish(t) \/ SuspendWarp(t) \/ ResumeWarp(t) \/ SetWarpIndex(t)

(* The types are kept by what a routine does.                                *)
LEMMA RoutineTyped ==
    ASSUME NEW t \in Threads, Typed, NestedAt(t), RoutineStep(t)
    PROVE  Typed'
<1>1. CASE Finish(t)
  <2>1. frame[t] \in FrameType /\ frame[t].task \in Tasks
    <3>1. Point(t) = "body"
        BY <1>1 DEF Finish, Point, FlushLabels
    <3>2. frame[t].task # None
        BY <3>1 DEF NestedAt, ActivationOK
    <3> QED
        BY <3>2, FrameFields DEF Typed, ActivationTyped
  <2>2. LocalTyped'
      BY <1>1, GotoLocal DEF Finish, Labels
  <2>3. [frame[t] EXCEPT !.task = None] \in FrameType
      BY <2>1 DEF FrameType
  <2>4. frame' \in [Threads -> FrameType] /\ done' \subseteq Tasks
      BY <1>1, <2>1, <2>3 DEF Finish, Typed, ActivationTyped, HistoryTyped
  <2> QED
      BY <1>1, <2>2, <2>4
         DEF Finish, Typed, WarpsTyped, ActivationTyped, KernelTyped, HistoryTyped, warpState,
             kernelState
<1>2. CASE SuspendWarp(t)
    BY <1>2
       DEF SuspendWarp, Typed, LocalTyped, WarpsTyped, KernelTyped, ActivationTyped, HistoryTyped,
                kernelState, activation
<1>3. CASE ResumeWarp(t)
  <2>1. PICK w \in Warps :
          /\ suspendCount[w] # 0
          /\ suspendCount' = [suspendCount EXCEPT ![w] = suspendCount[w] - 1]
          /\ \/ /\ args' = [args EXCEPT ![t].yield = w, ![t].yieldRet = AfterPoll(t)]
                /\ Goto(t, "yielded")
             \/ Goto(t, AfterPoll(t)) /\ UNCHANGED args
      BY <1>3 DEF ResumeWarp
  <2>2. AfterPoll(t) \in Labels /\ args[t] \in ArgsType
      BY PollsAtTop DEF Typed, LocalTyped
  <2>3. [args[t] EXCEPT !.yield = w, !.yieldRet = AfterPoll(t)] \in ArgsType
      BY <2>2 DEF ArgsType
  <2>4. LocalTyped'
    <3>1. CASE Goto(t, AfterPoll(t)) /\ UNCHANGED args
        BY <2>2, <3>1, GotoLocal
    <3>2. CASE Goto(t, "yielded") /\ args' = [args EXCEPT ![t].yield = w, ![t].yieldRet = AfterPoll(t)]
      <4>1. args' = [args EXCEPT ![t] = [args[t] EXCEPT !.yield = w, !.yieldRet = AfterPoll(t)]]
          BY <3>2 DEF Typed, LocalTyped
      <4> QED
          BY <2>3, <3>2, <4>1 DEF Goto, Typed, LocalTyped, Labels
    <3> QED
        BY <2>1, <3>1, <3>2
  <2>5. suspendCount' \in [Warps -> Nat]
    <3>1. suspendCount[w] \in Nat /\ suspendCount[w] # 0
        BY <2>1 DEF Typed, WarpsTyped
    <3>2. suspendCount[w] - 1 \in Nat
        BY <3>1
    <3> QED
      BY <2>1, <3>2 DEF Typed, WarpsTyped
  <2> QED
      BY <1>3, <2>4, <2>5
         DEF ResumeWarp, Typed, WarpsTyped, KernelTyped, ActivationTyped, HistoryTyped, kernelState,
             activation
<1>4. CASE SetWarpIndex(t)
  <2>1. home' \in [Tasks -> Warps] /\ moves' \in Nat
      BY <1>4 DEF SetWarpIndex, Typed, KernelTyped, HistoryTyped
  <2> QED
      BY <1>4, <2>1
         DEF SetWarpIndex, Typed, LocalTyped, WarpsTyped, KernelTyped, ActivationTyped,
             HistoryTyped,
                  warpState, activation
<1> QED
    BY <1>1, <1>2, <1>3, <1>4 DEF RoutineStep

-----------------------------------------------------------------------------
(* Which warp belongs to which activation                                    *)

(* The warps of v stay as they are.                                          *)
Keeps(v) ==
    \A w \in Warps : threadWarp[w] = v => threadWarp'[w] = v /\ stackQueue'[w] = stackQueue[w]

(* An entry in the middle of a routine names the warp it is in.              *)
LEMMA EntryFields ==
    ASSUME NEW v \in Threads, Typed, NEW i \in DOMAIN stack[v]
    PROVE  /\ stack[v][i].warp \in Warps \cup {None}
           /\ stack[v][i].frame \in FrameType
           /\ stack[v][i].frame.guard \in Warps \cup {None}
           /\ DOMAIN stack[v] = 1 .. Len(stack[v]) /\ Len(stack[v]) \in Nat
<1>1. stack[v] \in Seq(EntryType)
    BY DEF Typed, ActivationTyped
<1>2. DOMAIN stack[v] = 1 .. Len(stack[v]) /\ Len(stack[v]) \in Nat /\ stack[v][i] \in EntryType
    BY <1>1, LenProperties, ElementOfSeq
<1> QED
    BY <1>2, FrameFields DEF EntryType

(* The activations below the current one are left alone.                     *)
LEMMA StackStays ==
    ASSUME NEW v \in Threads, Typed, StackOK(v), stack'[v] = stack[v],
           \A i \in DOMAIN stack[v] :
              LET w == stack[v][i].warp IN
              w # None => threadWarp'[w] = threadWarp[w] /\ stackQueue'[w] = stackQueue[w]
    PROVE  StackOK(v)'
<1> SUFFICES ASSUME NEW i \in DOMAIN stack[v]
             PROVE  EntryOK(v, i)' /\ Mine(v, stack[v][i].warp)'
    BY DEF StackOK
<1> DEFINE s == stack[v][i]
           g == s.frame.guard
<1>1. EntryOK(v, i) /\ Mine(v, s.warp) /\ g \in Warps \cup {None}
    BY EntryFields DEF StackOK
<1>2. Mine(v, s.warp)'
    BY <1>1 DEF Mine
<1>3. Entries(v, i + 1)' = Entries(v, i + 1)
    BY DEF Entries
<1>4. i # Len(stack[v]) /\ g # None => stackQueue'[g] = stackQueue[g]
    BY <1>1, NoneApart DEF EntryOK, Stands
<1> QED
    BY <1>1, <1>2, <1>3, <1>4 DEF EntryOK, Stands

(* Another thread is not disturbed.                                          *)
Undisturbed(v) ==
    /\ pc'[v] = pc[v] /\ args'[v] = args[v] /\ frame'[v] = frame[v] /\ stack'[v] = stack[v]
    /\ warpIndex'[v] = warpIndex[v]
    /\ Keeps(v)

(* A thread that is not disturbed stays where it belongs.                    *)
LEMMA OtherNested ==
    ASSUME NEW v \in Threads, Typed, NestedAt(v), Undisturbed(v)
    PROVE  NestedAt(v)'
<1>1. StackOK(v)'
    BY StackStays, EntryFields DEF Undisturbed, Keeps, NestedAt, StackOK, Mine
<1>2. Point(v)' = Point(v) /\ (Holds(v)' <=> Holds(v)) /\ Entries(v, 1)' = Entries(v, 1)
    BY DEF Undisturbed, Point, Holds, Entries
<1>3. warpIndex[v] \in Warps \cup {None} /\ frame[v].guard \in Warps \cup {None}
    BY FrameFields DEF Typed, ActivationTyped
<1>4. Mine(v, warpIndex[v])'
    BY <1>3 DEF Undisturbed, Keeps, NestedAt, Mine
<1>5. ActivationOK(v)'
  <2>1. Holds(v) /\ stack[v] # <<>> => stackQueue'[frame[v].guard] = stackQueue[frame[v].guard]
      BY <1>3 DEF Undisturbed, Keeps, NestedAt, ActivationOK, Stands, Holds, Mine
  <2> QED
      BY <1>2, <2>1 DEF Undisturbed, NestedAt, ActivationOK, Stands
<1>6. ArgsOK(v)'
    BY <1>2 DEF Undisturbed, NestedAt, ArgsOK
<1> QED
    BY <1>1, <1>4, <1>5, <1>6 DEF NestedAt

(* A step inside an activation, which leaves it where it is.                 *)
Free == Releasing \cup {"enter", "guard", "release", "return"}

Inside(t) ==
    /\ UNCHANGED <<threadWarp, stackQueue>>
    /\ stack'[t] = stack[t] /\ warpIndex'[t] = warpIndex[t]
    /\ frame'[t].queue = frame[t].queue /\ frame'[t].guard = frame[t].guard
    /\ stack[t] = <<>> => frame'[t] = frame[t]

(* After such a step the warps still belong to the same activations.         *)
LEMMA InsideNested ==
    ASSUME NEW t \in Threads, Typed, NestedAt(t), Inside(t), NEW p, p = Point(t)',
           p \in {"invoke", "body", "directed"} => frame'[t].task # None,
           \/ p = Point(t)
           \/ frame[t].queue # None /\ {p, Point(t)} \subseteq Guarded
           \/ frame[t].queue # None /\ {p, Point(t)} \subseteq Free
           \/ frame[t].queue = None /\ {p, Point(t)} \subseteq Directed
           \/ stack[t] # <<>> /\ frame[t].queue = None /\ frame[t].guard = None /\ p = "return"
    PROVE  ActivationOK(t)' /\ Mine(t, warpIndex[t])' /\ StackOK(t)'
<1>1. StackOK(t)' /\ Mine(t, warpIndex[t])'
    BY StackStays DEF NestedAt, Inside, Mine
<1>2. Entries(t, 1)' = Entries(t, 1)
    BY DEF Inside, Entries
<1>3. ActivationOK(t)'
  <2>1. CASE stack[t] = <<>>
    <3>1. Point(t) = "poll" /\ warpIndex[t] = None /\ frame[t] = Idle
        BY <2>1 DEF NestedAt, ActivationOK
    <3>2. p = "poll"
        BY <2>1, <3>1 DEF Guarded, Free, Releasing, Directed, Idle
    <3> QED
        BY <2>1, <3>1, <3>2 DEF ActivationOK, Inside
  <2>2. CASE stack[t] # <<>>
    <3>1. Holds(t)' <=> Holds(t)
      <4>1. frame[t].guard = None \/ (p \in Guarded \cup Directed <=> Point(t) \in Guarded \cup Directed)
          BY DEF Guarded, Directed, Free, Releasing
      <4>2. Holds(t)' <=> frame[t].guard # None /\ p \in Guarded \cup Directed
          BY DEF Inside, Holds
      <4> QED
          BY <4>1, <4>2 DEF Holds
    <3> QED
        BY <1>2, <2>2, <3>1
           DEF NestedAt, ActivationOK, Inside, Stands, Guarded, Directed, Free, Releasing
  <2> QED
      BY <2>1, <2>2
<1> QED
    BY <1>1, <1>3

(* Flush goes on, or returns to where it was called.                         *)
LEMMA FlushNested ==
    ASSUME NEW t \in Threads, Typed, NestedAt(t), FlushStep(t)
    PROVE  NestedAt(t)'
<1>1. Inside(t) /\ frame' = frame
    BY DEF FlushStep, FlushMark, FlushAcquire, FlushDispatch, FlushUndo, FlushSetMask,
           FlushAnnounce, warpState, activation, Inside
<1>2. pc[t] \in FlushLabels /\ Point(t) = args[t].flushRet /\ Point(t) \in CallPoints
    BY DEF FlushStep, FlushMark, FlushAcquire, FlushDispatch, FlushUndo, FlushSetMask,
           FlushAnnounce, FlushLabels, Point, NestedAt, ArgsOK
<1>3. \/ UNCHANGED args /\ \E l \in FlushLabels : Goto(t, l)
      \/ FlushReturns(t, TRUE) \/ FlushReturns(t, FALSE)
    BY DEF FlushStep, FlushMark, FlushAcquire, FlushDispatch, FlushUndo, FlushSetMask,
           FlushAnnounce, FlushLabels
<1>4. frame[t].task # None \/ Point(t) \notin {"invoke", "body", "directed"}
    BY DEF NestedAt, ActivationOK
<1>5. ASSUME UNCHANGED args, NEW l \in FlushLabels, Goto(t, l)
      PROVE  NestedAt(t)'
  <2>1. pc'[t] = l /\ args'[t] = args[t]
      BY <1>5 DEF Goto, Typed, LocalTyped
  <2>2. Point(t)' = Point(t)
      BY <1>2, <2>1 DEF Point
  <2>3. ArgsOK(t)'
      BY <1>2, <2>1, <2>2 DEF NestedAt, ArgsOK, FlushLabels
  <2> QED
      BY <1>1, <1>4, <2>2, <2>3, InsideNested DEF NestedAt
<1>6. ASSUME FlushReturns(t, TRUE) \/ FlushReturns(t, FALSE)
      PROVE  NestedAt(t)'
  <2>1. /\ pc'[t] = Point(t) \/ (Point(t) = "unmask" /\ pc'[t] = "return")
        /\ args'[t].releaseRet = args[t].releaseRet
    <3>1. args[t].releaseRet = "return" \/ Point(t) # "unmask"
        BY DEF NestedAt, ArgsOK, Releasing
    <3>2. pc'[t] = args[t].flushRet \/ (args[t].flushRet = "unmask" /\ pc'[t] = args[t].releaseRet)
        BY <1>6 DEF FlushReturns, Goto, Typed, LocalTyped
    <3>3. args'[t] = FlushArgs(t, None, "poll")
        BY <1>6 DEF FlushReturns, Typed, LocalTyped
    <3>4. args'[t].releaseRet = args[t].releaseRet
        BY <3>3 DEF FlushArgs, Typed, LocalTyped, ArgsType
    <3> QED
        BY <1>2, <3>1, <3>2, <3>4
  <2>2. Point(t)' = pc'[t] /\ pc'[t] \in CallPoints
      BY <1>2, <2>1 DEF Point, CallPoints, FlushLabels
  <2>3. ArgsOK(t)'
      BY <2>1, <2>2 DEF NestedAt, ArgsOK, FlushLabels, CallPoints, Releasing
  <2>4. Point(t) = "unmask" => frame[t].queue # None
      BY DEF NestedAt, ActivationOK, Idle, Directed
  <2>5. ActivationOK(t)' /\ Mine(t, warpIndex[t])' /\ StackOK(t)'
      BY <1>1, <1>4, <2>1, <2>2, <2>4, InsideNested DEF Free, Releasing
  <2> QED
      BY <2>3, <2>5 DEF NestedAt
<1> QED
    BY <1>3, <1>5, <1>6

(* ReleaseFlush stays there, has a warp flushed, or returns from Execute.    *)
LEMMA ReleaseNested ==
    ASSUME NEW t \in Threads, Typed, NestedAt(t), ReleaseStep(t)
    PROVE  NestedAt(t)'
<1>1. Inside(t) /\ frame' = frame
    BY DEF ReleaseStep, Release, ReleaseAnnounced, ReleaseUnmask, ReleaseFlushWarp,
           ReleaseUnannounce, warpState, activation, Inside
<1>2. Point(t) = pc[t] /\ pc[t] \in Releasing \cup {"release"} /\ args[t].releaseRet = "return"
    BY DEF ReleaseStep, Release, ReleaseAnnounced, ReleaseUnmask, ReleaseFlushWarp,
           ReleaseUnannounce, Releasing, FlushLabels, Point, NestedAt, ArgsOK
<1>3. /\ Point(t)' \in Free /\ Point(t) \in Free
      /\ ArgsOK(t)'
  <2>1. CASE UNCHANGED args /\ \E l \in (Releasing \ {"reflush"}) \cup {"return"} : Goto(t, l)
    <3>1. args'[t] = args[t] /\ pc'[t] \in (Releasing \ {"reflush"}) \cup {"return"}
        BY <2>1 DEF Goto, Typed, LocalTyped
    <3> QED
        BY <1>2, <3>1 DEF Point, ArgsOK, Free, Releasing, FlushLabels
  <2>2. CASE \E w \in fullFlush : /\ args' = [args EXCEPT ![t] = FlushArgs(t, w, "unmask")]
                                  /\ Goto(t, "reflush")
    <3>1. PICK w \in fullFlush : /\ args' = [args EXCEPT ![t] = FlushArgs(t, w, "unmask")]
                                 /\ Goto(t, "reflush")
        BY <2>2
    <3>2. w # None
        BY NoneApart DEF Typed, KernelTyped
    <3>3. args'[t] = FlushArgs(t, w, "unmask") /\ pc'[t] = "reflush"
        BY <3>1 DEF Goto, Typed, LocalTyped
    <3>4. args'[t].flush = w /\ args'[t].flushRet = "unmask" /\ args'[t].releaseRet = "return"
        BY <1>2, <3>3 DEF FlushArgs, Typed, LocalTyped, ArgsType
    <3> QED
        BY <1>2, <3>2, <3>3, <3>4 DEF Point, ArgsOK, Free, Releasing, FlushLabels
  <2>3. CASE ReleaseFlushWarp(t)
    <3>1. args[t].flushRet = "unmask" /\ args[t].flush # None
        BY <2>3 DEF ReleaseFlushWarp, NestedAt, ArgsOK
    <3>2. CASE Goto(t, "flush") /\ UNCHANGED args
      <4>1. pc'[t] = "flush" /\ args'[t] = args[t]
          BY <3>2 DEF Goto, Typed, LocalTyped
      <4> QED
          BY <1>2, <3>1, <4>1 DEF Point, ArgsOK, Free, Releasing, FlushLabels, CallPoints
    <3>3. CASE FlushReturns(t, FALSE)
      <4>1. pc'[t] = "unmask" /\ args'[t] = FlushArgs(t, None, "poll")
          BY <3>1, <3>3 DEF FlushReturns, Goto, Typed, LocalTyped
      <4>2. args'[t].releaseRet = "return"
          BY <1>2, <4>1 DEF FlushArgs, Typed, LocalTyped, ArgsType
      <4> QED
          BY <1>2, <4>1, <4>2 DEF Point, ArgsOK, Free, Releasing, FlushLabels
    <3> QED
        BY <2>3, <3>2, <3>3 DEF ReleaseFlushWarp
  <2> QED
      BY <1>2, <2>1, <2>2, <2>3
         DEF ReleaseStep, Release, ReleaseAnnounced, ReleaseUnmask, ReleaseUnannounce, Releasing
<1>4. frame[t].queue # None
    BY <1>2 DEF NestedAt, ActivationOK, Idle, Directed, Releasing
<1>5. ActivationOK(t)' /\ Mine(t, warpIndex[t])' /\ StackOK(t)'
    BY <1>1, <1>3, <1>4, InsideNested DEF Free, Releasing
<1> QED
    BY <1>3, <1>5 DEF NestedAt

(* YieldExecution leaves the warp the thread has preempted last, and nothing *)
(* below is in it.                                                           *)
LEMMA YieldLeaveNested ==
    ASSUME NEW t \in Threads, Typed, NestedAt(t), YieldLeave(t)
    PROVE  NestedAt(t)'
<1> DEFINE w == args[t].yield
<1>1. /\ Point(t) = "yield" /\ stack[t] # <<>> /\ w = frame[t].guard /\ w # None /\ w \in Warps
      /\ args[t].yieldRet = IF frame[t].queue = None THEN "return" ELSE "release"
      /\ frame[t].queue # None => args[t].releaseRet = "return"
  <2>1. Point(t) = "yield"
      BY DEF YieldLeave, Point, FlushLabels
  <2>2. stack[t] # <<>>
      BY <2>1 DEF NestedAt, ActivationOK
  <2> QED
      BY <2>1, <2>2, FrameFields DEF YieldLeave, NestedAt, ArgsOK, Typed, ActivationTyped
<1>2. /\ warpIndex[t] = w /\ stackQueue[w] = stack[t][1].warp
      /\ \A s \in Entries(t, 1) : s.warp # w
    BY <1>1 DEF NestedAt, ActivationOK, Holds, Guarded, Stands
<1>3. threadWarp[w] = t
    BY <1>1, <1>2 DEF NestedAt, Mine
<1>4. /\ threadWarp' = [threadWarp EXCEPT ![w] = None]
      /\ stackQueue' = [stackQueue EXCEPT ![w] = None]
      /\ warpIndex'[t] = stack[t][1].warp
      /\ pc'[t] = "yielded"
      /\ args' = args /\ frame' = frame /\ stack' = stack
    BY <1>2, <1>3 DEF YieldLeave, Goto, activation, Typed, LocalTyped, ActivationTyped
<1>5. \A i \in DOMAIN stack[t] : stack[t][i].warp # w
    BY <1>2, EntryFields DEF Entries
<1>6. StackOK(t)'
    BY <1>4, <1>5, StackStays, EntryFields DEF NestedAt, Typed, WarpsTyped
<1>7. Point(t)' = args[t].yieldRet
    BY <1>4 DEF Point, FlushLabels
<1>8. 1 \in DOMAIN stack[t]
    BY <1>1, HeadType, EmptySeq, LenProperties DEF Typed, ActivationTyped
<1>9. Mine(t, warpIndex[t])'
    BY <1>4, <1>6, <1>8 DEF StackOK
<1>10. ArgsOK(t)'
    BY <1>1, <1>4, <1>7 DEF ArgsOK, CallPoints, FlushLabels, Releasing
<1>11. ActivationOK(t)'
  <2>1. ~Holds(t)'
      BY <1>1, <1>7 DEF Holds, Guarded, Directed
  <2> QED
      BY <1>1, <1>4, <1>7, <2>1
         DEF NestedAt, ActivationOK, Stands, Guarded, Directed, Releasing
<1> QED
    BY <1>6, <1>9, <1>10, <1>11 DEF NestedAt

(* The rest of YieldExecution, when the warp has been left.                  *)
LEMMA YieldReflushNested ==
    ASSUME NEW t \in Threads, Typed, NestedAt(t), YieldReflush(t)
    PROVE  NestedAt(t)'
<1>1. Inside(t) /\ frame' = frame
    BY DEF YieldReflush, activation, Inside
<1>2. /\ Point(t) = args[t].yieldRet /\ Point(t) \in CallPoints /\ args[t].yield # None
      /\ Point(t) \in Releasing \cup {"release"} => args[t].releaseRet = "return"
    BY DEF YieldReflush, Point, FlushLabels, NestedAt, ArgsOK
<1>3. /\ \/ pc'[t] = "flush" /\ args'[t].flush = args[t].yield /\ args'[t].flushRet = Point(t)
         \/ pc'[t] = Point(t)
      /\ args'[t].releaseRet = args[t].releaseRet
  <2>1. args[t] \in ArgsType
      BY DEF Typed, LocalTyped
  <2>2. CASE YieldReturns(t)
    <3>1. pc'[t] = Point(t)
        BY <1>2, <2>2 DEF YieldReturns, Goto, Typed, LocalTyped
    <3>2. args'[t] = [args[t] EXCEPT !.yield = None, !.yieldRet = "poll"]
        BY <2>2 DEF YieldReturns, Typed, LocalTyped
    <3> QED
        BY <2>1, <3>1, <3>2 DEF ArgsType
  <2>3. CASE /\ Goto(t, "flush")
             /\ args' = [args EXCEPT ![t].yield = None, ![t].yieldRet = "poll",
                                     ![t].flush = args[t].yield, ![t].flushRet = args[t].yieldRet]
    <3>1. pc'[t] = "flush"
        BY <2>3 DEF Goto, Typed, LocalTyped
    <3>2. args'[t] = [args[t] EXCEPT !.yield = None, !.yieldRet = "poll",
                                     !.flush = args[t].yield, !.flushRet = args[t].yieldRet]
        BY <2>3 DEF Typed, LocalTyped
    <3> QED
        BY <1>2, <2>1, <3>1, <3>2 DEF ArgsType
  <2> QED
      BY <2>2, <2>3 DEF YieldReflush
<1>4. Point(t)' = Point(t)
    BY <1>2, <1>3 DEF Point, FlushLabels, CallPoints
<1>5. ArgsOK(t)'
    BY <1>2, <1>3, <1>4 DEF ArgsOK, FlushLabels, CallPoints
<1>6. frame[t].task # None \/ Point(t) \notin {"invoke", "body", "directed"}
    BY DEF NestedAt, ActivationOK
<1>7. ActivationOK(t)' /\ Mine(t, warpIndex[t])' /\ StackOK(t)'
    BY <1>1, <1>4, <1>6, InsideNested
<1> QED
    BY <1>5, <1>7 DEF NestedAt

(* Execute, on the way through: it does not begin in a warp of its own.      *)
LEMMA GuardsApart ==
    ASSUME NEW t \in Threads, Typed, NestedAt(t), pc[t] = "guard"
    PROVE  warpIndex[t] = None /\ frame[t].queue \in Warps
<1>1. Len(stack[t]) = 1 /\ stack[t] # <<>> /\ frame[t].queue \in Warps
    BY InExecuteLabels DEF ExecuteLabels, Guarded
<1>2. ~Holds(t)
    BY DEF Holds, Point, FlushLabels, Guarded, Directed
<1>3. warpIndex[t] = stack[t][1].warp
    BY <1>1, <1>2 DEF NestedAt, ActivationOK, Stands
<1>4. 1 \in DOMAIN stack[t]
    BY <1>1, LenProperties DEF Typed, ActivationTyped
<1>5. stack[t][1].warp = None
    BY <1>1, <1>4 DEF NestedAt, StackOK, EntryOK
<1> QED
    BY <1>1, <1>3, <1>5

(* The plain steps of Execute, with the guard or without it.                 *)
LEMMA PlainNested ==
    ASSUME NEW t \in Threads, Typed, NestedAt(t), PlainExecute(t)
    PROVE  NestedAt(t)'
<1> USE DEF PlainExecute, EnterSuspended, Enter, GuardOwn, GuardRecheck, ExecuteRecheck,
            ExecuteRequeue, ExecuteBegin, Invoke, InvokeReturn, ExecuteEnd
<1>1. Inside(t) /\ frame' = frame
    BY DEF Inside, warpState, activation
<1>2. pc[t] \in ExecuteLabels /\ Point(t) = pc[t]
    BY DEF ExecuteLabels, Guarded, Point, FlushLabels
<1>3. /\ stack[t] # <<>> /\ frame[t].queue \in Warps /\ frame[t].queue # None
      /\ pc[t] \in Guarded => /\ frame[t].guard = frame[t].queue
                              /\ threadWarp[frame[t].queue] = t
    BY <1>2, InExecuteLabels, NoneApart
<1>4. args[t] \in ArgsType
    BY DEF Typed, LocalTyped
<1>5. frame[t].task # None \/ Point(t) \notin {"invoke", "body", "directed"}
    BY DEF NestedAt, ActivationOK
<1>6. CASE ExecuteReleases(t) /\ pc[t] \notin Guarded
  <2>1. pc'[t] = "release" /\ args'[t] = [args[t] EXCEPT !.releaseRet = "return"]
      BY <1>6 DEF ExecuteReleases, Goto, Typed, LocalTyped
  <2>2. args'[t].releaseRet = "return" /\ Point(t)' = "release"
      BY <1>4, <2>1 DEF ArgsType, Point, FlushLabels
  <2>3. ArgsOK(t)'
      BY <2>1, <2>2 DEF ArgsOK, FlushLabels
  <2>4. Point(t) \in Free
      BY <1>2, <1>6 DEF ExecuteLabels, Free
  <2> QED
      BY <1>1, <1>3, <2>2, <2>3, <2>4, InsideNested DEF NestedAt, Free
<1>7. CASE /\ pc[t] \in Guarded /\ Goto(t, "yield")
           /\ args' = [args EXCEPT ![t] = [args[t] EXCEPT !.yield = frame[t].queue, !.yieldRet = "release",
                                                          !.releaseRet = "return"]]
  <2>1. /\ pc'[t] = "yield"
        /\ args'[t] = [args[t] EXCEPT !.yield = frame[t].queue, !.yieldRet = "release",
                                      !.releaseRet = "return"]
      BY <1>7 DEF Goto, Typed, LocalTyped
  <2>2. /\ args'[t].yield = frame[t].queue /\ args'[t].yieldRet = "release"
        /\ args'[t].releaseRet = "return"
      BY <1>4, <2>1 DEF ArgsType
  <2>3. Point(t)' = "yield"
      BY <2>1 DEF Point, FlushLabels
  <2>4. ArgsOK(t)'
      BY <1>1, <1>3, <1>7, <2>1, <2>2, <2>3 DEF ArgsOK, FlushLabels, Releasing
  <2> QED
      BY <1>1, <1>2, <1>3, <1>7, <2>3, <2>4, InsideNested DEF NestedAt, Guarded
<1>8. CASE /\ UNCHANGED args
           /\ \/ pc[t] = "enter" /\ Goto(t, "guard")
              \/ pc[t] \in Guarded /\ \E l \in Guarded \ {"yield"} :
                    Goto(t, l) /\ (l \in {"invoke", "body"} => Point(t) = "invoke")
  <2>1. /\ args'[t] = args[t]
        /\ \/ pc[t] = "enter" /\ pc'[t] = "guard"
           \/ /\ pc[t] \in Guarded /\ pc'[t] \in Guarded \ {"yield"}
              /\ pc'[t] \in {"invoke", "body"} => Point(t) = "invoke"
      BY <1>8 DEF Goto, Typed, LocalTyped
  <2>2. Point(t)' = pc'[t]
      BY <2>1 DEF Point, FlushLabels, Guarded
  <2>3. ArgsOK(t)'
      BY <2>1, <2>2 DEF ArgsOK, FlushLabels, Releasing, Guarded
  <2>4. Point(t)' \in {"invoke", "body", "directed"} => frame'[t].task # None
      BY <1>1, <1>5, <2>1, <2>2 DEF Guarded
  <2>5. {Point(t)', Point(t)} \subseteq Guarded \/ {Point(t)', Point(t)} \subseteq Free
      BY <1>2, <2>1, <2>2 DEF Free
  <2> QED
      BY <1>1, <1>3, <2>3, <2>4, <2>5, InsideNested DEF NestedAt
<1>9. pc[t] = "guard" => warpIndex[t] # frame[t].queue
    BY GuardsApart, NoneApart
<1>10. LeaveGuard(t) /\ pc[t] \in Guarded =>
          /\ Goto(t, "yield")
          /\ args' = [args EXCEPT ![t] = [args[t] EXCEPT !.yield = frame[t].queue, !.yieldRet = "release",
                                                         !.releaseRet = "return"]]
    BY <1>3 DEF LeaveGuard
<1>11. pc[t] \in {"guarded", "begin", "requeue", "flushing", "scan", "invoke", "invoked", "end"}
          => pc[t] \in Guarded
    BY DEF Guarded
<1>12. CASE EnterSuspended(t)
    BY <1>6, <1>12 DEF Guarded
<1>13. CASE Enter(t) \/ GuardOwn(t)
    BY <1>8, <1>9, <1>13
<1>14. CASE GuardRecheck(t)
    BY <1>7, <1>8, <1>10, <1>11, <1>14 DEF Guarded
<1>15. CASE ExecuteRecheck(t) \/ ExecuteBegin(t)
    BY <1>8, <1>11, <1>15 DEF Guarded
<1>16. CASE ExecuteRequeue(t)
    BY <1>7, <1>10, <1>11, <1>16
<1>17. CASE Invoke(t) \/ InvokeReturn(t)
    BY <1>2, <1>8, <1>11, <1>17 DEF Guarded
<1>18. CASE ExecuteEnd(t)
    BY <1>3, <1>7, <1>11, <1>18
<1> QED
    BY <1>12, <1>13, <1>14, <1>15, <1>16, <1>17, <1>18

(* A warp that is free is none of those a thread is in.                      *)
LEMMA FreeWarp ==
    ASSUME NEW t \in Threads, Typed, NestedAt(t), NEW w \in Warps, threadWarp[w] = None
    PROVE  warpIndex[t] # w /\ \A i \in DOMAIN stack[t] : stack[t][i].warp # w
BY NoneApart DEF NestedAt, StackOK, Mine

(* The guard preempts a warp that no activation of the thread is in.         *)
LEMMA GuardNested ==
    ASSUME NEW t \in Threads, Typed, NestedAt(t), Guard(t)
    PROVE  NestedAt(t)'
<1> DEFINE w == frame[t].queue
<1>1. /\ pc[t] = "guard" /\ Point(t) = "guard" /\ stack[t] # <<>> /\ Len(stack[t]) = 1
      /\ warpIndex[t] = None /\ w \in Warps /\ w # None
    BY GuardsApart, InExecuteLabels, NoneApart DEF Guard, Point, FlushLabels, ExecuteLabels
<1>2. CASE ExecuteReleases(t) /\ UNCHANGED <<threadWarp, stackQueue, warpIndex, frame>>
  <2>1. pc'[t] = "release" /\ args'[t] = [args[t] EXCEPT !.releaseRet = "return"]
      BY <1>2 DEF ExecuteReleases, Goto, Typed, LocalTyped
  <2>2. args'[t].releaseRet = "return" /\ Point(t)' = "release"
      BY <2>1 DEF Typed, LocalTyped, ArgsType, Point, FlushLabels
  <2>3. ArgsOK(t)'
      BY <2>1, <2>2 DEF ArgsOK, FlushLabels
  <2>4. Inside(t)
      BY <1>2 DEF Guard, Inside
  <2> QED
      BY <1>1, <2>2, <2>3, <2>4, InsideNested DEF NestedAt, Free
<1>3. CASE Preempt(t, w) /\ frame' = [frame EXCEPT ![t].guard = w] /\ Goto(t, "guarded") /\ UNCHANGED args
  <2>1. /\ threadWarp[w] = None /\ threadWarp' = [threadWarp EXCEPT ![w] = t]
        /\ stackQueue' = [stackQueue EXCEPT ![w] = None]
        /\ warpIndex'[t] = w /\ pc'[t] = "guarded" /\ args'[t] = args[t] /\ stack' = stack
        /\ frame'[t].guard = w /\ frame'[t].queue = w
      BY <1>1, <1>3, FrameFields
         DEF Guard, Preempt, Goto, Typed, LocalTyped, ActivationTyped, FrameType
  <2>2. \A i \in DOMAIN stack[t] : stack[t][i].warp # w
      BY <1>1, <2>1, FreeWarp
  <2>3. StackOK(t)'
      BY <2>1, <2>2, StackStays, EntryFields DEF NestedAt, Typed, WarpsTyped
  <2>4. Mine(t, warpIndex[t])'
      BY <1>1, <2>1 DEF Mine, Typed, WarpsTyped
  <2>5. Point(t)' = "guarded" /\ Holds(t)'
      BY <1>1, <2>1 DEF Point, FlushLabels, Holds, Guarded
  <2>6. stack[t][1].warp = None
    <3>1. ~Holds(t)
        BY <1>1 DEF Holds, Guarded, Directed
    <3> QED
        BY <1>1, <3>1 DEF NestedAt, ActivationOK, Stands
  <2>7. \A s \in Entries(t, 1)' : s.warp # w
      BY <2>1, <2>2, EntryFields, LenProperties DEF Entries, Typed, ActivationTyped
  <2>8. stackQueue'[w] = None
      BY <1>1, <2>1 DEF Typed, WarpsTyped
  <2>9. ActivationOK(t)'
      BY <1>1, <2>1, <2>5, <2>6, <2>7, <2>8 DEF ActivationOK, Stands, Guarded
  <2>10. ArgsOK(t)'
      BY <2>1, <2>5 DEF ArgsOK, FlushLabels, Releasing
  <2> QED
      BY <2>3, <2>4, <2>9, <2>10 DEF NestedAt
<1> QED
    BY <1>2, <1>3 DEF Guard

(* OnOperation stays in the warp.                                            *)
LEMMA ScanNested ==
    ASSUME NEW t \in Threads, Typed, NestedAt(t), Pop(t) \/ NextRing(t) \/ NextPass(t)
    PROVE  NestedAt(t)'
<1> DEFINE f == frame[t]
           s == Rings[f.scan]
<1>1. f \in FrameType /\ f.queue \in Warps /\ f.queue # None
    BY InExecuteLabels, NoneApart
       DEF Pop, NextRing, NextPass, Typed, ActivationTyped, ExecuteLabels, Guarded
<1>2. pc[t] = "scan" /\ Point(t) = "scan" /\ stack[t] # <<>>
    BY InExecuteLabels DEF Pop, NextRing, NextPass, Point, FlushLabels, ExecuteLabels, Guarded
<1>3. /\ args'[t] = args[t]
      /\ pc'[t] \in {"invoke", "scan", "end"} /\ Point(t)' = pc'[t]
  <2>1. /\ args'[t] = args[t] /\ pc'[t] \in {"invoke", "scan", "end"}
      BY <1>2 DEF Pop, NextRing, NextPass, Goto, Typed, LocalTyped
  <2> QED
      BY <2>1 DEF Point, FlushLabels
<1>4. /\ frame'[t].queue = f.queue /\ frame'[t].guard = f.guard
      /\ pc'[t] = "invoke" => frame'[t].task # None
  <2>1. CASE Pop(t)
    <3>1. s \in Threads
      <4>1. f.scan \in 1 .. Len(Rings)
        <5>1. f.scan <= Len(Rings)
            BY <2>1 DEF Pop
        <5>2. f.scan \in 1 .. Len(Rings) + 1 /\ Len(Rings) \in Nat
            BY <1>1, FrameFields, IdleType
        <5> QED
            BY <5>1, <5>2
      <4> QED
          BY <4>1, KernelAssumption, ElementOfSeq
    <3>2. Head(ring[f.queue][s]) \in Tasks
        BY ZenonT(60), <1>1, <2>1, <3>1, HeadTailProperties DEF Pop, Typed, WarpsTyped
    <3>3. frame'[t] = [f EXCEPT !.task = Head(ring[f.queue][s]), !.executed = TRUE]
        BY <2>1 DEF Pop, Typed, ActivationTyped
    <3> QED
        BY <1>1, <3>2, <3>3, NoneApart DEF FrameType
  <2>2. CASE NextRing(t) \/ NextPass(t)
    <3>1. \/ frame'[t] = [f EXCEPT !.scan = f.scan + 1]
          \/ frame'[t] = [f EXCEPT !.scan = 1, !.executed = FALSE]
        BY <2>2 DEF NextRing, NextPass, Typed, ActivationTyped
    <3>2. pc'[t] # "invoke"
        BY <1>2, <2>2 DEF NextRing, NextPass, Goto, Typed, LocalTyped
    <3> QED
        BY <1>1, <3>1, <3>2 DEF FrameType
  <2> QED
      BY <2>1, <2>2
<1>5. Inside(t)
    BY <1>2, <1>4 DEF Pop, NextRing, NextPass, Inside, warpState
<1>6. ArgsOK(t)'
    BY <1>3 DEF ArgsOK, FlushLabels, Releasing
<1> QED
    BY <1>1, <1>2, <1>3, <1>4, <1>5, <1>6, InsideNested DEF NestedAt, Guarded

(* What a call of Flush does with the arguments.                             *)
LEMMA CallFlushArgs ==
    ASSUME NEW t \in Threads, Typed, NEW w \in Warps, NEW l \in CallPoints \ {"release", "unmask"},
           CallFlush(t, w, l)
    PROVE  Point(t)' = l /\ ArgsOK(t)'
<1>1. pc'[t] = "flush" /\ args'[t] = FlushArgs(t, w, l)
    BY DEF CallFlush, Goto, Typed, LocalTyped
<1>2. args'[t].flush = w /\ args'[t].flushRet = l
    BY <1>1 DEF FlushArgs, Typed, LocalTyped, ArgsType
<1>3. Point(t)' = l
    BY <1>1, <1>2 DEF Point, FlushLabels
<1> QED
    BY <1>1, <1>2, <1>3, NoneApart DEF ArgsOK, FlushLabels, CallPoints, Releasing

(* A task that is forwarded, or is queued after all.                         *)
LEMMA ForwardNested ==
    ASSUME NEW t \in Threads, Typed, NestedAt(t), Forward(t)
    PROVE  NestedAt(t)'
<1>1. pc[t] = "invoke" /\ Point(t) = "invoke" /\ frame[t].task # None /\ stack[t] # <<>>
    BY DEF Forward, Point, FlushLabels, NestedAt, ActivationOK
<1>2. frame[t] \in FrameType /\ frame[t].task \in Tasks /\ home[frame[t].task] \in Warps /\ frame[t].queue # None
    BY ZenonT(60), <1>1, FrameFields, InExecuteLabels, NoneApart
       DEF ExecuteLabels, Guarded, Typed, ActivationTyped, KernelTyped
<1>3. frame'[t] = [frame[t] EXCEPT !.task = None]
    BY DEF Forward, Typed, ActivationTyped
<1>4. frame'[t].queue = frame[t].queue /\ frame'[t].guard = frame[t].guard
    BY <1>2, <1>3 DEF FrameType
<1>5. Inside(t)
    BY <1>1, <1>4 DEF Forward, Inside
<1>6. Point(t)' = "invoked" /\ ArgsOK(t)'
    BY <1>2, CallFlushArgs DEF Forward, CallPoints
<1> QED
    BY <1>1, <1>2, <1>5, <1>6, InsideNested DEF NestedAt, Guarded

(* Execute and QueueRoutine leave the stack as they have found it.           *)
LEMMA ReturnNested ==
    ASSUME NEW t \in Threads, Typed, NestedAt(t), Return(t)
    PROVE  NestedAt(t)'
<1> DEFINE s == stack[t]
<1>1. Point(t) = "return" /\ s # <<>> /\ ~Holds(t)
    BY DEF Return, NestedAt, ActivationOK, Point, FlushLabels, Holds, Guarded, Directed
<1>2. /\ s \in Seq(EntryType) /\ Len(s) \in Nat \ {0} /\ DOMAIN s = 1 .. Len(s) /\ 1 \in DOMAIN s
    BY <1>1, EmptySeq, LenProperties DEF Typed, ActivationTyped
<1>3. /\ Tail(s) \in Seq(EntryType) /\ Len(Tail(s)) = Len(s) - 1
      /\ \A i \in 1 .. Len(s) - 1 : Tail(s)[i] = s[i + 1]
      /\ DOMAIN Tail(s) = 1 .. Len(s) - 1
    BY <1>1, <1>2, HeadTailProperties, LenProperties
<1>4. /\ stack'[t] = Tail(s) /\ frame'[t] = s[1].frame /\ pc'[t] = s[1].pc
      /\ args'[t] = NoArgs /\ warpIndex'[t] = warpIndex[t]
      /\ UNCHANGED <<threadWarp, stackQueue>>
    BY <1>1, HeadType DEF Return, Goto, Typed, LocalTyped, ActivationTyped, warpState
<1>5. warpIndex[t] = s[1].warp
    BY <1>1 DEF NestedAt, ActivationOK, Stands
<1>6. ASSUME NEW i \in 1 .. Len(s)
      PROVE  Entries(t, i)' = Entries(t, i + 1)
  <2>1. \A j \in i .. Len(s) - 1 : Tail(s)[j] = s[j + 1]
      BY <1>3
  <2>2. Entries(t, i)' = {Tail(s)[j] : j \in i .. Len(s) - 1}
      BY <1>3, <1>4 DEF Entries
  <2>3. Entries(t, i + 1) = {s[j] : j \in i + 1 .. Len(s)}
      BY DEF Entries
  <2>4. ASSUME NEW j \in i + 1 .. Len(s)
        PROVE  \E k \in i .. Len(s) - 1 : s[j] = Tail(s)[k]
    <3>1. j - 1 \in i .. Len(s) - 1 /\ j = (j - 1) + 1
        BY <1>2
    <3> QED
        BY <2>1, <3>1
  <2>5. ASSUME NEW k \in i .. Len(s) - 1
        PROVE  \E j \in i + 1 .. Len(s) : Tail(s)[k] = s[j]
    <3>1. k + 1 \in i + 1 .. Len(s)
        BY <1>2
    <3> QED
        BY <2>1, <3>1
  <2>6. {Tail(s)[j] : j \in i .. Len(s) - 1} \subseteq {s[j] : j \in i + 1 .. Len(s)}
      BY <2>5
  <2>7. {s[j] : j \in i + 1 .. Len(s)} \subseteq {Tail(s)[j] : j \in i .. Len(s) - 1}
      BY <2>4
  <2> QED
      BY <2>2, <2>3, <2>6, <2>7
<1>7. StackOK(t)'
  <2> SUFFICES ASSUME NEW i \in 1 .. Len(s) - 1
               PROVE  EntryOK(t, i)' /\ Mine(t, stack[t][i].warp)'
      BY <1>3, <1>4 DEF StackOK
  <2>1. i + 1 \in DOMAIN s /\ stack'[t][i] = s[i + 1]
      BY <1>2, <1>3, <1>4
  <2>2. EntryOK(t, i + 1) /\ Mine(t, s[i + 1].warp)
      BY <2>1 DEF NestedAt, StackOK
  <2>3. Mine(t, stack[t][i].warp)'
      BY <1>4, <2>1, <2>2 DEF Mine
  <2>4. EntryOK(t, i)'
    <3>1. Len(stack'[t]) = Len(s) - 1
        BY <1>3, <1>4
    <3>2. CASE i = Len(s) - 1
        BY <1>2, <2>1, <2>2, <3>1, <3>2 DEF EntryOK
    <3>3. CASE i # Len(s) - 1
      <4>1. i + 1 \in 1 .. Len(s) - 1 /\ i + 1 # Len(s) /\ i + 1 \in 1 .. Len(s)
          BY <1>2, <3>3
      <4>2. stack'[t][i + 1] = s[i + 1 + 1] /\ Entries(t, i + 1)' = Entries(t, i + 1 + 1)
          BY <1>3, <1>4, <1>6, <4>1
      <4>3. i + 1 + 1 = Len(s) => i + 1 = Len(s) - 1
          BY <1>2
      <4> QED
          BY <1>4, <2>1, <2>2, <3>1, <3>3, <4>1, <4>2, <4>3 DEF EntryOK, Stands
    <3> QED
        BY <3>2, <3>3
  <2> QED
      BY <2>3, <2>4
<1>8. EntryOK(t, 1)
    BY <1>2 DEF NestedAt, StackOK
<1>9. Point(t)' = s[1].pc /\ s[1].pc \in {"poll", "body"}
  <2>1. s[1].pc \in {"poll", "body"}
      BY <1>8 DEF EntryOK
  <2> QED
      BY <1>4, <2>1 DEF Point, FlushLabels
<1>10. ActivationOK(t)'
  <2>1. CASE Len(s) = 1
    <3>1. s[1] = [frame |-> Idle, pc |-> "poll", warp |-> None]
        BY <1>8, <2>1 DEF EntryOK
    <3>2. stack'[t] = <<>>
        BY <1>2, <1>3, <1>4, <2>1, EmptySeq
    <3>3. s[1].frame = Idle /\ s[1].pc = "poll" /\ s[1].warp = None
        BY <3>1
    <3> QED
        BY <1>4, <1>5, <1>9, <3>2, <3>3 DEF ActivationOK
  <2>2. CASE Len(s) # 1
    <3>1. /\ s[1].pc = "body" /\ s[1].frame.task # None
          /\ s[1].frame.queue # None => s[1].frame.guard = s[1].frame.queue /\ 1 + 1 = Len(s)
          /\ Stands(s[1].frame.guard, s[1].warp, s[1 + 1].warp, Entries(t, 1 + 1))
        BY <1>8, <2>2 DEF EntryOK
    <3>2. 1 \in 1 .. Len(s) - 1 /\ stack'[t][1] = s[1 + 1] /\ stack'[t] # <<>>
      <4>1. 1 \in 1 .. Len(s) - 1 /\ Len(Tail(s)) # 0
        <5>1. ASSUME NEW n \in Nat \ {0}, n # 1
              PROVE  1 \in 1 .. n - 1 /\ n - 1 # 0
            BY <5>1
        <5>2. Len(s) \in Nat \ {0} /\ Len(s) # 1
            BY <1>2, <2>2
        <5>3. 1 \in 1 .. Len(s) - 1 /\ Len(s) - 1 # 0
            BY <5>1, <5>2
        <5> QED
            BY <1>3, <5>3
      <4>2. ASSUME NEW r, Len(r) # 0
            PROVE  r # <<>>
          BY <4>2, EmptySeq
      <4>3. Tail(s) # <<>>
          BY <4>1, <4>2
      <4> QED
          BY <1>3, <1>4, <4>1, <4>3
    <3>3. Entries(t, 1)' = Entries(t, 1 + 1)
        BY <1>2, <1>6
    <3>4. (IF Holds(t)' THEN frame'[t].guard ELSE None) = s[1].frame.guard
        BY <1>4, <1>9, <3>1 DEF Holds, Guarded
    <3>5. s[1].frame.queue # None => Len(stack'[t]) = 1
        BY <1>2, <1>3, <1>4, <3>1
    <3>6. Point(t)' \in Directed /\ Point(t)' \in Guarded
        BY <1>9, <3>1 DEF Guarded, Directed
    <3>7. Stands(IF Holds(t) THEN frame[t].guard ELSE None, warpIndex[t], stack[t][1].warp, Entries(t, 1))'
        BY <1>4, <1>5, <3>1, <3>2, <3>3, <3>4 DEF Stands
    <3> QED
        BY <1>4, <3>1, <3>2, <3>5, <3>6, <3>7 DEF ActivationOK
  <2> QED
      BY <2>1, <2>2
<1>11. ArgsOK(t)'
  <2>1. pc'[t] \in {"poll", "body"}
      BY <1>4, <1>9
  <2> QED
      BY <1>4, <1>9, <2>1 DEF ArgsOK, FlushLabels, Releasing
<1>12. Mine(t, warpIndex[t])'
    BY <1>2, <1>4, <1>5 DEF NestedAt, StackOK, Mine
<1> QED
    BY <1>7, <1>10, <1>11, <1>12 DEF NestedAt

(* A new activation leaves the one it interrupts as an entry.                *)
LEMMA PushNested ==
    ASSUME NEW t \in Threads, Typed, NestedAt(t), pc[t] \in {"poll", "body"},
           NEW f \in FrameType, Activate(t, f, pc[t]), Keeps(t)
    PROVE  /\ StackOK(t)'
           /\ stack'[t] # <<>> /\ stack'[t][1].warp = warpIndex[t]
           /\ Len(stack'[t]) = Len(stack[t]) + 1
           /\ \A s \in Entries(t, 1)' :
                s.warp = warpIndex[t] \/ \E i \in DOMAIN stack[t] : s = stack[t][i]
<1> DEFINE s == stack[t]
           e == [frame |-> frame[t], pc |-> pc[t], warp |-> warpIndex[t]]
<1>1. s \in Seq(EntryType) /\ Len(s) \in Nat /\ DOMAIN s = 1 .. Len(s)
    BY LenProperties DEF Typed, ActivationTyped
<1>2. e \in EntryType
    BY DEF Typed, LocalTyped, ActivationTyped, EntryType
<1>3. stack'[t] = <<e>> \o s
    BY DEF Activate, Typed, ActivationTyped
<1>4. <<e>> \in Seq(EntryType) /\ Len(<<e>>) = 1 /\ <<e>>[1] = e
    BY <1>2
<1>5. /\ stack'[t] \in Seq(EntryType) /\ Len(stack'[t]) = Len(s) + 1
      /\ stack'[t][1] = e
      /\ \A i \in 1 .. Len(s) : stack'[t][i + 1] = s[i]
  <2> HIDE DEF e
  <2>1. \A i \in 1 .. 1 + Len(s) : (<<e>> \o s)[i] = IF i <= 1 THEN <<e>>[i] ELSE s[i - 1]
      BY <1>1, <1>4, ConcatProperties
  <2>2. <<e>> \o s \in Seq(EntryType) /\ Len(<<e>> \o s) = 1 + Len(s)
      BY <1>1, <1>4, ConcatProperties
  <2>3. ASSUME NEW i \in 1 .. Len(s)
        PROVE  (<<e>> \o s)[i + 1] = s[i]
    <3>1. i + 1 \in 1 .. 1 + Len(s) /\ ~(i + 1 <= 1) /\ (i + 1) - 1 = i
        BY <1>1
    <3> QED
        BY <2>1, <3>1
  <2>4. (<<e>> \o s)[1] = e
      BY <1>1, <1>4, <2>1
  <2> QED
      BY <1>1, <1>3, <2>2, <2>3, <2>4
<1>6. stack'[t] # <<>>
  <2>1. Len(stack'[t]) # 0
      BY <1>1, <1>5
  <2> QED
      BY <2>1, EmptySeq
<1>7. DOMAIN stack'[t] = 1 .. Len(s) + 1
    BY <1>5, LenProperties
<1>8. \A r \in Entries(t, 1)' : r.warp = warpIndex[t] \/ \E i \in DOMAIN s : r = s[i]
  <2> SUFFICES ASSUME NEW j \in 1 .. Len(s) + 1
               PROVE  stack'[t][j].warp = warpIndex[t] \/ \E i \in DOMAIN s : stack'[t][j] = s[i]
      BY <1>5 DEF Entries
  <2>1. CASE j = 1
      BY <1>5, <2>1
  <2>2. CASE j # 1
    <3>1. j - 1 \in 1 .. Len(s) /\ j = (j - 1) + 1
        BY <1>1, <2>2
    <3> QED
        BY <1>1, <1>5, <3>1
  <2> QED
      BY <2>1, <2>2
<1>9. ASSUME NEW i \in 1 .. Len(s) + 1
      PROVE  Entries(t, i + 1)' = Entries(t, i)
  <2>1. Entries(t, i + 1)' = {stack'[t][j] : j \in i + 1 .. Len(s) + 1}
      BY <1>5 DEF Entries
  <2>2. ASSUME NEW j \in i + 1 .. Len(s) + 1
        PROVE  \E k \in i .. Len(s) : stack'[t][j] = s[k]
    <3>1. j - 1 \in i .. Len(s) /\ j - 1 \in 1 .. Len(s) /\ j = (j - 1) + 1
        BY <1>1
    <3> QED
        BY <1>5, <3>1
  <2>3. ASSUME NEW k \in i .. Len(s)
        PROVE  \E j \in i + 1 .. Len(s) + 1 : s[k] = stack'[t][j]
    <3>1. k + 1 \in i + 1 .. Len(s) + 1 /\ k \in 1 .. Len(s)
        BY <1>1
    <3> QED
        BY <1>5, <3>1
  <2>4. {stack'[t][j] : j \in i + 1 .. Len(s) + 1} \subseteq {s[k] : k \in i .. Len(s)}
      BY <2>2
  <2>5. {s[k] : k \in i .. Len(s)} \subseteq {stack'[t][j] : j \in i + 1 .. Len(s) + 1}
      BY <2>3
  <2> QED
      BY <2>1, <2>4, <2>5 DEF Entries
<1>10. Point(t) = pc[t]
    BY DEF Point, FlushLabels
<1>11. \A w \in Warps \cup {None} : Mine(t, w) => Mine(t, w)' /\ (w # None => stackQueue'[w] = stackQueue[w])
    BY DEF Mine, Keeps
<1>12. EntryOK(t, 1)' /\ Mine(t, stack[t][1].warp)'
  <2>1. Mine(t, stack[t][1].warp)'
      BY <1>5, <1>11 DEF NestedAt, Typed, ActivationTyped, Mine
  <2>2. CASE s = <<>>
    <3>1. Point(t) = "poll" /\ warpIndex[t] = None /\ frame[t] = Idle /\ Len(s) = 0
        BY <2>2, EmptySeq DEF NestedAt, ActivationOK
    <3> QED
        BY <1>5, <1>10, <2>1, <3>1 DEF EntryOK
  <2>3. CASE s # <<>>
    <3>1. Len(s) # 0 /\ 1 \in 1 .. Len(s)
        BY <1>1, <2>3, EmptySeq
    <3>2. pc[t] = "body" /\ frame[t].task # None
        BY <1>10, <2>3 DEF NestedAt, ActivationOK, Guarded, Directed, Releasing
    <3>3. frame[t].queue # None => frame[t].guard = frame[t].queue /\ 1 + 1 = Len(stack'[t])
        BY <1>1, <1>5, <1>10, <2>3, <3>2 DEF NestedAt, ActivationOK, Guarded
    <3>4. Stands(frame[t].guard, warpIndex[t], s[1].warp, Entries(t, 1))
      <4>1. (IF Holds(t) THEN frame[t].guard ELSE None) = frame[t].guard
          BY <1>10, <3>2 DEF Holds, Guarded
      <4> QED
          BY <2>3, <4>1 DEF NestedAt, ActivationOK
    <3>5. stack'[t][1 + 1] = s[1] /\ Entries(t, 1 + 1)' = Entries(t, 1)
        BY <1>1, <1>5, <1>9, <3>1
    <3>6. frame[t].guard # None => stackQueue'[frame[t].guard] = stackQueue[frame[t].guard]
        BY <1>11, <3>4, FrameFields DEF Stands, NestedAt, Typed, ActivationTyped
    <3>7. 1 # Len(stack'[t])
        BY <1>1, <1>5, <3>1
    <3> QED
        BY <1>5, <2>1, <3>2, <3>3, <3>4, <3>5, <3>6, <3>7 DEF EntryOK, Stands
  <2> QED
      BY <2>2, <2>3
<1>13. ASSUME NEW i \in 1 .. Len(s)
       PROVE  EntryOK(t, i + 1)' /\ Mine(t, stack[t][i + 1].warp)'
  <2>1. EntryOK(t, i) /\ Mine(t, s[i].warp) /\ stack'[t][i + 1] = s[i]
      BY <1>1, <1>5 DEF NestedAt, StackOK
  <2>2. s[i].warp \in Warps \cup {None} /\ s[i].frame.guard \in Warps \cup {None}
      BY <1>1, EntryFields
  <2>3. Mine(t, stack[t][i + 1].warp)'
      BY <1>11, <2>1, <2>2 DEF Mine
  <2>4. EntryOK(t, i + 1)'
    <3>1. CASE i = Len(s)
        BY <1>5, <2>1, <3>1 DEF EntryOK
    <3>2. CASE i # Len(s)
      <4>1. i + 1 \in 1 .. Len(s) /\ i + 1 # Len(stack'[t])
          BY <1>1, <1>5, <3>2
      <4>2. stack'[t][i + 1 + 1] = s[i + 1] /\ Entries(t, i + 1 + 1)' = Entries(t, i + 1)
          BY <1>1, <1>5, <1>9, <4>1
      <4>3. s[i].frame.guard # None => stackQueue'[s[i].frame.guard] = stackQueue[s[i].frame.guard]
          BY <1>11, <2>1, <2>2, <3>2 DEF EntryOK, Stands
      <4>4. i + 1 = Len(s) => i + 1 + 1 = Len(stack'[t])
          BY <1>5
      <4> QED
          BY <2>1, <3>2, <4>1, <4>2, <4>3, <4>4 DEF EntryOK, Stands
    <3> QED
        BY <3>1, <3>2
  <2> QED
      BY <2>3, <2>4
<1>14. StackOK(t)'
  <2> SUFFICES ASSUME NEW j \in 1 .. Len(s) + 1
               PROVE  EntryOK(t, j)' /\ Mine(t, stack[t][j].warp)'
      BY <1>7 DEF StackOK
  <2>1. CASE j = 1
      BY <1>12, <2>1
  <2>2. CASE j # 1
    <3>1. j - 1 \in 1 .. Len(s) /\ j = (j - 1) + 1
        BY <1>1, <2>2
    <3> QED
        BY <1>13, <3>1
  <2> QED
      BY <2>1, <2>2
<1> QED
    BY <1>5, <1>6, <1>8, <1>14

(* A worker takes a warp from the pool.                                      *)
LEMMA TakeNested ==
    ASSUME NEW t \in Threads, Typed, NestedAt(t), Take(t)
    PROVE  NestedAt(t)'
<1>1. PICK w \in pooled : Activate(t, [Idle EXCEPT !.queue = w], AfterPoll(t))
    BY DEF Take
<1>2. pc[t] = "poll" /\ AfterPoll(t) = "poll" /\ Point(t) = "poll"
    BY PollsAtTop DEF Take, Point, FlushLabels
<1>3. stack[t] = <<>> /\ warpIndex[t] = None /\ Len(stack[t]) = 0
    BY <1>2, EmptySeq DEF NestedAt, ActivationOK, Guarded, Directed, Releasing
<1>4. w \in Warps /\ w # None /\ [Idle EXCEPT !.queue = w] \in FrameType
    BY NoneApart, IdleType DEF Typed, KernelTyped, FrameType
<1>5. /\ StackOK(t)' /\ stack'[t] # <<>> /\ stack'[t][1].warp = warpIndex[t]
      /\ Len(stack'[t]) = 1
  <2>1. Keeps(t)
      BY DEF Take, Keeps, warpState
  <2>2. /\ StackOK(t)' /\ stack'[t] # <<>> /\ stack'[t][1].warp = warpIndex[t]
        /\ Len(stack'[t]) = Len(stack[t]) + 1
      BY <1>1, <1>2, <1>4, <2>1, PushNested
  <2>3. Len(stack'[t]) = 0 + 1
      BY <1>3, <2>2
  <2>4. 0 + 1 = 1
      OBVIOUS
  <2> QED
      BY <2>2, <2>3, <2>4
<1>6. /\ pc'[t] = "enter" /\ frame'[t].queue = w /\ warpIndex'[t] = None /\ Point(t)' = "enter"
      /\ frame'[t].guard = None
  <2>1. pc'[t] = "enter" /\ frame'[t] = [Idle EXCEPT !.queue = w] /\ warpIndex'[t] = None
      BY <1>1, <1>3 DEF Take, Activate, Goto, Typed, LocalTyped, ActivationTyped
  <2> QED
      BY <2>1 DEF Idle, Point, FlushLabels
<1>7. ActivationOK(t)'
    BY <1>3, <1>4, <1>5, <1>6 DEF ActivationOK, Stands, Holds, Guarded, Directed, Releasing
<1>8. ArgsOK(t)' /\ Mine(t, warpIndex[t])'
    BY <1>6 DEF ArgsOK, Mine, FlushLabels, Releasing
<1> QED
    BY <1>5, <1>7, <1>8 DEF NestedAt

(* A routine that runs at once, in the warp of the one that queues it or in  *)
(* another one.                                                              *)
LEMMA DirectNested ==
    ASSUME NEW t \in Threads, Typed, NestedAt(t), Direct(t)
    PROVE  NestedAt(t)'
<1>1. PICK x \in fresh :
          \/ /\ warpIndex[t] = home[x]
             /\ Activate(t, [Idle EXCEPT !.task = x], AfterPoll(t))
             /\ Goto(t, "body")
             /\ UNCHANGED <<threadWarp, stackQueue, warpIndex>>
          \/ /\ warpIndex[t] # home[x]
             /\ Preempt(t, home[x])
             /\ Activate(t, [Idle EXCEPT !.task = x, !.guard = home[x]], AfterPoll(t))
             /\ Goto(t, "directed")
    BY DEF Direct
<1> DEFINE w == home[x]
<1>2. x \in Tasks /\ x # None /\ w \in Warps /\ w # None
    BY NoneApart DEF Typed, HistoryTyped, KernelTyped
<1>3. pc[t] \in {"poll", "body"} /\ AfterPoll(t) = pc[t]
    BY PollsAtTop DEF Direct
<1>4. args'[t] = args[t]
    BY DEF Direct
<1>5. [Idle EXCEPT !.task = x] \in FrameType /\ [Idle EXCEPT !.task = x, !.guard = w] \in FrameType
    BY <1>2, FrameBegins
<1>6. CASE /\ Activate(t, [Idle EXCEPT !.task = x], AfterPoll(t)) /\ Goto(t, "body")
           /\ UNCHANGED <<threadWarp, stackQueue, warpIndex>>
  <2>1. StackOK(t)' /\ stack'[t] # <<>> /\ stack'[t][1].warp = warpIndex[t]
      BY <1>3, <1>5, <1>6, PushNested DEF Keeps
  <2>2. frame'[t] = [Idle EXCEPT !.task = x] /\ pc'[t] = "body"
      BY <1>6 DEF Activate, Goto, Typed, LocalTyped, ActivationTyped
  <2>3. frame'[t].task = x /\ frame'[t].guard = None /\ frame'[t].queue = None /\ Point(t)' = "body"
      BY <2>2 DEF Idle, Point, FlushLabels
  <2>4. ActivationOK(t)'
      BY <1>2, <1>6, <2>1, <2>3 DEF ActivationOK, Stands, Holds, Directed
  <2>5. ArgsOK(t)' /\ Mine(t, warpIndex[t])'
      BY <1>6, <2>2, <2>3 DEF NestedAt, ArgsOK, Mine, FlushLabels, Releasing
  <2> QED
      BY <2>1, <2>4, <2>5 DEF NestedAt
<1>7. CASE /\ Preempt(t, w)
           /\ Activate(t, [Idle EXCEPT !.task = x, !.guard = w], AfterPoll(t))
           /\ Goto(t, "directed")
  <2>1. threadWarp[w] = None /\ Keeps(t)
      BY <1>2, <1>7, NoneApart DEF Preempt, Keeps, Typed, WarpsTyped
  <2>2. /\ StackOK(t)' /\ stack'[t] # <<>> /\ stack'[t][1].warp = warpIndex[t]
        /\ \A s \in Entries(t, 1)' :
                s.warp = warpIndex[t] \/ \E i \in DOMAIN stack[t] : s = stack[t][i]
      BY <1>3, <1>5, <1>7, <2>1, PushNested
  <2>3. /\ threadWarp'[w] = t /\ stackQueue'[w] = warpIndex[t] /\ warpIndex'[t] = w
        /\ frame'[t] = [Idle EXCEPT !.task = x, !.guard = w] /\ pc'[t] = "directed"
      BY <1>2, <1>7 DEF Preempt, Activate, Goto, Typed, LocalTyped, ActivationTyped, WarpsTyped
  <2>4. frame'[t].task = x /\ frame'[t].guard = w /\ frame'[t].queue = None /\ Point(t)' = "directed"
      BY <2>3 DEF Idle, Point, FlushLabels
  <2>5. \A s \in Entries(t, 1)' : s.warp # w
      BY <1>2, <2>1, <2>2, FreeWarp
  <2>6. Holds(t)'
      BY <1>2, <2>4 DEF Holds, Directed
  <2>7. ActivationOK(t)'
      BY <1>2, <2>2, <2>3, <2>4, <2>5, <2>6 DEF ActivationOK, Stands, Directed
  <2>8. ArgsOK(t)' /\ Mine(t, warpIndex[t])'
      BY <2>3, <2>4 DEF ArgsOK, Mine, FlushLabels, Releasing
  <2> QED
      BY <2>2, <2>7, <2>8 DEF NestedAt
<1> QED
    BY <1>1, <1>6, <1>7

(* The steps that queue a routine.                                           *)
LEMMA QueueNested ==
    ASSUME NEW t \in Threads, Typed, NestedAt(t), QueueStep(t)
    PROVE  NestedAt(t)'
<1>1. CASE Post(t)
  <2>1. PICK x \in fresh : CallFlush(t, home[x], AfterPoll(t))
      BY <1>1 DEF Post
  <2>2. home[x] \in Warps
      BY DEF Typed, HistoryTyped, KernelTyped
  <2>3. pc[t] \in {"poll", "body"} /\ AfterPoll(t) = pc[t] /\ Point(t) = pc[t]
      BY <1>1, PollsAtTop DEF Post, Point, FlushLabels
  <2>4. Point(t)' = Point(t) /\ ArgsOK(t)'
      BY <2>1, <2>2, <2>3, CallFlushArgs DEF CallPoints
  <2>5. Inside(t) /\ frame' = frame
      BY <1>1 DEF Post, Inside, activation
  <2>6. frame[t].task # None \/ Point(t) \notin {"invoke", "body", "directed"}
      BY <2>3 DEF NestedAt, ActivationOK
  <2> QED
      BY <2>4, <2>5, <2>6, InsideNested DEF NestedAt
<1>2. CASE Direct(t)
    BY <1>2, DirectNested
<1>3. CASE DirectRecheck(t)
  <2>1. pc[t] = "directed" /\ Point(t) = "directed" /\ frame[t].task # None /\ stack[t] # <<>>
        /\ frame[t].queue = None
      BY <1>3 DEF DirectRecheck, Point, FlushLabels, NestedAt, ActivationOK, Guarded, Releasing
  <2>2. CASE Goto(t, "body") /\ UNCHANGED <<ring, frame, args>>
    <3>1. pc'[t] = "body" /\ args'[t] = args[t] /\ Inside(t) /\ Point(t)' = "body" /\ frame' = frame
        BY <1>3, <2>2 DEF DirectRecheck, Inside, Goto, Point, FlushLabels, Typed, LocalTyped
    <3>2. ArgsOK(t)'
        BY <3>1 DEF ArgsOK, FlushLabels, Releasing
    <3> QED
        BY <2>1, <3>1, <3>2, InsideNested DEF NestedAt, Directed
  <2>3. CASE /\ frame' = [frame EXCEPT ![t].task = None]
             /\ CallFlush(t, home[frame[t].task], "undirect")
    <3>1. frame[t] \in FrameType /\ home[frame[t].task] \in Warps
        BY <2>1, FrameFields DEF Typed, ActivationTyped, KernelTyped
    <3>2. frame'[t] = [frame[t] EXCEPT !.task = None]
        BY <2>3 DEF Typed, ActivationTyped
    <3>3. frame'[t].queue = frame[t].queue /\ frame'[t].guard = frame[t].guard
        BY <3>1, <3>2 DEF FrameType
    <3>4. Inside(t)
        BY <1>3, <2>1, <3>3 DEF DirectRecheck, Inside
    <3>5. Point(t)' = "undirect" /\ ArgsOK(t)'
        BY <2>3, <3>1, CallFlushArgs DEF CallPoints
    <3> QED
        BY <2>1, <3>4, <3>5, InsideNested DEF NestedAt, Directed
  <2> QED
      BY <1>3, <2>2, <2>3 DEF DirectRecheck
<1>4. CASE DirectEnd(t)
  <2>1. pc[t] = "undirect" /\ Point(t) = "undirect" /\ stack[t] # <<>> /\ frame[t].queue = None
      BY <1>4 DEF DirectEnd, Point, FlushLabels, NestedAt, ActivationOK, Guarded, Releasing
  <2>2. Inside(t) /\ frame' = frame
      BY <1>4 DEF DirectEnd, Inside, warpState, activation
  <2>3. CASE frame[t].guard = None
    <3>1. pc'[t] = "return" /\ args'[t] = args[t] /\ Point(t)' = "return"
        BY <1>4, <2>3 DEF DirectEnd, Goto, Point, FlushLabels, Typed, LocalTyped
    <3>2. ArgsOK(t)'
        BY <3>1 DEF ArgsOK, FlushLabels, Releasing
    <3> QED
        BY <2>1, <2>2, <2>3, <3>1, <3>2, InsideNested DEF NestedAt
  <2>4. CASE frame[t].guard # None
    <3>1. /\ pc'[t] = "yield"
          /\ args'[t] = [args[t] EXCEPT !.yield = frame[t].guard, !.yieldRet = "return"]
        BY <1>4, <2>4 DEF DirectEnd, CallYield, Goto, Typed, LocalTyped
    <3>2. args'[t].yield = frame[t].guard /\ args'[t].yieldRet = "return" /\ Point(t)' = "yield"
        BY <3>1 DEF Typed, LocalTyped, ArgsType, Point, FlushLabels
    <3>3. ArgsOK(t)'
        BY <2>1, <2>2, <2>4, <3>1, <3>2 DEF ArgsOK, FlushLabels, Releasing
    <3> QED
        BY <2>1, <2>2, <3>2, <3>3, InsideNested DEF NestedAt, Directed
  <2> QED
      BY <2>3, <2>4
<1> QED
    BY <1>1, <1>2, <1>3, <1>4 DEF QueueStep

(* The steps of a routine.                                                   *)
LEMMA RoutineNested ==
    ASSUME NEW t \in Threads, Typed, NestedAt(t), RoutineStep(t)
    PROVE  NestedAt(t)'
<1>1. CASE Finish(t)
  <2>1. pc[t] = "body" /\ Point(t) = "body" /\ stack[t] # <<>>
      BY <1>1 DEF Finish, Point, FlushLabels, NestedAt, ActivationOK
  <2>2. frame[t] \in FrameType /\ frame'[t] = [frame[t] EXCEPT !.task = None]
      BY <1>1 DEF Finish, Typed, ActivationTyped
  <2>3. frame'[t].queue = frame[t].queue /\ frame'[t].guard = frame[t].guard
      BY <2>2 DEF FrameType
  <2>4. Inside(t)
      BY <1>1, <2>1, <2>3 DEF Finish, Inside, warpState
  <2>5. pc'[t] = (IF frame[t].queue # None THEN "invoked" ELSE "undirect") /\ args'[t] = args[t]
      BY <1>1 DEF Finish, Goto, Typed, LocalTyped
  <2>6. Point(t)' = pc'[t]
      BY <2>5 DEF Point, FlushLabels
  <2>7. ArgsOK(t)'
      BY <2>5, <2>6 DEF ArgsOK, FlushLabels, Releasing
  <2> QED
      BY <2>1, <2>4, <2>5, <2>6, <2>7, InsideNested DEF NestedAt, Guarded, Directed
<1>2. CASE SuspendWarp(t) \/ SetWarpIndex(t)
  <2>1. Undisturbed(t)
      BY <1>2 DEF SuspendWarp, SetWarpIndex, Undisturbed, Keeps, activation, warpState
  <2> QED
      BY <2>1, OtherNested
<1>3. CASE ResumeWarp(t)
  <2>1. PICK w \in Warps :
          \/ /\ args' = [args EXCEPT ![t].yield = w, ![t].yieldRet = AfterPoll(t)]
             /\ Goto(t, "yielded")
          \/ Goto(t, AfterPoll(t)) /\ UNCHANGED args
      BY <1>3 DEF ResumeWarp
  <2>2. pc[t] = "poll" /\ AfterPoll(t) = "poll" /\ Point(t) = "poll"
      BY <1>3, PollsAtTop DEF ResumeWarp, Point, FlushLabels
  <2>3. Inside(t) /\ frame' = frame
      BY <1>3 DEF ResumeWarp, Inside, activation
  <2>4. Point(t)' = "poll" /\ ArgsOK(t)'
    <3>1. CASE Goto(t, AfterPoll(t)) /\ UNCHANGED args
      <4>1. pc'[t] = "poll"
          BY <2>2, <3>1 DEF Goto, Typed, LocalTyped
      <4> QED
          BY <4>1 DEF Point, ArgsOK, FlushLabels, Releasing
    <3>2. CASE /\ args' = [args EXCEPT ![t].yield = w, ![t].yieldRet = AfterPoll(t)]
               /\ Goto(t, "yielded")
      <4>1. pc'[t] = "yielded" /\ args'[t] = [args[t] EXCEPT !.yield = w, !.yieldRet = "poll"]
          BY <2>2, <3>2 DEF Goto, Typed, LocalTyped
      <4>2. args'[t].yield = w /\ args'[t].yieldRet = "poll"
          BY <4>1 DEF Typed, LocalTyped, ArgsType
      <4> QED
          BY <4>1, <4>2, NoneApart DEF Point, ArgsOK, FlushLabels, Releasing, CallPoints
    <3> QED
        BY <2>1, <3>1, <3>2
  <2> QED
      BY <2>2, <2>3, <2>4, InsideNested DEF NestedAt
<1> QED
    BY <1>1, <1>2, <1>3 DEF RoutineStep

(* What others do.                                                           *)
LEMMA OthersUndisturbed ==
    ASSUME NEW t \in Threads, NEW v \in Threads, t # v, Typed,
           \/ FlushStep(t) \/ ReleaseStep(t) \/ YieldStep(t) \/ ExecuteStep(t) \/ QueueStep(t)
           \/ RoutineStep(t)
    PROVE  Undisturbed(v)
<1>1. CASE FlushStep(t)
    BY <1>1 DEF FlushStep, FlushMark, FlushAcquire, FlushDispatch, FlushUndo, FlushSetMask,
       FlushAnnounce, FlushReturns, Goto, warpState, activation, Undisturbed, Keeps, Typed,
       LocalTyped
<1>2. CASE ReleaseStep(t)
    BY <1>2 DEF ReleaseStep, Release, ReleaseAnnounced, ReleaseUnmask, ReleaseFlushWarp,
       ReleaseUnannounce, FlushReturns, Goto, warpState, activation, Undisturbed, Keeps, Typed,
       LocalTyped
<1>3. CASE YieldStep(t)
    BY <1>3 DEF YieldStep, YieldLeave, YieldReflush, YieldReturns, Goto, activation,
       Undisturbed, Keeps, Typed, LocalTyped, ActivationTyped, WarpsTyped
<1>4. CASE ExecuteStep(t)
  <2>1. CASE PlainExecute(t)
      BY <2>1 DEF PlainExecute, EnterSuspended, Enter, GuardOwn, GuardRecheck, ExecuteRecheck,
            ExecuteRequeue, ExecuteBegin, Invoke, InvokeReturn, ExecuteEnd, ExecuteReleases,
            LeaveGuard, Goto, warpState, activation, Undisturbed, Keeps, Typed, LocalTyped
  <2>2. CASE Take(t) \/ Guard(t)
      BY <2>2, NoneApart
         DEF Take, Guard, Activate, Preempt, ExecuteReleases, Goto, warpState, Undisturbed,
            Keeps, Typed, LocalTyped, ActivationTyped, WarpsTyped
  <2>3. CASE Pop(t) \/ NextRing(t) \/ NextPass(t) \/ Forward(t) \/ Return(t)
      BY <2>3 DEF Pop, NextRing, NextPass, Forward, Return, CallFlush, Goto, warpState, Undisturbed,
            Keeps, Typed, LocalTyped, ActivationTyped
  <2> QED
      BY <1>4, <2>1, <2>2, <2>3 DEF ExecuteStep, PlainExecute
<1>5. CASE QueueStep(t)
  <2>1. CASE Direct(t)
    <3>1. \E f, l : Activate(t, f, l) /\ \E m : Goto(t, m)
        BY <2>1 DEF Direct
    <3>2. /\ pc'[v] = pc[v] /\ args'[v] = args[v] /\ frame'[v] = frame[v] /\ stack'[v] = stack[v]
        BY <2>1, <3>1 DEF Direct, Activate, Goto, Typed, LocalTyped, ActivationTyped
    <3>3. \/ UNCHANGED <<threadWarp, stackQueue, warpIndex>>
          \/ \E w \in Warps : Preempt(t, w)
        BY <2>1 DEF Direct, Typed, HistoryTyped, KernelTyped
    <3>4. warpIndex'[v] = warpIndex[v] /\ Keeps(v)
        BY <3>3, NoneApart DEF Preempt, Keeps, Typed, ActivationTyped, WarpsTyped
    <3> QED
        BY <3>2, <3>4 DEF Undisturbed
  <2>2. CASE Post(t) \/ DirectRecheck(t) \/ DirectEnd(t)
      BY <2>2 DEF Post, DirectRecheck, DirectEnd, CallFlush, CallYield, Goto, warpState, activation,
         Undisturbed, Keeps, Typed, LocalTyped, ActivationTyped
  <2> QED
      BY <1>5, <2>1, <2>2 DEF QueueStep
<1>6. CASE RoutineStep(t)
    BY <1>6
       DEF RoutineStep, Finish, SuspendWarp, ResumeWarp, SetWarpIndex, Goto, warpState, activation,
       Undisturbed, Keeps, Typed, LocalTyped, ActivationTyped
<1> QED
    BY <1>1, <1>2, <1>3, <1>4, <1>5, <1>6

-----------------------------------------------------------------------------
(* What currentParallelCount counts                                          *)

Bit(b) == IF b THEN 1 ELSE 0

(* One thread more or less.                                                  *)
LEMMA OneMoves ==
    ASSUME NEW S \in SUBSET Threads, NEW T \in SUBSET Threads, NEW t \in Threads,
           \A v \in Threads \ {t} : v \in S <=> v \in T
    PROVE  /\ Cardinality(S) \in Nat /\ Cardinality(T) \in Nat
           /\ Cardinality(T) + Bit(t \in S) = Cardinality(S) + Bit(t \in T)
           /\ t \in S => Cardinality(S) > 0
<1>1. IsFiniteSet(S) /\ IsFiniteSet(T)
    BY KernelAssumption, FS_Subset
<1>2. Cardinality(S) \in Nat /\ Cardinality(T) \in Nat
    BY <1>1, FS_CardinalityType
<1>3. t \in S => Cardinality(S \ {t}) = Cardinality(S) - 1 /\ Cardinality(S \ {t}) \in Nat
    BY <1>1, FS_RemoveElement, FS_CardinalityType
<1>4. CASE t \in S <=> t \in T
  <2>1. S = T
      BY <1>4
  <2> QED
      BY <1>2, <1>3, <2>1 DEF Bit
<1>5. CASE t \in S /\ t \notin T
  <2>1. T = S \ {t}
      BY <1>5
  <2> QED
      BY <1>2, <1>3, <1>5, <2>1 DEF Bit
<1>6. CASE t \notin S /\ t \in T
  <2>1. T = S \cup {t}
      BY <1>6
  <2>2. Cardinality(T) = Cardinality(S) + 1
      BY <1>1, <1>6, <2>1, FS_AddElement
  <2> QED
      BY <1>2, <1>6, <2>2 DEF Bit
<1> QED
    BY <1>4, <1>5, <1>6

(* The sum, when one thread has moved.                                       *)
Alike(t) == (Placed(t)' <=> Placed(t)) /\ (Acquired(t)' <=> Acquired(t))

(* A step takes a place for a warp to be dispatched, gives one back, hands   *)
(* one to the pool or takes one from there with the warp; or does not count. *)
Counts(t) ==
    \/ Alike(t) /\ UNCHANGED <<parallel, pooled>>
    \/ /\ parallel < MaxParallel /\ parallel' = parallel + 1 /\ UNCHANGED pooled
       /\ (Placed(t)' <=> Placed(t)) /\ ~Acquired(t) /\ Acquired(t)'
    \/ /\ parallel' = (parallel - 1) % CounterSize /\ UNCHANGED pooled
       /\ \/ (Placed(t)' <=> Placed(t)) /\ Acquired(t) /\ ~Acquired(t)'
          \/ Placed(t) /\ ~Placed(t)' /\ (Acquired(t)' <=> Acquired(t))
    \/ /\ parallel' = parallel
       /\ \E w \in Warps \ pooled : pooled' = pooled \cup {w}
       /\ (Placed(t)' <=> Placed(t)) /\ Acquired(t) /\ ~Acquired(t)'
    \/ /\ parallel' = parallel
       /\ \E w \in pooled : pooled' = pooled \ {w}
       /\ ~Placed(t) /\ Placed(t)' /\ (Acquired(t)' <=> Acquired(t))

(* In every case the sum is right again, and within the limit.               *)
LEMMA TallyMoves ==
    ASSUME NEW t \in Threads, Typed, Tallied, \A v \in Threads \ {t} : Undisturbed(v), Counts(t)
    PROVE  Tallied'
<1> DEFINE P == {v \in Threads : Placed(v)}
           A == {v \in Threads : Acquired(v)}
           Q == {v \in Threads : Placed(v)'}
           B == {v \in Threads : Acquired(v)'}
<1>1. \A v \in Threads \ {t} : (v \in P <=> v \in Q) /\ (v \in A <=> v \in B)
    BY DEF Undisturbed, Placed, Below, Acquired, Point
<1>2. /\ Cardinality(P) \in Nat /\ Cardinality(Q) \in Nat
      /\ Cardinality(Q) + Bit(t \in P) = Cardinality(P) + Bit(t \in Q)
      /\ t \in P => Cardinality(P) > 0
    BY <1>1, OneMoves
<1>3. /\ Cardinality(A) \in Nat /\ Cardinality(B) \in Nat
      /\ Cardinality(B) + Bit(t \in A) = Cardinality(A) + Bit(t \in B)
      /\ t \in A => Cardinality(A) > 0
    BY <1>1, OneMoves
<1>4. /\ (t \in P <=> Placed(t)) /\ (t \in Q <=> Placed(t)')
      /\ (t \in A <=> Acquired(t)) /\ (t \in B <=> Acquired(t)')
    OBVIOUS
<1>5. IsFiniteSet(pooled) /\ Cardinality(pooled) \in Nat
    BY KernelAssumption, FS_Subset, FS_CardinalityType DEF Typed, KernelTyped
<1>6. ASSUME NEW w \in Warps
      PROVE  /\ w \notin pooled => Cardinality(pooled \cup {w}) = Cardinality(pooled) + 1
             /\ w \in pooled => Cardinality(pooled \ {w}) = Cardinality(pooled) - 1
    BY <1>5, FS_AddElement, FS_RemoveElement
<1>7. pooled \subseteq Warps /\ parallel \in Nat
    BY Numbers DEF Typed, KernelTyped
<1>8. parallel = Cardinality(pooled) + Cardinality(P) + Cardinality(A) /\ parallel <= MaxParallel
    BY DEF Tallied
<1>9. /\ {v \in Threads : Placed(v)}' = Q
      /\ {v \in Threads : Acquired(v)}' = B
    OBVIOUS
<1> SUFFICES parallel' = Cardinality(pooled') + Cardinality(Q) + Cardinality(B) /\ parallel' <= MaxParallel
    BY <1>9 DEF Tallied
<1> HIDE DEF P, A, Q, B
<1>10. CASE Alike(t) /\ UNCHANGED <<parallel, pooled>>
  <2>1. Cardinality(Q) = Cardinality(P) /\ Cardinality(B) = Cardinality(A)
      BY <1>2, <1>3, <1>4, <1>10 DEF Alike, Bit
  <2> QED
      BY <1>8, <1>10, <2>1
<1>11. CASE /\ parallel < MaxParallel /\ parallel' = parallel + 1 /\ UNCHANGED pooled
            /\ (Placed(t)' <=> Placed(t)) /\ ~Acquired(t) /\ Acquired(t)'
  <2>1. Cardinality(Q) = Cardinality(P) /\ Cardinality(B) = Cardinality(A) + 1
      BY <1>2, <1>3, <1>4, <1>11 DEF Bit
  <2> QED
      BY <1>2, <1>3, <1>5, <1>7, <1>8, <1>11, <2>1, Numbers
<1>12. CASE /\ parallel' = (parallel - 1) % CounterSize /\ UNCHANGED pooled
            /\ \/ (Placed(t)' <=> Placed(t)) /\ Acquired(t) /\ ~Acquired(t)'
               \/ Placed(t) /\ ~Placed(t)' /\ (Acquired(t)' <=> Acquired(t))
  <2>1. /\ Cardinality(Q) + Cardinality(B) = Cardinality(P) + Cardinality(A) - 1
        /\ Cardinality(P) + Cardinality(A) > 0
    <3>1. CASE (Placed(t)' <=> Placed(t)) /\ Acquired(t) /\ ~Acquired(t)'
      <4>1. Cardinality(Q) = Cardinality(P) /\ Cardinality(B) + 1 = Cardinality(A) /\ Cardinality(A) > 0
          BY <1>2, <1>3, <1>4, <3>1 DEF Bit
      <4> QED
          BY <1>2, <1>3, <4>1
    <3>2. CASE Placed(t) /\ ~Placed(t)' /\ (Acquired(t)' <=> Acquired(t))
      <4>1. Cardinality(Q) + 1 = Cardinality(P) /\ Cardinality(B) = Cardinality(A) /\ Cardinality(P) > 0
          BY <1>2, <1>3, <1>4, <3>2 DEF Bit
      <4> QED
          BY <1>2, <1>3, <4>1
    <3> QED
        BY <1>12, <3>1, <3>2
  <2>2. parallel' = parallel - 1
    <3>1. parallel > 0
        BY <1>2, <1>3, <1>5, <1>8, <2>1
    <3>2. ASSUME NEW n \in Nat, n > 0, n < CounterSize
          PROVE  (n - 1) % CounterSize = n - 1
        BY <3>2, Numbers
    <3>3. parallel < CounterSize
        BY <1>7, <1>8, Numbers
    <3> QED
        BY <1>7, <1>12, <3>1, <3>2, <3>3
  <2> QED
      BY <1>2, <1>3, <1>5, <1>7, <1>8, <1>12, <2>1, <2>2, Numbers
<1>13. CASE /\ parallel' = parallel
            /\ \E w \in Warps \ pooled : pooled' = pooled \cup {w}
            /\ (Placed(t)' <=> Placed(t)) /\ Acquired(t) /\ ~Acquired(t)'
  <2>1. Cardinality(Q) = Cardinality(P) /\ Cardinality(B) + 1 = Cardinality(A)
      BY <1>2, <1>3, <1>4, <1>13 DEF Bit
  <2>2. Cardinality(pooled') = Cardinality(pooled) + 1
      BY <1>6, <1>13
  <2> QED
      BY <1>2, <1>3, <1>5, <1>8, <1>13, <2>1, <2>2
<1>14. CASE /\ parallel' = parallel
            /\ \E w \in pooled : pooled' = pooled \ {w}
            /\ ~Placed(t) /\ Placed(t)' /\ (Acquired(t)' <=> Acquired(t))
  <2>1. Cardinality(Q) = Cardinality(P) + 1 /\ Cardinality(B) = Cardinality(A)
      BY <1>2, <1>3, <1>4, <1>14 DEF Bit
  <2>2. Cardinality(pooled') = Cardinality(pooled) - 1
      BY <1>6, <1>7, <1>14
  <2> QED
      BY <1>2, <1>3, <1>5, <1>8, <1>14, <2>1, <2>2
<1> QED
    BY <1>10, <1>11, <1>12, <1>13, <1>14 DEF Counts

(* What a step does inside an activation changes no place, if it neither     *)
(* gives it back nor returns.                                                *)
LEMMA SamePlace ==
    ASSUME NEW t \in Threads, stack'[t] = stack[t], frame'[t].queue = frame[t].queue,
           frame[t].queue # None => (Point(t)' \in Gone <=> Point(t) \in Gone)
    PROVE  Placed(t)' <=> Placed(t)
BY DEF Placed, Below

(* Where Flush returns to, no warp is about to be dispatched.                *)
LEMMA FlushReturnPoint ==
    ASSUME NEW t \in Threads, Typed, NestedAt(t), pc[t] \in FlushLabels,
           FlushReturns(t, TRUE) \/ FlushReturns(t, FALSE)
    PROVE  /\ Point(t)' \in Gone <=> Point(t) \in Gone
           /\ ~Acquired(t)'
<1>1. Point(t) = args[t].flushRet /\ Point(t) \in CallPoints
    BY DEF Point, NestedAt, ArgsOK
<1>2. Point(t) = "unmask" => args[t].releaseRet = "return"
    BY DEF NestedAt, ArgsOK, Releasing
<1>3. pc'[t] = Point(t) \/ (Point(t) = "unmask" /\ pc'[t] = "return")
    BY <1>1, <1>2 DEF FlushReturns, Goto, Typed, LocalTyped
<1>4. Point(t)' = pc'[t] /\ pc'[t] \in CallPoints
    BY <1>1, <1>3 DEF Point, CallPoints, FlushLabels
<1> QED
    BY <1>1, <1>3, <1>4 DEF Gone, Releasing, CallPoints, Acquired

(* Flush takes the place, and passes it on with the warp or gives it back.   *)
LEMMA FlushCounts ==
    ASSUME NEW t \in Threads, Typed, NestedAt(t), FlushStep(t)
    PROVE  Counts(t)
<1>1. stack'[t] = stack[t] /\ frame'[t].queue = frame[t].queue
    BY DEF FlushStep, FlushMark, FlushAcquire, FlushDispatch, FlushUndo, FlushSetMask,
           FlushAnnounce, activation
<1>2. pc[t] \in FlushLabels
    BY DEF FlushStep, FlushMark, FlushAcquire, FlushDispatch, FlushUndo, FlushSetMask,
           FlushAnnounce, FlushLabels
<1>3. ASSUME FlushReturns(t, TRUE) \/ FlushReturns(t, FALSE)
      PROVE  (Placed(t)' <=> Placed(t)) /\ ~Acquired(t)'
    BY <1>1, <1>2, <1>3, FlushReturnPoint, SamePlace
<1>4. ASSUME UNCHANGED args, NEW l \in FlushLabels, Goto(t, l)
      PROVE  (Placed(t)' <=> Placed(t)) /\ pc'[t] = l
  <2>1. pc'[t] = l /\ Point(t)' = Point(t)
      BY <1>2, <1>4 DEF Goto, Point, Typed, LocalTyped
  <2> QED
      BY <1>1, <2>1, SamePlace
<1> USE <1>3, <1>4 DEF Acquired, FlushLabels
<1>5. CASE FlushMark(t) \/ FlushSetMask(t) \/ FlushAnnounce(t)
    BY <1>5 DEF FlushMark, FlushSetMask, FlushAnnounce, kernelState, Counts, Alike
<1>6. CASE FlushAcquire(t)
    BY <1>6 DEF FlushAcquire, Counts, Alike
<1>7. CASE FlushUndo(t)
    BY <1>7 DEF FlushUndo, Counts
<1>8. CASE FlushDispatch(t)
  <2>1. args[t].flush \in Warps
      BY <1>2, ArgsFields, NoneApart DEF NestedAt, ArgsOK, Typed, LocalTyped
  <2>2. CASE args[t].flush \in pooled
    <3>1. pooled' = pooled
        BY <1>8, <2>2 DEF FlushDispatch
    <3> QED
        BY <1>8, <2>2, <3>1 DEF FlushDispatch, Counts, Alike
  <2>3. CASE args[t].flush \notin pooled
      BY <1>8, <2>1, <2>3 DEF FlushDispatch, Counts
  <2> QED
      BY <2>2, <2>3
<1> QED
    BY <1>5, <1>6, <1>7, <1>8 DEF FlushStep

(* ReleaseFlush gives a place back, once.                                    *)
LEMMA ReleaseCounts ==
    ASSUME NEW t \in Threads, Typed, NestedAt(t), ReleaseStep(t)
    PROVE  Counts(t)
<1>1. stack'[t] = stack[t] /\ frame'[t] = frame[t]
    BY DEF ReleaseStep, Release, ReleaseAnnounced, ReleaseUnmask, ReleaseFlushWarp,
           ReleaseUnannounce, activation
<1>2. Point(t) = pc[t] /\ pc[t] \in Releasing \cup {"release"} /\ args[t].releaseRet = "return"
    BY DEF ReleaseStep, Release, ReleaseAnnounced, ReleaseUnmask, ReleaseFlushWarp,
           ReleaseUnannounce, Releasing, FlushLabels, Point, NestedAt, ArgsOK
<1>3. Point(t)' \in Gone /\ ~Acquired(t)'
  <2>1. CASE UNCHANGED args /\ \E l \in Releasing \cup {"return"} : Goto(t, l)
    <3>1. pc'[t] \in Releasing \cup {"return"}
        BY <2>1 DEF Goto, Typed, LocalTyped
    <3> QED
        BY <3>1 DEF Point, Gone, Acquired, Releasing, FlushLabels
  <2>2. CASE Goto(t, "reflush")
    <3>1. pc'[t] = "reflush"
        BY <2>2 DEF Goto, Typed, LocalTyped
    <3> QED
        BY <3>1 DEF Point, Gone, Acquired, Releasing, FlushLabels
  <2>3. CASE ReleaseFlushWarp(t)
    <3>1. args[t].flushRet = "unmask"
        BY <2>3 DEF ReleaseFlushWarp, NestedAt, ArgsOK
    <3>2. CASE Goto(t, "flush") /\ UNCHANGED args
      <4>1. pc'[t] = "flush" /\ args'[t] = args[t]
          BY <3>2 DEF Goto, Typed, LocalTyped
      <4> QED
          BY <3>1, <4>1 DEF Point, Gone, Acquired, Releasing, FlushLabels
    <3>3. CASE FlushReturns(t, FALSE)
      <4>1. pc'[t] = "unmask"
          BY <3>1, <3>3 DEF FlushReturns, Goto, Typed, LocalTyped
      <4> QED
          BY <4>1 DEF Point, Gone, Acquired, Releasing, FlushLabels
    <3> QED
        BY <2>3, <3>2, <3>3 DEF ReleaseFlushWarp
  <2>4. CASE ReleaseUnannounce(t)
    <3>1. Goto(t, "return") \/ Goto(t, "announced")
        BY <1>2, <2>4 DEF ReleaseUnannounce
    <3>2. pc'[t] \in {"return", "announced"}
        BY <3>1 DEF Goto, Typed, LocalTyped
    <3> QED
        BY <3>2 DEF Point, Gone, Acquired, Releasing, FlushLabels
  <2> QED
      BY <2>1, <2>2, <2>3, <2>4
         DEF ReleaseStep, Release, ReleaseAnnounced, ReleaseUnmask, Releasing
<1>4. ~Acquired(t)
    BY <1>2 DEF Acquired, Releasing
<1>5. CASE Release(t)
  <2>1. Point(t) = "release"
      BY <1>2, <1>5 DEF Release
  <2>2. stack[t] # <<>> /\ frame[t].queue # None /\ Len(stack[t]) = 1
      BY <2>1 DEF NestedAt, ActivationOK, Directed
  <2>3. \A i \in DOMAIN stack[t] : stack[t][i].frame = Idle
    <3>1. TAKE i \in DOMAIN stack[t]
    <3>2. i = Len(stack[t])
        BY <2>2, EntryFields
    <3> QED
        BY <3>2 DEF NestedAt, StackOK, EntryOK
  <2>4. Placed(t) /\ ~Placed(t)'
      BY <1>1, <1>3, <2>1, <2>2, <2>3 DEF Placed, Below, Gone, Releasing, Idle
  <2> QED
      BY <1>3, <1>4, <1>5, <2>4 DEF Release, Counts
<1>6. CASE ~Release(t)
  <2>1. Point(t) \in Gone
      BY <1>2, <1>6 DEF ReleaseStep, ReleaseAnnounced, ReleaseUnmask, ReleaseFlushWarp,
                       ReleaseUnannounce, Gone, Releasing
  <2>2. Placed(t)' <=> Placed(t)
      BY <1>1, <1>3, <2>1, SamePlace
  <2>3. UNCHANGED <<parallel, pooled>>
      BY <1>6 DEF ReleaseStep, ReleaseAnnounced, ReleaseUnmask, ReleaseFlushWarp,
                 ReleaseUnannounce, kernelState
  <2> QED
      BY <1>3, <1>4, <2>2, <2>3 DEF Counts, Alike
<1> QED
    BY <1>5, <1>6

(* YieldExecution changes no place.                                          *)
LEMMA YieldCounts ==
    ASSUME NEW t \in Threads, Typed, NestedAt(t), YieldStep(t)
    PROVE  Counts(t)
<1>1. stack'[t] = stack[t] /\ frame'[t] = frame[t] /\ UNCHANGED <<parallel, pooled>>
    BY DEF YieldStep, YieldLeave, YieldReflush, activation, kernelState
<1>2. ~Acquired(t)
    BY DEF YieldStep, YieldLeave, YieldReflush, Acquired
<1>3. args[t].yieldRet \in CallPoints
    BY DEF YieldStep, YieldLeave, YieldReflush, NestedAt, ArgsOK, CallPoints, Point, FlushLabels
<1>4. ASSUME pc[t] = "yield"
      PROVE  Point(t) = "yield" /\ (frame[t].queue # None => args[t].yieldRet = "release")
    BY <1>4 DEF NestedAt, ArgsOK, Point, FlushLabels
<1>5. pc[t] = "yielded" => Point(t) = args[t].yieldRet
    BY DEF Point, FlushLabels
<1>6. Point(t)' = args[t].yieldRet /\ ~Acquired(t)'
  <2>1. CASE YieldReturns(t)
    <3>1. pc'[t] = args[t].yieldRet
        BY <2>1 DEF YieldReturns, Goto, Typed, LocalTyped
    <3> QED
        BY <1>3, <3>1 DEF Point, CallPoints, FlushLabels, Acquired
  <2>2. CASE Goto(t, "yielded") /\ UNCHANGED args
    <3>1. pc'[t] = "yielded" /\ args'[t] = args[t]
        BY <2>2 DEF Goto, Typed, LocalTyped
    <3> QED
        BY <3>1 DEF Point, FlushLabels, Acquired
  <2>3. CASE /\ Goto(t, "flush")
             /\ args' = [args EXCEPT ![t].yield = None, ![t].yieldRet = "poll",
                            ![t].flush = args[t].yield, ![t].flushRet = args[t].yieldRet]
    <3>1. pc'[t] = "flush" /\ args'[t].flushRet = args[t].yieldRet
        BY <2>3 DEF Goto, Typed, LocalTyped, ArgsType
    <3> QED
        BY <3>1 DEF Point, FlushLabels, Acquired
  <2> QED
      BY <2>1, <2>2, <2>3 DEF YieldStep, YieldLeave, YieldReflush
<1>7. Placed(t)' <=> Placed(t)
  <2>1. frame[t].queue # None => (Point(t)' \in Gone <=> Point(t) \in Gone)
      BY <1>4, <1>5, <1>6 DEF YieldStep, YieldLeave, YieldReflush, Gone, Releasing
  <2> QED
      BY <1>1, <2>1, SamePlace
<1> QED
    BY <1>1, <1>2, <1>6, <1>7 DEF Counts, Alike

(* Inside Execute nobody's place changes.                                    *)
ScanStep(t) == Guard(t) \/ Pop(t) \/ NextRing(t) \/ NextPass(t) \/ Forward(t)

(* None of these steps takes a place or gives one back.                      *)
LEMMA PlainCounts ==
    ASSUME NEW t \in Threads, Typed, NestedAt(t), PlainExecute(t) \/ ScanStep(t)
    PROVE  Counts(t)
<1>1. pc[t] \in ExecuteLabels \ {"release"}
  <2>1. CASE PlainExecute(t)
    <3>1. pc[t] \in {"enter", "guard", "guarded", "begin", "requeue", "flushing", "invoke", "invoked", "end"}
        BY <2>1 DEF PlainExecute, EnterSuspended, Enter, GuardOwn, GuardRecheck,
           ExecuteRecheck, ExecuteRequeue, ExecuteBegin, Invoke, InvokeReturn, ExecuteEnd
    <3> QED
        BY <3>1 DEF ExecuteLabels, Guarded
  <2>2. CASE ScanStep(t)
    <3>1. CASE Guard(t) \/ Forward(t)
        BY <3>1 DEF Guard, Forward, ExecuteLabels, Guarded
    <3>2. CASE Pop(t) \/ NextRing(t) \/ NextPass(t)
        BY <3>2 DEF Pop, NextRing, NextPass, ExecuteLabels, Guarded
    <3> QED
        BY <2>2, <3>1, <3>2 DEF ScanStep
  <2> QED
      BY <2>1, <2>2
<1>2. stack' = stack /\ UNCHANGED <<parallel, pooled>>
  <2>1. CASE PlainExecute(t)
      BY <2>1 DEF PlainExecute, EnterSuspended, Enter, GuardOwn, GuardRecheck,
           ExecuteRecheck, ExecuteRequeue, ExecuteBegin, Invoke, InvokeReturn, ExecuteEnd,
           activation, kernelState
  <2>2. CASE ScanStep(t)
    <3>1. CASE Guard(t) \/ Forward(t)
        BY <3>1 DEF Guard, Forward, kernelState
    <3>2. CASE Pop(t) \/ NextRing(t) \/ NextPass(t)
        BY <3>2 DEF Pop, NextRing, NextPass, kernelState
    <3> QED
        BY <2>2, <3>1, <3>2 DEF ScanStep
  <2> QED
      BY <2>1, <2>2
<1>3. frame'[t].queue = frame[t].queue
  <2>1. frame[t] \in FrameType /\ frame \in [Threads -> FrameType]
      BY DEF Typed, ActivationTyped
  <2>2. CASE PlainExecute(t)
      BY <2>2 DEF PlainExecute, EnterSuspended, Enter, GuardOwn, GuardRecheck,
           ExecuteRecheck, ExecuteRequeue, ExecuteBegin, Invoke, InvokeReturn, ExecuteEnd,
           activation
  <2>3. CASE Guard(t)
      BY <2>1, <2>3 DEF Guard, FrameType
  <2>4. CASE Pop(t)
    <3>1. \E x : frame' = [frame EXCEPT ![t].task = x, ![t].executed = TRUE]
        BY <2>4 DEF Pop
    <3> QED
        BY <2>1, <3>1 DEF FrameType
  <2>5. CASE NextRing(t)
    <3>1. frame' = [frame EXCEPT ![t].scan = @ + 1]
        BY <2>5 DEF NextRing
    <3> QED
        BY <2>1, <3>1 DEF FrameType
  <2>6. CASE NextPass(t)
    <3>1. frame' = [frame EXCEPT ![t].scan = 1, ![t].executed = FALSE]
        BY <2>6 DEF NextPass
    <3> QED
        BY <2>1, <3>1 DEF FrameType
  <2>7. CASE Forward(t)
      BY <2>1, <2>7 DEF Forward, FrameType
  <2> QED
      BY <2>2, <2>3, <2>4, <2>5, <2>6, <2>7 DEF ScanStep
<1>4. Point(t) = pc[t] /\ Point(t) \notin Gone /\ ~Acquired(t)
    BY <1>1 DEF Point, Gone, Releasing, FlushLabels, ExecuteLabels, Guarded, Acquired
<1>5. Point(t)' \notin Gone /\ ~Acquired(t)'
  <2>1. CASE ExecuteEnd(t)
    <3>1. \/ Goto(t, "yield")
          \/ /\ Goto(t, "flush")
             /\ args' = [args EXCEPT ![t] = [@ EXCEPT !.flush = frame[t].queue, !.flushRet = "release",
                                                     !.releaseRet = "return"]]
        BY <2>1 DEF ExecuteEnd
    <3>2. \/ pc'[t] = "yield"
          \/ /\ pc'[t] = "flush"
             /\ args'[t] = [args[t] EXCEPT !.flush = frame[t].queue, !.flushRet = "release",
                                           !.releaseRet = "return"]
        BY <3>1 DEF Goto, Typed, LocalTyped
    <3>3. args[t] \in ArgsType
        BY DEF Typed, LocalTyped
    <3>4. pc'[t] = "yield" \/ (pc'[t] = "flush" /\ args'[t].flushRet = "release")
        BY <3>2, <3>3 DEF ArgsType
    <3> QED
        BY <3>4 DEF Point, Gone, Releasing, FlushLabels, Acquired
  <2>2. CASE Forward(t)
    <3>1. CallFlush(t, home[frame[t].task], "invoked")
        BY <2>2 DEF Forward
    <3>2. pc'[t] = "flush" /\ args'[t].flushRet = "invoked"
        BY <3>1 DEF CallFlush, FlushArgs, Goto, Typed, LocalTyped, ArgsType
    <3> QED
        BY <3>2 DEF Point, Gone, Releasing, FlushLabels, Acquired
  <2>3. CASE ~ExecuteEnd(t) /\ ~Forward(t)
    <3>1. \/ UNCHANGED pc
          \/ \E l \in {"release", "guard", "guarded", "begin", "yield", "flushing", "requeue",
                       "scan", "invoke", "body", "end"} : Goto(t, l)
      <4>1. CASE PlainExecute(t)
          BY <2>3, <4>1 DEF PlainExecute, EnterSuspended, Enter, GuardOwn, GuardRecheck,
             ExecuteRecheck, ExecuteRequeue, ExecuteBegin, Invoke, InvokeReturn, ExecuteReleases,
             LeaveGuard
      <4>2. CASE Guard(t) \/ Pop(t) \/ NextRing(t) \/ NextPass(t)
          BY <4>2 DEF Guard, Pop, NextRing, NextPass, ExecuteReleases
      <4> QED
          BY <2>3, <4>1, <4>2 DEF ScanStep
    <3>2. pc'[t] \in ExecuteLabels \cup {"body", "yield"}
        BY <1>1, <3>1 DEF Goto, Typed, LocalTyped, ExecuteLabels, Guarded
    <3> QED
        BY <3>2 DEF Point, Gone, Releasing, FlushLabels, ExecuteLabels, Guarded, Acquired
  <2> QED
      BY <2>1, <2>2, <2>3
<1>6. Placed(t)' <=> Placed(t)
    BY <1>2, <1>3, <1>4, <1>5, SamePlace
<1> QED
    BY <1>2, <1>4, <1>5, <1>6 DEF Counts, Alike

(* Execute has its place, until it gives it back; a worker that takes a warp *)
(* takes its place with it.                                                  *)
LEMMA ExecuteCounts ==
    ASSUME NEW t \in Threads, Typed, NestedAt(t), ExecuteStep(t)
    PROVE  Counts(t)
<1>1. CASE Take(t)
  <2>1. PICK w \in pooled : pooled' = pooled \ {w} /\ Activate(t, [Idle EXCEPT !.queue = w], AfterPoll(t))
      BY <1>1 DEF Take
  <2>2. w # None
      BY NoneApart DEF Typed, KernelTyped
  <2>3. frame'[t].queue = w /\ pc'[t] = "enter"
    <3>1. frame'[t] = [Idle EXCEPT !.queue = w]
        BY <2>1 DEF Activate, Typed, ActivationTyped
    <3> QED
        BY <1>1, <3>1 DEF Take, Goto, Idle, Typed, LocalTyped
  <2>4. pc[t] = "poll" /\ Point(t) = "poll"
      BY <1>1, PollsAtTop DEF Take, Point, FlushLabels
  <2>5. stack[t] = <<>> /\ frame[t] = Idle
      BY <2>4 DEF NestedAt, ActivationOK, Guarded, Directed, Releasing
  <2>6. ~Placed(t) /\ ~Acquired(t)
      BY <2>4, <2>5 DEF Placed, Below, Acquired, Idle
  <2>7. Placed(t)' /\ ~Acquired(t)'
      BY <2>2, <2>3 DEF Placed, Gone, Releasing, Acquired, Point, FlushLabels
  <2> QED
      BY <1>1, <2>1, <2>6, <2>7 DEF Take, Counts
<1>2. CASE PlainExecute(t) \/ ScanStep(t)
    BY <1>2, PlainCounts
<1>3. CASE Return(t)
  <2> DEFINE s == stack[t]
  <2>1. pc[t] = "return" /\ Point(t) = "return" /\ s # <<>>
      BY <1>3 DEF Return, NestedAt, ActivationOK, Point, FlushLabels
  <2>2. s \in Seq(EntryType) /\ Len(s) \in Nat \ {0} /\ DOMAIN s = 1 .. Len(s) /\ 1 \in DOMAIN s
      BY <2>1, EmptySeq, LenProperties DEF Typed, ActivationTyped
  <2>3. /\ \A i \in 1 .. Len(s) - 1 : Tail(s)[i] = s[i + 1]
        /\ DOMAIN Tail(s) = 1 .. Len(s) - 1
      BY <2>1, <2>2, HeadTailProperties, LenProperties
  <2>4. stack'[t] = Tail(s) /\ frame'[t] = s[1].frame /\ pc'[t] = s[1].pc
      BY <1>3, <2>1, HeadType DEF Return, Goto, Typed, LocalTyped, ActivationTyped
  <2>5. pc'[t] \in {"poll", "body"}
      BY <2>2, <2>4 DEF NestedAt, StackOK, EntryOK
  <2>6. Point(t)' = pc'[t] /\ Point(t)' \notin Gone /\ ~Acquired(t)' /\ ~Acquired(t)
      BY <2>1, <2>5 DEF Point, FlushLabels, Gone, Releasing, Acquired
  <2>7. Placed(t) <=> Below(t)
      BY <2>1 DEF Placed, Gone
  <2>8. Below(t) <=> s[1].frame.queue # None \/ \E i \in 1 .. Len(s) - 1 : s[i + 1].frame.queue # None
    <3>1. ASSUME NEW i \in DOMAIN s, i # 1
          PROVE  i - 1 \in 1 .. Len(s) - 1 /\ (i - 1) + 1 = i
        BY <2>2, <3>1
    <3>2. ASSUME NEW i \in 1 .. Len(s) - 1
          PROVE  i + 1 \in DOMAIN s
        BY <2>2
    <3> QED
        BY <2>2, <3>1, <3>2 DEF Below
  <2>9. Below(t)' <=> \E i \in 1 .. Len(s) - 1 : s[i + 1].frame.queue # None
    <3>1. DOMAIN stack'[t] = 1 .. Len(s) - 1 /\ \A i \in 1 .. Len(s) - 1 : stack'[t][i] = s[i + 1]
        BY <2>3, <2>4
    <3> QED
        BY <3>1 DEF Below
  <2>10. Placed(t)' <=> Placed(t)
      BY <2>4, <2>6, <2>7, <2>8, <2>9 DEF Placed
  <2> QED
      BY <1>3, <2>6, <2>10 DEF Return, kernelState, Counts, Alike
<1> QED
    BY <1>1, <1>2, <1>3 DEF ExecuteStep, PlainExecute, ScanStep

(* The place of a routine that runs another one at once is below it.         *)
LEMMA DirectCounts ==
    ASSUME NEW t \in Threads, Typed, NestedAt(t), Direct(t)
    PROVE  Counts(t)
<1>1. PICK x \in fresh :
          \/ /\ warpIndex[t] = home[x]
             /\ Activate(t, [Idle EXCEPT !.task = x], AfterPoll(t))
             /\ Goto(t, "body")
             /\ UNCHANGED <<threadWarp, stackQueue, warpIndex>>
          \/ /\ warpIndex[t] # home[x]
             /\ Preempt(t, home[x])
             /\ Activate(t, [Idle EXCEPT !.task = x, !.guard = home[x]], AfterPoll(t))
             /\ Goto(t, "directed")
    BY DEF Direct
<1> DEFINE s == stack[t]
           e == [frame |-> frame[t], pc |-> AfterPoll(t), warp |-> warpIndex[t]]
<1>2. /\ stack'[t] = <<e>> \o s
      /\ \/ frame'[t] = [Idle EXCEPT !.task = x]
         \/ frame'[t] = [Idle EXCEPT !.task = x, !.guard = home[x]]
      /\ pc'[t] \in {"body", "directed"}
    BY <1>1 DEF Activate, Goto, Typed, LocalTyped, ActivationTyped
<1>3. frame'[t].queue = None /\ ~Acquired(t)'
    BY <1>2 DEF Idle, Acquired
<1>4. pc[t] \in {"poll", "body"} /\ AfterPoll(t) = pc[t] /\ Point(t) = pc[t] /\ ~Acquired(t)
    BY PollsAtTop DEF Direct, Point, FlushLabels, Acquired
<1>5. Placed(t) <=> frame[t].queue # None \/ Below(t)
    BY <1>4 DEF Placed, Gone, Releasing
<1>6. e \in EntryType /\ e.frame = frame[t]
    BY <1>4 DEF Typed, LocalTyped, ActivationTyped, EntryType
<1>7. s \in Seq(EntryType) /\ Len(s) \in Nat /\ DOMAIN s = 1 .. Len(s)
    BY LenProperties DEF Typed, ActivationTyped
<1>8. Below(t)' <=> frame[t].queue # None \/ Below(t)
  <2> HIDE DEF e
  <2>1. <<e>> \in Seq(EntryType) /\ Len(<<e>>) = 1 /\ <<e>>[1] = e
      BY <1>6
  <2>2. /\ \A i \in 1 .. 1 + Len(s) : (<<e>> \o s)[i] = IF i <= 1 THEN <<e>>[i] ELSE s[i - 1]
        /\ <<e>> \o s \in Seq(EntryType) /\ Len(<<e>> \o s) = 1 + Len(s)
      BY <1>7, <2>1, ConcatProperties
  <2>3. DOMAIN (<<e>> \o s) = 1 .. 1 + Len(s)
      BY <2>2, LenProperties
  <2>4. (<<e>> \o s)[1] = e /\ 1 \in 1 .. 1 + Len(s)
      BY <1>7, <2>1, <2>2
  <2>5. ASSUME NEW i \in 1 .. Len(s)
        PROVE  i + 1 \in 1 .. 1 + Len(s) /\ (<<e>> \o s)[i + 1] = s[i]
    <3>1. i + 1 \in 1 .. 1 + Len(s) /\ ~(i + 1 <= 1) /\ (i + 1) - 1 = i
        BY <1>7
    <3> QED
        BY <2>2, <3>1
  <2>6. ASSUME NEW i \in 1 .. 1 + Len(s), i # 1
        PROVE  i - 1 \in 1 .. Len(s) /\ (<<e>> \o s)[i] = s[i - 1]
    <3>1. i - 1 \in 1 .. Len(s) /\ ~(i <= 1)
        BY <1>7, <2>6
    <3> QED
        BY <2>2, <3>1
  <2>7. Below(t)' <=> \E i \in 1 .. 1 + Len(s) : (<<e>> \o s)[i].frame.queue # None
      BY <1>2, <2>3 DEF Below
  <2>8. Below(t) <=> \E i \in 1 .. Len(s) : s[i].frame.queue # None
      BY <1>7 DEF Below
  <2> QED
      BY <1>6, <2>4, <2>5, <2>6, <2>7, <2>8
<1>9. Placed(t)' <=> Placed(t)
    BY <1>3, <1>5, <1>8 DEF Placed
<1> QED
    BY <1>3, <1>4, <1>9 DEF Direct, kernelState, Counts, Alike

(* Whoever queues a routine keeps the place he has.                          *)
LEMMA QueueCounts ==
    ASSUME NEW t \in Threads, Typed, NestedAt(t), QueueStep(t)
    PROVE  Counts(t)
<1>1. CASE Post(t)
  <2>1. PICK x \in fresh : CallFlush(t, home[x], AfterPoll(t))
      BY <1>1 DEF Post
  <2>2. pc[t] \in {"poll", "body"} /\ AfterPoll(t) = pc[t] /\ Point(t) = pc[t]
      BY <1>1, PollsAtTop DEF Post, Point, FlushLabels
  <2>3. pc'[t] = "flush" /\ args'[t].flushRet = pc[t]
      BY <2>1, <2>2 DEF CallFlush, FlushArgs, Goto, Typed, LocalTyped, ArgsType
  <2>4. Point(t)' = Point(t) /\ ~Acquired(t) /\ ~Acquired(t)'
      BY <2>2, <2>3 DEF Point, FlushLabels, Acquired
  <2>5. stack'[t] = stack[t] /\ frame'[t] = frame[t] /\ UNCHANGED <<parallel, pooled>>
      BY <1>1 DEF Post, activation, kernelState
  <2> QED
      BY <2>4, <2>5, SamePlace DEF Counts, Alike
<1>2. CASE Direct(t)
    BY <1>2, DirectCounts
<1>3. CASE DirectRecheck(t) \/ DirectEnd(t)
  <2>1. Point(t) = pc[t] /\ frame[t].queue = None /\ ~Acquired(t)
      BY <1>3 DEF DirectRecheck, DirectEnd, Point, FlushLabels, Acquired, NestedAt, ActivationOK,
                 Guarded, Releasing, Idle
  <2>2. stack'[t] = stack[t] /\ UNCHANGED <<parallel, pooled>>
      BY <1>3 DEF DirectRecheck, DirectEnd, activation, kernelState
  <2>3. frame'[t].queue = frame[t].queue
    <3>1. frame[t] \in FrameType /\ (frame' = frame \/ frame' = [frame EXCEPT ![t].task = None])
        BY <1>3 DEF DirectRecheck, DirectEnd, activation, Typed, ActivationTyped
    <3> QED
        BY <3>1 DEF FrameType, Typed, ActivationTyped
  <2>4. \E l \in {"body", "flush", "return", "yield"} : Goto(t, l)
      BY <1>3 DEF DirectRecheck, DirectEnd, CallFlush, CallYield
  <2>5. ~Acquired(t)'
      BY <2>4 DEF Goto, Acquired, Typed, LocalTyped
  <2>6. Placed(t)' <=> Placed(t)
      BY <2>1, <2>2, <2>3, SamePlace
  <2> QED
      BY <2>1, <2>2, <2>5, <2>6 DEF Counts, Alike
<1> QED
    BY <1>1, <1>2, <1>3 DEF QueueStep

(* Nor does a routine itself change a place.                                 *)
LEMMA RoutineCounts ==
    ASSUME NEW t \in Threads, Typed, NestedAt(t), RoutineStep(t)
    PROVE  Counts(t)
<1>1. stack'[t] = stack[t] /\ UNCHANGED <<parallel, pooled>>
    BY DEF RoutineStep, Finish, SuspendWarp, ResumeWarp, SetWarpIndex, activation, kernelState
<1>2. frame'[t].queue = frame[t].queue
  <2>1. frame[t] \in FrameType /\ (frame' = frame \/ frame' = [frame EXCEPT ![t].task = None])
      BY DEF RoutineStep, Finish, SuspendWarp, ResumeWarp, SetWarpIndex, activation, Typed,
             ActivationTyped
  <2> QED
      BY <2>1 DEF FrameType, Typed, ActivationTyped
<1>3. CASE Finish(t)
  <2>1. pc[t] = "body" /\ pc'[t] \in {"invoked", "undirect"}
      BY <1>3 DEF Finish, Goto, Typed, LocalTyped
  <2> QED
      BY <1>1, <1>2, <2>1, SamePlace
         DEF Point, FlushLabels, Gone, Releasing, Counts, Alike, Acquired
<1>4. CASE SuspendWarp(t) \/ SetWarpIndex(t)
  <2>1. pc' = pc /\ args' = args
      BY <1>4 DEF SuspendWarp, SetWarpIndex
  <2> QED
      BY <1>1, <1>2, <2>1, SamePlace DEF Point, Counts, Alike, Acquired
<1>5. CASE ResumeWarp(t)
  <2>1. pc[t] = "poll" /\ AfterPoll(t) = "poll" /\ Point(t) = "poll"
      BY <1>5, PollsAtTop DEF ResumeWarp, Point, FlushLabels
  <2>2. frame[t].queue = None
      BY <2>1 DEF NestedAt, ActivationOK, Guarded, Directed, Releasing, Idle
  <2>3. Goto(t, "yielded") \/ Goto(t, "poll")
      BY <1>5, <2>1 DEF ResumeWarp
  <2>4. ~Acquired(t) /\ ~Acquired(t)'
      BY <2>1, <2>3 DEF Goto, Acquired, Typed, LocalTyped
  <2> QED
      BY <1>1, <1>2, <2>2, <2>4, SamePlace DEF Counts, Alike
<1> QED
    BY <1>3, <1>4, <1>5 DEF RoutineStep

-----------------------------------------------------------------------------
(* The invariant is inductive                                                *)

(* Nobody is in a warp at first, and nothing is counted.                     *)
LEMMA InitIInv == Init => IInv
<1> SUFFICES ASSUME Init PROVE Typed /\ Nested /\ Tallied /\ waits \in Nat
    BY DEF IInv
<1>1. Typed
  <2>1. LocalTyped
      BY IdleType DEF Init, LocalTyped, Labels
  <2>2. WarpsTyped
      BY DEF Init, WarpsTyped
  <2>3. KernelTyped
      BY Numbers, KernelAssumption DEF Init, KernelTyped
  <2>4. ActivationTyped /\ HistoryTyped
      BY IdleType DEF Init, ActivationTyped, HistoryTyped
  <2> QED
      BY <2>1, <2>2, <2>3, <2>4 DEF Typed
<1>2. Nested
  <2> SUFFICES ASSUME NEW t \in Threads PROVE NestedAt(t)
      BY DEF Nested
  <2>1. stack[t] = <<>> /\ pc[t] = "poll" /\ warpIndex[t] = None /\ frame[t] = Idle
      BY DEF Init
  <2>2. Point(t) = "poll"
      BY <2>1 DEF Point, FlushLabels
  <2>3. ActivationOK(t) /\ ArgsOK(t) /\ Mine(t, warpIndex[t])
      BY <2>1, <2>2 DEF ActivationOK, ArgsOK, Mine, FlushLabels, Releasing
  <2>4. StackOK(t)
      BY <2>1 DEF StackOK
  <2> QED
      BY <2>3, <2>4 DEF NestedAt
<1>3. Tallied
  <2>1. \A t \in Threads : ~Placed(t) /\ ~Acquired(t)
      BY DEF Init, Placed, Below, Acquired, Idle
  <2>2. {t \in Threads : Placed(t)} = {} /\ {t \in Threads : Acquired(t)} = {} /\ pooled = {}
      BY <2>1 DEF Init
  <2>3. parallel = 0 /\ parallel <= MaxParallel
      BY Numbers DEF Init
  <2> QED
      BY <2>2, <2>3, FS_EmptySet DEF Tallied
<1> QED
    BY <1>1, <1>2, <1>3 DEF Typed, HistoryTyped

(* While nobody has waited, every step is one of these.                      *)
Unwaiting(t) ==
    \/ FlushStep(t) \/ ReleaseStep(t) \/ YieldStep(t) \/ ExecuteStep(t) \/ QueueStep(t)
    \/ RoutineStep(t)

(* The types are kept.                                                       *)
LEMMA StepTyped ==
    ASSUME NEW t \in Threads, Typed, NestedAt(t), Unwaiting(t)
    PROVE  Typed'
BY FlushTyped, ReleaseTyped, YieldTyped, ExecuteTyped, QueueTyped, RoutineTyped DEF Unwaiting

(* The thread that moves stays where it belongs.                             *)
LEMMA StepNested ==
    ASSUME NEW t \in Threads, Typed, NestedAt(t), Unwaiting(t)
    PROVE  NestedAt(t)'
<1>1. CASE YieldStep(t)
    BY <1>1, YieldLeaveNested, YieldReflushNested DEF YieldStep
<1>2. CASE ExecuteStep(t)
    BY <1>2, PlainNested, TakeNested, GuardNested, ScanNested, ForwardNested, ReturnNested
       DEF ExecuteStep, PlainExecute
<1> QED
    BY <1>1, <1>2, FlushNested, ReleaseNested, QueueNested, RoutineNested DEF Unwaiting

(* The places are counted.                                                   *)
LEMMA StepCounts ==
    ASSUME NEW t \in Threads, Typed, NestedAt(t), Unwaiting(t)
    PROVE  Counts(t)
BY FlushCounts, ReleaseCounts, YieldCounts, ExecuteCounts, QueueCounts, RoutineCounts DEF Unwaiting

(* Only a call of Wait or a WarpYieldGuard is one that waits.                *)
LEMMA WaitsMoves ==
    ASSUME NEW t \in Threads, ThreadStep(t)
    PROVE  \/ waits' = waits /\ (Unwaiting(t) \/ pc[t] \in {"wait", "waiting", "rewaiting", "rewarp",
                                                           "reacquire"})
           \/ waits' = waits + 1
<1>1. CASE FlushStep(t)
    BY <1>1 DEF FlushStep, FlushMark, FlushAcquire, FlushDispatch, FlushUndo, FlushSetMask,
       FlushAnnounce, history, Unwaiting
<1>2. CASE ReleaseStep(t)
    BY <1>2 DEF ReleaseStep, Release, ReleaseAnnounced, ReleaseUnmask, ReleaseFlushWarp,
       ReleaseUnannounce, history, Unwaiting
<1>3. CASE YieldStep(t)
    BY <1>3 DEF YieldStep, YieldLeave, YieldReflush, history, Unwaiting
<1>4. CASE ExecuteStep(t)
  <2>1. CASE Take(t) \/ Guard(t) \/ Pop(t) \/ NextRing(t) \/ NextPass(t) \/ Forward(t) \/ Return(t)
      BY <1>4, <2>1 DEF Take, Guard, Pop, NextRing, NextPass, Forward, Return, history, Unwaiting
  <2>2. CASE PlainExecute(t)
      BY <1>4, <2>2 DEF PlainExecute, EnterSuspended, Enter, GuardOwn, GuardRecheck,
           ExecuteRecheck, ExecuteRequeue, ExecuteBegin, Invoke, InvokeReturn, ExecuteEnd,
           history, Unwaiting
  <2> QED
      BY <1>4, <2>1, <2>2 DEF ExecuteStep, PlainExecute
<1>5. CASE QueueStep(t)
  <2>1. waits' = waits
    <3>1. CASE Direct(t)
        BY <3>1 DEF Direct
    <3>2. CASE Post(t) \/ DirectRecheck(t) \/ DirectEnd(t)
        BY <3>2 DEF Post, DirectRecheck, DirectEnd, history
    <3> QED
        BY <1>5, <3>1, <3>2 DEF QueueStep
  <2> QED
      BY <1>5, <2>1 DEF Unwaiting
<1>6. CASE RoutineStep(t)
    BY <1>6 DEF RoutineStep, Finish, SuspendWarp, ResumeWarp, SetWarpIndex, Unwaiting
<1>7. CASE WaitStep(t)
    BY <1>7
       DEF WaitStep, Wait, YieldWarp, WaitCheck, WaitPoll, WaitWarp, AcquireFlushOnWait, history
<1> QED
    BY <1>1, <1>2, <1>3, <1>4, <1>5, <1>6, <1>7 DEF ThreadStep, RoutineStep

(* Nothing moves.                                                            *)
LEMMA StutterIInv == IInv /\ UNCHANGED vars => IInv'
<1> SUFFICES ASSUME IInv, UNCHANGED vars PROVE IInv'
    OBVIOUS
<1>1. /\ UNCHANGED <<ring, queueing, suspendCount, threadWarp, stackQueue>>
      /\ UNCHANGED <<parallel, anyFlush, fullFlush, pooled, home>>
      /\ UNCHANGED <<pc, warpIndex, inRoutine, frame, stack, args>>
      /\ UNCHANGED <<fresh, done, inside, suspends, waits, moves>>
    BY DEF vars, warpState, kernelState, activation, history
<1>2. Typed' <=> Typed
    BY <1>1 DEF Typed, LocalTyped, WarpsTyped, KernelTyped, ActivationTyped, HistoryTyped
<1>3. ASSUME NEW t \in Threads, Typed, NestedAt(t)
      PROVE  NestedAt(t)'
    BY <1>1, <1>3, OtherNested DEF Undisturbed, Keeps
<1>4. Tallied' <=> Tallied
    BY <1>1 DEF Tallied, Placed, Below, Acquired, Point
<1> QED
    BY <1>1, <1>2, <1>3, <1>4 DEF IInv, Nested

(* No step breaks the invariant.                                             *)
LEMMA StepIInv == IInv /\ [Next]_vars => IInv'
<1> SUFFICES ASSUME IInv, [Next]_vars PROVE IInv'
    OBVIOUS
<1>1. CASE UNCHANGED vars
    BY <1>1, StutterIInv
<1>2. CASE \E t \in Threads : ThreadStep(t)
  <2>1. PICK t \in Threads : ThreadStep(t)
      BY <1>2
  <2>2. waits' \in Nat /\ (waits' = 0 => waits = 0 /\ waits' = waits)
      BY <2>1, WaitsMoves DEF IInv
  <2>3. ASSUME waits' = 0
        PROVE  Typed' /\ Nested' /\ Tallied'
    <3>1. Typed /\ Nested /\ Tallied /\ waits = 0
        BY <2>2, <2>3 DEF IInv
    <3>2. pc[t] \in Labels /\ NestedAt(t)
        BY <3>1 DEF Typed, LocalTyped, Nested
    <3>3. Unwaiting(t)
        BY <2>1, <2>3, <3>1, <3>2, WaitsMoves DEF Labels
    <3>4. \A v \in Threads \ {t} : Undisturbed(v)
        BY <3>1, <3>3, OthersUndisturbed DEF Unwaiting
    <3>5. Typed'
        BY <3>1, <3>2, <3>3, StepTyped
    <3>6. NestedAt(t)'
        BY <3>1, <3>2, <3>3, StepNested
    <3>7. Nested'
        BY <3>1, <3>4, <3>6, OtherNested DEF Nested
    <3>8. Tallied'
        BY <3>1, <3>2, <3>3, <3>4, StepCounts, TallyMoves
    <3> QED
        BY <3>5, <3>7, <3>8
  <2> QED
      BY <2>2, <2>3 DEF IInv
<1> QED
    BY <1>1, <1>2 DEF Next, Terminated

(* As long as no routine has waited, the types are right, each warp belongs  *)
(* to the thread that is in it, and currentParallelCount is the number of    *)
(* places that are taken.                                                    *)
THEOREM Invariance == Spec => []IInv
BY InitIInv, StepIInv, PTL DEF Spec

-----------------------------------------------------------------------------
(* What follows                                                              *)

(* A thread is in the middle of routines only of warps it has preempted.     *)
LEMMA OccupiesMine ==
    ASSUME Typed, Nested, NEW t \in Threads, NEW w \in Occupies(t)
    PROVE  threadWarp[w] = t
<1>1. w \in Warps /\ w # None /\ NestedAt(t)
    BY NoneApart DEF Occupies, Nested
<1>2. CASE w = warpIndex[t]
    BY <1>1, <1>2 DEF NestedAt, Mine
<1>3. CASE w = frame[t].queue /\ pc[t] = "scan"
    BY <1>1, <1>3, InExecuteLabels DEF ExecuteLabels, Guarded
<1>4. CASE \E s \in Range(stack[t]) : w = s.warp
  <2>1. PICK i \in DOMAIN stack[t] : w = stack[t][i].warp
      BY <1>4 DEF Range
  <2> QED
      BY <1>1, <2>1 DEF NestedAt, StackOK, Mine
<1> QED
    BY <1>2, <1>3, <1>4 DEF Occupies

(* Two threads are never in the middle of routines of the same warp, nor     *)
(* does one take a routine from its ring buffers then, however executions    *)
(* nest (PreemptExecution, YieldExecution and the guards around them).       *)
THEOREM Serial == Spec => [](waits = 0 => WarpsAreSerial)
<1>1. IInv => (waits = 0 => WarpsAreSerial)
  <2> SUFFICES ASSUME Typed, Nested PROVE WarpsAreSerial
      BY DEF IInv
  <2> SUFFICES ASSUME NEW t \in Threads, NEW u \in Threads, t # u, NEW w \in Occupies(t), w \in Occupies(u)
               PROVE  FALSE
      BY DEF WarpsAreSerial
  <2>1. threadWarp[w] = t /\ threadWarp[w] = u
      BY OccupiesMine
  <2> QED
      BY <2>1
<1> QED
    BY <1>1, Invariance, PTL

(* What Tallied counts.                                                      *)
LEMMA TallyFacts ==
    ASSUME Typed, Tallied
    PROVE  LET P == {v \in Threads : Placed(v)}
               A == {v \in Threads : Acquired(v)}
           IN  /\ IsFiniteSet(P) /\ Cardinality(P) \in Nat /\ Cardinality(A) \in Nat
               /\ Cardinality(pooled) \in Nat /\ parallel \in Nat
               /\ parallel = Cardinality(pooled) + Cardinality(P) + Cardinality(A)
               /\ parallel <= MaxParallel
<1> DEFINE P == {v \in Threads : Placed(v)}
           A == {v \in Threads : Acquired(v)}
<1>1. P \subseteq Threads /\ A \subseteq Threads /\ pooled \subseteq Warps
    BY DEF Typed, KernelTyped
<1>2. IsFiniteSet(P) /\ IsFiniteSet(A) /\ IsFiniteSet(pooled)
    BY <1>1, KernelAssumption, FS_Subset
<1>3. Cardinality(P) \in Nat /\ Cardinality(A) \in Nat /\ Cardinality(pooled) \in Nat
    BY <1>2, FS_CardinalityType
<1> QED
    BY <1>2, <1>3, Numbers DEF Tallied, Typed, KernelTyped

(* However many workers take warps from the pool, at most maxParallelCount   *)
(* of them run routines (AcquireFlush and ReleaseFlush).                     *)
THEOREM Bound == Spec => [](waits = 0 => ParallelBound)
<1>1. IInv => (waits = 0 => ParallelBound)
  <2> SUFFICES ASSUME Typed, Tallied PROVE ParallelBound
      BY DEF IInv
  <2> DEFINE P == {v \in Threads : Placed(v)}
             E == {v \in Threads : Executes(v)}
  <2>1. E \subseteq P
      BY DEF Executes, Placed, Point, FlushLabels, Gone, Releasing
  <2>2. IsFiniteSet(P) /\ Cardinality(P) \in Nat /\ Cardinality(P) <= MaxParallel
      BY TallyFacts, Numbers
  <2>3. Cardinality(E) <= Cardinality(P) /\ Cardinality(E) \in Nat
    <3> HIDE DEF P, E
    <3> QED
        BY <2>1, <2>2, FS_Subset, FS_CardinalityType
  <2>4. Cardinality(E) <= MaxParallel
    <3> HIDE DEF P, E
    <3> QED
        BY <2>2, <2>3, Numbers
  <2> QED
      BY <2>4 DEF ParallelBound
<1> QED
    BY <1>1, Invariance, PTL

(* The assertions of the code hold, the one of ReleaseFlush among them: who  *)
(* gives a place back has one, so that the counter does not wrap.            *)
THEOREM Assertions == Spec => [](waits = 0 => CodeAssertions)
<1>1. IInv => (waits = 0 => CodeAssertions)
  <2> SUFFICES ASSUME Typed, Nested, Tallied PROVE CodeAssertions
      BY DEF IInv
  <2>1. TypeOK
      BY DEF TypeOK, Typed, WarpsTyped, KernelTyped, ActivationTyped, HistoryTyped
  <2>2. ReleaseAssertion
    <3> SUFFICES ASSUME NEW t \in Threads, pc[t] = "release" PROVE parallel # 0
        BY DEF ReleaseAssertion
    <3> DEFINE P == {v \in Threads : Placed(v)}
    <3>1. Point(t) = "release"
        BY DEF Point, FlushLabels
    <3>2. frame[t].queue # None
        BY <3>1 DEF Nested, NestedAt, ActivationOK, Directed
    <3>3. t \in P
        BY <3>1, <3>2 DEF Placed, Gone, Releasing
    <3>4. Cardinality(P) > 0
      <4> HIDE DEF P
      <4>1. P \in SUBSET Threads
          BY DEF P
      <4> QED
          BY <3>3, <4>1, OneMoves
    <3> QED
        BY <3>4, TallyFacts
  <2>3. ASSUME NEW t \in Threads
        PROVE  /\ pc[t] = "invoke" => warpIndex[t] = frame[t].queue
               /\ pc[t] # "rewaiting"
    <3>1. pc[t] \in Labels /\ NestedAt(t)
        BY DEF Typed, LocalTyped, Nested
    <3> QED
        BY <3>1, InExecuteLabels DEF Labels, ExecuteLabels, Guarded
  <2> QED
      BY <2>1, <2>2, <2>3 DEF CodeAssertions
<1> QED
    BY <1>1, Invariance, PTL

(* When the workers are idle and the pool is empty, no place is taken: none  *)
(* has leaked on the way (the assertion of Reset).                           *)
THEOREM Returned == Spec => [](waits = 0 => PlacesReturned)
<1>1. IInv => (waits = 0 => PlacesReturned)
  <2> SUFFICES ASSUME Typed, Nested, Tallied, Quiescent PROVE parallel = 0
      BY DEF IInv, PlacesReturned
  <2>1. ASSUME NEW t \in Threads
        PROVE  ~Placed(t) /\ ~Acquired(t)
    <3>1. pc[t] = "poll" /\ Point(t) = "poll" /\ NestedAt(t)
        BY DEF Quiescent, Point, FlushLabels, Nested
    <3>2. stack[t] = <<>> /\ frame[t] = Idle
        BY <3>1 DEF NestedAt, ActivationOK, Guarded, Directed, Releasing
    <3> QED
        BY <3>1, <3>2 DEF Placed, Below, Acquired, Idle
  <2>2. {v \in Threads : Placed(v)} = {} /\ {v \in Threads : Acquired(v)} = {} /\ pooled = {}
      BY <2>1 DEF Quiescent
  <2> QED
      BY <2>2, FS_EmptySet DEF Tallied
<1> QED
    BY <1>1, Invariance, PTL

-----------------------------------------------------------------------------
(* Routines are conserved, whoever waits                                     *)

(* The labels of a wait too, and where the calls return to.                  *)
WaitLabels == {"wait", "waiting", "rewaiting", "rewarp", "reacquire"}
EveryLabel == Labels \cup WaitLabels
PollBack == {"poll", "wait", "rewarp"}
YieldBack == PollBack \cup {"release", "return"}
FlushBack == YieldBack \cup {"body", "invoked", "undirect", "unmask"}
ReleaseBack == {"poll", "return", "wait"}

ArgsKind ==
    [flush : Warps \cup {None}, flushRet : FlushBack, yield : Warps \cup {None},
     yieldRet : YieldBack, releaseRet : ReleaseBack]

EntryKind == [frame : FrameType, pc : PollBack \cup {"body"}, warp : Warps \cup {None}]

LocalKinds == pc \in [Threads -> EveryLabel] /\ args \in [Threads -> ArgsKind]

ActivationKinds ==
    /\ warpIndex \in [Threads -> Warps \cup {None}]
    /\ inRoutine \in [Threads -> BOOLEAN]
    /\ frame \in [Threads -> FrameType]
    /\ stack \in [Threads -> Seq(EntryKind)]

Kinds == LocalKinds /\ WarpsTyped /\ KernelTyped /\ ActivationKinds /\ HistoryTyped

(* Where a thread is in its activation once its calls have returned.         *)
ReturnsTo(l, a) ==
    IF l \in FlushLabels THEN a.flushRet
    ELSE IF l \in {"yield", "yielded"} THEN a.yieldRet ELSE l

ComesTo(l, a) ==
    IF ReturnsTo(l, a) \in Releasing \cup {"release"} THEN a.releaseRet ELSE ReturnsTo(l, a)

(* A call has what it is called with.                                        *)
CallOK(l, a) ==
    /\ l \in FlushLabels \cup {"reflush"} => a.flush # None
    /\ l = "reflush" => a.flushRet = "unmask"
    /\ l \in {"yield", "yielded"} => a.yield # None

(* The labels of Execute, and those at which an activation has a routine.    *)
Executing == ExecuteLabels \ {"release"}
Running == {"invoke", "body", "directed"} \cup WaitLabels

FrameOK(c, f, s) ==
    /\ c \in Executing => f.queue # None
    /\ c \in Running <=> f.task # None
    /\ c = "poll" <=> s = <<>>
    /\ s = <<>> => f = Idle

(* What an activation has interrupted has a routine, but for the thread that *)
(* was idle.                                                                 *)
BelowOK(s) ==
    \A i \in 1 .. Len(s) :
        IF i = Len(s) THEN s[i].frame = Idle /\ s[i].pc = "poll"
                      ELSE s[i].frame.task # None /\ s[i].pc # "poll"

ShapedAt(t) ==
    /\ CallOK(pc[t], args[t])
    /\ FrameOK(ComesTo(pc[t], args[t]), frame[t], stack[t])
    /\ BelowOK(stack[t])

Shaped == \A t \in Threads : ShapedAt(t)

(* The routine of each activation of a thread, counted from the bottom.      *)
Depth(t) == Len(stack[t]) + 1

At(t, d) == IF d = Depth(t) THEN frame[t].task ELSE stack[t][Depth(t) - d].frame.task

Runs(t, x) == \E d \in 1 .. Depth(t) : At(t, d) = x

Lies(w, t, x) == \E i \in 1 .. Len(ring[w][t]) : ring[w][t][i] = x

Begun == {x \in Tasks : \E t \in Threads : Runs(t, x)}

InRings == {x \in Tasks : \E w \in Warps, t \in Threads : Lies(w, t, x)}

(* A routine is in one of the four, and there once.                          *)
Parted ==
    /\ fresh \cup done \cup Begun \cup InRings = Tasks
    /\ fresh \cap done = {} /\ (fresh \cup done) \cap (Begun \cup InRings) = {}
    /\ Begun \cap InRings = {}

RunsOnce ==
    \A t, u \in Threads : \A d \in 1 .. Depth(t), e \in 1 .. Depth(u) :
        At(t, d) = At(u, e) /\ At(t, d) # None => t = u /\ d = e

LiesOnce ==
    \A w, v \in Warps, t, u \in Threads :
        \A i \in 1 .. Len(ring[w][t]), j \in 1 .. Len(ring[v][u]) :
            ring[w][t][i] = ring[v][u][j] => w = v /\ t = u /\ i = j

OnePlace == Parted /\ RunsOnce /\ LiesOnce

Conserved == Kinds /\ Shaped /\ OnePlace

-----------------------------------------------------------------------------
(* How a thread moves                                                        *)

Moves(t, l, a, f, s) ==
    /\ pc' = [pc EXCEPT ![t] = l] /\ args' = [args EXCEPT ![t] = a]
    /\ frame' = [frame EXCEPT ![t] = f] /\ stack' = [stack EXCEPT ![t] = s]

OwnKinds ==
    /\ pc \in [Threads -> EveryLabel] /\ args \in [Threads -> ArgsKind]
    /\ frame \in [Threads -> FrameType] /\ stack \in [Threads -> Seq(EntryKind)]

(* What a thread has, at any label.                                          *)
LEMMA OwnFields ==
    ASSUME Kinds, NEW t \in Threads
    PROVE  /\ OwnKinds
           /\ pc[t] \in EveryLabel /\ args[t] \in ArgsKind /\ frame[t] \in FrameType
           /\ stack[t] \in Seq(EntryKind) /\ warpIndex[t] \in Warps \cup {None}
           /\ args[t].flush \in Warps \cup {None} /\ args[t].yield \in Warps \cup {None}
           /\ args[t].flushRet \in FlushBack /\ args[t].yieldRet \in YieldBack
           /\ args[t].releaseRet \in ReleaseBack
           /\ frame[t].queue \in Warps \cup {None} /\ frame[t].guard \in Warps \cup {None}
           /\ frame[t].task \in Tasks \cup {None} /\ frame[t].left \in Warps \cup {None}
           /\ frame[t].until \in Tasks \cup {None}
           /\ frame[t].scan \in 1 .. Len(Rings) + 1 /\ frame[t].executed \in BOOLEAN
<1>1. OwnKinds
    BY DEF Kinds, LocalKinds, ActivationKinds, OwnKinds
<1>2. /\ pc[t] \in EveryLabel /\ args[t] \in ArgsKind /\ frame[t] \in FrameType
      /\ stack[t] \in Seq(EntryKind)
    BY <1>1 DEF OwnKinds
<1>3. warpIndex[t] \in Warps \cup {None}
    BY DEF Kinds, ActivationKinds
<1>4. /\ args[t].flush \in Warps \cup {None} /\ args[t].yield \in Warps \cup {None}
      /\ args[t].flushRet \in FlushBack /\ args[t].yieldRet \in YieldBack
      /\ args[t].releaseRet \in ReleaseBack
    BY <1>2 DEF ArgsKind
<1>5. /\ frame[t].queue \in Warps \cup {None} /\ frame[t].guard \in Warps \cup {None}
      /\ frame[t].task \in Tasks \cup {None} /\ frame[t].left \in Warps \cup {None}
      /\ frame[t].until \in Tasks \cup {None}
      /\ frame[t].scan \in 1 .. Len(Rings) + 1 /\ frame[t].executed \in BOOLEAN
    BY <1>2 DEF FrameType
<1> QED
    BY <1>1, <1>2, <1>3, <1>4, <1>5

(* A thread that moves keeps its shape if where it comes to fits what it has. *)
LEMMA ShapeMoves ==
    ASSUME Kinds, Shaped, NEW t \in Threads, NEW l \in EveryLabel, NEW a \in ArgsKind,
           NEW f \in FrameType, NEW s \in Seq(EntryKind), Moves(t, l, a, f, s),
           CallOK(l, a), FrameOK(ComesTo(l, a), f, s), BelowOK(s)
    PROVE  OwnKinds' /\ Shaped'
<1>1. OwnKinds
    BY OwnFields
<1>2. OwnKinds'
    BY <1>1 DEF OwnKinds, Moves
<1>3. ASSUME NEW u \in Threads
      PROVE  ShapedAt(u)'
  <2>1. CASE u = t
    <3>1. pc'[t] = l /\ args'[t] = a /\ frame'[t] = f /\ stack'[t] = s
        BY <1>1 DEF OwnKinds, Moves
    <3> QED
        BY <2>1, <3>1 DEF ShapedAt
  <2>2. CASE u # t
    <3>1. pc'[u] = pc[u] /\ args'[u] = args[u] /\ frame'[u] = frame[u] /\ stack'[u] = stack[u]
        BY <1>1, <2>2 DEF OwnKinds, Moves
    <3>2. ShapedAt(u)
        BY DEF Shaped
    <3> QED
        BY <3>1, <3>2 DEF ShapedAt
  <2> QED
      BY <2>1, <2>2
<1> QED
    BY <1>2, <1>3 DEF Shaped

(* A step inside a call: where the thread comes to stays the same.           *)
LEMMA CallMoves ==
    ASSUME Kinds, Shaped, NEW t \in Threads, NEW l \in EveryLabel, NEW a \in ArgsKind,
           pc' = [pc EXCEPT ![t] = l], args' = [args EXCEPT ![t] = a],
           UNCHANGED <<frame, stack>>, CallOK(l, a), ComesTo(l, a) = ComesTo(pc[t], args[t])
    PROVE  OwnKinds' /\ Shaped'
<1>1. /\ OwnKinds /\ frame[t] \in FrameType /\ stack[t] \in Seq(EntryKind)
    BY OwnFields
<1>2. frame' = [frame EXCEPT ![t] = frame[t]] /\ stack' = [stack EXCEPT ![t] = stack[t]]
    BY <1>1 DEF OwnKinds
<1>3. Moves(t, l, a, frame[t], stack[t])
    BY <1>2 DEF Moves
<1>4. FrameOK(ComesTo(l, a), frame[t], stack[t]) /\ BelowOK(stack[t])
    BY DEF Shaped, ShapedAt
<1> QED
    BY <1>1, <1>3, <1>4, ShapeMoves

(* What becomes of the arguments in a call.                                  *)
LEMMA ArgsKinds ==
    ASSUME NEW a \in ArgsKind, NEW w \in Warps \cup {None}
    PROVE  /\ NoArgs \in ArgsKind
           /\ \A l \in FlushBack : [a EXCEPT !.flush = w, !.flushRet = l] \in ArgsKind
           /\ \A m \in YieldBack : [a EXCEPT !.yield = w, !.yieldRet = m] \in ArgsKind
           /\ \A n \in ReleaseBack : [a EXCEPT !.releaseRet = n] \in ArgsKind
           /\ \A m \in YieldBack, n \in ReleaseBack :
                 [a EXCEPT !.yield = w, !.yieldRet = m, !.releaseRet = n] \in ArgsKind
           /\ \A l \in FlushBack, n \in ReleaseBack :
                 [a EXCEPT !.flush = w, !.flushRet = l, !.releaseRet = n] \in ArgsKind
<1>1. NoArgs \in ArgsKind
    BY DEF ArgsKind, NoArgs, FlushBack, YieldBack, PollBack, ReleaseBack
<1>2. \A l \in FlushBack : [a EXCEPT !.flush = w, !.flushRet = l] \in ArgsKind
    BY DEF ArgsKind
<1>3. \A m \in YieldBack : [a EXCEPT !.yield = w, !.yieldRet = m] \in ArgsKind
    BY DEF ArgsKind
<1>4. \A n \in ReleaseBack : [a EXCEPT !.releaseRet = n] \in ArgsKind
    BY DEF ArgsKind
<1>5. \A m \in YieldBack, n \in ReleaseBack :
         [a EXCEPT !.yield = w, !.yieldRet = m, !.releaseRet = n] \in ArgsKind
    BY DEF ArgsKind
<1>6. \A l \in FlushBack, n \in ReleaseBack :
         [a EXCEPT !.flush = w, !.flushRet = l, !.releaseRet = n] \in ArgsKind
    BY DEF ArgsKind
<1> QED
    BY <1>1, <1>2, <1>3, <1>4, <1>5, <1>6

(* The labels, as they are used: those in a call, and where it may return to. *)
LEMMA LabelKinds ==
    /\ FlushBack \subseteq EveryLabel /\ YieldBack \subseteq FlushBack
    /\ ReleaseBack \subseteq YieldBack /\ PollBack \subseteq YieldBack
    /\ FlushLabels \subseteq EveryLabel /\ Releasing \subseteq EveryLabel
    /\ Executing \subseteq EveryLabel /\ Running \subseteq EveryLabel
    /\ \A l \in FlushBack : l \notin FlushLabels \cup {"yield", "yielded", "reflush"}
    /\ \A l \in ReleaseBack : l \notin Releasing \cup {"release"}
    /\ \A l \in Executing \cup Running :
          l \notin FlushLabels \cup Releasing \cup {"yield", "yielded", "reflush", "release", "poll"}
BY DEF FlushBack, YieldBack, PollBack, ReleaseBack, EveryLabel, Labels, WaitLabels, FlushLabels,
       Releasing, Executing, ExecuteLabels, Guarded, Running

(* Where a thread comes to, at the labels that are in no call.               *)
LEMMA ComesBack ==
    ASSUME NEW a \in ArgsKind
    PROVE  /\ \A l \in FlushLabels : ComesTo(l, a) =
                 IF a.flushRet \in Releasing \cup {"release"} THEN a.releaseRet ELSE a.flushRet
           /\ \A l \in {"yield", "yielded"} : ComesTo(l, a) =
                 IF a.yieldRet = "release" THEN a.releaseRet ELSE a.yieldRet
           /\ \A l \in Releasing \cup {"release"} : ComesTo(l, a) = a.releaseRet
           /\ \A l : l \notin FlushLabels \cup Releasing \cup {"yield", "yielded", "release"}
                        => ComesTo(l, a) = l
<1>1. a.yieldRet \in YieldBack
    BY DEF ArgsKind
<1> QED
    BY <1>1 DEF ComesTo, ReturnsTo, FlushLabels, Releasing, YieldBack, PollBack

-----------------------------------------------------------------------------
(* The calls                                                                 *)

(* Flush returns to its caller; ReleaseFlush goes on with the next warp.     *)
LEMMA FlushLeaves ==
    ASSUME Kinds, Shaped, NEW t \in Threads, UNCHANGED <<frame, stack>>,
           \/ pc[t] \in FlushLabels /\ (FlushReturns(t, TRUE) \/ FlushReturns(t, FALSE))
           \/ pc[t] = "reflush" /\ FlushReturns(t, FALSE)
    PROVE  OwnKinds' /\ Shaped'
<1> DEFINE a == args[t]
           b == FlushArgs(t, None, "poll")
<1>1. /\ a \in ArgsKind /\ a.flushRet \in FlushBack /\ a.releaseRet \in ReleaseBack
      /\ ShapedAt(t)
    BY OwnFields DEF Shaped
<1>2. b \in ArgsKind /\ b.releaseRet = a.releaseRet
  <2>1. "poll" \in FlushBack
      BY DEF FlushBack, YieldBack, PollBack
  <2> QED
      BY <1>1, <2>1, ArgsKinds DEF FlushArgs, ArgsKind
<1>3. PICK l \in FlushBack : /\ pc' = [pc EXCEPT ![t] = l]
                             /\ l = a.flushRet \/ (l = a.releaseRet /\ a.flushRet = "unmask")
                             /\ args' = [args EXCEPT ![t] = b]
    BY <1>1, LabelKinds DEF FlushReturns, Goto
<1>4. pc[t] = "reflush" => a.flushRet = "unmask"
    BY <1>1 DEF ShapedAt, CallOK
<1>5. CallOK(l, b)
    BY <1>3, LabelKinds DEF CallOK
<1>6. ComesTo(l, b) = ComesTo(pc[t], a)
  <2>1. ComesTo(l, b) = IF l \in Releasing \cup {"release"} THEN a.releaseRet ELSE l
      BY <1>2, <1>3, LabelKinds, ComesBack
  <2>2. ComesTo(pc[t], a) =
           IF a.flushRet \in Releasing \cup {"release"} THEN a.releaseRet ELSE a.flushRet
    <3>1. CASE pc[t] \in FlushLabels
        BY <1>1, <3>1, ComesBack
    <3>2. CASE pc[t] = "reflush"
        BY <1>1, <1>4, <3>2, ComesBack DEF Releasing
    <3> QED
        BY <3>1, <3>2
  <2>3. a.releaseRet \notin Releasing \cup {"release"} /\ "unmask" \in Releasing
      BY <1>1, LabelKinds DEF Releasing
  <2> QED
      BY <1>3, <2>1, <2>2, <2>3
<1> QED
    BY <1>2, <1>3, <1>5, <1>6, LabelKinds, CallMoves

(* A thread goes from one label of Flush to another.                         *)
LEMMA FlushGoes ==
    ASSUME Kinds, Shaped, NEW t \in Threads, UNCHANGED <<frame, stack, args>>,
           pc[t] \in FlushLabels, NEW l \in FlushLabels, Goto(t, l)
    PROVE  OwnKinds' /\ Shaped'
<1>1. args[t] \in ArgsKind /\ ShapedAt(t) /\ args = [args EXCEPT ![t] = args[t]]
    BY OwnFields DEF Shaped, OwnKinds
<1>2. ComesTo(l, args[t]) = ComesTo(pc[t], args[t])
    BY <1>1, ComesBack
<1>3. CallOK(l, args[t])
    BY <1>1 DEF ShapedAt, CallOK, FlushLabels
<1> QED
    BY <1>1, <1>2, <1>3, LabelKinds, CallMoves DEF Goto

(* Flush.                                                                    *)
LEMMA FlushShape ==
    ASSUME Kinds, Shaped, NEW t \in Threads, FlushStep(t)
    PROVE  OwnKinds' /\ Shaped'
<1>1. UNCHANGED <<frame, stack>> /\ pc[t] \in FlushLabels
    BY DEF FlushStep, FlushMark, FlushAcquire, FlushDispatch, FlushUndo, FlushSetMask,
           FlushAnnounce, activation, FlushLabels
<1>2. \/ FlushReturns(t, TRUE) \/ FlushReturns(t, FALSE)
      \/ \E l \in FlushLabels : Goto(t, l) /\ UNCHANGED args
    BY DEF FlushStep, FlushMark, FlushAcquire, FlushDispatch, FlushUndo, FlushSetMask,
           FlushAnnounce, FlushLabels
<1> QED
    BY <1>1, <1>2, FlushLeaves, FlushGoes

(* ReleaseFlush.                                                             *)
LEMMA ReleaseShape ==
    ASSUME Kinds, Shaped, NEW t \in Threads, ReleaseStep(t)
    PROVE  OwnKinds' /\ Shaped'
<1>1. UNCHANGED <<frame, stack>>
    BY DEF ReleaseStep, Release, ReleaseAnnounced, ReleaseUnmask, ReleaseFlushWarp,
           ReleaseUnannounce, activation
<1>2. /\ OwnKinds /\ args[t] \in ArgsKind /\ args[t].releaseRet \in ReleaseBack
      /\ args[t].flush \in Warps \cup {None} /\ ShapedAt(t)
    BY OwnFields DEF Shaped
<1>3. args = [args EXCEPT ![t] = args[t]]
    BY <1>2 DEF OwnKinds
<1>4. ASSUME pc[t] \in Releasing \cup {"release"}, UNCHANGED args,
             NEW l \in {"announced", "unmask", "unannounce"}, Goto(t, l)
      PROVE  OwnKinds' /\ Shaped'
  <2>1. ComesTo(l, args[t]) = ComesTo(pc[t], args[t])
      BY <1>2, <1>4, ComesBack DEF Releasing
  <2> QED
      BY ZenonT(60), <1>1, <1>2, <1>3, <1>4, <2>1, LabelKinds, CallMoves DEF Goto, CallOK, Releasing, FlushLabels
<1>5. ASSUME pc[t] = "unannounce", Goto(t, args[t].releaseRet), UNCHANGED args
      PROVE  OwnKinds' /\ Shaped'
  <2>1. ComesTo(args[t].releaseRet, args[t]) = ComesTo(pc[t], args[t])
      BY <1>2, <1>5, ComesBack, LabelKinds DEF Releasing
  <2>2. CallOK(args[t].releaseRet, args[t])
      BY <1>2, LabelKinds DEF CallOK
  <2> QED
      BY <1>1, <1>2, <1>3, <1>5, <2>1, <2>2, LabelKinds, CallMoves DEF Goto
<1>6. ASSUME pc[t] = "unmask", NEW w \in fullFlush, Goto(t, "reflush"),
             args' = [args EXCEPT ![t] = FlushArgs(t, w, "unmask")]
      PROVE  OwnKinds' /\ Shaped'
  <2> DEFINE b == [args[t] EXCEPT !.flush = w, !.flushRet = "unmask"]
  <2>1. w \in Warps /\ w # None
      BY <1>6, NoneApart DEF Kinds, KernelTyped
  <2>2. b \in ArgsKind
    <3>1. "unmask" \in FlushBack
        BY DEF FlushBack
    <3> QED
        BY <1>2, <2>1, <3>1, ArgsKinds
  <2>3. b.flush = w /\ b.flushRet = "unmask" /\ b.releaseRet = args[t].releaseRet
      BY <1>2 DEF ArgsKind
  <2>4. CallOK("reflush", b)
      BY <2>1, <2>3 DEF CallOK
  <2>5. ComesTo("reflush", b) = ComesTo(pc[t], args[t])
    <3>1. ComesTo("reflush", b) = b.releaseRet
        BY <2>2, ComesBack DEF Releasing
    <3>2. ComesTo(pc[t], args[t]) = args[t].releaseRet
        BY <1>2, <1>6, ComesBack DEF Releasing
    <3> QED
        BY <2>3, <3>1, <3>2
  <2> QED
      BY <1>1, <1>6, <2>2, <2>4, <2>5, LabelKinds, CallMoves DEF Goto, FlushArgs, Releasing
<1>7. ASSUME pc[t] = "reflush", Goto(t, "flush"), UNCHANGED args
      PROVE  OwnKinds' /\ Shaped'
  <2>1. args[t].flushRet = "unmask" /\ CallOK("flush", args[t])
      BY <1>2, <1>7 DEF ShapedAt, CallOK
  <2>2. ComesTo("flush", args[t]) = ComesTo(pc[t], args[t])
      BY <1>2, <1>7, <2>1, ComesBack DEF Releasing, FlushLabels
  <2> QED
      BY <1>1, <1>2, <1>3, <1>7, <2>1, <2>2, LabelKinds, CallMoves DEF Goto, FlushLabels
<1>8. CASE Release(t) \/ ReleaseAnnounced(t)
    BY <1>4, <1>8 DEF Release, ReleaseAnnounced, Releasing
<1>9. CASE ReleaseUnmask(t)
    BY <1>4, <1>6, <1>9 DEF ReleaseUnmask, Releasing
<1>10. CASE ReleaseFlushWarp(t)
    BY <1>1, <1>7, <1>10, FlushLeaves DEF ReleaseFlushWarp
<1>11. CASE ReleaseUnannounce(t)
    BY <1>4, <1>5, <1>11 DEF ReleaseUnannounce, Releasing
<1> QED
    BY <1>8, <1>9, <1>10, <1>11 DEF ReleaseStep

(* YieldExecution.                                                           *)
LEMMA YieldShape ==
    ASSUME Kinds, Shaped, NEW t \in Threads, YieldStep(t)
    PROVE  OwnKinds' /\ Shaped'
<1> DEFINE a == args[t]
           b == [a EXCEPT !.yield = None, !.yieldRet = "poll"]
           c == [b EXCEPT !.flush = a.yield, !.flushRet = a.yieldRet]
<1>1. UNCHANGED <<frame, stack>> /\ pc[t] \in {"yield", "yielded"}
    BY DEF YieldStep, YieldLeave, YieldReflush, activation
<1>2. /\ OwnKinds /\ a \in ArgsKind /\ a.releaseRet \in ReleaseBack /\ a.yieldRet \in YieldBack
      /\ a.yield \in Warps \cup {None} /\ ShapedAt(t)
    BY OwnFields DEF Shaped
<1>3. a.yield # None
    BY <1>1, <1>2 DEF ShapedAt, CallOK
<1>4. b \in ArgsKind /\ c \in ArgsKind
  <2>0. "poll" \in YieldBack
      BY DEF YieldBack, PollBack
  <2>1. b \in ArgsKind
      BY <1>2, <2>0, ArgsKinds
  <2> QED
      BY <1>2, <2>1, ArgsKinds, LabelKinds
<1>5. /\ b.releaseRet = a.releaseRet /\ c.releaseRet = a.releaseRet
      /\ c.flush = a.yield /\ c.flushRet = a.yieldRet
    BY <1>2, <1>4 DEF ArgsKind
<1>6. ComesTo(pc[t], a) = IF a.yieldRet = "release" THEN a.releaseRet ELSE a.yieldRet
    BY <1>1, <1>2, ComesBack
<1>7. CASE YieldReturns(t)
  <2>1. pc' = [pc EXCEPT ![t] = a.yieldRet] /\ args' = [args EXCEPT ![t] = b]
      BY <1>7 DEF YieldReturns, Goto
  <2>2. CallOK(a.yieldRet, b)
      BY <1>2, LabelKinds DEF CallOK
  <2>3. ComesTo(a.yieldRet, b) = ComesTo(pc[t], a)
    <3>1. CASE a.yieldRet = "release"
        BY <1>4, <1>5, <1>6, <3>1, ComesBack
    <3>2. CASE a.yieldRet # "release"
        BY <1>2, <1>4, <1>6, <3>2, ComesBack
           DEF YieldBack, PollBack, FlushLabels, Releasing
    <3> QED
        BY <3>1, <3>2
  <2> QED
      BY <1>1, <1>2, <1>4, <2>1, <2>2, <2>3, LabelKinds, CallMoves
<1>8. CASE YieldLeave(t) /\ ~YieldReturns(t)
  <2>1. pc[t] = "yield" /\ Goto(t, "yielded") /\ UNCHANGED args
      BY <1>8 DEF YieldLeave
  <2>2. args = [args EXCEPT ![t] = a]
      BY <1>2 DEF OwnKinds
  <2>3. ComesTo("yielded", a) = ComesTo(pc[t], a)
      BY <1>2, <2>1, ComesBack
  <2>4. CallOK("yielded", a) /\ "yielded" \in EveryLabel
      BY <1>3 DEF CallOK, EveryLabel, Labels, FlushLabels
  <2> QED
      BY <1>1, <1>2, <2>1, <2>2, <2>3, <2>4, CallMoves DEF Goto
<1>9. CASE YieldReflush(t) /\ ~YieldReturns(t)
  <2>1. pc' = [pc EXCEPT ![t] = "flush"] /\ args' = [args EXCEPT ![t] = c]
      BY <1>9 DEF YieldReflush, Goto
  <2>2. ComesTo("flush", c) = ComesTo(pc[t], a)
    <3>1. ComesTo("flush", c) =
             IF a.yieldRet \in Releasing \cup {"release"} THEN a.releaseRet ELSE a.yieldRet
        BY <1>4, <1>5, ComesBack DEF FlushLabels
    <3> QED
        BY <1>2, <1>6, <3>1 DEF YieldBack, PollBack, Releasing
  <2>3. CallOK("flush", c) /\ "flush" \in EveryLabel
      BY <1>3, <1>5 DEF CallOK, EveryLabel, Labels, FlushLabels
  <2> QED
      BY <1>1, <1>4, <2>1, <2>2, <2>3, CallMoves
<1> QED
    BY <1>7, <1>8, <1>9 DEF YieldStep

-----------------------------------------------------------------------------
(* The activations                                                           *)

(* A step within an activation.                                              *)
LEMMA WithinMoves ==
    ASSUME Kinds, Shaped, NEW t \in Threads, NEW l \in EveryLabel, NEW a \in ArgsKind,
           NEW f \in FrameType, pc' = [pc EXCEPT ![t] = l], args' = [args EXCEPT ![t] = a],
           frame' = [frame EXCEPT ![t] = f], UNCHANGED stack, CallOK(l, a),
           ComesTo(pc[t], args[t]) # "poll", ComesTo(l, a) # "poll",
           ComesTo(l, a) \in Executing => f.queue # None,
           ComesTo(l, a) \in Running <=> f.task # None
    PROVE  OwnKinds' /\ Shaped'
<1>1. /\ OwnKinds /\ stack[t] \in Seq(EntryKind) /\ stack = [stack EXCEPT ![t] = stack[t]]
    BY OwnFields DEF OwnKinds
<1>2. stack[t] # <<>> /\ BelowOK(stack[t])
    BY DEF Shaped, ShapedAt, FrameOK
<1>3. FrameOK(ComesTo(l, a), f, stack[t])
    BY <1>2 DEF FrameOK
<1>4. Moves(t, l, a, f, stack[t])
    BY <1>1 DEF Moves
<1> QED
    BY <1>1, <1>2, <1>3, <1>4, ShapeMoves

(* The labels that are in no call, and what a thread has there.              *)
Plain == Executing \cup Running \cup {"undirect", "return"}

(* What a thread has at a label that is in no call.                          *)
LEMMA PlainHas ==
    ASSUME Kinds, Shaped, NEW t \in Threads, pc[t] \in Plain
    PROVE  /\ ComesTo(pc[t], args[t]) = pc[t] /\ pc[t] # "poll" /\ stack[t] # <<>>
           /\ pc[t] \in Executing => frame[t].queue \in Warps
           /\ pc[t] \in Running => frame[t].task \in Tasks
           /\ pc[t] \notin Running => frame[t].task = None
<1>1. ComesTo(pc[t], args[t]) = pc[t] /\ pc[t] # "poll"
  <2>1. pc[t] \notin FlushLabels \cup Releasing \cup {"yield", "yielded", "release", "poll"}
      BY LabelKinds DEF Plain, FlushLabels, Releasing
  <2> QED
      BY <2>1, ComesBack, OwnFields
<1>2. FrameOK(pc[t], frame[t], stack[t])
    BY <1>1 DEF Shaped, ShapedAt
<1> QED
    BY <1>1, <1>2, OwnFields DEF FrameOK

(* It goes on at another one.                                                *)
LEMMA PlainGoes ==
    ASSUME Kinds, Shaped, NEW t \in Threads, pc[t] \in Plain, NEW l \in Plain,
           NEW a \in ArgsKind, NEW f \in FrameType,
           pc' = [pc EXCEPT ![t] = l], args' = [args EXCEPT ![t] = a],
           frame' = [frame EXCEPT ![t] = f], UNCHANGED stack,
           l \in Executing => f.queue # None, l \in Running <=> f.task # None
    PROVE  OwnKinds' /\ Shaped'
<1>1. l \notin FlushLabels \cup Releasing \cup {"yield", "yielded", "release", "reflush", "poll"}
    BY LabelKinds DEF Plain, FlushLabels, Releasing
<1>2. l \in EveryLabel
    BY LabelKinds DEF Plain, EveryLabel, Labels
<1>3. ComesTo(l, a) = l /\ CallOK(l, a)
    BY <1>1, ComesBack DEF CallOK
<1> QED
    BY <1>1, <1>2, <1>3, PlainHas, WithinMoves

(* It goes on there and keeps what it has.                                   *)
LEMMA PlainStays ==
    ASSUME Kinds, Shaped, NEW t \in Threads, pc[t] \in Plain, NEW l \in Plain, Goto(t, l),
           UNCHANGED <<args, frame, stack>>,
           l \in Executing => frame[t].queue # None, l \in Running <=> pc[t] \in Running
    PROVE  OwnKinds' /\ Shaped'
<1>1. /\ args[t] \in ArgsKind /\ frame[t] \in FrameType
      /\ args = [args EXCEPT ![t] = args[t]] /\ frame = [frame EXCEPT ![t] = frame[t]]
    BY OwnFields DEF OwnKinds
<1>2. l \in Running <=> frame[t].task # None
    BY PlainHas, NoneApart
<1> QED
    BY <1>1, <1>2, PlainGoes DEF Goto

(* It calls Flush.                                                           *)
LEMMA FlushCalled ==
    ASSUME Kinds, Shaped, NEW t \in Threads, pc[t] \in Plain, NEW w \in Warps,
           NEW l \in {"body", "wait", "rewarp", "invoked", "undirect"}, CallFlush(t, w, l),
           NEW f \in FrameType, frame' = [frame EXCEPT ![t] = f], UNCHANGED stack,
           l = "invoked" => f.queue # None, l \in Running <=> f.task # None
    PROVE  OwnKinds' /\ Shaped'
<1> DEFINE a == FlushArgs(t, w, l)
<1>1. l \in FlushBack /\ l \notin Releasing \cup {"release", "poll"}
    BY DEF FlushBack, YieldBack, PollBack, Releasing
<1>2. a \in ArgsKind
    BY <1>1, ArgsKinds, OwnFields DEF FlushArgs
<1>3. a.flush = w /\ a.flushRet = l
    BY OwnFields DEF FlushArgs, ArgsKind
<1>4. ComesTo("flush", a) = l
    BY <1>1, <1>2, <1>3, ComesBack DEF FlushLabels
<1>5. CallOK("flush", a) /\ "flush" \in EveryLabel
    BY <1>3, NoneApart DEF CallOK, EveryLabel, Labels
<1>6. l \in Executing => f.queue # None
    BY DEF Executing, ExecuteLabels, Guarded
<1> QED
    BY <1>1, <1>2, <1>4, <1>5, <1>6, PlainHas, WithinMoves DEF CallFlush, Goto

(* It calls YieldExecution, and ReleaseFlush perhaps after it.               *)
LEMMA YieldCalled ==
    ASSUME Kinds, Shaped, NEW t \in Threads, pc[t] \in Plain, NEW w \in Warps,
           NEW b \in {"release", "return", "rewarp"}, NEW r \in ReleaseBack, r # "poll" \/ b # "release",
           NEW f \in FrameType, frame' = [frame EXCEPT ![t] = f], UNCHANGED stack,
           pc' = [pc EXCEPT ![t] = "yield"],
           args' = [args EXCEPT ![t] = [args[t] EXCEPT !.yield = w, !.yieldRet = b, !.releaseRet = r]],
           (IF b = "release" THEN r ELSE b) \in Running <=> f.task # None
    PROVE  OwnKinds' /\ Shaped'
<1> DEFINE a == [args[t] EXCEPT !.yield = w, !.yieldRet = b, !.releaseRet = r]
<1>1. b \in YieldBack
    BY DEF YieldBack, PollBack
<1>2. a \in ArgsKind
    BY <1>1, ArgsKinds, OwnFields
<1>3. a.yield = w /\ a.yieldRet = b /\ a.releaseRet = r
    BY OwnFields DEF ArgsKind
<1>4. ComesTo("yield", a) = IF b = "release" THEN r ELSE b
    BY <1>2, <1>3, ComesBack
<1>5. CallOK("yield", a) /\ "yield" \in EveryLabel
    BY <1>3, NoneApart DEF CallOK, EveryLabel, Labels, FlushLabels
<1>6. ComesTo("yield", a) \notin Executing /\ ComesTo("yield", a) # "poll"
    BY <1>4 DEF Executing, ExecuteLabels, Guarded, ReleaseBack
<1> QED
    BY <1>2, <1>4, <1>5, <1>6, PlainHas, WithinMoves

(* Execute comes to its end.                                                 *)
LEMMA LeaveShape ==
    ASSUME Kinds, Shaped, NEW t \in Threads, pc[t] \in Executing, pc[t] \notin Running,
           ExecuteReleases(t) \/ LeaveGuard(t), UNCHANGED <<frame, stack>>
    PROVE  OwnKinds' /\ Shaped'
<1>1. /\ args[t] \in ArgsKind /\ frame[t] \in FrameType /\ frame = [frame EXCEPT ![t] = frame[t]]
      /\ frame[t].guard \in Warps \cup {None}
    BY OwnFields DEF OwnKinds
<1>2. pc[t] \in Plain /\ frame[t].task = None
    BY PlainHas DEF Plain
<1>3. CASE ExecuteReleases(t)
  <2> DEFINE a == [args[t] EXCEPT !.releaseRet = "return"]
  <2>1. a \in ArgsKind
      BY <1>1, ArgsKinds DEF ReleaseBack
  <2>2. a.releaseRet = "return"
      BY <1>1 DEF ArgsKind
  <2>3. ComesTo("release", a) = "return" /\ CallOK("release", a) /\ "release" \in EveryLabel
      BY <2>1, <2>2, ComesBack DEF CallOK, EveryLabel, Labels, FlushLabels
  <2>4. "return" \notin Executing \cup Running
      BY DEF Executing, ExecuteLabels, Guarded, Running, WaitLabels
  <2>5. pc' = [pc EXCEPT ![t] = "release"] /\ args' = [args EXCEPT ![t] = a]
      BY <1>3 DEF ExecuteReleases, Goto
  <2>6. ComesTo(pc[t], args[t]) # "poll"
      BY <1>2, PlainHas
  <2> QED
      BY <1>1, <1>2, <2>1, <2>3, <2>4, <2>5, <2>6, WithinMoves
<1>4. CASE LeaveGuard(t) /\ ~ExecuteReleases(t)
  <2>1. frame[t].guard \in Warps
      BY <1>1, <1>4 DEF LeaveGuard
  <2>2. "return" \in ReleaseBack /\ "return" \notin Running
      BY DEF ReleaseBack, Running, WaitLabels
  <2>3. /\ pc' = [pc EXCEPT ![t] = "yield"]
        /\ args' = [args EXCEPT ![t] = [args[t] EXCEPT !.yield = frame[t].guard,
                                            !.yieldRet = "release", !.releaseRet = "return"]]
      BY <1>4 DEF LeaveGuard, Goto
  <2> QED
      BY <1>1, <1>2, <2>1, <2>2, <2>3, YieldCalled
<1> QED
    BY <1>3, <1>4

(* The steps of Execute between its first look and its end.                  *)
LEMMA PlainShape ==
    ASSUME Kinds, Shaped, NEW t \in Threads, PlainExecute(t)
    PROVE  OwnKinds' /\ Shaped'
<1>1. UNCHANGED <<frame, stack>>
    BY DEF PlainExecute, EnterSuspended, Enter, GuardOwn, GuardRecheck, ExecuteRecheck,
           ExecuteRequeue, ExecuteBegin, Invoke, InvokeReturn, ExecuteEnd, activation
<1>2. pc[t] \in {"enter", "guard", "guarded", "begin", "requeue", "flushing", "invoke", "invoked", "end"}
    BY DEF PlainExecute, EnterSuspended, Enter, GuardOwn, GuardRecheck, ExecuteRecheck,
           ExecuteRequeue, ExecuteBegin, Invoke, InvokeReturn, ExecuteEnd
<1>3. pc[t] \in Executing /\ pc[t] \in Plain /\ frame[t].queue \in Warps
  <2>1. pc[t] \in Executing
      BY <1>2 DEF Executing, ExecuteLabels, Guarded
  <2> QED
      BY <2>1, PlainHas DEF Plain
<1>4. ASSUME pc[t] # "invoke", NEW l \in Executing \ {"invoke"}, Goto(t, l), UNCHANGED args
      PROVE  OwnKinds' /\ Shaped'
  <2>1. l \in Plain /\ l \notin Running /\ pc[t] \notin Running
      BY <1>2, <1>4 DEF Plain, Running, WaitLabels, Executing, ExecuteLabels, Guarded
  <2> QED
      BY <1>1, <1>3, <1>4, <2>1, NoneApart, PlainStays
<1>5. ASSUME ExecuteReleases(t) \/ LeaveGuard(t), pc[t] \in {"enter", "guarded", "requeue"}
      PROVE  OwnKinds' /\ Shaped'
    BY <1>1, <1>3, <1>5, LeaveShape DEF Running, WaitLabels
<1>6. CASE EnterSuspended(t) \/ ExecuteRequeue(t)
    BY <1>5, <1>6 DEF EnterSuspended, ExecuteRequeue
<1>7. CASE Enter(t) \/ GuardOwn(t) \/ ExecuteRecheck(t) \/ ExecuteBegin(t) \/ InvokeReturn(t)
    BY <1>4, <1>7 DEF Enter, GuardOwn, ExecuteRecheck, ExecuteBegin, InvokeReturn, Executing,
                      ExecuteLabels, Guarded
<1>8. CASE GuardRecheck(t)
    BY <1>4, <1>5, <1>8 DEF GuardRecheck, Executing, ExecuteLabels, Guarded
<1>9. CASE Invoke(t)
  <2>1. pc[t] = "invoke" /\ Goto(t, "body") /\ UNCHANGED args
      BY <1>9 DEF Invoke
  <2>2. "body" \in Plain /\ "body" \notin Executing /\ "body" \in Running /\ "invoke" \in Running
      BY DEF Plain, Running, Executing, ExecuteLabels, Guarded
  <2> QED
      BY <1>1, <1>3, <2>1, <2>2, PlainStays
<1>10. CASE ExecuteEnd(t)
  <2> DEFINE a == args[t]
             q == frame[t].queue
  <2>1. /\ pc[t] = "end" /\ a \in ArgsKind /\ frame[t] \in FrameType
        /\ frame = [frame EXCEPT ![t] = frame[t]]
      BY <1>10, OwnFields DEF ExecuteEnd, OwnKinds
  <2>2. frame[t].task = None /\ "return" \notin Running /\ "return" \in ReleaseBack
      BY <1>3, <2>1, PlainHas DEF Running, WaitLabels, ReleaseBack
  <2>3. CASE threadWarp[q] = t
    <3>1. /\ pc' = [pc EXCEPT ![t] = "yield"]
          /\ args' = [args EXCEPT ![t] = [a EXCEPT !.yield = q, !.yieldRet = "release",
                                                   !.releaseRet = "return"]]
        BY <1>10, <2>1, <2>3 DEF ExecuteEnd, Goto, OwnKinds
    <3> QED
        BY <1>1, <1>3, <2>1, <2>2, <3>1, YieldCalled
  <2>4. CASE threadWarp[q] # t
    <3> DEFINE b == [a EXCEPT !.flush = q, !.flushRet = "release", !.releaseRet = "return"]
    <3>1. pc' = [pc EXCEPT ![t] = "flush"] /\ args' = [args EXCEPT ![t] = b]
        BY <1>10, <2>1, <2>4 DEF ExecuteEnd, Goto, OwnKinds
    <3>2. "release" \in FlushBack /\ "flush" \in EveryLabel
        BY DEF FlushBack, YieldBack, EveryLabel, Labels
    <3>3. b \in ArgsKind
        BY <1>3, <2>1, <2>2, <3>2, ArgsKinds
    <3>4. b.flush = q /\ b.flushRet = "release" /\ b.releaseRet = "return"
        BY <2>1 DEF ArgsKind
    <3>5. ComesTo("flush", b) = "return" /\ CallOK("flush", b)
        BY <1>3, <3>3, <3>4, ComesBack, NoneApart DEF FlushLabels, CallOK
    <3>6. "return" \notin Executing
        BY DEF Executing, ExecuteLabels, Guarded
    <3> QED
        BY ZenonT(60), <1>1, <1>3, <2>1, <2>2, <3>1, <3>2, <3>3, <3>5, <3>6, PlainHas, WithinMoves
  <2> QED
      BY <2>3, <2>4
<1> QED
    BY <1>6, <1>7, <1>8, <1>9, <1>10 DEF PlainExecute

(* The guard of Execute.                                                     *)
LEMMA GuardShape ==
    ASSUME Kinds, Shaped, NEW t \in Threads, Guard(t)
    PROVE  OwnKinds' /\ Shaped'
<1>1. /\ pc[t] = "guard" /\ UNCHANGED stack /\ pc[t] \in Executing /\ pc[t] \in Plain
      /\ pc[t] \notin Running
    BY DEF Guard, Executing, ExecuteLabels, Guarded, Plain, Running, WaitLabels
<1>2. CASE ExecuteReleases(t) /\ UNCHANGED frame
    BY <1>1, <1>2, LeaveShape
<1>3. CASE ~(ExecuteReleases(t) /\ UNCHANGED frame)
  <2> DEFINE f == [frame[t] EXCEPT !.guard = frame[t].queue]
  <2>1. /\ Goto(t, "guarded") /\ UNCHANGED args
        /\ frame' = [frame EXCEPT ![t].guard = frame[t].queue]
      BY <1>3 DEF Guard
  <2>2. /\ frame[t] \in FrameType /\ frame[t].queue \in Warps /\ frame[t].task = None
        /\ args[t] \in ArgsKind /\ args = [args EXCEPT ![t] = args[t]] /\ OwnKinds
      BY <1>1, PlainHas, OwnFields DEF OwnKinds
  <2>3. f \in FrameType /\ f.queue = frame[t].queue /\ f.task = None
      BY <2>2 DEF FrameType
  <2>4. frame' = [frame EXCEPT ![t] = f]
      BY <2>1
  <2>5. "guarded" \in Plain /\ "guarded" \notin Running
      BY DEF Plain, Executing, ExecuteLabels, Guarded, Running, WaitLabels
  <2> QED
      BY <1>1, <2>1, <2>2, <2>3, <2>4, <2>5, NoneApart, PlainGoes DEF Goto
<1> QED
    BY <1>2, <1>3

(* OnOperation: where it takes the next routine, and where it looks.         *)
LEMMA ScanShape ==
    ASSUME Kinds, Shaped, NEW t \in Threads, Pop(t) \/ NextRing(t) \/ NextPass(t)
    PROVE  /\ OwnKinds' /\ Shaped' /\ frame[t].task = None /\ frame[t].queue \in Warps
           /\ Pop(t) => /\ Rings[frame[t].scan] \in Threads
                        /\ ring[frame[t].queue][Rings[frame[t].scan]] \in Seq(Tasks)
                        /\ frame'[t].task = Head(ring[frame[t].queue][Rings[frame[t].scan]])
           /\ ~Pop(t) => frame'[t].task = None
<1>1. /\ pc[t] = "scan" /\ pc[t] \in Plain /\ pc[t] \notin Running /\ pc[t] \in Executing
      /\ UNCHANGED <<stack, args>>
    BY DEF Pop, NextRing, NextPass, Plain, Executing, ExecuteLabels, Guarded, Running, WaitLabels
<1>2. /\ frame[t] \in FrameType /\ frame[t].queue \in Warps /\ frame[t].task = None
      /\ args[t] \in ArgsKind /\ args = [args EXCEPT ![t] = args[t]] /\ OwnKinds
      /\ frame[t].scan \in 1 .. Len(Rings) + 1
    BY <1>1, PlainHas, OwnFields DEF OwnKinds
<1>3. CASE Pop(t)
  <2> DEFINE w == frame[t].queue
             s == Rings[frame[t].scan]
             f == [frame[t] EXCEPT !.task = Head(ring[w][s]), !.executed = TRUE]
  <2>1. frame[t].scan \in 1 .. Len(Rings)
      BY <1>2, <1>3, IdleType DEF Pop
  <2>2. s \in Threads /\ ring[w][s] \in Seq(Tasks) /\ ring[w][s] # <<>>
    <3>1. s \in Threads
        BY <2>1, KernelAssumption, ElementOfSeq
    <3>2. ring[w][s] \in Seq(Tasks)
        BY <1>2, <3>1 DEF Kinds, WarpsTyped
    <3> QED
        BY <1>3, <3>1, <3>2 DEF Pop
  <2>3. Head(ring[w][s]) \in Tasks
      BY <2>2, HeadTailProperties
  <2>4. f \in FrameType /\ f.queue = w /\ f.task = Head(ring[w][s])
      BY <1>2, <2>3 DEF FrameType
  <2>5. frame' = [frame EXCEPT ![t] = f]
      BY <1>3 DEF Pop
  <2>6. "invoke" \in Plain /\ "invoke" \in Running
      BY DEF Plain, Running
  <2>7. OwnKinds' /\ Shaped'
    <3>1. pc' = [pc EXCEPT ![t] = "invoke"]
        BY <1>3 DEF Goto, Pop
    <3>2. f.task # None /\ f.queue # None
        BY <1>2, <2>3, <2>4, NoneApart
    <3> QED
        BY <1>1, <1>2, <2>4, <2>5, <2>6, <3>1, <3>2, PlainGoes
  <2> QED
      BY <1>2, <1>3, <2>2, <2>4, <2>5, <2>7 DEF OwnKinds
<1>4. CASE NextRing(t) /\ ~Pop(t)
  <2> DEFINE f == [frame[t] EXCEPT !.scan = frame[t].scan + 1]
  <2>1. f \in FrameType /\ f.queue = frame[t].queue /\ f.task = None
      BY <1>2, <1>4, IdleType DEF FrameType, NextRing
  <2>2. frame' = [frame EXCEPT ![t] = f] /\ pc' = [pc EXCEPT ![t] = "scan"]
      BY <1>1, <1>2, <1>4 DEF NextRing, OwnKinds
  <2>3. OwnKinds' /\ Shaped'
      BY <1>1, <1>2, <2>1, <2>2, NoneApart, PlainGoes
  <2> QED
      BY <1>2, <1>4, <2>1, <2>2, <2>3 DEF OwnKinds
<1>5. CASE NextPass(t) /\ ~Pop(t)
  <2> DEFINE f == [frame[t] EXCEPT !.scan = 1, !.executed = FALSE]
             l == IF frame[t].executed THEN "scan" ELSE "end"
  <2>0. 1 \in 1 .. Len(Rings) + 1
      BY IdleType
  <2>1. f \in FrameType /\ f.queue = frame[t].queue /\ f.task = None
      BY <1>2, <2>0 DEF FrameType
  <2>2. frame' = [frame EXCEPT ![t] = f] /\ pc' = [pc EXCEPT ![t] = l]
      BY <1>5 DEF NextPass, Goto
  <2>3. l \in Plain /\ l \notin Running
      BY DEF Plain, Executing, ExecuteLabels, Guarded, Running, WaitLabels
  <2>4. OwnKinds' /\ Shaped'
      BY <1>1, <1>2, <2>1, <2>2, <2>3, NoneApart, PlainGoes
  <2> QED
      BY <1>2, <1>5, <2>1, <2>2, <2>4 DEF OwnKinds
<1> QED
    BY <1>3, <1>4, <1>5

(* A routine is put back into a ring: the frame gives it up.                 *)
Gives(t, x, w) ==
    /\ x \in Tasks /\ x = frame[t].task /\ w \in Warps
    /\ ring' = [ring EXCEPT ![w][t] = Append(@, x)]
    /\ frame' = [frame EXCEPT ![t].task = None]

(* The frame without its routine.                                            *)
LEMMA GivenFrame ==
    ASSUME Kinds, NEW t \in Threads
    PROVE  /\ [frame[t] EXCEPT !.task = None] \in FrameType
           /\ [frame[t] EXCEPT !.task = None].task = None
           /\ [frame[t] EXCEPT !.task = None].queue = frame[t].queue
BY OwnFields DEF FrameType

(* A routine whose object has moved.                                         *)
LEMMA ForwardShape ==
    ASSUME Kinds, Shaped, NEW t \in Threads, Forward(t)
    PROVE  OwnKinds' /\ Shaped' /\ Gives(t, frame[t].task, home[frame[t].task])
<1> DEFINE f == [frame[t] EXCEPT !.task = None]
<1>1. /\ pc[t] = "invoke" /\ pc[t] \in Plain /\ pc[t] \in Running /\ pc[t] \in Executing
      /\ UNCHANGED stack
    BY DEF Forward, Plain, Executing, ExecuteLabels, Guarded, Running
<1>2. frame[t].task \in Tasks /\ frame[t].queue \in Warps
    BY <1>1, PlainHas
<1>3. home[frame[t].task] \in Warps
    BY <1>2 DEF Kinds, KernelTyped
<1>4. f \in FrameType /\ f.task = None /\ f.queue = frame[t].queue
    BY GivenFrame
<1>5. frame' = [frame EXCEPT ![t] = f] /\ CallFlush(t, home[frame[t].task], "invoked")
    BY DEF Forward
<1>6. "invoked" \notin Running
    BY DEF Running, WaitLabels
<1> QED
    BY <1>1, <1>2, <1>3, <1>4, <1>5, <1>6, NoneApart, FlushCalled DEF Gives, Forward

(* QueueRoutine looks at suspendCount again.                                 *)
LEMMA RecheckShape ==
    ASSUME Kinds, Shaped, NEW t \in Threads, DirectRecheck(t)
    PROVE  /\ OwnKinds' /\ Shaped'
           /\ \/ Gives(t, frame[t].task, home[frame[t].task])
              \/ UNCHANGED <<frame, ring>>
<1> DEFINE f == [frame[t] EXCEPT !.task = None]
<1>1. /\ pc[t] = "directed" /\ pc[t] \in Plain /\ pc[t] \in Running /\ UNCHANGED stack
    BY DEF DirectRecheck, Plain, Running
<1>2. frame[t].task \in Tasks
    BY <1>1, PlainHas
<1>3. home[frame[t].task] \in Warps
    BY <1>2 DEF Kinds, KernelTyped
<1>4. f \in FrameType /\ f.task = None /\ f.queue = frame[t].queue
    BY GivenFrame
<1>5. "undirect" \notin Running /\ "body" \in Plain /\ "body" \in Running /\ "body" \notin Executing
    BY DEF Running, WaitLabels, Plain, Executing, ExecuteLabels, Guarded
<1>6. CASE suspendCount[frame[t].guard] = 0
    BY <1>1, <1>5, <1>6, PlainStays DEF DirectRecheck
<1>7. CASE suspendCount[frame[t].guard] # 0
  <2>1. frame' = [frame EXCEPT ![t] = f] /\ CallFlush(t, home[frame[t].task], "undirect")
      BY <1>7 DEF DirectRecheck
  <2> QED
      BY <1>1, <1>2, <1>3, <1>4, <1>5, <1>7, <2>1, FlushCalled DEF Gives, DirectRecheck
<1> QED
    BY <1>6, <1>7

(* The end of QueueRoutine.                                                  *)
LEMMA DirectEndShape ==
    ASSUME Kinds, Shaped, NEW t \in Threads, DirectEnd(t)
    PROVE  OwnKinds' /\ Shaped'
<1>1. /\ pc[t] = "undirect" /\ pc[t] \in Plain /\ pc[t] \notin Running /\ UNCHANGED <<frame, stack>>
    BY DEF DirectEnd, Plain, Running, WaitLabels, activation
<1>2. /\ frame[t] \in FrameType /\ frame = [frame EXCEPT ![t] = frame[t]] /\ frame[t].task = None
      /\ frame[t].guard \in Warps \cup {None} /\ args[t] \in ArgsKind
      /\ args[t].releaseRet \in ReleaseBack
    BY <1>1, PlainHas, OwnFields DEF OwnKinds
<1>3. "return" \in Plain /\ "return" \notin Running /\ "return" \notin Executing
    BY DEF Plain, Running, WaitLabels, Executing, ExecuteLabels, Guarded
<1>4. CASE frame[t].guard = None
    BY <1>1, <1>3, <1>4, PlainStays DEF DirectEnd
<1>5. CASE frame[t].guard # None
  <2>1. [args[t] EXCEPT !.yield = frame[t].guard, !.yieldRet = "return"]
           = [args[t] EXCEPT !.yield = frame[t].guard, !.yieldRet = "return",
                             !.releaseRet = args[t].releaseRet]
      BY <1>2 DEF ArgsKind
  <2>2. /\ pc' = [pc EXCEPT ![t] = "yield"]
        /\ args' = [args EXCEPT ![t] = [args[t] EXCEPT !.yield = frame[t].guard, !.yieldRet = "return",
                                            !.releaseRet = args[t].releaseRet]]
    <3>1. args' = [args EXCEPT ![t] = [args[t] EXCEPT !.yield = frame[t].guard, !.yieldRet = "return"]]
        BY <1>5 DEF DirectEnd, CallYield
    <3> QED
        BY <1>5, <2>1, <3>1 DEF DirectEnd, CallYield, Goto
  <2> QED
      BY <1>1, <1>2, <1>3, <1>5, <2>2, YieldCalled
<1> QED
    BY <1>4, <1>5

(* What lies below an activation, and below the one it interrupts.           *)
LEMMA BelowPushes ==
    ASSUME NEW s \in Seq(EntryKind), BelowOK(s), NEW e \in EntryKind,
           s = <<>> => e.frame = Idle /\ e.pc = "poll",
           s # <<>> => e.frame.task # None /\ e.pc # "poll"
    PROVE  /\ <<e>> \o s \in Seq(EntryKind) /\ BelowOK(<<e>> \o s) /\ <<e>> \o s # <<>>
           /\ Len(<<e>> \o s) = Len(s) + 1 /\ (<<e>> \o s)[1] = e
           /\ \A i \in 1 .. Len(s) : (<<e>> \o s)[i + 1] = s[i]
<1> DEFINE r == <<e>> \o s
<1>1. /\ Len(s) \in Nat /\ r \in Seq(EntryKind) /\ Len(r) = Len(s) + 1 /\ r[1] = e
      /\ \A i \in 1 .. Len(s) : r[i + 1] = s[i]
  <2>1. <<e>> \in Seq(EntryKind) /\ Len(<<e>>) = 1 /\ <<e>>[1] = e /\ Len(s) \in Nat
      BY LenProperties
  <2>2. r \in Seq(EntryKind) /\ Len(r) = Len(s) + 1
      BY <2>1, ConcatProperties
  <2>3. r[1] = e
      BY <2>1, ConcatProperties
  <2>4. ASSUME NEW i \in 1 .. Len(s)
        PROVE  r[i + 1] = s[i]
      BY <2>1, ConcatProperties
  <2> QED
      BY <2>1, <2>2, <2>3, <2>4
<1>2. s = <<>> <=> Len(s) = 0
    BY EmptySeq
<1>3. ASSUME NEW i \in 1 .. Len(r)
      PROVE  IF i = Len(r) THEN r[i].frame = Idle /\ r[i].pc = "poll"
                           ELSE r[i].frame.task # None /\ r[i].pc # "poll"
  <2>1. CASE i = 1
      BY <1>1, <1>2, <2>1
  <2>2. CASE i # 1
    <3>1. i - 1 \in 1 .. Len(s) /\ r[i] = s[i - 1] /\ (i = Len(r) <=> i - 1 = Len(s))
      <4>1. i - 1 \in 1 .. Len(s) /\ (i - 1) + 1 = i /\ (i = Len(r) <=> i - 1 = Len(s))
          BY <1>1, <2>2
      <4> QED
          BY <1>1, <4>1
    <3> QED
        BY <3>1 DEF BelowOK
  <2> QED
      BY <2>1, <2>2
<1>4. r # <<>>
    BY <1>1
<1>5. BelowOK(r)
    BY <1>3 DEF BelowOK
<1> QED
    BY <1>1, <1>4, <1>5

(* A thread begins an activation: what it was in is the first entry.         *)
Interrupts(t, f) ==
    \E e \in EntryKind :
        /\ e.frame = frame[t]
        /\ stack' = [stack EXCEPT ![t] = <<e>> \o stack[t]]
        /\ frame' = [frame EXCEPT ![t] = f]

(* An activation begins at a point where the thread may poll, or in a        *)
(* routine.                                                                  *)
LEMMA Begins ==
    ASSUME Kinds, Shaped, NEW t \in Threads, Polling(t) \/ pc[t] = "body",
           NEW f \in FrameType, Activate(t, f, AfterPoll(t)), NEW l \in {"enter", "body", "directed"},
           Goto(t, l), UNCHANGED args, l = "enter" => f.queue # None /\ f.task = None,
           l # "enter" => f.task # None
    PROVE  OwnKinds' /\ Shaped' /\ Interrupts(t, f)
<1> DEFINE e == [frame |-> frame[t], pc |-> AfterPoll(t), warp |-> warpIndex[t]]
           s == <<e>> \o stack[t]
<1>1. /\ frame[t] \in FrameType /\ stack[t] \in Seq(EntryKind) /\ args[t] \in ArgsKind
      /\ warpIndex[t] \in Warps \cup {None} /\ args = [args EXCEPT ![t] = args[t]]
    BY OwnFields DEF OwnKinds
<1>2. AfterPoll(t) \in PollBack \cup {"body"} /\ (AfterPoll(t) = "poll" <=> pc[t] = "poll")
    BY DEF AfterPoll, Polling, PollBack
<1>3. e \in EntryKind /\ e.frame = frame[t] /\ e.pc = AfterPoll(t)
    BY <1>1, <1>2 DEF EntryKind
<1>4. FrameOK(pc[t], frame[t], stack[t]) /\ BelowOK(stack[t])
  <2>1. pc[t] \notin FlushLabels \cup Releasing \cup {"yield", "yielded", "release"}
      BY DEF Polling, FlushLabels, Releasing
  <2>2. ComesTo(pc[t], args[t]) = pc[t]
      BY <1>1, <2>1, ComesBack
  <2> QED
      BY <2>2 DEF Shaped, ShapedAt
<1>5. /\ stack[t] = <<>> => e.frame = Idle /\ e.pc = "poll"
      /\ stack[t] # <<>> => e.frame.task # None /\ e.pc # "poll"
  <2>1. pc[t] # "poll" => pc[t] \in Running
      BY DEF Polling, Running, WaitLabels
  <2> QED
      BY <1>2, <1>3, <1>4, <2>1 DEF FrameOK
<1>6. s \in Seq(EntryKind) /\ BelowOK(s) /\ s # <<>>
    BY <1>1, <1>3, <1>4, <1>5, BelowPushes
<1>7. ComesTo(l, args[t]) = l /\ CallOK(l, args[t]) /\ l \in EveryLabel
    BY <1>1, ComesBack DEF FlushLabels, Releasing, CallOK, EveryLabel, Labels
<1>8. FrameOK(l, f, s)
    BY <1>6 DEF FrameOK, Executing, ExecuteLabels, Guarded, Running, WaitLabels
<1>9. Moves(t, l, args[t], f, s)
    BY <1>1 DEF Moves, Activate, Goto
<1>10. Interrupts(t, f)
    BY <1>3, <1>9 DEF Interrupts, Moves
<1> QED
    BY <1>1, <1>6, <1>7, <1>8, <1>9, <1>10, ShapeMoves

(* A worker takes a warp from the pool.                                      *)
LEMMA TakeShape ==
    ASSUME Kinds, Shaped, NEW t \in Threads, Take(t)
    PROVE  /\ OwnKinds' /\ Shaped'
           /\ \E f \in FrameType : Interrupts(t, f) /\ f.task = None
<1>1. PICK w \in pooled : Activate(t, [Idle EXCEPT !.queue = w], AfterPoll(t))
    BY DEF Take
<1> DEFINE f == [Idle EXCEPT !.queue = w]
<1>2. w \in Warps /\ w # None
    BY NoneApart DEF Kinds, KernelTyped
<1>3. f \in FrameType /\ f.queue = w /\ f.task = None
    BY <1>2, IdleType DEF FrameType, Idle
<1> QED
    BY <1>1, <1>2, <1>3, Begins DEF Take

(* QueueRoutine runs the routine at once.                                    *)
LEMMA DirectShape ==
    ASSUME Kinds, Shaped, NEW t \in Threads, Direct(t)
    PROVE  /\ OwnKinds' /\ Shaped'
           /\ \E x \in fresh, f \in FrameType :
                 Interrupts(t, f) /\ f.task = x /\ fresh' = fresh \ {x}
<1>1. PICK x \in fresh :
         /\ fresh' = fresh \ {x}
         /\ \/ /\ Activate(t, [Idle EXCEPT !.task = x], AfterPoll(t))
               /\ Goto(t, "body")
            \/ /\ Activate(t, [Idle EXCEPT !.task = x, !.guard = home[x]], AfterPoll(t))
               /\ Goto(t, "directed")
    BY DEF Direct
<1>2. x \in Tasks /\ home[x] \in Warps /\ x # None
    BY NoneApart DEF Kinds, HistoryTyped, KernelTyped
<1>3. (Polling(t) \/ pc[t] = "body") /\ UNCHANGED args
    BY DEF Direct
<1>4. CASE Activate(t, [Idle EXCEPT !.task = x], AfterPoll(t)) /\ Goto(t, "body")
  <2> DEFINE f == [Idle EXCEPT !.task = x]
  <2>1. f \in FrameType /\ f.task = x
      BY <1>2, FrameBegins DEF Idle
  <2>2. OwnKinds' /\ Shaped' /\ Interrupts(t, f)
      BY <1>2, <1>3, <1>4, <2>1, Begins
  <2> QED
      BY <1>1, <2>1, <2>2
<1>5. CASE /\ Activate(t, [Idle EXCEPT !.task = x, !.guard = home[x]], AfterPoll(t))
           /\ Goto(t, "directed")
  <2> DEFINE f == [Idle EXCEPT !.task = x, !.guard = home[x]]
  <2>1. f \in FrameType /\ f.task = x
      BY <1>2, FrameBegins DEF Idle
  <2>2. OwnKinds' /\ Shaped' /\ Interrupts(t, f)
      BY <1>2, <1>3, <1>5, <2>1, Begins
  <2> QED
      BY <1>1, <2>1, <2>2
<1> QED
    BY <1>1, <1>4, <1>5

(* Execute and QueueRoutine return: the first entry is what the thread is in *)
(* again.                                                                    *)
Resumes(t) ==
    /\ stack[t] # <<>>
    /\ stack' = [stack EXCEPT ![t] = Tail(stack[t])]
    /\ frame' = [frame EXCEPT ![t] = stack[t][1].frame]

(* The activation that returns has no routine any more.                      *)
LEMMA ReturnShape ==
    ASSUME Kinds, Shaped, NEW t \in Threads, Return(t)
    PROVE  OwnKinds' /\ Shaped' /\ Resumes(t) /\ frame[t].task = None
<1> DEFINE s == stack[t]
           r == Tail(s)
<1>1. /\ pc[t] = "return" /\ pc[t] \in Plain /\ pc[t] \notin Running
    BY DEF Return, Plain, Running, WaitLabels
<1>2. s \in Seq(EntryKind) /\ s # <<>> /\ frame[t].task = None /\ BelowOK(s) /\ OwnKinds
    BY <1>1, PlainHas, OwnFields DEF Shaped, ShapedAt
<1>3. /\ Len(s) \in Nat \ {0} /\ s[1] \in EntryKind /\ Head(s) = s[1] /\ r \in Seq(EntryKind)
      /\ Len(r) = Len(s) - 1 /\ \A i \in 1 .. Len(r) : r[i] = s[i + 1]
  <2>1. Len(s) \in Nat \ {0} /\ Head(s) = s[1]
      BY <1>2, EmptySeq, LenProperties
  <2>2. s[1] \in EntryKind
      BY <1>2, <2>1, ElementOfSeq
  <2>3. r \in Seq(EntryKind) /\ Len(r) = Len(s) - 1 /\ \A i \in 1 .. Len(r) : r[i] = s[i + 1]
      BY <1>2, HeadTailProperties
  <2> QED
      BY <2>1, <2>2, <2>3
<1>4. s[1].pc \in PollBack \cup {"body"} /\ s[1].frame \in FrameType
    BY <1>3 DEF EntryKind
<1>5. IF Len(s) = 1 THEN s[1].frame = Idle /\ s[1].pc = "poll"
                    ELSE s[1].frame.task # None /\ s[1].pc # "poll"
  <2>1. 1 \in 1 .. Len(s)
      BY <1>3
  <2>2. IF 1 = Len(s) THEN s[1].frame = Idle /\ s[1].pc = "poll"
                      ELSE s[1].frame.task # None /\ s[1].pc # "poll"
      BY <1>2, <2>1 DEF BelowOK
  <2> QED
      BY <2>2
<1>6. BelowOK(r)
  <2>1. ASSUME NEW i \in 1 .. Len(r)
        PROVE  i + 1 \in 1 .. Len(s) /\ r[i] = s[i + 1] /\ (i = Len(r) <=> i + 1 = Len(s))
      BY <1>3
  <2> QED
      BY <1>2, <2>1 DEF BelowOK
<1>7. r = <<>> <=> Len(s) = 1
  <2>1. r = <<>> <=> Len(r) = 0
      BY <1>3, EmptySeq
  <2> QED
      BY <1>3, <2>1
<1>8. Moves(t, s[1].pc, NoArgs, s[1].frame, r)
    BY <1>3 DEF Moves, Return, Goto
<1>9. NoArgs \in ArgsKind
    BY ArgsKinds, OwnFields
<1>10. /\ ComesTo(s[1].pc, NoArgs) = s[1].pc /\ CallOK(s[1].pc, NoArgs)
       /\ s[1].pc \in EveryLabel
    BY <1>4, <1>9, ComesBack DEF PollBack, FlushLabels, Releasing, CallOK, EveryLabel, Labels, WaitLabels
<1>11. FrameOK(s[1].pc, s[1].frame, r)
  <2>1. s[1].pc \notin Executing /\ (s[1].pc \in Running <=> s[1].pc # "poll")
      BY <1>4 DEF PollBack, Executing, ExecuteLabels, Guarded, Running, WaitLabels
  <2>2. Idle.task = None
      BY DEF Idle
  <2> QED
      BY <1>5, <1>7, <2>1, <2>2 DEF FrameOK
<1>12. Resumes(t)
    BY <1>2, <1>3 DEF Resumes, Return
<1> QED
    BY <1>2, <1>3, <1>4, <1>6, <1>8, <1>9, <1>10, <1>11, <1>12, ShapeMoves

-----------------------------------------------------------------------------
(* Queueing, and what a routine does                                         *)

(* A thread that polls, or runs a routine, queues one.                       *)
LEMMA PostShape ==
    ASSUME Kinds, Shaped, NEW t \in Threads, Post(t)
    PROVE  OwnKinds' /\ Shaped' /\ UNCHANGED <<frame, stack>>
<1>1. PICK x \in fresh : CallFlush(t, home[x], AfterPoll(t))
    BY DEF Post
<1>2. home[x] \in Warps /\ home[x] # None
    BY NoneApart DEF Kinds, HistoryTyped, KernelTyped
<1>3. /\ frame[t] \in FrameType /\ frame = [frame EXCEPT ![t] = frame[t]]
      /\ stack = [stack EXCEPT ![t] = stack[t]] /\ stack[t] \in Seq(EntryKind)
      /\ UNCHANGED <<frame, stack>>
    BY OwnFields DEF OwnKinds, Post, activation
<1>4. CASE pc[t] = "poll"
  <2> DEFINE a == FlushArgs(t, home[x], "poll")
  <2>1. AfterPoll(t) = "poll"
      BY <1>4 DEF AfterPoll
  <2>2. "poll" \in FlushBack /\ "flush" \in EveryLabel
      BY DEF FlushBack, YieldBack, PollBack, EveryLabel, Labels
  <2>3. a \in ArgsKind
      BY <1>2, <2>2, ArgsKinds, OwnFields DEF FlushArgs
  <2>4. a.flush = home[x] /\ a.flushRet = "poll"
      BY OwnFields DEF FlushArgs, ArgsKind
  <2>5. ComesTo("flush", a) = "poll" /\ ComesTo(pc[t], args[t]) = "poll"
      BY <1>4, <2>3, <2>4, ComesBack, OwnFields DEF FlushLabels, Releasing
  <2>6. CallOK("flush", a)
      BY <1>2, <2>4 DEF CallOK
  <2> QED
      BY <1>1, <1>3, <2>1, <2>2, <2>3, <2>5, <2>6, CallMoves DEF CallFlush, Goto
<1>5. CASE pc[t] # "poll"
  <2>1. pc[t] \in {"waiting", "rewaiting", "body"}
      BY <1>5 DEF Post, Polling
  <2>2. pc[t] \in Plain /\ pc[t] \in Running
      BY <2>1 DEF Plain, Running, WaitLabels
  <2>3. AfterPoll(t) \in {"body", "wait", "rewarp"}
      BY <2>1 DEF AfterPoll
  <2>4. AfterPoll(t) \in Running /\ AfterPoll(t) # "invoked"
      BY <2>3 DEF Running, WaitLabels
  <2>5. frame[t].task # None
      BY <2>2, PlainHas, NoneApart
  <2> QED
      BY <1>1, <1>2, <1>3, <2>2, <2>3, <2>4, <2>5, FlushCalled
<1> QED
    BY <1>4, <1>5

(* A thread resumes a warp.                                                  *)
LEMMA ResumeShape ==
    ASSUME Kinds, Shaped, NEW t \in Threads, ResumeWarp(t)
    PROVE  OwnKinds' /\ Shaped' /\ UNCHANGED <<frame, stack>>
<1> DEFINE l == AfterPoll(t)
           a == args[t]
<1>1. UNCHANGED <<frame, stack>> /\ Polling(t)
    BY DEF ResumeWarp, activation
<1>2. l \in PollBack /\ (l = "poll" <=> pc[t] = "poll") /\ pc[t] \in {"poll", "waiting", "rewaiting"}
    BY <1>1 DEF AfterPoll, Polling, PollBack
<1>3. a \in ArgsKind /\ OwnKinds /\ ShapedAt(t) /\ args = [args EXCEPT ![t] = a]
    BY OwnFields DEF OwnKinds, Shaped
<1>4. /\ FrameOK(pc[t], frame[t], stack[t]) /\ BelowOK(stack[t])
      /\ frame[t] \in FrameType /\ stack[t] \in Seq(EntryKind)
      /\ frame = [frame EXCEPT ![t] = frame[t]] /\ stack = [stack EXCEPT ![t] = stack[t]]
  <2>1. ComesTo(pc[t], a) = pc[t]
      BY <1>2, <1>3, ComesBack DEF FlushLabels, Releasing
  <2> QED
      BY <1>3, <2>1, OwnFields DEF ShapedAt, OwnKinds
<1>5. FrameOK(l, frame[t], stack[t])
    BY <1>2, <1>4 DEF FrameOK, PollBack, Executing, ExecuteLabels, Guarded, Running, WaitLabels
<1>6. ASSUME NEW m \in EveryLabel, NEW b \in ArgsKind, pc' = [pc EXCEPT ![t] = m],
             args' = [args EXCEPT ![t] = b], CallOK(m, b), ComesTo(m, b) = l
      PROVE  OwnKinds' /\ Shaped'
  <2>1. Moves(t, m, b, frame[t], stack[t])
      BY <1>1, <1>4, <1>6 DEF Moves
  <2> QED
      BY <1>4, <1>5, <1>6, <2>1, ShapeMoves
<1>7. ASSUME NEW w \in Warps, pc' = [pc EXCEPT ![t] = "yielded"],
             args' = [args EXCEPT ![t].yield = w, ![t].yieldRet = l]
      PROVE  OwnKinds' /\ Shaped'
  <2> DEFINE b == [a EXCEPT !.yield = w, !.yieldRet = l]
  <2>1. b \in ArgsKind
      BY <1>2, <1>3, ArgsKinds, LabelKinds
  <2>2. b.yield = w /\ b.yieldRet = l
      BY <1>3 DEF ArgsKind
  <2>3. ComesTo("yielded", b) = l
      BY <1>2, <2>1, <2>2, ComesBack DEF PollBack
  <2>4. CallOK("yielded", b) /\ "yielded" \in EveryLabel
      BY <1>7, <2>2, NoneApart DEF CallOK, FlushLabels, EveryLabel, Labels
  <2>5. args' = [args EXCEPT ![t] = b]
      BY <1>3, <1>7
  <2> QED
      BY <1>6, <1>7, <2>1, <2>3, <2>4, <2>5
<1>8. ASSUME Goto(t, l), UNCHANGED args
      PROVE  OwnKinds' /\ Shaped'
  <2>1. ComesTo(l, a) = l /\ CallOK(l, a) /\ l \in EveryLabel
      BY <1>2, <1>3, ComesBack DEF PollBack, FlushLabels, Releasing, CallOK, EveryLabel, Labels, WaitLabels
  <2> QED
      BY <1>3, <1>6, <1>8, <2>1 DEF Goto
<1>9. \/ Goto(t, l) /\ UNCHANGED args
      \/ \E w \in Warps : /\ pc' = [pc EXCEPT ![t] = "yielded"]
                          /\ args' = [args EXCEPT ![t].yield = w, ![t].yieldRet = l]
    BY DEF ResumeWarp, Goto
<1> QED
    BY <1>1, <1>7, <1>8, <1>9

(* A routine is over.                                                        *)
LEMMA FinishShape ==
    ASSUME Kinds, Shaped, NEW t \in Threads, Finish(t)
    PROVE  OwnKinds' /\ Shaped' /\ frame[t].task \in Tasks /\ UNCHANGED stack
<1> DEFINE f == [frame[t] EXCEPT !.task = None]
           l == IF frame[t].queue # None THEN "invoked" ELSE "undirect"
<1>1. /\ pc[t] = "body" /\ pc[t] \in Plain /\ pc[t] \in Running /\ UNCHANGED <<stack, args>>
    BY DEF Finish, Plain, Running
<1>2. /\ frame[t].task \in Tasks /\ args[t] \in ArgsKind /\ args = [args EXCEPT ![t] = args[t]]
    BY <1>1, PlainHas, OwnFields DEF OwnKinds
<1>3. f \in FrameType /\ f.task = None /\ f.queue = frame[t].queue
    BY GivenFrame
<1>4. frame' = [frame EXCEPT ![t] = f] /\ pc' = [pc EXCEPT ![t] = l]
    BY DEF Finish, Goto
<1>5. l \in Plain /\ l \notin Running /\ (l \in Executing => f.queue # None)
    BY <1>3 DEF Plain, Running, WaitLabels, Executing, ExecuteLabels, Guarded
<1> QED
    BY <1>1, <1>2, <1>3, <1>4, <1>5, PlainGoes

(* What a thread runs stays with it: the frame keeps its routine.            *)
KeepsTask(t) ==
    /\ UNCHANGED stack
    /\ \A u \in Threads : frame'[u].task = frame[u].task

(* A frame with other fields for a wait.                                     *)
LEMMA WaitFrames ==
    ASSUME Kinds, NEW t \in Threads, NEW f \in FrameType, f.task = frame[t].task,
           frame' = [frame EXCEPT ![t] = f], UNCHANGED stack
    PROVE  KeepsTask(t)
BY OwnFields DEF OwnKinds, KeepsTask

(* A routine waits.                                                          *)
LEMMA WaitShape ==
    ASSUME Kinds, Shaped, NEW t \in Threads, WaitStep(t)
    PROVE  OwnKinds' /\ Shaped' /\ KeepsTask(t)
<1> USE DEF Goto
<1>1. /\ frame[t] \in FrameType /\ args[t] \in ArgsKind /\ args = [args EXCEPT ![t] = args[t]]
      /\ frame = [frame EXCEPT ![t] = frame[t]] /\ warpIndex[t] \in Warps \cup {None}
      /\ args[t].releaseRet \in ReleaseBack /\ OwnKinds
    BY OwnFields DEF OwnKinds
<1>2. /\ pc[t] \in {"body", "wait", "waiting", "rewaiting", "rewarp", "reacquire"}
      /\ pc[t] \in Plain /\ pc[t] \in Running
  <2>1. pc[t] \in {"body", "wait", "waiting", "rewaiting", "rewarp", "reacquire"}
      BY DEF WaitStep, Wait, CanWait, YieldWarp, WaitCheck, WaitPoll, WaitWarp, AcquireFlushOnWait
  <2> QED
      BY <2>1 DEF Plain, Running, WaitLabels
<1>3. frame[t].task \in Tasks /\ frame[t].task # None
    BY <1>2, PlainHas, NoneApart
<1>4. \A l \in WaitLabels \cup {"body"} : l \in Plain /\ l \in Running /\ l \notin Executing
    BY DEF WaitLabels, Plain, Running, Executing, ExecuteLabels, Guarded
<1>5. CASE Wait(t)
  <2>1. PICK x \in Awaited(t) : frame' = [frame EXCEPT ![t].until = x, ![t].left = warpIndex[t]]
      BY <1>5 DEF Wait
  <2>2. x \in Tasks
      BY <1>3, KernelAssumption DEF Awaited
  <2> DEFINE f == [frame[t] EXCEPT !.until = x, !.left = warpIndex[t]]
  <2>3. f \in FrameType /\ f.task = frame[t].task /\ frame' = [frame EXCEPT ![t] = f]
      BY <1>1, <2>1, <2>2 DEF FrameType
  <2>4. warpIndex[t] \in Warps /\ "wait" \in ReleaseBack /\ "wait" \in Running
      BY <1>1, <1>5 DEF Wait, CanWait, ReleaseBack, Running, WaitLabels
  <2>5. /\ pc' = [pc EXCEPT ![t] = "yield"] /\ UNCHANGED stack
        /\ args' = [args EXCEPT ![t] = [args[t] EXCEPT !.yield = warpIndex[t],
                                            !.yieldRet = "release", !.releaseRet = "wait"]]
      BY <1>1, <1>5 DEF Wait, OwnKinds
  <2> QED
      BY <1>2, <1>3, <2>3, <2>4, <2>5, YieldCalled, WaitFrames
<1>6. CASE YieldWarp(t)
  <2> DEFINE f == [frame[t] EXCEPT !.left = warpIndex[t]]
  <2>1. f \in FrameType /\ f.task = frame[t].task /\ frame' = [frame EXCEPT ![t] = f]
      BY <1>1, <1>6 DEF FrameType, YieldWarp
  <2>2. warpIndex[t] \in Warps /\ "rewarp" \in Running
      BY <1>1, <1>6 DEF YieldWarp, Running, WaitLabels
  <2>3. [args[t] EXCEPT !.yield = warpIndex[t], !.yieldRet = "rewarp"]
           = [args[t] EXCEPT !.yield = warpIndex[t], !.yieldRet = "rewarp",
                             !.releaseRet = args[t].releaseRet]
      BY <1>1 DEF ArgsKind
  <2>4. args' = [args EXCEPT ![t] = [args[t] EXCEPT !.yield = warpIndex[t], !.yieldRet = "rewarp"]]
      BY <1>6 DEF YieldWarp, CallYield
  <2>5. pc' = [pc EXCEPT ![t] = "yield"] /\ UNCHANGED stack
      BY <1>6 DEF YieldWarp, CallYield
  <2>6. args' = [args EXCEPT ![t] = [args[t] EXCEPT !.yield = warpIndex[t], !.yieldRet = "rewarp",
                                                    !.releaseRet = args[t].releaseRet]]
      BY <2>3, <2>4
  <2> QED
      BY <1>1, <1>2, <1>3, <2>1, <2>2, <2>5, <2>6, YieldCalled, WaitFrames
<1>7. ASSUME NEW l \in WaitLabels \cup {"body"}, Goto(t, l), NEW a \in ArgsKind,
             args' = [args EXCEPT ![t] = a], NEW f \in FrameType, f.task = frame[t].task,
             frame' = [frame EXCEPT ![t] = f], UNCHANGED stack
      PROVE  OwnKinds' /\ Shaped' /\ KeepsTask(t)
    BY <1>2, <1>3, <1>4, <1>7, PlainGoes, WaitFrames
<1>8. CASE WaitCheck(t)
    BY <1>1, <1>7, <1>8, ArgsKinds DEF WaitCheck, activation, WaitLabels
<1>9. CASE WaitPoll(t)
    BY <1>1, <1>7, <1>9 DEF WaitPoll, activation, WaitLabels, AfterPoll
<1>10. CASE AcquireFlushOnWait(t)
    BY <1>1, <1>7, <1>10 DEF AcquireFlushOnWait, activation
<1>11. CASE WaitWarp(t)
  <2> DEFINE f == [frame[t] EXCEPT !.until = None, !.left = None]
  <2>1. f \in FrameType /\ f.task = frame[t].task
      BY <1>1 DEF FrameType
  <2>2. \/ frame' = [frame EXCEPT ![t] = f] /\ (Goto(t, "body") \/ Goto(t, "reacquire"))
        \/ UNCHANGED frame /\ Goto(t, "rewaiting")
      BY <1>11 DEF WaitWarp
  <2>3. UNCHANGED <<stack, args>>
      BY <1>11 DEF WaitWarp
  <2> QED
      BY <1>1, <1>7, <2>1, <2>2, <2>3 DEF WaitLabels
<1> QED
    BY <1>5, <1>6, <1>8, <1>9, <1>10, <1>11 DEF WaitStep

-----------------------------------------------------------------------------
(* Every step keeps the shape                                                *)

(* Suspensions and moves of objects leave every thread where it is.          *)
LEMMA StandShape ==
    ASSUME Kinds, Shaped, UNCHANGED <<pc, args, frame, stack>>
    PROVE  OwnKinds' /\ Shaped'
<1>1. OwnKinds
    BY DEF OwnKinds, Kinds, LocalKinds, ActivationKinds
<1> QED
    BY <1>1 DEF OwnKinds, Shaped, ShapedAt

(* The shape is kept by every step.                                          *)
LEMMA StepShape ==
    ASSUME Kinds, Shaped, NEW t \in Threads, ThreadStep(t)
    PROVE  OwnKinds' /\ Shaped'
<1>1. CASE FlushStep(t) \/ ReleaseStep(t) \/ YieldStep(t)
    BY <1>1, FlushShape, ReleaseShape, YieldShape
<1>2. CASE ExecuteStep(t)
    BY <1>2, TakeShape, PlainShape, GuardShape, ScanShape, ForwardShape, ReturnShape
       DEF ExecuteStep, PlainExecute
<1>3. CASE QueueStep(t)
    BY <1>3, PostShape, DirectShape, RecheckShape, DirectEndShape DEF QueueStep
<1>4. CASE SuspendWarp(t) \/ SetWarpIndex(t)
    BY <1>4, StandShape DEF SuspendWarp, SetWarpIndex, activation
<1>5. CASE Finish(t) \/ ResumeWarp(t) \/ WaitStep(t)
    BY <1>5, FinishShape, ResumeShape, WaitShape
<1> QED
    BY <1>1, <1>2, <1>3, <1>4, <1>5 DEF ThreadStep

(* The warps a step may change are warps.                                    *)
LEMMA StepWarps ==
    ASSUME Kinds, Shaped, NEW t \in Threads, ThreadStep(t)
    PROVE  WarpsTyped'
<1>0. WarpsTyped /\ warpIndex[t] \in Warps \cup {None} /\ ShapedAt(t)
    BY OwnFields DEF Kinds, Shaped
<1>1. ASSUME UNCHANGED warpState
      PROVE  WarpsTyped'
    BY <1>0, <1>1 DEF WarpsTyped, warpState
<1>2. ASSUME NEW w \in Warps, NEW x \in Tasks, ring' = [ring EXCEPT ![w][t] = Append(@, x)],
             UNCHANGED <<queueing, suspendCount, threadWarp, stackQueue>>
      PROVE  WarpsTyped'
  <2>1. ring[w][t] \in Seq(Tasks)
      BY <1>0 DEF WarpsTyped
  <2>2. Append(ring[w][t], x) \in Seq(Tasks)
      BY <2>1, AppendProperties
  <2> QED
      BY <1>0, <1>2, <2>2 DEF WarpsTyped
<1>3. ASSUME NEW w \in Warps, Preempt(t, w), UNCHANGED <<ring, queueing, suspendCount>>
      PROVE  WarpsTyped'
    BY <1>0, <1>3 DEF WarpsTyped, Preempt
<1>4. CASE FlushStep(t)
    BY <1>0, <1>4 DEF FlushStep, FlushMark, FlushAcquire, FlushDispatch, FlushUndo, FlushSetMask,
                      FlushAnnounce, WarpsTyped, warpState
<1>5. CASE ReleaseStep(t)
    BY <1>0, <1>5 DEF ReleaseStep, Release, ReleaseAnnounced, ReleaseUnmask, ReleaseFlushWarp,
                      ReleaseUnannounce, WarpsTyped, warpState
<1>6. CASE YieldStep(t)
    BY <1>0, <1>6 DEF YieldStep, YieldLeave, YieldReflush, WarpsTyped
<1>7. CASE ExecuteStep(t)
  <2>1. CASE Take(t) \/ NextRing(t) \/ NextPass(t) \/ Return(t)
      BY <1>1, <2>1 DEF Take, NextRing, NextPass, Return
  <2>2. CASE PlainExecute(t)
      BY <1>0, <1>1, <2>2 DEF PlainExecute, EnterSuspended, Enter, GuardOwn, GuardRecheck, ExecuteRecheck,
           ExecuteRequeue, ExecuteBegin, Invoke, InvokeReturn, ExecuteEnd, WarpsTyped
  <2>3. CASE Guard(t)
    <3>1. frame[t].queue \in Warps
      <4>1. pc[t] \in Plain /\ pc[t] \in Executing
          BY <2>3 DEF Guard, Plain, Executing, ExecuteLabels, Guarded
      <4> QED
          BY <4>1, PlainHas
    <3> QED
        BY <1>0, <1>3, <2>3, <3>1 DEF Guard, WarpsTyped
  <2>4. CASE Pop(t)
    <3> DEFINE w == frame[t].queue
               s == Rings[frame[t].scan]
    <3>1. w \in Warps /\ s \in Threads /\ ring[w][s] \in Seq(Tasks) /\ ring[w][s] # <<>>
        BY <2>4, ScanShape DEF Pop
    <3>2. Tail(ring[w][s]) \in Seq(Tasks)
        BY <3>1, HeadTailProperties
    <3>3. /\ ring' = [ring EXCEPT ![w][s] = Tail(@)]
          /\ UNCHANGED <<queueing, suspendCount, threadWarp, stackQueue>>
        BY <2>4 DEF Pop
    <3> QED
        BY <1>0, <3>2, <3>3 DEF WarpsTyped
  <2>5. CASE Forward(t)
      BY <1>2, <2>5, ForwardShape DEF Gives, Forward
  <2> QED
      BY <1>7, <2>1, <2>2, <2>3, <2>4, <2>5 DEF ExecuteStep, PlainExecute
<1>8. CASE QueueStep(t)
  <2>1. CASE Post(t)
    <3>1. PICK x \in fresh : ring' = [ring EXCEPT ![home[x]][t] = Append(@, x)]
        BY <2>1 DEF Post
    <3>2. x \in Tasks /\ home[x] \in Warps
        BY DEF Kinds, KernelTyped, HistoryTyped
    <3> QED
        BY <1>2, <2>1, <3>1, <3>2 DEF Post
  <2>2. CASE Direct(t)
    <3>1. PICK x \in fresh : Preempt(t, home[x]) \/ UNCHANGED <<threadWarp, stackQueue>>
        BY <2>2 DEF Direct
    <3>2. x \in Tasks /\ home[x] \in Warps
        BY DEF Kinds, KernelTyped, HistoryTyped
    <3> QED
        BY <1>1, <1>3, <2>2, <3>1, <3>2 DEF Direct, warpState
  <2>3. CASE DirectRecheck(t)
      BY <1>1, <1>2, <2>3, RecheckShape DEF Gives, DirectRecheck, warpState
  <2>4. CASE DirectEnd(t)
      BY <1>1, <2>4 DEF DirectEnd
  <2> QED
      BY <1>8, <2>1, <2>2, <2>3, <2>4 DEF QueueStep
<1>9. CASE Finish(t) \/ SetWarpIndex(t)
    BY <1>1, <1>9 DEF Finish, SetWarpIndex
<1>10. CASE SuspendWarp(t) \/ ResumeWarp(t)
  <2>1. UNCHANGED <<ring, queueing, threadWarp, stackQueue>>
      BY <1>10 DEF SuspendWarp, ResumeWarp
  <2>2. PICK w \in Warps, n \in Nat : suspendCount' = [suspendCount EXCEPT ![w] = n]
    <3>1. CASE SuspendWarp(t)
      <4>1. PICK w \in Warps : suspendCount' = [suspendCount EXCEPT ![w] = @ + 1]
          BY <3>1 DEF SuspendWarp
      <4>2. suspendCount[w] + 1 \in Nat
          BY <1>0 DEF WarpsTyped
      <4> QED
          BY <4>1, <4>2
    <3>2. CASE ResumeWarp(t)
      <4>1. PICK w \in Warps : /\ suspendCount[w] # 0
                               /\ suspendCount' = [suspendCount EXCEPT ![w] = @ - 1]
          BY <3>2 DEF ResumeWarp
      <4>2. suspendCount[w] - 1 \in Nat
          BY <1>0, <4>1 DEF WarpsTyped
      <4> QED
          BY <4>1, <4>2
    <3> QED
        BY <1>10, <3>1, <3>2
  <2> QED
      BY <1>0, <2>1, <2>2 DEF WarpsTyped
<1>11. CASE WaitStep(t)
  <2>1. CASE WaitWarp(t)
    <3>1. Preempt(t, frame[t].left) \/ UNCHANGED <<threadWarp, stackQueue>>
        BY <2>1 DEF WaitWarp
    <3>2. CASE frame[t].left \in Warps
        BY <1>1, <1>3, <2>1, <3>1, <3>2 DEF WaitWarp, warpState
    <3>3. CASE frame[t].left \notin Warps
      <4>1. UNCHANGED <<threadWarp, stackQueue>>
          BY <1>0, <3>1, <3>3 DEF Preempt, WarpsTyped
      <4> QED
          BY <1>1, <2>1, <4>1 DEF WaitWarp, warpState
    <3> QED
        BY <3>2, <3>3
  <2> QED
      BY <1>1, <1>11, <2>1 DEF WaitStep, Wait, YieldWarp, WaitCheck, WaitPoll, AcquireFlushOnWait
<1> QED
    BY <1>4, <1>5, <1>6, <1>7, <1>8, <1>9, <1>10, <1>11 DEF ThreadStep

(* The counter and what the kernel keeps.                                    *)
LEMMA StepKernel ==
    ASSUME Kinds, Shaped, NEW t \in Threads, ThreadStep(t)
    PROVE  KernelTyped'
<1>0. KernelTyped /\ ShapedAt(t) /\ args[t].flush \in Warps \cup {None}
    BY OwnFields DEF Kinds, Shaped
<1>1. ASSUME parallel' \in {parallel, (parallel - 1) % CounterSize}
                           \cup (IF parallel < MaxParallel THEN {parallel + 1} ELSE {}),
             anyFlush' \in {"idle", "queueing", "flushing"}, fullFlush' \subseteq Warps,
             pooled' \subseteq Warps, home' \in [Tasks -> Warps]
      PROVE  KernelTyped'
    BY <1>0, <1>1, CounterMoves DEF KernelTyped
<1>2. CASE FlushStep(t)
  <2>1. args[t].flush \in Warps
      BY <1>0, <1>2 DEF FlushStep, FlushMark, FlushAcquire, FlushDispatch, FlushUndo, FlushSetMask,
                        FlushAnnounce, ShapedAt, CallOK, FlushLabels
  <2> QED
      BY <1>0, <1>1, <1>2, <2>1
         DEF FlushStep, FlushMark, FlushAcquire, FlushDispatch, FlushUndo, FlushSetMask,
             FlushAnnounce, KernelTyped, kernelState
<1>3. CASE ReleaseStep(t)
    BY <1>0, <1>1, <1>3 DEF ReleaseStep, Release, ReleaseAnnounced, ReleaseUnmask, ReleaseFlushWarp,
                            ReleaseUnannounce, KernelTyped, kernelState
<1>4. ASSUME UNCHANGED kernelState
      PROVE  KernelTyped'
    BY <1>0, <1>4 DEF KernelTyped, kernelState
<1>5. CASE Take(t) \/ SetWarpIndex(t) \/ AcquireFlushOnWait(t)
    BY <1>0, <1>1, <1>5 DEF Take, SetWarpIndex, AcquireFlushOnWait, KernelTyped
<1> QED
    BY <1>2, <1>3, <1>4, <1>5
       DEF ThreadStep, YieldStep, YieldLeave, YieldReflush, ExecuteStep, EnterSuspended, Enter,
           Guard, GuardOwn, GuardRecheck, ExecuteRecheck, ExecuteRequeue, ExecuteBegin, Pop,
           NextRing, NextPass, Invoke, Forward, InvokeReturn, ExecuteEnd, Return, QueueStep, Post,
           Direct, DirectRecheck, DirectEnd, Finish, SuspendWarp, ResumeWarp, WaitStep, Wait,
           YieldWarp, WaitCheck, WaitPoll, WaitWarp

(* The history, and what says where a thread is.                             *)
LEMMA StepHistory ==
    ASSUME Kinds, Shaped, NEW t \in Threads, ThreadStep(t)
    PROVE  /\ HistoryTyped' /\ warpIndex' \in [Threads -> Warps \cup {None}]
           /\ inRoutine' \in [Threads -> BOOLEAN]
<1>0. /\ HistoryTyped /\ warpIndex \in [Threads -> Warps \cup {None}] /\ WarpsTyped
      /\ inRoutine \in [Threads -> BOOLEAN] /\ ShapedAt(t) /\ KernelTyped
      /\ frame[t].queue \in Warps \cup {None} /\ frame[t].left \in Warps \cup {None}
      /\ args[t].yield \in Warps \cup {None}
    BY OwnFields DEF Kinds, Shaped, ActivationKinds
<1>1. HistoryTyped'
  <2>1. CASE UNCHANGED <<fresh, done, waits, moves>>
      BY <1>0, <2>1 DEF HistoryTyped
  <2>2. CASE Post(t) \/ Direct(t) \/ SetWarpIndex(t) \/ Wait(t) \/ YieldWarp(t)
    <3>1. fresh' \subseteq Tasks /\ done' \subseteq Tasks
        BY <1>0, <2>2 DEF Post, Direct, SetWarpIndex, Wait, YieldWarp, HistoryTyped
    <3>2. /\ waits' = waits \/ waits' = waits + 1
          /\ moves' = moves \/ moves' = moves + 1
        BY <2>2 DEF Post, Direct, SetWarpIndex, Wait, YieldWarp
    <3> QED
        BY <1>0, <3>1, <3>2 DEF HistoryTyped
  <2>3. CASE Finish(t)
      BY <1>0, <2>3, FinishShape DEF Finish, HistoryTyped
  <2> QED
      BY <2>1, <2>2, <2>3
       DEF ThreadStep, FlushStep, FlushMark, FlushAcquire, FlushDispatch, FlushUndo, FlushSetMask,
           FlushAnnounce, ReleaseStep, Release, ReleaseAnnounced, ReleaseUnmask, ReleaseFlushWarp,
           ReleaseUnannounce, YieldStep, YieldLeave, YieldReflush, ExecuteStep, Take, EnterSuspended,
           Enter, Guard, GuardOwn, GuardRecheck, ExecuteRecheck, ExecuteRequeue, ExecuteBegin, Pop,
           NextRing, NextPass, Invoke, Forward, InvokeReturn, ExecuteEnd, Return, QueueStep,
           DirectRecheck, DirectEnd, SuspendWarp, ResumeWarp, WaitStep, WaitCheck, WaitPoll,
           WaitWarp, AcquireFlushOnWait, history
<1>2. warpIndex' \in [Threads -> Warps \cup {None}]
  <2>1. ASSUME NEW w \in Warps \cup {None}, Preempt(t, w)
        PROVE  warpIndex' \in [Threads -> Warps \cup {None}]
      BY <1>0, <2>1 DEF Preempt
  <2>2. CASE UNCHANGED warpIndex
      BY <1>0, <2>2
  <2>3. CASE Guard(t) \/ WaitWarp(t)
      BY <1>0, <2>1, <2>2, <2>3 DEF Guard, WaitWarp
  <2>4. CASE Direct(t)
    <3>1. PICK x \in fresh : Preempt(t, home[x]) \/ UNCHANGED warpIndex
        BY <2>4 DEF Direct
    <3>2. home[x] \in Warps
        BY <1>0 DEF KernelTyped, HistoryTyped
    <3> QED
        BY <2>1, <2>2, <3>1, <3>2
  <2>5. CASE YieldLeave(t)
    <3>1. args[t].yield \in Warps
        BY <1>0, <2>5 DEF YieldLeave, ShapedAt, CallOK
    <3>2. stackQueue[args[t].yield] \in Warps \cup {None}
        BY <1>0, <3>1 DEF WarpsTyped
    <3> QED
        BY <1>0, <2>2, <2>5, <3>2 DEF YieldLeave
  <2> QED
      BY <2>2, <2>3, <2>4, <2>5
       DEF ThreadStep, FlushStep, FlushMark, FlushAcquire, FlushDispatch, FlushUndo, FlushSetMask,
           FlushAnnounce, ReleaseStep, Release, ReleaseAnnounced, ReleaseUnmask, ReleaseFlushWarp,
           ReleaseUnannounce, YieldStep, YieldReflush, ExecuteStep, Take, EnterSuspended,
           Enter, GuardOwn, GuardRecheck, ExecuteRecheck, ExecuteRequeue, ExecuteBegin, Pop,
           NextRing, NextPass, Invoke, Forward, InvokeReturn, ExecuteEnd, Return, QueueStep, Post,
           DirectRecheck, DirectEnd, Finish, SuspendWarp, ResumeWarp, SetWarpIndex, WaitStep, Wait,
           YieldWarp, WaitCheck, WaitPoll, AcquireFlushOnWait
<1>3. inRoutine' \in [Threads -> BOOLEAN]
  <2>1. CASE UNCHANGED inRoutine
      BY <1>0, <2>1
  <2>2. CASE Take(t) \/ Return(t)
      BY <1>0, <2>2 DEF Take, Return
  <2> QED
      BY <2>1, <2>2
       DEF ThreadStep, FlushStep, FlushMark, FlushAcquire, FlushDispatch, FlushUndo, FlushSetMask,
           FlushAnnounce, ReleaseStep, Release, ReleaseAnnounced, ReleaseUnmask, ReleaseFlushWarp,
           ReleaseUnannounce, YieldStep, YieldLeave, YieldReflush, ExecuteStep, EnterSuspended,
           Enter, Guard, GuardOwn, GuardRecheck, ExecuteRecheck, ExecuteRequeue, ExecuteBegin, Pop,
           NextRing, NextPass, Invoke, Forward, InvokeReturn, ExecuteEnd, QueueStep, Post, Direct,
           DirectRecheck, DirectEnd, Finish, SuspendWarp, ResumeWarp, SetWarpIndex, WaitStep, Wait,
           YieldWarp, WaitCheck, WaitPoll, WaitWarp, AcquireFlushOnWait, activation
<1> QED
    BY <1>1, <1>2, <1>3

(* The types and the shape are kept by every step.                           *)
LEMMA StepKinds ==
    ASSUME Kinds, Shaped, NEW t \in Threads, ThreadStep(t)
    PROVE  Kinds' /\ Shaped'
BY StepShape, StepWarps, StepKernel, StepHistory DEF Kinds, LocalKinds, ActivationKinds, OwnKinds

-----------------------------------------------------------------------------
(* Where the routines are                                                    *)

(* The routine of an activation.                                             *)
LEMMA AtType ==
    ASSUME Kinds, NEW t \in Threads, NEW d \in 1 .. Depth(t)
    PROVE  Depth(t) \in Nat /\ At(t, d) \in Tasks \cup {None}
<1>1. stack[t] \in Seq(EntryKind) /\ Len(stack[t]) \in Nat /\ frame[t].task \in Tasks \cup {None}
    BY OwnFields, LenProperties
<1>2. CASE d = Depth(t)
    BY <1>1, <1>2 DEF At, Depth
<1>3. CASE d # Depth(t)
  <2>1. Depth(t) - d \in 1 .. Len(stack[t])
      BY <1>1, <1>3 DEF Depth
  <2>2. stack[t][Depth(t) - d] \in EntryKind
      BY <1>1, <2>1, ElementOfSeq
  <2>3. stack[t][Depth(t) - d].frame.task \in Tasks \cup {None}
      BY <2>2 DEF EntryKind, FrameType
  <2> QED
      BY <1>1, <1>3, <2>3 DEF At, Depth
<1> QED
    BY <1>2, <1>3

(* The current activation is the last one.                                   *)
LEMMA AtTop ==
    ASSUME Kinds, NEW t \in Threads
    PROVE  Depth(t) \in Nat /\ Depth(t) \in 1 .. Depth(t) /\ At(t, Depth(t)) = frame[t].task
<1>1. Len(stack[t]) \in Nat
    BY OwnFields, LenProperties
<1> QED
    BY <1>1 DEF Depth, At

(* The routines begun, when the activations are the same and hold the same.  *)
LEMMA BegunStays ==
    ASSUME Kinds, RunsOnce, NEW t \in Threads, KeepsTask(t)
    PROVE  RunsOnce' /\ Begun' = Begun
<1>1. ASSUME NEW u \in Threads
      PROVE  Depth(u)' = Depth(u) /\ \A d : At(u, d)' = At(u, d)
    BY DEF KeepsTask, Depth, At
<1>2. RunsOnce'
    BY <1>1 DEF RunsOnce
<1>3. ASSUME NEW u \in Threads, NEW x
      PROVE  Runs(u, x)' <=> Runs(u, x)
    BY <1>1 DEF Runs
<1> QED
    BY <1>2, <1>3 DEF Begun

(* The current activation of a thread gets another routine, or none.         *)
Gets(t, y) ==
    /\ UNCHANGED stack
    /\ \A u \in Threads : frame'[u].task = IF u = t THEN y ELSE frame[u].task

(* Then the routine it had is not begun any more.                            *)
LEMMA BegunGets ==
    ASSUME Kinds, RunsOnce, NEW t \in Threads, NEW y \in (Tasks \ Begun) \cup {None}, Gets(t, y)
    PROVE  RunsOnce' /\ Begun' = (Begun \ {frame[t].task}) \cup ({y} \ {None})
<1>1. ASSUME NEW u \in Threads, NEW d \in 1 .. Depth(u)
      PROVE  /\ Depth(u)' = Depth(u)
             /\ At(u, d)' = IF u = t /\ d = Depth(t) THEN y ELSE At(u, d)
    BY DEF Gets, Depth, At
<1>2. \A u \in Threads : Depth(u)' = Depth(u)
    BY DEF Gets, Depth
<1>3. ASSUME NEW u \in Threads, NEW d \in 1 .. Depth(u), y # None
      PROVE  At(u, d) # y
    BY <1>3 DEF Begun, Runs
<1>4. RunsOnce'
  <2> SUFFICES ASSUME NEW v \in Threads, NEW u \in Threads, NEW d \in 1 .. Depth(v),
                      NEW e \in 1 .. Depth(u), At(v, d)' = At(u, e)', At(v, d)' # None
               PROVE  v = u /\ d = e
      BY <1>2 DEF RunsOnce
  <2> QED
      BY <1>1, <1>3 DEF RunsOnce
<1>5. ASSUME NEW x \in Tasks
      PROVE  x \in Begun' <=> x \in (Begun \ {frame[t].task}) \cup ({y} \ {None})
  <2>1. Depth(t) \in 1 .. Depth(t) /\ At(t, Depth(t)) = frame[t].task /\ x # None
      BY AtTop, NoneApart
  <2>2. ASSUME x \in Begun'
        PROVE  x \in (Begun \ {frame[t].task}) \cup ({y} \ {None})
    <3>0. PICK u \in Threads : \E d \in 1 .. Depth(u) : At(u, d)' = x
        BY <1>2, <2>2 DEF Begun, Runs
    <3>1. PICK d \in 1 .. Depth(u) : At(u, d)' = x
        BY <3>0
    <3>2. CASE u = t /\ d = Depth(t)
        BY <1>1, <2>1, <3>1, <3>2
    <3>3. CASE ~(u = t /\ d = Depth(t))
      <4>1. At(u, d) = x
          BY <1>1, <3>1, <3>3
      <4>2. x \in Begun
          BY <4>1 DEF Begun, Runs
      <4>3. x # frame[t].task
          BY <2>1, <3>3, <4>1 DEF RunsOnce
      <4> QED
          BY <4>2, <4>3
    <3> QED
        BY <3>2, <3>3
  <2>3. ASSUME x \in Begun, x # frame[t].task
        PROVE  x \in Begun'
    <3>0. PICK u \in Threads : \E d \in 1 .. Depth(u) : At(u, d) = x
        BY <2>3 DEF Begun, Runs
    <3>1. PICK d \in 1 .. Depth(u) : At(u, d) = x
        BY <3>0
    <3>2. At(u, d)' = x /\ d \in 1 .. Depth(u)'
        BY <1>1, <2>1, <2>3, <3>1
    <3> QED
        BY <3>2 DEF Begun, Runs
  <2>4. ASSUME x = y
        PROVE  x \in Begun'
    <3>1. At(t, Depth(t))' = IF Depth(t)' = Depth(t) THEN y ELSE At(t, Depth(t))'
        BY <1>1, <2>1
    <3>2. Depth(t) \in 1 .. Depth(t)' /\ Depth(t)' = Depth(t)
        BY <1>2, <2>1
    <3>3. (\E d \in 1 .. Depth(t) : At(t, d) = x)'
        BY <1>1, <2>1, <2>4, <3>2
    <3> QED
        BY <3>3 DEF Begun, Runs
  <2> QED
      BY <2>1, <2>2, <2>3, <2>4
<1>6. Begun' \subseteq Tasks /\ Begun \subseteq Tasks
    BY DEF Begun
<1> QED
    BY <1>4, <1>5, <1>6

(* A new activation.                                                         *)
LEMMA BegunInterrupts ==
    ASSUME Kinds, RunsOnce, NEW t \in Threads, NEW f \in FrameType, Interrupts(t, f),
           f.task \in (Tasks \ Begun) \cup {None}
    PROVE  RunsOnce' /\ Begun' = Begun \cup ({f.task} \ {None})
<1>1. PICK e \in EntryKind : /\ e.frame = frame[t]
                             /\ stack' = [stack EXCEPT ![t] = <<e>> \o stack[t]]
                             /\ frame' = [frame EXCEPT ![t] = f]
    BY DEF Interrupts
<1>2. OwnKinds /\ stack[t] \in Seq(EntryKind) /\ Len(stack[t]) \in Nat
    BY OwnFields, LenProperties
<1>3. ASSUME NEW u \in Threads, u # t
      PROVE  Depth(u)' = Depth(u) /\ \A d : At(u, d)' = At(u, d)
    BY <1>1, <1>2, <1>3 DEF Depth, At, OwnKinds
<1>4. /\ stack'[t] = <<e>> \o stack[t] /\ frame'[t] = f
      /\ Len(stack'[t]) = Len(stack[t]) + 1 /\ stack'[t][1] = e
      /\ \A i \in 1 .. Len(stack[t]) : stack'[t][i + 1] = stack[t][i]
  <2>1. stack'[t] = <<e>> \o stack[t] /\ frame'[t] = f
      BY <1>1, <1>2 DEF OwnKinds
  <2>2. <<e>> \in Seq(EntryKind) /\ Len(<<e>>) = 1 /\ <<e>>[1] = e
      OBVIOUS
  <2>3. Len(<<e>> \o stack[t]) = Len(stack[t]) + 1
      BY <1>2, <2>2, ConcatProperties
  <2>4. (<<e>> \o stack[t])[1] = e
      BY <1>2, <2>2, ConcatProperties
  <2>5. ASSUME NEW i \in 1 .. Len(stack[t])
        PROVE  (<<e>> \o stack[t])[i + 1] = stack[t][i]
      BY <1>2, <2>2, ConcatProperties
  <2> QED
      BY <2>1, <2>3, <2>4, <2>5
<1>0. PICK n : n = Depth(t)
    OBVIOUS
<1>5. /\ Depth(t)' = n + 1 /\ At(t, n + 1)' = f.task
      /\ \A d \in 1 .. n : At(t, d)' = At(t, d)
  <2>1. Depth(t)' = n + 1 /\ At(t, n + 1)' = f.task
      BY <1>0, <1>2, <1>4 DEF Depth, At
  <2>2. At(t, n)' = At(t, n)
      BY <1>0, <1>1, <1>2, <1>4 DEF Depth, At
  <2>3. ASSUME NEW d \in 1 .. n, d # n
        PROVE  At(t, d)' = At(t, d)
    <3>1. n - d \in 1 .. Len(stack[t]) /\ n + 1 - d = (n - d) + 1
        BY <1>0, <1>2, <2>3 DEF Depth
    <3>2. stack'[t][n + 1 - d] = stack[t][n - d]
        BY <1>4, <3>1
    <3>3. d # n + 1
        BY <1>0, <1>2 DEF Depth
    <3>4. At(t, d)' = stack'[t][Depth(t)' - d].frame.task
        BY <2>1, <3>3 DEF At
    <3>5. At(t, d) = stack[t][n - d].frame.task
        BY <1>0, <2>3 DEF At
    <3> QED
      <4>1. Depth(t)' = n + 1 /\ n \in Nat /\ d \in Nat
          BY <1>0, <1>2, <2>1 DEF Depth
      <4>2. At(t, d)' = stack'[t][n + 1 - d].frame.task
          BY <3>4, <4>1
      <4> QED
          BY <3>2, <3>5, <4>2
  <2> QED
      BY <2>1, <2>2, <2>3
<1>6. n \in Nat /\ \A d : d \in 1 .. n + 1 <=> d \in 1 .. n \/ d = n + 1
    BY <1>0, <1>2 DEF Depth
<1>7. ASSUME NEW u \in Threads, NEW d \in 1 .. Depth(u), f.task # None
      PROVE  At(u, d) # f.task
    BY <1>7 DEF Begun, Runs
<1>8. RunsOnce'
  <2> SUFFICES ASSUME NEW v \in Threads, NEW u \in Threads, NEW d \in 1 .. Depth(v)',
                      NEW g \in 1 .. Depth(u)', At(v, d)' = At(u, g)', At(v, d)' # None
               PROVE  v = u /\ d = g
      BY DEF RunsOnce
  <2>1. \/ d \in 1 .. Depth(v) /\ At(v, d)' = At(v, d)
        \/ v = t /\ d = n + 1 /\ At(v, d)' = f.task
      BY <1>0, <1>3, <1>5, <1>6
  <2>2. \/ g \in 1 .. Depth(u) /\ At(u, g)' = At(u, g)
        \/ u = t /\ g = n + 1 /\ At(u, g)' = f.task
      BY <1>0, <1>3, <1>5, <1>6
  <2> QED
      BY <1>7, <2>1, <2>2 DEF RunsOnce
<1>9. ASSUME NEW x \in Tasks
      PROVE  x \in Begun' <=> x \in Begun \cup ({f.task} \ {None})
  <2>1. ASSUME x \in Begun'
        PROVE  x \in Begun \cup ({f.task} \ {None})
    <3>0. PICK u \in Threads : \E d \in 1 .. Depth(u)' : At(u, d)' = x
        BY <2>1 DEF Begun, Runs
    <3>1. PICK d \in 1 .. Depth(u)' : At(u, d)' = x
        BY <3>0
    <3> QED
        BY <1>0, <1>3, <1>5, <1>6, <3>1, NoneApart DEF Begun, Runs
  <2>2. ASSUME x \in Begun
        PROVE  x \in Begun'
    <3>0. PICK u \in Threads : \E d \in 1 .. Depth(u) : At(u, d) = x
        BY <2>2 DEF Begun, Runs
    <3>1. PICK d \in 1 .. Depth(u) : At(u, d) = x
        BY <3>0
    <3>2. At(u, d)' = x /\ d \in 1 .. Depth(u)'
        BY <1>0, <1>3, <1>5, <1>6, <3>1
    <3> QED
        BY <3>2 DEF Begun, Runs
  <2>3. ASSUME x = f.task
        PROVE  x \in Begun'
    <3>1. At(t, n + 1)' = x /\ n + 1 \in 1 .. Depth(t)'
        BY <1>5, <1>6, <2>3
    <3>2. Runs(t, x)'
        BY <3>1 DEF Runs
    <3> QED
        BY <3>2 DEF Begun
  <2> QED
      BY <2>1, <2>2, <2>3
<1> QED
    BY <1>8, <1>9 DEF Begun

(* An activation without a routine returns.                                  *)
LEMMA BegunResumes ==
    ASSUME Kinds, RunsOnce, NEW t \in Threads, Resumes(t), frame[t].task = None
    PROVE  RunsOnce' /\ Begun' = Begun
<1>1. OwnKinds /\ stack[t] \in Seq(EntryKind) /\ Len(stack[t]) \in Nat \ {0}
  <2>1. OwnKinds /\ stack[t] \in Seq(EntryKind) /\ stack[t] # <<>>
      BY OwnFields DEF Resumes
  <2> QED
      BY <2>1, EmptySeq, LenProperties
<1>2. ASSUME NEW u \in Threads, u # t
      PROVE  Depth(u)' = Depth(u) /\ \A d : At(u, d)' = At(u, d)
    BY <1>1, <1>2 DEF Resumes, Depth, At, OwnKinds
<1>3. /\ frame'[t] = stack[t][1].frame /\ Len(stack'[t]) = Len(stack[t]) - 1
      /\ \A i \in 1 .. Len(stack[t]) - 1 : stack'[t][i] = stack[t][i + 1]
  <2>1. stack'[t] = Tail(stack[t]) /\ frame'[t] = stack[t][1].frame
      BY <1>1 DEF Resumes, OwnKinds
  <2>2. /\ Len(Tail(stack[t])) = Len(stack[t]) - 1
        /\ \A i \in 1 .. Len(stack[t]) - 1 : Tail(stack[t])[i] = stack[t][i + 1]
    <3>1. stack[t] # <<>>
        BY DEF Resumes
    <3>2. /\ Len(Tail(stack[t])) = Len(stack[t]) - 1
          /\ \A i \in 1 .. Len(Tail(stack[t])) : Tail(stack[t])[i] = stack[t][i + 1]
        BY <1>1, <3>1, HeadTailProperties
    <3> QED
        BY <3>2
  <2> QED
      BY <2>1, <2>2
<1>0. PICK n : n = Depth(t)
    OBVIOUS
<1>4. /\ Depth(t)' = n - 1 /\ n \in Nat \ {0, 1} /\ At(t, n) = None
      /\ \A d \in 1 .. n - 1 : At(t, d)' = At(t, d)
  <2>1. Depth(t)' = n - 1 /\ n \in Nat \ {0, 1} /\ At(t, n) = None
      BY <1>0, <1>1, <1>3 DEF Depth, At
  <2>2. At(t, n - 1)' = At(t, n - 1)
    <3>1. n - 1 # n /\ n - (n - 1) = 1
        BY <2>1
    <3> QED
        BY <1>0, <1>3, <2>1, <3>1 DEF At
  <2>3. ASSUME NEW d \in 1 .. n - 1, d # n - 1
        PROVE  At(t, d)' = At(t, d)
    <3>1. /\ n - 1 - d \in 1 .. Len(stack[t]) - 1 /\ (n - 1 - d) + 1 = n - d
          /\ d # n
        BY <1>0, <1>1, <2>1, <2>3 DEF Depth
    <3>2. stack'[t][n - 1 - d] = stack[t][n - d]
        BY <1>3, <3>1
    <3> QED
        BY <1>0, <2>1, <2>3, <3>1, <3>2 DEF At
  <2> QED
      BY <2>1, <2>2, <2>3
<1>5. \A d : d \in 1 .. n <=> d \in 1 .. n - 1 \/ d = n
    BY <1>4
<1>6. RunsOnce'
  <2> SUFFICES ASSUME NEW v \in Threads, NEW u \in Threads, NEW d \in 1 .. Depth(v)',
                      NEW g \in 1 .. Depth(u)', At(v, d)' = At(u, g)', At(v, d)' # None
               PROVE  v = u /\ d = g
      BY DEF RunsOnce
  <2>1. d \in 1 .. Depth(v) /\ At(v, d)' = At(v, d) /\ g \in 1 .. Depth(u) /\ At(u, g)' = At(u, g)
      BY <1>0, <1>2, <1>4, <1>5
  <2>2. At(v, d) = At(u, g) /\ At(v, d) # None
      BY <2>1
  <2> QED
      BY <2>1, <2>2 DEF RunsOnce
<1>7. ASSUME NEW x \in Tasks
      PROVE  x \in Begun' <=> x \in Begun
  <2>1. ASSUME x \in Begun'
        PROVE  x \in Begun
    <3>0. PICK u \in Threads : \E d \in 1 .. Depth(u)' : At(u, d)' = x
        BY <2>1 DEF Begun, Runs
    <3>1. PICK d \in 1 .. Depth(u)' : At(u, d)' = x
        BY <3>0
    <3>2. d \in 1 .. Depth(u) /\ At(u, d) = x
        BY <1>0, <1>2, <1>4, <1>5, <3>1
    <3> QED
        BY <3>2 DEF Begun, Runs
  <2>2. ASSUME x \in Begun
        PROVE  x \in Begun'
    <3>0. PICK u \in Threads : \E d \in 1 .. Depth(u) : At(u, d) = x
        BY <2>2 DEF Begun, Runs
    <3>1. PICK d \in 1 .. Depth(u) : At(u, d) = x
        BY <3>0
    <3>2. At(u, d)' = x /\ d \in 1 .. Depth(u)'
        BY <1>0, <1>2, <1>4, <1>5, <3>1, NoneApart
    <3> QED
        BY <3>2 DEF Begun, Runs
  <2> QED
      BY <2>1, <2>2
<1> QED
    BY <1>6, <1>7 DEF Begun

(* What lies in the ring buffers.                                            *)
LEMMA LiesType ==
    ASSUME Kinds, NEW w \in Warps, NEW t \in Threads
    PROVE  /\ ring[w][t] \in Seq(Tasks) /\ Len(ring[w][t]) \in Nat
           /\ \A i \in 1 .. Len(ring[w][t]) : ring[w][t][i] \in Tasks \cap InRings
<1>1. ring[w][t] \in Seq(Tasks) /\ Len(ring[w][t]) \in Nat
    BY LenProperties DEF Kinds, WarpsTyped
<1>2. ASSUME NEW i \in 1 .. Len(ring[w][t])
      PROVE  ring[w][t][i] \in Tasks \cap InRings
  <2>1. ring[w][t][i] \in Tasks
      BY <1>1, ElementOfSeq
  <2>2. Lies(w, t, ring[w][t][i])
      BY DEF Lies
  <2> QED
      BY <2>1, <2>2 DEF InRings
<1> QED
    BY <1>1, <1>2

(* Two slots that hold the same routine are one.                             *)
LEMMA LiesAt ==
    ASSUME LiesOnce, NEW v \in Warps, NEW c \in Warps, NEW u \in Threads, NEW b \in Threads,
           NEW k \in 1 .. Len(ring[v][u]), NEW l \in 1 .. Len(ring[c][b]),
           ring[v][u][k] = ring[c][b][l]
    PROVE  v = c /\ u = b /\ k = l
BY DEF LiesOnce

(* A routine that lies in no ring buffer is pushed to one.                   *)
LEMMA RingsPush ==
    ASSUME Kinds, LiesOnce, NEW w \in Warps, NEW t \in Threads, NEW x \in Tasks \ InRings,
           ring' = [ring EXCEPT ![w][t] = Append(@, x)]
    PROVE  LiesOnce' /\ InRings' = InRings \cup {x}
<1>0. PICK n : n = Len(ring[w][t])
    OBVIOUS
<1>1. /\ n \in Nat /\ Len(ring'[w][t]) = n + 1 /\ ring'[w][t][n + 1] = x
      /\ \A i \in 1 .. n : ring'[w][t][i] = ring[w][t][i]
  <2>1. ring'[w][t] = Append(ring[w][t], x) /\ ring[w][t] \in Seq(Tasks) /\ n \in Nat
      BY <1>0, LiesType DEF Kinds, WarpsTyped
  <2> QED
      BY <1>0, <2>1, AppendProperties
<1>2. ASSUME NEW v \in Warps, NEW u \in Threads, v # w \/ u # t
      PROVE  ring'[v][u] = ring[v][u]
    BY <1>2 DEF Kinds, WarpsTyped
<1>3. ASSUME NEW v \in Warps, NEW u \in Threads, NEW i \in 1 .. Len(ring'[v][u])
      PROVE  \/ i \in 1 .. Len(ring[v][u]) /\ ring'[v][u][i] = ring[v][u][i]
             \/ v = w /\ u = t /\ i = n + 1 /\ ring'[v][u][i] = x
    BY <1>0, <1>1, <1>2
<1>4. ASSUME NEW v \in Warps, NEW u \in Threads, NEW i \in 1 .. Len(ring[v][u])
      PROVE  i \in 1 .. Len(ring'[v][u]) /\ ring'[v][u][i] = ring[v][u][i]
    BY <1>0, <1>1, <1>2
<1>5. LiesOnce'
  <2> SUFFICES ASSUME NEW v \in Warps, NEW c \in Warps, NEW u \in Threads, NEW b \in Threads,
                      NEW i \in 1 .. Len(ring'[v][u]), NEW j \in 1 .. Len(ring'[c][b]),
                      ring'[v][u][i] = ring'[c][b][j]
               PROVE  v = c /\ u = b /\ i = j
      BY DEF LiesOnce
  <2>1. CASE i \in 1 .. Len(ring[v][u]) /\ ring'[v][u][i] = ring[v][u][i]
    <3>1. ring[v][u][i] # x
        BY <2>1, LiesType
    <3>2. j \in 1 .. Len(ring[c][b]) /\ ring'[c][b][j] = ring[c][b][j]
        BY <1>3, <2>1, <3>1
    <3> QED
        BY <2>1, <3>2 DEF LiesOnce
  <2>2. CASE v = w /\ u = t /\ i = n + 1 /\ ring'[v][u][i] = x
    <3>1. ASSUME j \in 1 .. Len(ring[c][b]), ring'[c][b][j] = ring[c][b][j]
          PROVE  FALSE
        BY <2>2, <3>1, LiesType
    <3> QED
        BY <1>3, <2>2, <3>1
  <2> QED
      BY <1>3, <2>1, <2>2
<1>6. ASSUME NEW y \in Tasks
      PROVE  y \in InRings' <=> y \in InRings \cup {x}
  <2>1. ASSUME y \in InRings'
        PROVE  y \in InRings \cup {x}
    <3>1. PICK v \in Warps : \E u \in Threads : Lies(v, u, y)'
        BY <2>1 DEF InRings
    <3>2. PICK u \in Threads : Lies(v, u, y)'
        BY <3>1
    <3>3. PICK i \in 1 .. Len(ring'[v][u]) : ring'[v][u][i] = y
        BY <3>2 DEF Lies
    <3> QED
        BY <1>3, <3>3, LiesType
  <2>2. ASSUME y \in InRings
        PROVE  y \in InRings'
    <3>1. PICK v \in Warps : \E u \in Threads : Lies(v, u, y)
        BY <2>2 DEF InRings
    <3>2. PICK u \in Threads : Lies(v, u, y)
        BY <3>1
    <3>3. PICK i \in 1 .. Len(ring[v][u]) : ring[v][u][i] = y
        BY <3>2 DEF Lies
    <3>4. Lies(v, u, y)'
        BY <1>4, <3>3 DEF Lies
    <3> QED
        BY <3>4 DEF InRings
  <2>3. ASSUME y = x
        PROVE  y \in InRings'
    <3>1. Lies(w, t, y)'
        BY <1>1, <2>3 DEF Lies
    <3> QED
        BY <3>1 DEF InRings
  <2> QED
      BY <2>1, <2>2, <2>3
<1>7. InRings \subseteq Tasks /\ InRings' \subseteq Tasks
    BY DEF InRings
<1> QED
    BY <1>5, <1>6, <1>7

(* The first routine of a ring buffer is popped.                             *)
LEMMA RingsPop ==
    ASSUME Kinds, LiesOnce, NEW w \in Warps, NEW t \in Threads, ring[w][t] # <<>>,
           ring' = [ring EXCEPT ![w][t] = Tail(@)]
    PROVE  LiesOnce' /\ Head(ring[w][t]) \in InRings /\ InRings' = InRings \ {Head(ring[w][t])}
<1>0. PICK x : x = Head(ring[w][t])
    OBVIOUS
<1>1. /\ Len(ring[w][t]) \in Nat \ {0} /\ ring[w][t][1] = x
      /\ Len(ring'[w][t]) = Len(ring[w][t]) - 1
      /\ \A i \in 1 .. Len(ring[w][t]) - 1 : ring'[w][t][i] = ring[w][t][i + 1]
  <2>1. ring'[w][t] = Tail(ring[w][t]) /\ ring[w][t] \in Seq(Tasks) /\ Len(ring[w][t]) \in Nat
      BY LiesType DEF Kinds, WarpsTyped
  <2>2. Len(ring[w][t]) # 0 /\ x = ring[w][t][1]
      BY <1>0, <2>1, EmptySeq, HeadTailProperties
  <2>3. /\ Len(Tail(ring[w][t])) = Len(ring[w][t]) - 1
        /\ \A i \in 1 .. Len(Tail(ring[w][t])) : Tail(ring[w][t])[i] = ring[w][t][i + 1]
      BY <2>1, HeadTailProperties
  <2> QED
      BY <2>1, <2>2, <2>3
<1>2. ASSUME NEW v \in Warps, NEW u \in Threads, v # w \/ u # t
      PROVE  ring'[v][u] = ring[v][u]
    BY <1>2 DEF Kinds, WarpsTyped
<1> DEFINE Was(v, u, i) == IF v = w /\ u = t THEN i + 1 ELSE i
<1>3. ASSUME NEW v \in Warps, NEW u \in Threads, NEW i \in 1 .. Len(ring'[v][u])
      PROVE  Was(v, u, i) \in 1 .. Len(ring[v][u]) /\ ring'[v][u][i] = ring[v][u][Was(v, u, i)]
    BY <1>1, <1>2
<1> HIDE DEF Was
<1>4. LiesOnce'
  <2> SUFFICES ASSUME NEW v \in Warps, NEW c \in Warps, NEW u \in Threads, NEW b \in Threads,
                      NEW i \in 1 .. Len(ring'[v][u]), NEW j \in 1 .. Len(ring'[c][b]),
                      ring'[v][u][i] = ring'[c][b][j]
               PROVE  v = c /\ u = b /\ i = j
      BY DEF LiesOnce
  <2>1. /\ Was(v, u, i) \in 1 .. Len(ring[v][u]) /\ Was(c, b, j) \in 1 .. Len(ring[c][b])
        /\ ring[v][u][Was(v, u, i)] = ring[c][b][Was(c, b, j)]
      BY <1>3
  <2>2. v = c /\ u = b /\ Was(v, u, i) = Was(c, b, j)
    <3>1. PICK k \in 1 .. Len(ring[v][u]) : k = Was(v, u, i)
        BY <2>1
    <3>2. PICK l \in 1 .. Len(ring[c][b]) : l = Was(c, b, j)
        BY <2>1
    <3>3. ring[v][u][k] = ring[c][b][l]
        BY <2>1, <3>1, <3>2
    <3>4. v = c /\ u = b /\ k = l
        BY SMTT(30), <3>1, <3>2, <3>3, LiesAt
    <3> QED
        BY <3>1, <3>2, <3>4
  <2>3. i \in Int /\ j \in Int
      OBVIOUS
  <2> QED
      BY <2>2, <2>3 DEF Was
<1>5. ASSUME NEW y \in Tasks
      PROVE  y \in InRings' <=> y \in InRings \ {x}
  <2>1. ASSUME y \in InRings'
        PROVE  y \in InRings \ {x}
    <3>1. PICK v \in Warps : \E u \in Threads : Lies(v, u, y)'
        BY <2>1 DEF InRings
    <3>2. PICK u \in Threads : Lies(v, u, y)'
        BY <3>1
    <3>3. PICK i \in 1 .. Len(ring'[v][u]) : ring'[v][u][i] = y
        BY <3>2 DEF Lies
    <3>4. Was(v, u, i) \in 1 .. Len(ring[v][u]) /\ y = ring[v][u][Was(v, u, i)]
        BY <1>3, <3>3
    <3>5. y \in InRings
        BY <3>4, LiesType
    <3>6. ASSUME y = x
          PROVE  FALSE
      <4>1. v = w /\ u = t /\ Was(v, u, i) = 1
        <5>1. 1 \in 1 .. Len(ring[w][t]) /\ ring[w][t][1] = ring[v][u][Was(v, u, i)]
            BY <1>1, <3>4, <3>6
        <5> QED
            BY <3>4, <5>1 DEF LiesOnce
      <4> QED
          BY <4>1 DEF Was
    <3> QED
        BY <3>5, <3>6
  <2>2. ASSUME y \in InRings, y # x
        PROVE  y \in InRings'
    <3>1. PICK v \in Warps : \E u \in Threads : Lies(v, u, y)
        BY <2>2 DEF InRings
    <3>2. PICK u \in Threads : Lies(v, u, y)
        BY <3>1
    <3>3. PICK i \in 1 .. Len(ring[v][u]) : ring[v][u][i] = y
        BY <3>2 DEF Lies
    <3>4. CASE v # w \/ u # t
      <4>1. Lies(v, u, y)'
          BY <1>2, <3>3, <3>4 DEF Lies
      <4> QED
          BY <4>1 DEF InRings
    <3>5. CASE v = w /\ u = t
      <4>1. i # 1
          BY <1>1, <2>2, <3>3, <3>5
      <4>2. i - 1 \in 1 .. Len(ring[w][t]) - 1 /\ (i - 1) + 1 = i
          BY <1>1, <3>3, <3>5, <4>1
      <4>3. i - 1 \in 1 .. Len(ring'[w][t]) /\ ring'[w][t][i - 1] = y
          BY <1>1, <3>3, <3>5, <4>2
      <4>4. Lies(w, t, y)'
          BY <4>3 DEF Lies
      <4> QED
          BY <4>4 DEF InRings
    <3> QED
        BY <3>4, <3>5
  <2> QED
      BY <2>1, <2>2
<1>6. InRings \subseteq Tasks /\ InRings' \subseteq Tasks
    BY DEF InRings
<1>7. x \in InRings
    BY <1>1, LiesType
<1> QED
    BY <1>0, <1>4, <1>5, <1>6, <1>7

(* The ring buffers are as they were.                                        *)
LEMMA RingsStay ==
    ASSUME LiesOnce, UNCHANGED ring
    PROVE  LiesOnce' /\ InRings' = InRings
BY DEF LiesOnce, InRings, Lies

(* The four parts, when nothing moves between them.                          *)
LEMMA PlacesStay ==
    ASSUME Conserved, NEW t \in Threads, KeepsTask(t), UNCHANGED <<ring, fresh, done>>
    PROVE  OnePlace'
<1>1. RunsOnce' /\ Begun' = Begun
    BY BegunStays DEF Conserved, OnePlace
<1>2. LiesOnce' /\ InRings' = InRings
    BY RingsStay DEF Conserved, OnePlace
<1> QED
    BY <1>1, <1>2 DEF Conserved, OnePlace, Parted

(* The actions that keep every routine where it is.                          *)
Idles(t) ==
    \/ FlushStep(t) \/ ReleaseStep(t) \/ YieldStep(t) \/ PlainExecute(t) \/ Guard(t) \/ NextRing(t)
    \/ NextPass(t) \/ DirectEnd(t) \/ SuspendWarp(t) \/ ResumeWarp(t) \/ SetWarpIndex(t) \/ WaitStep(t)

(* They keep what each thread runs.                                          *)
LEMMA IdlesKeeps ==
    ASSUME Kinds, Shaped, NEW t \in Threads, Idles(t)
    PROVE  KeepsTask(t) /\ UNCHANGED <<ring, fresh, done>>
<1>1. UNCHANGED <<ring, fresh, done>>
    BY DEF Idles, FlushStep, FlushMark, FlushAcquire, FlushDispatch, FlushUndo, FlushSetMask,
           FlushAnnounce, ReleaseStep, Release, ReleaseAnnounced, ReleaseUnmask, ReleaseFlushWarp,
           ReleaseUnannounce, YieldStep, YieldLeave, YieldReflush, PlainExecute, EnterSuspended,
           Enter, Guard, GuardOwn, GuardRecheck, ExecuteRecheck, ExecuteRequeue, ExecuteBegin,
           NextRing, NextPass, Invoke, InvokeReturn, ExecuteEnd, DirectEnd, SuspendWarp, ResumeWarp,
           SetWarpIndex, WaitStep, Wait, YieldWarp, WaitCheck, WaitPoll, WaitWarp,
           AcquireFlushOnWait, warpState, history
<1>2. CASE UNCHANGED <<frame, stack>>
    BY <1>1, <1>2 DEF KeepsTask
<1>3. CASE WaitStep(t)
    BY <1>1, <1>3, WaitShape
<1>4. CASE Guard(t)
  <2>1. CASE UNCHANGED frame
      BY <1>1, <1>4, <2>1 DEF Guard, KeepsTask
  <2>2. CASE frame' = [frame EXCEPT ![t].guard = frame[t].queue]
    <3>1. [frame[t] EXCEPT !.guard = frame[t].queue] \in FrameType
        BY OwnFields DEF FrameType
    <3>2. [frame[t] EXCEPT !.guard = frame[t].queue].task = frame[t].task
        BY OwnFields DEF FrameType
    <3>3. UNCHANGED stack
        BY <1>4 DEF Guard
    <3> QED
        BY <1>1, <2>2, <3>1, <3>2, <3>3, WaitFrames
  <2> QED
      BY <1>4, <2>1, <2>2 DEF Guard
<1>5. CASE NextRing(t) \/ NextPass(t)
  <2>1. ~Pop(t)
      BY <1>5, OwnFields DEF Pop, NextRing, NextPass
  <2>2. frame[t].task = None /\ frame'[t].task = None
      BY <1>5, <2>1, ScanShape
  <2>3. UNCHANGED stack /\ \A u \in Threads \ {t} : frame'[u] = frame[u]
      BY <1>5, OwnFields DEF NextRing, NextPass, OwnKinds
  <2> QED
      BY <1>1, <2>2, <2>3 DEF KeepsTask
<1> QED
    BY <1>2, <1>3, <1>4, <1>5
       DEF Idles, FlushStep, FlushMark, FlushAcquire, FlushDispatch, FlushUndo, FlushSetMask,
           FlushAnnounce, ReleaseStep, Release, ReleaseAnnounced, ReleaseUnmask, ReleaseFlushWarp,
           ReleaseUnannounce, YieldStep, YieldLeave, YieldReflush, PlainExecute, EnterSuspended,
           Enter, GuardOwn, GuardRecheck, ExecuteRecheck, ExecuteRequeue, ExecuteBegin,
           Invoke, InvokeReturn, ExecuteEnd, DirectEnd, SuspendWarp, ResumeWarp,
           SetWarpIndex, activation

(* The routine a thread runs has begun.                                      *)
LEMMA BegunTop ==
    ASSUME Kinds, NEW t \in Threads, frame[t].task \in Tasks
    PROVE  frame[t].task \in Begun
<1>1. Runs(t, frame[t].task)
    BY AtTop DEF Runs
<1> QED
    BY <1>1 DEF Begun

(* A frame whose routine alone is another.                                   *)
LEMMA TaskGets ==
    ASSUME Kinds, NEW t \in Threads, NEW y, UNCHANGED stack,
           frame' = [frame EXCEPT ![t].task = y] \/
           frame' = [frame EXCEPT ![t].task = y, ![t].executed = TRUE]
    PROVE  Gets(t, y)
<1>1. frame \in [Threads -> FrameType]
    BY DEF Kinds, ActivationKinds
<1>2. frame[t] \in FrameType
    BY <1>1
<1>3. frame'[t].task = y
    BY <1>1, <1>2 DEF FrameType
<1>4. \A u \in Threads \ {t} : frame'[u] = frame[u]
    BY <1>1
<1> QED
    BY <1>3, <1>4 DEF Gets

(* A routine is queued.                                                      *)
LEMMA PostPlaces ==
    ASSUME Conserved, NEW t \in Threads, Post(t)
    PROVE  OnePlace'
<1>0. Kinds /\ Shaped /\ Parted /\ RunsOnce /\ LiesOnce
    BY DEF Conserved, OnePlace
<1>1. PICK x \in fresh : fresh' = fresh \ {x} /\ ring' = [ring EXCEPT ![home[x]][t] = Append(@, x)]
    BY DEF Post
<1>2. x \in Tasks \ InRings /\ home[x] \in Warps
    BY <1>0 DEF Kinds, KernelTyped, HistoryTyped, Parted
<1>3. LiesOnce' /\ InRings' = InRings \cup {x}
    BY <1>0, <1>1, <1>2, RingsPush
<1>4. KeepsTask(t) /\ UNCHANGED done
    BY DEF Post, KeepsTask, activation
<1>5. RunsOnce' /\ Begun' = Begun
    BY <1>0, <1>4, BegunStays
<1> QED
    BY <1>0, <1>1, <1>2, <1>3, <1>4, <1>5 DEF OnePlace, Parted

(* A routine is run at once.                                                 *)
LEMMA DirectPlaces ==
    ASSUME Conserved, NEW t \in Threads, Direct(t)
    PROVE  OnePlace'
<1>0. Kinds /\ Shaped /\ Parted /\ RunsOnce /\ LiesOnce
    BY DEF Conserved, OnePlace
<1>1. PICK x \in fresh : \E f \in FrameType :
          Interrupts(t, f) /\ f.task = x /\ fresh' = fresh \ {x}
    BY <1>0, DirectShape
<1>2. PICK f \in FrameType : Interrupts(t, f) /\ f.task = x /\ fresh' = fresh \ {x}
    BY <1>1
<1>3. x \in Tasks \ Begun /\ x # None
    BY <1>0, NoneApart DEF Kinds, HistoryTyped, Parted
<1>4. RunsOnce' /\ Begun' = Begun \cup {x}
    BY <1>0, <1>2, <1>3, BegunInterrupts
<1>5. UNCHANGED <<ring, done>>
    BY DEF Direct
<1>6. LiesOnce' /\ InRings' = InRings
    BY <1>0, <1>5, RingsStay
<1> QED
    BY <1>0, <1>2, <1>3, <1>4, <1>5, <1>6 DEF OnePlace, Parted

(* A routine goes back to a ring buffer.                                     *)
LEMMA GivesPlaces ==
    ASSUME Conserved, NEW t \in Threads, NEW x, NEW w, Gives(t, x, w),
           UNCHANGED <<stack, fresh, done>>
    PROVE  OnePlace'
<1>0. Kinds /\ Shaped /\ Parted /\ RunsOnce /\ LiesOnce
    BY DEF Conserved, OnePlace
<1>1. x \in Tasks /\ x = frame[t].task /\ w \in Warps /\ x \in Begun
    BY <1>0, BegunTop DEF Gives
<1>2. Gets(t, None)
    BY <1>0, TaskGets DEF Gives
<1>3. RunsOnce' /\ Begun' = Begun \ {x}
    BY <1>0, <1>1, <1>2, BegunGets
<1>4. x \in Tasks \ InRings
    BY <1>0, <1>1 DEF Parted
<1>5. LiesOnce' /\ InRings' = InRings \cup {x}
    BY <1>0, <1>1, <1>4, RingsPush DEF Gives
<1> QED
    BY <1>0, <1>1, <1>3, <1>4, <1>5 DEF OnePlace, Parted

(* A routine is taken from a ring buffer.                                    *)
LEMMA PopPlaces ==
    ASSUME Conserved, NEW t \in Threads, Pop(t)
    PROVE  OnePlace'
<1>0. Kinds /\ Shaped /\ Parted /\ RunsOnce /\ LiesOnce
    BY DEF Conserved, OnePlace
<1>1. PICK w \in Warps : w = frame[t].queue
    BY <1>0, ScanShape
<1>2. PICK s \in Threads : s = Rings[frame[t].scan]
    BY <1>0, ScanShape
<1>3. PICK x : x = Head(ring[w][s])
    OBVIOUS
<1>4. /\ ring[w][s] # <<>> /\ ring' = [ring EXCEPT ![w][s] = Tail(@)]
      /\ frame' = [frame EXCEPT ![t].task = x, ![t].executed = TRUE]
      /\ UNCHANGED <<stack, fresh, done>>
    BY <1>1, <1>2, <1>3 DEF Pop, history
<1>5. LiesOnce' /\ x \in InRings /\ InRings' = InRings \ {x}
    BY <1>0, <1>3, <1>4, RingsPop
<1>6. x \in Tasks \ Begun /\ x # None
    BY <1>0, <1>5, NoneApart DEF Parted, InRings
<1>7. Gets(t, x) /\ frame[t].task = None
    BY <1>0, <1>4, TaskGets, ScanShape
<1>8. RunsOnce' /\ Begun' = Begun \cup {x}
  <2>1. RunsOnce' /\ Begun' = (Begun \ {frame[t].task}) \cup ({x} \ {None})
      BY <1>0, <1>6, <1>7, BegunGets
  <2>2. None \notin Begun
      BY NoneApart DEF Begun
  <2> QED
      BY <1>6, <1>7, <2>1, <2>2
<1> QED
    BY <1>0, <1>4, <1>5, <1>6, <1>8 DEF OnePlace, Parted

(* A routine is done.                                                        *)
LEMMA FinishPlaces ==
    ASSUME Conserved, NEW t \in Threads, Finish(t)
    PROVE  OnePlace'
<1>0. Kinds /\ Shaped /\ Parted /\ RunsOnce /\ LiesOnce
    BY DEF Conserved, OnePlace
<1>1. PICK x \in Tasks : x = frame[t].task
    BY <1>0, FinishShape
<1>2. /\ done' = done \cup {x} /\ UNCHANGED <<ring, stack, fresh>>
      /\ frame' = [frame EXCEPT ![t].task = None]
    BY <1>1 DEF Finish, warpState
<1>3. Gets(t, None) /\ x \in Begun
    BY <1>0, <1>1, <1>2, TaskGets, BegunTop
<1>4. RunsOnce' /\ Begun' = Begun \ {x}
    BY <1>0, <1>1, <1>3, BegunGets
<1>5. LiesOnce' /\ InRings' = InRings
    BY <1>0, <1>2, RingsStay
<1> QED
    BY <1>0, <1>2, <1>3, <1>4, <1>5 DEF OnePlace, Parted

(* An Execute begins without a routine, and an activation returns without    *)
(* one.                                                                      *)
LEMMA CallPlaces ==
    ASSUME Conserved, NEW t \in Threads, Take(t) \/ Return(t)
    PROVE  OnePlace'
<1>0. Kinds /\ Shaped /\ Parted /\ RunsOnce /\ LiesOnce
    BY DEF Conserved, OnePlace
<1>1. UNCHANGED <<ring, fresh, done>>
    BY DEF Take, Return, warpState, history
<1>2. LiesOnce' /\ InRings' = InRings
    BY <1>0, <1>1, RingsStay
<1>3. RunsOnce' /\ Begun' = Begun
  <2>1. CASE Take(t)
    <3>1. PICK f \in FrameType : Interrupts(t, f) /\ f.task = None
        BY <1>0, <2>1, TakeShape
    <3> QED
        BY <1>0, <3>1, BegunInterrupts
  <2>2. CASE Return(t)
      BY <1>0, <2>2, ReturnShape, BegunResumes
  <2> QED
      BY <2>1, <2>2
<1> QED
    BY <1>0, <1>1, <1>2, <1>3 DEF OnePlace, Parted

(* No step loses a routine or duplicates one.                                *)
LEMMA StepConserved ==
    ASSUME Conserved, NEW t \in Threads, ThreadStep(t)
    PROVE  Conserved'
<1>0. Kinds /\ Shaped
    BY DEF Conserved
<1>1. Kinds' /\ Shaped'
    BY <1>0, StepKinds
<1>2. CASE Idles(t)
  <2>1. KeepsTask(t) /\ UNCHANGED <<ring, fresh, done>>
      BY <1>0, <1>2, IdlesKeeps
  <2> QED
      BY <1>1, <2>1, PlacesStay DEF Conserved
<1>3. CASE Forward(t)
  <2>1. UNCHANGED <<stack, fresh, done>>
      BY <1>3 DEF Forward, history
  <2> QED
      BY <1>0, <1>1, <1>3, <2>1, ForwardShape, GivesPlaces DEF Conserved
<1>4. CASE DirectRecheck(t)
  <2>1. UNCHANGED <<stack, fresh, done>>
      BY <1>4 DEF DirectRecheck, history
  <2>2. CASE UNCHANGED <<frame, ring>>
      BY <1>1, <2>1, <2>2, PlacesStay DEF Conserved, KeepsTask
  <2>3. CASE Gives(t, frame[t].task, home[frame[t].task])
      BY <1>1, <2>1, <2>3, GivesPlaces DEF Conserved
  <2> QED
      BY <1>0, <1>4, <2>2, <2>3, RecheckShape
<1>5. CASE Post(t) \/ Direct(t) \/ Pop(t) \/ Finish(t) \/ Take(t) \/ Return(t)
    BY <1>1, <1>5, PostPlaces, DirectPlaces, PopPlaces, FinishPlaces, CallPlaces DEF Conserved
<1> QED
    BY <1>2, <1>3, <1>4, <1>5 DEF ThreadStep, ExecuteStep, QueueStep, Idles, PlainExecute

(* Every routine is fresh at first.                                          *)
LEMMA InitConserved ==
    ASSUME Init
    PROVE  Conserved
<1>1. Len(Rings) \in Nat /\ Idle \in FrameType /\ None \notin Tasks
    BY IdleType, NoneApart
<1>2. NoArgs \in ArgsKind /\ Idle.task = None /\ Idle.queue = None /\ NoArgs.flush = None
    BY DEF NoArgs, ArgsKind, FlushBack, YieldBack, PollBack, ReleaseBack, Idle
<1>3. <<>> \in Seq(EntryKind) /\ <<>> \in Seq(Tasks) /\ Len(<<>>) = 0
    OBVIOUS
<1>4. Kinds
  <2>1. LocalKinds /\ ActivationKinds
      BY <1>1, <1>2, <1>3 DEF Init, LocalKinds, ActivationKinds, EveryLabel, Labels
  <2>2. WarpsTyped
      BY <1>3 DEF Init, WarpsTyped
  <2>3. KernelTyped /\ HistoryTyped
      BY Numbers, KernelAssumption DEF Init, KernelTyped, HistoryTyped
  <2> QED
      BY <2>1, <2>2, <2>3 DEF Kinds
<1>5. ASSUME NEW t \in Threads
      PROVE  ShapedAt(t)
  <2>1. pc[t] = "poll" /\ args[t] = NoArgs /\ frame[t] = Idle /\ stack[t] = <<>>
      BY DEF Init
  <2>2. CallOK("poll", NoArgs) /\ ComesTo("poll", NoArgs) = "poll"
      BY DEF CallOK, ComesTo, ReturnsTo, FlushLabels, Releasing
  <2>3. FrameOK("poll", Idle, <<>>) /\ BelowOK(<<>>)
      BY <1>2, <1>3 DEF FrameOK, BelowOK, Executing, ExecuteLabels, Guarded, Running, WaitLabels
  <2> QED
      BY <2>1, <2>2, <2>3 DEF ShapedAt
<1>6. ASSUME NEW t \in Threads, NEW d \in 1 .. Depth(t)
      PROVE  At(t, d) = None
    BY <1>2, <1>3 DEF Init, Depth, At
<1>7. ASSUME NEW w \in Warps, NEW t \in Threads
      PROVE  Len(ring[w][t]) = 0
    BY <1>3 DEF Init
<1>8. Begun = {} /\ InRings = {}
  <2>1. \A t \in Threads, x \in Tasks : ~Runs(t, x)
      BY <1>1, <1>6 DEF Runs
  <2>2. \A w \in Warps, t \in Threads : \A x : ~Lies(w, t, x)
      BY <1>7 DEF Lies
  <2> QED
      BY <2>1, <2>2 DEF Begun, InRings
<1>9. RunsOnce /\ LiesOnce
    BY <1>6, <1>7 DEF RunsOnce, LiesOnce
<1>10. Parted
    BY <1>8 DEF Init, Parted
<1> QED
    BY <1>4, <1>5, <1>9, <1>10 DEF Conserved, OnePlace, Shaped

(* Every routine is in one place, always, whoever waits.                     *)
THEOREM Conserving == Spec => []Conserved
<1>1. ASSUME Conserved, UNCHANGED vars
      PROVE  Conserved'
  <2>1. /\ Kinds' = Kinds
      BY <1>1 DEF Kinds, LocalKinds, WarpsTyped, KernelTyped, ActivationKinds, HistoryTyped, vars,
                  warpState, kernelState, activation, history
  <2>2. Shaped' = Shaped
      BY <1>1 DEF Shaped, ShapedAt, vars, activation
  <2>3. CASE \E t : t \in Threads
    <3>1. PICK t : t \in Threads
        BY <2>3
    <3>2. KeepsTask(t) /\ UNCHANGED <<ring, fresh, done>>
        BY <1>1 DEF KeepsTask, vars, warpState, activation, history
    <3> QED
        BY <1>1, <2>1, <2>2, <3>1, <3>2, PlacesStay DEF Conserved
  <2>4. CASE ~ \E t : t \in Threads
      BY <1>1, <2>1, <2>2, <2>4 DEF Conserved, OnePlace, Parted, RunsOnce, LiesOnce, Begun, InRings,
                                    vars, history
  <2> QED
      BY <2>3, <2>4
<1>2. ASSUME Conserved, [Next]_vars
      PROVE  Conserved'
    BY <1>1, <1>2, StepConserved DEF Next, Terminated
<1> QED
    BY <1>2, InitConserved, PTL DEF Spec

(* The routines a thread holds are those of its activations.                 *)
LEMMA HeldRuns ==
    ASSUME Kinds, NEW t \in Threads, NEW x \in Tasks
    PROVE  x \in Held(t) <=> Runs(t, x)
<1>1. stack[t] \in Seq(EntryKind) /\ Len(stack[t]) \in Nat /\ DOMAIN stack[t] = 1 .. Len(stack[t])
    BY OwnFields, LenProperties
<1>2. Depth(t) \in Nat /\ Depth(t) \in 1 .. Depth(t) /\ At(t, Depth(t)) = frame[t].task
      /\ Depth(t) = Len(stack[t]) + 1
    BY AtTop DEF Depth
<1>3. ASSUME NEW i \in 1 .. Len(stack[t])
      PROVE  /\ Depth(t) - i \in 1 .. Depth(t)
             /\ At(t, Depth(t) - i) = stack[t][i].frame.task
  <2>1. Depth(t) - i \in 1 .. Depth(t) /\ Depth(t) - i # Depth(t) /\ Depth(t) - (Depth(t) - i) = i
      BY <1>1, <1>2
  <2> QED
      BY <2>1 DEF At
<1>4. ASSUME x \in Held(t)
      PROVE  Runs(t, x)
  <2>1. CASE x = frame[t].task
      BY <1>2, <2>1 DEF Runs
  <2>2. CASE x # frame[t].task
    <3>1. PICK s \in Range(stack[t]) : x = s.frame.task
        BY <1>4, <2>2 DEF Held
    <3>2. PICK i \in 1 .. Len(stack[t]) : s = stack[t][i]
        BY <1>1, <3>1 DEF Range
    <3> QED
        BY <1>3, <3>1, <3>2 DEF Runs
  <2> QED
      BY <2>1, <2>2
<1>5. ASSUME Runs(t, x)
      PROVE  x \in Held(t)
  <2>1. PICK d \in 1 .. Depth(t) : At(t, d) = x
      BY <1>5 DEF Runs
  <2>2. CASE d = Depth(t)
      BY <1>2, <2>1, <2>2 DEF Held
  <2>3. CASE d # Depth(t)
    <3>1. Depth(t) - d \in 1 .. Len(stack[t]) /\ x = stack[t][Depth(t) - d].frame.task
        BY <1>1, <1>2, <2>1, <2>3 DEF At
    <3>2. stack[t][Depth(t) - d] \in Range(stack[t])
        BY <1>1, <3>1 DEF Range
    <3> QED
        BY <3>1, <3>2 DEF Held
  <2> QED
      BY <2>2, <2>3
<1> QED
    BY <1>4, <1>5

(* A ring buffer holds no more routines than there are.                      *)
LEMMA RingBounded ==
    ASSUME Kinds, LiesOnce, NEW w \in Warps, NEW t \in Threads
    PROVE  Len(ring[w][t]) \in Nat /\ Len(ring[w][t]) <= Cardinality(Tasks)
<1> DEFINE n == Len(ring[w][t])
           f == [i \in 1 .. n |-> ring[w][t][i]]
<1>1. n \in Nat /\ \A i \in 1 .. n : ring[w][t][i] \in Tasks
    BY LiesType
<1>2. f \in [1 .. n -> Tasks]
    BY <1>1
<1>3. \A i, j \in 1 .. n : f[i] = f[j] => i = j
    BY DEF LiesOnce
<1>4. f \in Injection(1 .. n, Tasks)
    BY <1>2, <1>3 DEF Injection, IsInjective
<1>5. Cardinality(1 .. n) <= Cardinality(Tasks)
    BY <1>4, KernelAssumption, FS_Injection
<1>6. Cardinality(1 .. n) = n
    BY <1>1, FS_Interval
<1> QED
    BY <1>1, <1>5, <1>6

(* The slots of the ring buffers in which a routine lies.                    *)
Slots(x) ==
    {r \in Warps \X Threads \X (1 .. Cardinality(Tasks)) :
        r[3] <= Len(ring[r[1]][r[2]]) /\ ring[r[1]][r[2]][r[3]] = x}

(* A routine is in a slot if it is in the ring buffers, and in one alone.    *)
LEMMA OneSlot ==
    ASSUME Kinds, LiesOnce, NEW x \in Tasks
    PROVE  Cardinality(Slots(x)) = IF x \in InRings THEN 1 ELSE 0
<1>0. Cardinality(Tasks) \in Nat
    BY KernelAssumption, FS_CardinalityType
<1>1. ASSUME NEW w \in Warps, NEW t \in Threads, NEW i
      PROVE  <<w, t, i>> \in Slots(x) <=> i \in 1 .. Len(ring[w][t]) /\ ring[w][t][i] = x
  <2>1. Len(ring[w][t]) \in Nat /\ Len(ring[w][t]) <= Cardinality(Tasks)
      BY RingBounded
  <2> QED
      BY <1>0, <2>1 DEF Slots
<1>2. ASSUME NEW r \in Slots(x)
      PROVE  \E w \in Warps, t \in Threads, i \in 1 .. Cardinality(Tasks) : r = <<w, t, i>>
    BY DEF Slots
<1>3. CASE x \notin InRings
  <2>1. ASSUME NEW r \in Slots(x)
        PROVE  FALSE
    <3>1. PICK w \in Warps, t \in Threads, i \in 1 .. Cardinality(Tasks) : r = <<w, t, i>>
        BY <1>2
    <3>2. Lies(w, t, x)
        BY <1>1, <3>1 DEF Lies
    <3> QED
        BY <1>3, <3>2 DEF InRings
  <2>2. Slots(x) = {}
      BY <2>1
  <2> QED
      BY <1>3, <2>2, FS_EmptySet
<1>4. CASE x \in InRings
  <2>1. PICK w \in Warps, t \in Threads : Lies(w, t, x)
      BY <1>4 DEF InRings
  <2>2. PICK i \in 1 .. Len(ring[w][t]) : ring[w][t][i] = x
      BY <2>1 DEF Lies
  <2>3. <<w, t, i>> \in Slots(x)
      BY <1>1, <2>1, <2>2
  <2>4. ASSUME NEW r \in Slots(x)
        PROVE  r = <<w, t, i>>
    <3>1. PICK v \in Warps, u \in Threads, j \in 1 .. Cardinality(Tasks) : r = <<v, u, j>>
        BY <1>2
    <3>2. j \in 1 .. Len(ring[v][u]) /\ ring[v][u][j] = ring[w][t][i]
        BY <1>1, <2>2, <3>1
    <3> QED
        BY <2>1, <2>2, <3>1, <3>2, LiesAt
  <2>5. Slots(x) = {<<w, t, i>>}
      BY <2>3, <2>4
  <2> QED
      BY <1>4, <2>5, FS_Singleton
<1> QED
    BY <1>3, <1>4

(* A routine that has begun is run by one thread.                            *)
LEMMA OneRunner ==
    ASSUME Kinds, RunsOnce, NEW x \in Tasks
    PROVE  Cardinality({t \in Threads : x \in Held(t)}) = IF x \in Begun THEN 1 ELSE 0
<1>1. CASE x \notin Begun
  <2>1. {t \in Threads : x \in Held(t)} = {}
      BY <1>1, HeldRuns DEF Begun
  <2> QED
      BY <1>1, <2>1, FS_EmptySet
<1>2. CASE x \in Begun
  <2>1. PICK t \in Threads : Runs(t, x)
      BY <1>2 DEF Begun
  <2>2. ASSUME NEW u \in Threads, Runs(u, x)
        PROVE  u = t
    <3>1. PICK d \in 1 .. Depth(t) : At(t, d) = x
        BY <2>1 DEF Runs
    <3>2. PICK e \in 1 .. Depth(u) : At(u, e) = x
        BY <2>2 DEF Runs
    <3> QED
        BY <3>1, <3>2, NoneApart DEF RunsOnce
  <2>3. {u \in Threads : x \in Held(u)} = {t}
      BY <2>1, <2>2, HeldRuns
  <2> QED
      BY <1>2, <2>3, FS_Singleton
<1> QED
    BY <1>1, <1>2

(* A routine is not queued yet, in one ring buffer, run by one thread, or    *)
(* done: QueueRoutine, Execute, ForwardRoutine and Wait lose none and run    *)
(* none twice, whatever is suspended and whoever waits.                      *)
THEOREM Conservation == Spec => []RoutinesConserved
<1>1. Conserved => RoutinesConserved
  <2> SUFFICES ASSUME Conserved, NEW x \in Tasks PROVE Places(x) = 1
      BY DEF RoutinesConserved
  <2>1. Cardinality(Slots(x)) = IF x \in InRings THEN 1 ELSE 0
      BY OneSlot DEF Conserved, OnePlace
  <2>2. Cardinality({t \in Threads : x \in Held(t)}) = IF x \in Begun THEN 1 ELSE 0
      BY OneRunner DEF Conserved, OnePlace
  <2>3. Places(x) = (IF x \in fresh THEN 1 ELSE 0) + (IF x \in done THEN 1 ELSE 0)
                    + (IF x \in Begun THEN 1 ELSE 0) + (IF x \in InRings THEN 1 ELSE 0)
      BY <2>1, <2>2 DEF Places, Slots
  <2>4. /\ x \in fresh \cup done \cup Begun \cup InRings
        /\ fresh \cap done = {} /\ (fresh \cup done) \cap (Begun \cup InRings) = {}
        /\ Begun \cap InRings = {}
      BY DEF Conserved, OnePlace, Parted
  <2>5. CASE x \in fresh
      BY <2>3, <2>4, <2>5
  <2>6. CASE x \in done
      BY <2>3, <2>4, <2>6
  <2>7. CASE x \in Begun
      BY <2>3, <2>4, <2>7
  <2>8. CASE x \in InRings
      BY <2>3, <2>4, <2>8
  <2> QED
      BY <2>4, <2>5, <2>6, <2>7, <2>8
<1> QED
    BY <1>1, Conserving, PTL

(* The state is of its types, whoever waits.                                 *)
THEOREM Types == Spec => []TypeOK
<1>1. Conserved => TypeOK
    BY DEF Conserved, Kinds, TypeOK, WarpsTyped, KernelTyped, ActivationKinds, HistoryTyped
<1> QED
    BY <1>1, Conserving, PTL

-----------------------------------------------------------------------------
(* What is in a warp is seen by somebody                                     *)

Fills(w, u) == ring[w][u] # <<>>

(* Somebody is about to schedule the warp, or it is.                         *)
Scheduled(w) ==
    queueing[w] = "queueing" \/ \E t \in Threads : pc[t] = "flush" /\ args[t].flush = w

(* Where Execute runs a routine, and what comes before it scans.             *)
Inner == {"invoke", "body", "invoked"}
Starts == {"enter", "guard", "guarded", "begin", "flushing"}

(* A thread executes the warp and will come to the ring buffer of u.         *)
Sees(t, w, u) ==
    \/ /\ frame[t].queue = w /\ pc[t] = "scan"
       /\ frame[t].executed \/ \E i \in frame[t].scan .. Len(Rings) : Rings[i] = u
    \/ frame[t].queue = w /\ Point(t) \in Inner
    \/ \E i \in DOMAIN stack[t] : stack[t][i].frame.queue = w

Covered(w, u) == Scheduled(w) \/ \E t \in Threads : Sees(t, w, u)

Seen == \A w \in Warps, u \in Threads : Fills(w, u) => Covered(w, u)

(* A pass begins at the first ring buffer, and another one follows a pass    *)
(* that has found something.                                                 *)
PassAt(t) ==
    /\ frame[t].queue # None =>
        /\ Point(t) \in Starts => frame[t].scan = 1
        /\ Point(t) \in Inner => frame[t].executed
    /\ \A i \in DOMAIN stack[t] : stack[t][i].frame.queue # None => stack[t][i].frame.executed

Passes == \A t \in Threads : PassAt(t)

Unsuspended == \A w \in Warps : suspendCount[w] = 0

Swept == Unsuspended /\ Passes /\ Seen

(* No thread is about to begin a routine of a warp suspended from inside.    *)
Nearing(t) == pc[t] \in {"flushing", "scan", "invoke"}

Barred ==
    \A w \in inside :
        /\ w \in Warps /\ suspendCount[w] # 0
        /\ \A t \in Threads : Nearing(t) => frame[t].queue # w

(* QueueRoutine looks at suspendCount again where it has preempted the warp. *)
Directing == \A t \in Threads : pc[t] = "directed" => frame[t].guard # None

Settled ==
    /\ IInv /\ suspends \in Nat
    /\ waits = 0 => Barred /\ Directing /\ (suspends = 0 => Swept)

(* Whoever sees a ring buffer is in its warp.                                *)
LEMMA SeesInside ==
    ASSUME Typed, NEW t \in Threads, NestedAt(t), NEW w \in Warps, NEW u, Sees(t, w, u)
    PROVE  threadWarp[w] = t
<1>1. CASE frame[t].queue = w /\ pc[t] = "scan"
    BY <1>1, InExecuteLabels DEF ExecuteLabels, Guarded
<1>2. CASE frame[t].queue = w /\ Point(t) \in Inner
  <2>1. /\ stack[t] # <<>> /\ frame[t].guard = w /\ frame[t].queue # None /\ w # None
      BY <1>2, NoneApart DEF NestedAt, ActivationOK, Inner, Guarded, Idle
  <2>2. Holds(t)
      BY <1>2, <2>1 DEF Holds, Inner, Guarded
  <2>3. warpIndex[t] = w
      BY <2>1, <2>2 DEF NestedAt, ActivationOK, Stands
  <2> QED
      BY <2>1, <2>3 DEF NestedAt, Mine
<1>3. CASE \E i \in DOMAIN stack[t] : stack[t][i].frame.queue = w
  <2>1. PICK i \in DOMAIN stack[t] : stack[t][i].frame.queue = w
      BY <1>3
  <2>2. w # None /\ EntryOK(t, i) /\ Mine(t, stack[t][i].warp)
      BY <2>1, NoneApart DEF NestedAt, StackOK
  <2>3. i # Len(stack[t])
      BY <2>1, <2>2 DEF EntryOK, Idle
  <2>4. stack[t][i].frame.guard = w
      BY <2>1, <2>2, <2>3 DEF EntryOK
  <2>5. stack[t][i].warp = w
      BY <2>2, <2>3, <2>4 DEF EntryOK, Stands
  <2> QED
      BY <2>2, <2>5 DEF Mine
<1> QED
    BY <1>1, <1>2, <1>3 DEF Sees

(* What the thread that moves leaves for each ring buffer that has routines. *)
Sweeps(t) ==
    \A w \in Warps, u \in Threads :
        Fills(w, u)' =>
            \/ Covered(w, u)'
            \/ /\ Fills(w, u) /\ ~Sees(t, w, u) /\ queueing[w] # "queueing"
               /\ ~(pc[t] = "flush" /\ args[t].flush = w)

(* The others see what they saw.                                             *)
LEMMA SeenMoves ==
    ASSUME NEW t \in Threads, Seen, \A v \in Threads \ {t} : Undisturbed(v), Sweeps(t)
    PROVE  Seen'
<1> SUFFICES ASSUME NEW w \in Warps, NEW u \in Threads, Fills(w, u)', ~Covered(w, u)'
             PROVE  FALSE
    BY DEF Seen
<1>1. /\ Fills(w, u) /\ ~Sees(t, w, u) /\ queueing[w] # "queueing"
      /\ ~(pc[t] = "flush" /\ args[t].flush = w)
    BY DEF Sweeps
<1>2. Covered(w, u)
    BY <1>1 DEF Seen
<1>3. CASE \E v \in Threads : pc[v] = "flush" /\ args[v].flush = w
    BY <1>1, <1>3 DEF Undisturbed, Covered, Scheduled
<1>4. CASE \E v \in Threads : Sees(v, w, u)
  <2>1. PICK v \in Threads : Sees(v, w, u)
      BY <1>4
  <2>2. Sees(v, w, u)'
      BY <1>1, <2>1 DEF Undisturbed, Sees, Point
  <2> QED
      BY <2>2 DEF Covered
<1> QED
    BY <1>1, <1>2, <1>3, <1>4 DEF Covered, Scheduled

(* The others are in their pass.                                             *)
LEMMA PassesMoves ==
    ASSUME NEW t \in Threads, Passes, \A v \in Threads \ {t} : Undisturbed(v), PassAt(t)'
    PROVE  Passes'
<1>1. ASSUME NEW v \in Threads \ {t}
      PROVE  PassAt(v)'
  <2>1. PassAt(v) /\ Undisturbed(v)
      BY DEF Passes
  <2> QED
      BY <2>1 DEF Undisturbed, PassAt, Point
<1> QED
    BY <1>1 DEF Passes

(* A step that leaves the thread where it is in its pass.                    *)
Walks(t) ==
    /\ stack'[t] = stack[t] /\ frame'[t].queue = frame[t].queue
    /\ frame'[t].scan = frame[t].scan /\ frame'[t].executed = frame[t].executed
    /\ pc[t] # "scan"
    /\ frame[t].queue # None =>
        /\ Point(t) \in Inner => Point(t)' \in Inner
        /\ Point(t)' \in Inner => Point(t) \in Inner
        /\ Point(t)' \in Starts => Point(t) \in Starts

(* Such a step disturbs nothing if it does not forget that the warp is       *)
(* scheduled.                                                                *)
LEMMA WalksOn ==
    ASSUME NEW t \in Threads, PassAt(t), Walks(t), ring' = ring,
           \A w \in Warps : queueing[w] = "queueing" => Scheduled(w)',
           \A w \in Warps : pc[t] = "flush" /\ args[t].flush = w => Scheduled(w)'
    PROVE  PassAt(t)' /\ Sweeps(t)
<1>1. PassAt(t)'
    BY DEF PassAt, Walks
<1>2. ASSUME NEW w \in Warps, NEW u \in Threads, Sees(t, w, u)
      PROVE  Sees(t, w, u)'
    BY <1>2, NoneApart DEF Sees, Walks
<1>3. Sweeps(t)
    BY <1>2 DEF Sweeps, Covered, Fills
<1> QED
    BY <1>1, <1>3

(* The calls of Flush, ReleaseFlush and YieldExecution come back to the same *)
(* point, which is not one where an execution begins.                        *)
LEMMA CallsWalk ==
    ASSUME NEW t \in Threads, Typed, NestedAt(t), FlushStep(t) \/ ReleaseStep(t) \/ YieldStep(t)
    PROVE  Walks(t)
<1>1. frame' = frame /\ stack' = stack
    BY DEF FlushStep, FlushMark, FlushAcquire, FlushDispatch, FlushUndo, FlushSetMask,
           FlushAnnounce, ReleaseStep, Release, ReleaseAnnounced, ReleaseUnmask, ReleaseFlushWarp,
           ReleaseUnannounce, YieldStep, YieldLeave, YieldReflush, activation
<1>2. pc[t] # "scan"
    BY DEF FlushStep, FlushMark, FlushAcquire, FlushDispatch, FlushUndo, FlushSetMask,
           FlushAnnounce, ReleaseStep, Release, ReleaseAnnounced, ReleaseUnmask, ReleaseFlushWarp,
           ReleaseUnannounce, YieldStep, YieldLeave, YieldReflush
<1>3. pc \in [Threads -> Labels] /\ args \in [Threads -> ArgsType]
    BY DEF Typed, LocalTyped
<1>4. ASSUME FlushReturns(t, TRUE) \/ FlushReturns(t, FALSE),
             args[t].flushRet \in CallPoints, args[t].flushRet = "unmask" => args[t].releaseRet = "return"
      PROVE  Point(t)' = args[t].flushRet \/ (args[t].flushRet = "unmask" /\ Point(t)' = "return")
  <2>1. pc'[t] = args[t].flushRet \/ (args[t].flushRet = "unmask" /\ pc'[t] = "return")
      BY <1>3, <1>4 DEF FlushReturns, Goto
  <2> QED
      BY <1>4, <2>1 DEF Point, CallPoints, FlushLabels
<1>5. CASE FlushStep(t)
  <2>1. pc[t] \in FlushLabels /\ Point(t) = args[t].flushRet /\ Point(t) \in CallPoints
      BY <1>5 DEF FlushStep, FlushMark, FlushAcquire, FlushDispatch, FlushUndo, FlushSetMask,
                  FlushAnnounce, FlushLabels, Point, NestedAt, ArgsOK
  <2>2. Point(t) = "unmask" => args[t].releaseRet = "return"
      BY DEF NestedAt, ArgsOK, Releasing
  <2>3. CASE UNCHANGED args /\ \E l \in FlushLabels : Goto(t, l)
      BY <1>1, <1>2, <1>3, <2>1, <2>3 DEF Walks, Point, Goto
  <2>4. CASE FlushReturns(t, TRUE) \/ FlushReturns(t, FALSE)
      BY <1>1, <1>2, <1>4, <2>1, <2>2, <2>4 DEF Walks, Inner, Starts
  <2> QED
      BY <1>5, <2>3, <2>4 DEF FlushStep, FlushMark, FlushAcquire, FlushDispatch, FlushUndo,
                              FlushSetMask, FlushAnnounce, FlushLabels
<1>6. CASE ReleaseStep(t)
  <2>1. pc[t] \in Releasing \cup {"release"} /\ Point(t) = pc[t] /\ args[t].releaseRet = "return"
      BY <1>6 DEF ReleaseStep, Release, ReleaseAnnounced, ReleaseUnmask, ReleaseFlushWarp,
                  ReleaseUnannounce, Releasing, Point, FlushLabels, NestedAt, ArgsOK
  <2>2. Point(t) \notin Inner \cup Starts
      BY <2>1 DEF Releasing, Inner, Starts
  <2>3. Point(t)' \in Releasing \cup {"return"}
    <3>1. CASE ReleaseFlushWarp(t)
      <4>1. args[t].flushRet = "unmask"
          BY <3>1 DEF ReleaseFlushWarp, NestedAt, ArgsOK
      <4>2. CASE Goto(t, "flush") /\ UNCHANGED args
          BY <1>3, <4>1, <4>2 DEF Goto, Point, FlushLabels, Releasing
      <4>3. CASE FlushReturns(t, FALSE)
          BY <1>4, <2>1, <4>1, <4>3 DEF CallPoints, Releasing
      <4> QED
          BY <3>1, <4>2, <4>3 DEF ReleaseFlushWarp
    <3>2. CASE Release(t) \/ ReleaseAnnounced(t) \/ ReleaseUnmask(t) \/ ReleaseUnannounce(t)
      <4>1. pc'[t] \in Releasing \cup {"return"}
          BY <1>3, <2>1, <3>2 DEF Release, ReleaseAnnounced, ReleaseUnmask, ReleaseUnannounce, Goto,
                                  Releasing
      <4> QED
          BY <4>1 DEF Point, FlushLabels, Releasing
    <3> QED
        BY <1>6, <3>1, <3>2 DEF ReleaseStep
  <2> QED
      BY <1>1, <1>2, <2>2, <2>3 DEF Walks, Releasing, Inner, Starts
<1>7. CASE YieldLeave(t)
  <2>1. Point(t) = "yield" /\ args[t].yieldRet \in {"return", "release"}
      BY <1>7 DEF YieldLeave, Point, FlushLabels, NestedAt, ArgsOK
  <2>2. pc'[t] = args[t].yieldRet \/ (pc'[t] = "yielded" /\ args' = args)
      BY <1>3, <1>7 DEF YieldLeave, YieldReturns, Goto
  <2>3. Point(t)' \in {"return", "release"}
      BY <2>1, <2>2 DEF Point, FlushLabels
  <2> QED
      BY <1>1, <1>2, <2>1, <2>3 DEF Walks, Inner, Starts
<1>8. CASE YieldReflush(t)
  <2>1. Point(t) = args[t].yieldRet /\ Point(t) \in CallPoints
      BY <1>8 DEF YieldReflush, Point, FlushLabels, NestedAt, ArgsOK
  <2>2. \/ pc'[t] = args[t].yieldRet
        \/ pc'[t] = "flush" /\ args'[t].flushRet = args[t].yieldRet
      BY <1>3, <1>8 DEF YieldReflush, YieldReturns, Goto, ArgsType
  <2>3. Point(t)' = Point(t)
      BY <2>1, <2>2 DEF Point, FlushLabels, CallPoints
  <2> QED
      BY <1>1, <1>2, <2>3 DEF Walks
<1> QED
    BY <1>5, <1>6, <1>7, <1>8 DEF YieldStep

(* These calls schedule what they find scheduled.                            *)
LEMMA CallsSwept ==
    ASSUME NEW t \in Threads, Typed, NestedAt(t), PassAt(t),
           FlushStep(t) \/ ReleaseStep(t) \/ YieldStep(t)
    PROVE  PassAt(t)' /\ Sweeps(t)
<1>1. pc \in [Threads -> Labels] /\ args \in [Threads -> ArgsType]
      /\ queueing \in [Warps -> {"idle", "queueing", "flushing"}]
    BY DEF Typed, LocalTyped, WarpsTyped
<1>2. ring' = ring
    BY DEF FlushStep, FlushMark, FlushAcquire, FlushDispatch, FlushUndo, FlushSetMask,
           FlushAnnounce, ReleaseStep, Release, ReleaseAnnounced, ReleaseUnmask, ReleaseFlushWarp,
           ReleaseUnannounce, YieldStep, YieldLeave, YieldReflush, warpState
<1>3. ASSUME NEW w, pc'[t] = "flush", args'[t].flush = w
      PROVE  Scheduled(w)'
    BY <1>3 DEF Scheduled
<1>4. ASSUME NEW w \in Warps, queueing[w] = "queueing"
      PROVE  Scheduled(w)'
  <2>1. CASE queueing'[w] = "queueing"
      BY <2>1 DEF Scheduled
  <2>2. CASE ReleaseFlushWarp(t) /\ queueing'[w] # "queueing"
      BY <1>1, <1>3, <1>4, <2>2 DEF ReleaseFlushWarp, Goto
  <2>3. CASE YieldReflush(t) /\ queueing'[w] # "queueing"
    <3>1. w = args[t].yield
        BY <1>1, <1>4, <2>3 DEF YieldReflush
    <3>2. pc'[t] = "flush" /\ args'[t].flush = w
        BY <1>1, <1>4, <2>3, <3>1 DEF YieldReflush, Goto, ArgsType
    <3> QED
        BY <1>3, <3>2
  <2>4. CASE FlushMark(t)
      BY <1>1, <1>4, <2>1, <2>4 DEF FlushMark
  <2>5. CASE queueing' = queueing
      BY <1>4, <2>1, <2>5
  <2>6. FlushMark(t) \/ ReleaseFlushWarp(t) \/ YieldReflush(t) \/ queueing' = queueing
      BY DEF FlushStep, FlushMark, FlushAcquire, FlushDispatch, FlushUndo, FlushSetMask,
             FlushAnnounce, ReleaseStep, Release, ReleaseAnnounced, ReleaseUnmask,
             ReleaseUnannounce, YieldStep, YieldLeave, warpState
  <2> QED
      BY <2>1, <2>2, <2>3, <2>4, <2>5, <2>6
<1>5. ASSUME NEW w \in Warps, pc[t] = "flush", args[t].flush = w
      PROVE  Scheduled(w)'
    BY <1>1, <1>5 DEF Scheduled, FlushStep, FlushMark, FlushAcquire, FlushDispatch, FlushUndo,
           FlushSetMask, FlushAnnounce, ReleaseStep, Release, ReleaseAnnounced, ReleaseUnmask,
           ReleaseFlushWarp, ReleaseUnannounce, YieldStep, YieldLeave, YieldReflush
<1> QED
    BY <1>2, <1>4, <1>5, CallsWalk, WalksOn

(* The point of a thread that is in none of them.                            *)
LEMMA PointIs ==
    ASSUME NEW t \in Threads
    PROVE  /\ pc[t] \notin FlushLabels \cup {"yielded"} => Point(t) = pc[t]
           /\ pc'[t] \notin FlushLabels \cup {"yielded"} => Point(t)' = pc'[t]
           /\ pc'[t] = "flush" => Point(t)' = args'[t].flushRet
BY DEF Point, FlushLabels

(* A step from one label to another that schedules at most.                  *)
LEMMA StepsOn ==
    ASSUME NEW t \in Threads, Typed, NestedAt(t), PassAt(t), pc[t] \notin FlushLabels \cup {"yielded", "scan"},
           stack'[t] = stack[t], frame'[t].queue = frame[t].queue,
           frame'[t].scan = frame[t].scan, frame'[t].executed = frame[t].executed, ring' = ring,
           \A w \in Warps : queueing[w] = "queueing" => queueing'[w] = "queueing",
           NEW p, p = Point(t)',
           frame[t].queue # None =>
               /\ pc[t] \in Inner <=> p \in Inner
               /\ p \in Starts => pc[t] \in Starts
    PROVE  PassAt(t)' /\ Sweeps(t)
<1>1. Point(t) = pc[t]
    BY PointIs
<1>2. Walks(t)
    BY <1>1 DEF Walks
<1>3. pc[t] # "flush"
    BY DEF FlushLabels
<1> QED
    BY <1>2, <1>3, WalksOn DEF Scheduled

(* What Execute does between the calls.                                      *)
LEMMA PlainSwept ==
    ASSUME NEW t \in Threads, Typed, NestedAt(t), PassAt(t), Unsuspended, PlainExecute(t)
    PROVE  PassAt(t)' /\ Sweeps(t)
<1>1. /\ pc \in [Threads -> Labels] /\ args \in [Threads -> ArgsType]
      /\ queueing \in [Warps -> {"idle", "queueing", "flushing"}]
      /\ frame \in [Threads -> FrameType]
    BY DEF Typed, LocalTyped, WarpsTyped, ActivationTyped
<1>2. frame' = frame /\ stack' = stack /\ ring' = ring
    BY DEF PlainExecute, EnterSuspended, Enter, GuardOwn, GuardRecheck, ExecuteRecheck,
           ExecuteRequeue, ExecuteBegin, Invoke, InvokeReturn, ExecuteEnd, warpState, activation
<1>3. pc[t] \in ExecuteLabels /\ pc[t] \notin FlushLabels \cup {"yielded", "scan"}
    BY DEF PlainExecute, EnterSuspended, Enter, GuardOwn, GuardRecheck, ExecuteRecheck,
           ExecuteRequeue, ExecuteBegin, Invoke, InvokeReturn, ExecuteEnd, ExecuteLabels, Guarded,
           FlushLabels
<1>4. /\ frame[t].queue \in Warps /\ frame[t].queue # None /\ Point(t) = pc[t]
      /\ pc[t] \in Guarded => warpIndex[t] = frame[t].queue
    BY <1>3, InExecuteLabels, PointIs, NoneApart
<1>5. CASE ExecuteBegin(t)
  <2>1. pc'[t] = "scan" /\ Point(t)' = "scan" /\ frame[t].scan = 1
      BY <1>1, <1>4, <1>5, PointIs DEF ExecuteBegin, Goto, FlushLabels, PassAt, Starts
  <2>2. \A w \in Warps \ {frame[t].queue} : queueing'[w] = queueing[w]
      BY <1>1, <1>5 DEF ExecuteBegin
  <2>3. ASSUME NEW u \in Threads
        PROVE  Sees(t, frame[t].queue, u)'
    <3>1. \E i \in 1 .. Len(Rings) : Rings[i] = u
        BY KernelAssumption, LenProperties
    <3> QED
        BY <1>2, <2>1, <3>1 DEF Sees
  <2>4. Sweeps(t)
    <3> SUFFICES ASSUME NEW w \in Warps, NEW u \in Threads, Fills(w, u)', ~Covered(w, u)'
                 PROVE  /\ Fills(w, u) /\ ~Sees(t, w, u) /\ queueing[w] # "queueing"
                        /\ ~(pc[t] = "flush" /\ args[t].flush = w)
        BY DEF Sweeps
    <3>1. w # frame[t].queue
        BY <1>2, <2>3 DEF Covered
    <3>2. queueing[w] # "queueing"
        BY <2>2, <3>1 DEF Covered, Scheduled
    <3>3. Sees(t, w, u) => Sees(t, w, u)'
        BY <1>2, <3>1 DEF Sees
    <3> QED
        BY <1>2, <1>3, <3>2, <3>3 DEF Covered, Fills, FlushLabels
  <2>5. PassAt(t)'
      BY <1>2, <2>1 DEF PassAt, Starts, Inner
  <2> QED
      BY <2>4, <2>5
<1>6. CASE InvokeReturn(t)
  <2>1. /\ pc'[t] = "scan" /\ Point(t)' = "scan" /\ frame[t].executed /\ queueing' = queueing
        /\ pc[t] = "invoked"
    <3>1. pc[t] = "invoked" /\ suspendCount[frame[t].queue] = 0 /\ warpIndex[t] = frame[t].queue
        BY <1>4, <1>6 DEF InvokeReturn, Unsuspended, Guarded
    <3>2. pc'[t] = "scan"
        BY <1>1, <1>6, <3>1 DEF InvokeReturn, Goto
    <3> QED
        BY <1>4, <1>6, <3>1, <3>2, PointIs DEF InvokeReturn, FlushLabels, PassAt, Inner, warpState
  <2>2. ASSUME NEW w \in Warps, NEW u \in Threads, Sees(t, w, u)
        PROVE  Sees(t, w, u)'
      BY <1>2, <2>1, <2>2 DEF Sees
  <2>3. Sweeps(t)
      BY <1>2, <2>1, <2>2 DEF Sweeps, Covered, Scheduled, Fills
  <2>4. PassAt(t)'
      BY <1>2, <2>1 DEF PassAt, Starts, Inner
  <2> QED
      BY <2>3, <2>4
<1>7. CASE EnterSuspended(t) \/ Enter(t) \/ GuardOwn(t) \/ GuardRecheck(t) \/ ExecuteRecheck(t)
           \/ ExecuteRequeue(t) \/ Invoke(t) \/ ExecuteEnd(t)
  <2>1. \A w \in Warps : queueing[w] = "queueing" => queueing'[w] = "queueing"
      BY <1>1, <1>7 DEF EnterSuspended, Enter, GuardOwn, GuardRecheck, ExecuteRecheck,
                        ExecuteRequeue, Invoke, ExecuteEnd, warpState
  <2>2. ASSUME ExecuteReleases(t) \/ LeaveGuard(t)
        PROVE  pc'[t] \in {"release", "yield"}
      BY <1>1, <2>2 DEF ExecuteReleases, LeaveGuard, Goto
  <2>3. CASE EnterSuspended(t) \/ ExecuteRequeue(t)
    <3>1. Point(t)' \in {"release", "yield"} /\ pc[t] \in {"enter", "requeue"}
        BY <2>2, <2>3, PointIs DEF EnterSuspended, ExecuteRequeue, FlushLabels
    <3> QED
        BY <1>2, <1>3, <2>1, <3>1, StepsOn DEF Inner, Starts
  <2>4. CASE GuardRecheck(t)
    <3>1. Point(t)' \in {"release", "yield", "begin"} /\ pc[t] = "guarded"
        BY <1>1, <2>2, <2>4, PointIs DEF GuardRecheck, Goto, FlushLabels
    <3> QED
        BY <1>2, <1>3, <2>1, <3>1, StepsOn DEF Inner, Starts
  <2>5. CASE Enter(t) \/ GuardOwn(t) \/ ExecuteRecheck(t)
    <3>1. Point(t)' \in {"guard", "begin", "flushing", "requeue"} /\ pc[t] \in {"enter", "guard", "begin"}
        BY <1>1, <2>5, PointIs DEF Enter, GuardOwn, ExecuteRecheck, Goto, FlushLabels
    <3> QED
        BY <1>2, <1>3, <2>1, <3>1, StepsOn DEF Inner, Starts
  <2>6. CASE Invoke(t)
    <3>1. Point(t)' = "body" /\ pc[t] = "invoke"
        BY <1>1, <2>6, PointIs DEF Invoke, Goto, FlushLabels
    <3> QED
        BY <1>2, <1>3, <2>1, <3>1, StepsOn DEF Inner, Starts
  <2>7. CASE ExecuteEnd(t)
    <3>1. pc[t] = "end" /\ (pc'[t] = "yield" \/ (pc'[t] = "flush" /\ args'[t].flushRet = "release"))
        BY <1>1, <2>7 DEF ExecuteEnd, Goto, ArgsType
    <3>2. Point(t)' \in {"yield", "release"}
        BY <3>1, PointIs DEF FlushLabels
    <3> QED
        BY <1>2, <1>3, <2>1, <3>1, <3>2, StepsOn DEF Inner, Starts
  <2> QED
      BY <1>7, <2>3, <2>4, <2>5, <2>6, <2>7
<1> QED
    BY <1>5, <1>6, <1>7 DEF PlainExecute

(* A routine is pushed, and its warp is about to be scheduled.               *)
LEMMA PushSwept ==
    ASSUME NEW t \in Threads, Typed, NestedAt(t), PassAt(t),
           pc[t] \notin FlushLabels \cup {"yielded", "scan"}, NEW w \in Warps, NEW x,
           ring' = [ring EXCEPT ![w][t] = Append(@, x)],
           NEW l \in CallPoints, CallFlush(t, w, l),
           stack'[t] = stack[t], frame'[t].queue = frame[t].queue,
           frame'[t].scan = frame[t].scan, frame'[t].executed = frame[t].executed,
           queueing' = queueing, frame[t].queue # None => (pc[t] \in Inner <=> l \in Inner)
    PROVE  PassAt(t)' /\ Sweeps(t)
<1>1. pc'[t] = "flush" /\ args'[t].flush = w /\ args'[t].flushRet = l
    BY DEF CallFlush, Goto, FlushArgs, Typed, LocalTyped, ArgsType
<1>2. Point(t)' = l /\ Point(t) = pc[t] /\ l \notin Starts
    BY <1>1, PointIs DEF CallPoints, Starts
<1>3. PassAt(t)'
    BY <1>2 DEF PassAt
<1>4. ASSUME NEW v \in Warps, NEW u \in Threads, Sees(t, v, u)
      PROVE  Sees(t, v, u)'
    BY <1>2, <1>4, NoneApart DEF Sees
<1>5. Scheduled(w)'
    BY <1>1 DEF Scheduled
<1>6. ASSUME NEW v \in Warps, NEW u \in Threads, v # w
      PROVE  Fills(v, u)' <=> Fills(v, u)
    BY <1>6 DEF Fills, Typed, WarpsTyped
<1>7. Sweeps(t)
    BY <1>4, <1>5, <1>6 DEF Sweeps, Covered, Scheduled, FlushLabels
<1> QED
    BY <1>3, <1>7

(* The guard of Execute.                                                     *)
LEMMA GuardSwept ==
    ASSUME NEW t \in Threads, Typed, NestedAt(t), PassAt(t), Guard(t)
    PROVE  PassAt(t)' /\ Sweeps(t)
<1>1. /\ pc \in [Threads -> Labels] /\ frame \in [Threads -> FrameType] /\ frame[t] \in FrameType
    BY DEF Typed, LocalTyped, ActivationTyped
<1>2. pc[t] = "guard" /\ stack' = stack /\ ring' = ring /\ queueing' = queueing
    BY DEF Guard
<1>3. /\ frame'[t].queue = frame[t].queue /\ frame'[t].scan = frame[t].scan
      /\ frame'[t].executed = frame[t].executed
    BY <1>1 DEF Guard, FrameType
<1>4. Point(t)' \in {"guarded", "release"}
    BY <1>1, PointIs DEF Guard, ExecuteReleases, Goto, FlushLabels
<1> QED
    BY <1>2, <1>3, <1>4, StepsOn DEF Inner, Starts, FlushLabels

(* A routine is taken: the next passes see what is left.                     *)
LEMMA PopSwept ==
    ASSUME NEW t \in Threads, Typed, NestedAt(t), PassAt(t), Pop(t)
    PROVE  PassAt(t)' /\ Sweeps(t)
<1>1. /\ pc \in [Threads -> Labels] /\ frame \in [Threads -> FrameType] /\ frame[t] \in FrameType
    BY DEF Typed, LocalTyped, ActivationTyped
<1>2. /\ pc[t] = "scan" /\ pc'[t] = "invoke" /\ stack' = stack /\ queueing' = queueing
      /\ frame'[t].queue = frame[t].queue /\ frame'[t].executed
    BY <1>1 DEF Pop, Goto, FrameType
<1>3. Point(t)' = "invoke" /\ Point(t) = "scan"
    BY <1>2, PointIs DEF FlushLabels
<1>4. PassAt(t)'
    BY <1>2, <1>3 DEF PassAt, Starts, Inner
<1>5. ASSUME NEW w \in Warps, NEW u \in Threads, Sees(t, w, u)
      PROVE  Sees(t, w, u)'
    BY <1>2, <1>3, <1>5 DEF Sees, Inner
<1>6. ASSUME NEW w \in Warps, NEW u \in Threads, Fills(w, u)'
      PROVE  Fills(w, u)
    BY <1>6 DEF Pop, Fills, Typed, WarpsTyped
<1>7. Sweeps(t)
    BY <1>2, <1>5, <1>6 DEF Sweeps, Covered, Scheduled
<1> QED
    BY <1>4, <1>7

(* An empty ring buffer is passed by; and after a pass that has found        *)
(* something comes another one.                                              *)
LEMMA PassSwept ==
    ASSUME NEW t \in Threads, Typed, NestedAt(t), PassAt(t), NextRing(t) \/ NextPass(t)
    PROVE  PassAt(t)' /\ Sweeps(t)
<1>1. /\ pc \in [Threads -> Labels] /\ frame \in [Threads -> FrameType] /\ frame[t] \in FrameType
      /\ frame[t].scan \in Nat /\ Len(Rings) \in Nat
    BY IdleType DEF Typed, LocalTyped, ActivationTyped, FrameType
<1>2. /\ pc[t] = "scan" /\ stack' = stack /\ queueing' = queueing /\ ring' = ring
      /\ frame'[t].queue = frame[t].queue
    BY <1>1 DEF NextRing, NextPass, FrameType, warpState
<1>3. CASE NextRing(t)
  <2>1. /\ pc'[t] = "scan" /\ frame'[t].scan = frame[t].scan + 1
        /\ frame'[t].executed = frame[t].executed
      BY <1>1, <1>2, <1>3 DEF NextRing, FrameType
  <2>2. Point(t)' = "scan"
      BY <2>1, PointIs DEF FlushLabels
  <2>3. ASSUME NEW w \in Warps, NEW u \in Threads, Sees(t, w, u), Fills(w, u)'
        PROVE  Sees(t, w, u)'
    <3>1. CASE /\ frame[t].queue = w /\ ~frame[t].executed
               /\ \E i \in frame[t].scan .. Len(Rings) : Rings[i] = u
      <4>1. PICK i \in frame[t].scan .. Len(Rings) : Rings[i] = u
          BY <3>1
      <4>2. i # frame[t].scan
          BY <1>2, <1>3, <2>3, <3>1, <4>1 DEF NextRing, Fills
      <4>3. i \in frame[t].scan + 1 .. Len(Rings)
          BY <1>1, <4>1, <4>2
      <4> QED
          BY <1>2, <2>1, <3>1, <4>1, <4>3 DEF Sees
    <3>2. Point(t) = "scan"
        BY <1>2, PointIs DEF FlushLabels
    <3> QED
        BY <1>2, <2>1, <2>3, <3>1, <3>2 DEF Sees, Inner
  <2>4. Sweeps(t)
      BY <1>2, <2>3 DEF Sweeps, Covered, Scheduled, Fills
  <2>5. PassAt(t)'
      BY <1>2, <2>2 DEF PassAt, Starts, Inner
  <2> QED
      BY <2>4, <2>5
<1>4. CASE NextPass(t)
  <2>1. /\ pc'[t] = (IF frame[t].executed THEN "scan" ELSE "end") /\ frame'[t].scan = 1
        /\ ~ \E i \in frame[t].scan .. Len(Rings) : TRUE
      BY <1>1, <1>2, <1>4 DEF NextPass, Goto, FrameType
  <2>2. Point(t)' \in {"scan", "end"} /\ Point(t) = "scan"
      BY <1>2, <2>1, PointIs DEF FlushLabels
  <2>3. ASSUME NEW w \in Warps, NEW u \in Threads, Sees(t, w, u)
        PROVE  Sees(t, w, u)'
    <3>1. CASE frame[t].queue = w /\ frame[t].executed
      <4>1. \E i \in 1 .. Len(Rings) : Rings[i] = u
          BY KernelAssumption, LenProperties
      <4> QED
          BY <1>2, <2>1, <3>1, <4>1 DEF Sees
    <3> QED
        BY <1>2, <2>1, <2>2, <2>3, <3>1 DEF Sees, Inner
  <2>4. Sweeps(t)
      BY <1>2, <2>3 DEF Sweeps, Covered, Scheduled, Fills
  <2>5. PassAt(t)'
      BY <1>2, <2>2 DEF PassAt, Starts, Inner
  <2> QED
      BY <2>4, <2>5
<1> QED
    BY <1>3, <1>4

(* A task whose object has moved.                                            *)
LEMMA ForwardSwept ==
    ASSUME NEW t \in Threads, Typed, NestedAt(t), PassAt(t), Forward(t)
    PROVE  PassAt(t)' /\ Sweeps(t)
<1>1. frame \in [Threads -> FrameType] /\ frame[t] \in FrameType
    BY DEF Typed, ActivationTyped
<1>2. frame[t].task # None
    BY PointIs DEF NestedAt, ActivationOK, Forward, FlushLabels
<1>3. home[frame[t].task] \in Warps
    BY <1>1, <1>2 DEF FrameType, Typed, KernelTyped
<1>4. /\ frame'[t].queue = frame[t].queue /\ frame'[t].scan = frame[t].scan
      /\ frame'[t].executed = frame[t].executed
    BY <1>1 DEF Forward, FrameType
<1> QED
    BY <1>3, <1>4, PushSwept DEF Forward, FlushLabels, CallPoints, Inner

(* Execute begins: the thread has seen nothing yet.                          *)
LEMMA TakeSwept ==
    ASSUME NEW t \in Threads, Typed, NestedAt(t), PassAt(t), Take(t)
    PROVE  PassAt(t)' /\ Sweeps(t)
<1>1. pc[t] = "poll" /\ Point(t) = "poll"
    BY PollsAtTop, PointIs DEF Take, FlushLabels
<1>2. stack[t] = <<>> /\ frame[t] = Idle
    BY <1>1 DEF NestedAt, ActivationOK, Guarded, Directed, Releasing
<1>3. PICK w \in pooled : Activate(t, [Idle EXCEPT !.queue = w], AfterPoll(t))
    BY DEF Take
<1>4. /\ frame'[t] = [Idle EXCEPT !.queue = w]
      /\ stack'[t] = <<[frame |-> Idle, pc |-> AfterPoll(t), warp |-> warpIndex[t]]>> \o <<>>
    BY <1>2, <1>3 DEF Activate, Typed, ActivationTyped
<1>5. frame'[t].scan = 1
    BY <1>4 DEF Idle
<1>6. ASSUME NEW i \in DOMAIN stack'[t]
      PROVE  stack'[t][i].frame.queue = None
  <2>1. stack'[t] = <<[frame |-> Idle, pc |-> AfterPoll(t), warp |-> warpIndex[t]]>>
      BY <1>4
  <2>2. i = 1
      BY <2>1
  <2> QED
      BY <2>1, <2>2 DEF Idle
<1>7. Point(t)' = "enter"
    BY PointIs DEF Take, Goto, Typed, LocalTyped, FlushLabels
<1>8. PassAt(t)'
    BY <1>5, <1>6, <1>7 DEF PassAt, Inner
<1>9. ring' = ring /\ queueing' = queueing
    BY DEF Take, warpState
<1>10. ASSUME NEW v \in Warps, NEW u
       PROVE  ~Sees(t, v, u)
    BY <1>1, <1>2 DEF Sees, Inner
<1>11. Sweeps(t)
    BY <1>1, <1>9, <1>10 DEF Sweeps, Covered, Scheduled, Fills
<1> QED
    BY <1>8, <1>11

(* An activation returns to a routine of Execute, which sees its warp.       *)
LEMMA ReturnSwept ==
    ASSUME NEW t \in Threads, Typed, NestedAt(t), PassAt(t), Return(t)
    PROVE  PassAt(t)' /\ Sweeps(t)
<1>1. pc[t] = "return" /\ Point(t) = "return" /\ stack[t] # <<>>
    BY PointIs DEF Return, FlushLabels, NestedAt, ActivationOK
<1>2. /\ Head(stack[t]) = stack[t][1] /\ Tail(stack[t]) \in Seq(EntryType)
      /\ stack[t] \in Seq(EntryType)
    BY <1>1, HeadType DEF Typed, ActivationTyped
<1>3. /\ Len(stack[t]) \in Nat \ {0} /\ DOMAIN stack[t] = 1 .. Len(stack[t])
      /\ DOMAIN Tail(stack[t]) = 1 .. Len(stack[t]) - 1
      /\ \A i \in 1 .. Len(stack[t]) - 1 : Tail(stack[t])[i] = stack[t][i + 1]
  <2>1. Len(stack[t]) \in Nat \ {0} /\ DOMAIN stack[t] = 1 .. Len(stack[t])
      BY <1>1, <1>2, EmptySeq, LenProperties
  <2>2. Len(Tail(stack[t])) = Len(stack[t]) - 1
        /\ \A i \in 1 .. Len(Tail(stack[t])) : Tail(stack[t])[i] = stack[t][i + 1]
      BY <1>1, <1>2, HeadTailProperties
  <2>3. DOMAIN Tail(stack[t]) = 1 .. Len(Tail(stack[t]))
      BY <1>2, LenProperties
  <2> QED
      BY <2>1, <2>2, <2>3
<1>4. pc'[t] = stack[t][1].pc /\ frame'[t] = stack[t][1].frame /\ stack'[t] = Tail(stack[t])
    BY <1>2 DEF Return, Goto, Typed, LocalTyped, ActivationTyped
<1>5. EntryOK(t, 1) /\ (stack[t][1].pc = "poll" \/ stack[t][1].pc = "body")
  <2>1. 1 \in DOMAIN stack[t]
      BY <1>3
  <2>2. EntryOK(t, 1)
      BY <2>1 DEF NestedAt, StackOK
  <2>3. CASE Len(stack[t]) = 1
      BY <2>2, <2>3 DEF EntryOK
  <2>4. CASE Len(stack[t]) # 1
      BY <2>2, <2>4 DEF EntryOK
  <2> QED
      BY <2>2, <2>3, <2>4
<1>6. stack[t][1].frame.queue # None => pc'[t] = "body"
    BY <1>4, <1>5 DEF EntryOK, Idle
<1>7. Point(t)' = pc'[t]
    BY <1>4, <1>5, PointIs DEF FlushLabels
<1>8. PassAt(t)'
  <2>1. frame'[t].queue # None => frame'[t].executed
      BY <1>3, <1>4 DEF PassAt
  <2>2. \A i \in DOMAIN stack'[t] : stack'[t][i].frame.queue # None => stack'[t][i].frame.executed
    <3> SUFFICES ASSUME NEW i \in DOMAIN stack'[t], stack'[t][i].frame.queue # None
                 PROVE  stack'[t][i].frame.executed
        OBVIOUS
    <3>1. stack'[t][i] = stack[t][i + 1] /\ i + 1 \in DOMAIN stack[t]
        BY <1>3, <1>4
    <3> QED
        BY <3>1 DEF PassAt
  <2>3. Point(t)' \notin Starts
      BY <1>4, <1>5, <1>7 DEF Starts
  <2> QED
      BY <2>1, <2>2, <2>3 DEF PassAt
<1>9. ring' = ring /\ queueing' = queueing
    BY DEF Return, warpState
<1>10. ASSUME NEW w \in Warps, NEW u \in Threads, Sees(t, w, u)
       PROVE  Sees(t, w, u)'
  <2>1. PICK i \in DOMAIN stack[t] : stack[t][i].frame.queue = w
      BY <1>1, <1>10 DEF Sees, Inner
  <2>2. CASE i = 1
    <3>1. frame'[t].queue = w /\ Point(t)' = "body"
        BY <1>4, <1>6, <1>7, <2>1, <2>2, NoneApart
    <3> QED
        BY <3>1 DEF Sees, Inner
  <2>3. CASE i # 1
    <3>1. i - 1 \in DOMAIN stack'[t] /\ stack'[t][i - 1] = stack[t][i]
      <4>1. i - 1 \in 1 .. Len(stack[t]) - 1 /\ (i - 1) + 1 = i
          BY <1>3, <2>1, <2>3
      <4> QED
          BY <1>3, <1>4, <4>1
    <3> QED
        BY <2>1, <3>1 DEF Sees
  <2> QED
      BY <2>2, <2>3
<1>11. Sweeps(t)
    BY <1>1, <1>9, <1>10 DEF Sweeps, Covered, Scheduled, Fills
<1> QED
    BY <1>8, <1>11

(* Queueing a routine: the warp it is pushed to is about to be scheduled,    *)
(* and the one it interrupts is still seen.                                  *)
LEMMA PostSwept ==
    ASSUME NEW t \in Threads, Typed, NestedAt(t), PassAt(t), Post(t)
    PROVE  PassAt(t)' /\ Sweeps(t)
<1>1. pc[t] \in {"poll", "body"} /\ AfterPoll(t) = pc[t]
    BY PollsAtTop DEF Post
<1>2. PICK x \in fresh : /\ ring' = [ring EXCEPT ![home[x]][t] = Append(@, x)]
                         /\ CallFlush(t, home[x], AfterPoll(t))
    BY DEF Post
<1>3. home[x] \in Warps
    BY DEF Typed, KernelTyped, HistoryTyped
<1>4. stack' = stack /\ frame' = frame /\ queueing' = queueing
    BY DEF Post, activation
<1> QED
    BY <1>1, <1>2, <1>3, <1>4, PushSwept DEF FlushLabels, CallPoints

(* A routine that is run at once interrupts the one that has called          *)
(* QueueRoutine.                                                             *)
LEMMA DirectSwept ==
    ASSUME NEW t \in Threads, Typed, NestedAt(t), PassAt(t), Direct(t)
    PROVE  PassAt(t)' /\ Sweeps(t)
<1>1. pc[t] \in {"poll", "body"} /\ Point(t) = pc[t] /\ stack[t] \in Seq(EntryType)
      /\ Len(stack[t]) \in Nat /\ DOMAIN stack[t] = 1 .. Len(stack[t])
    BY PollsAtTop, PointIs, LenProperties DEF Direct, FlushLabels, Typed, ActivationTyped
<1>2. PICK f : /\ f.queue = None /\ Activate(t, f, AfterPoll(t))
               /\ Goto(t, "body") \/ Goto(t, "directed")
  <2>1. PICK x \in fresh :
            \/ Activate(t, [Idle EXCEPT !.task = x], AfterPoll(t)) /\ Goto(t, "body")
            \/ /\ Activate(t, [Idle EXCEPT !.task = x, !.guard = home[x]], AfterPoll(t))
               /\ Goto(t, "directed")
      BY DEF Direct
  <2>2. /\ [Idle EXCEPT !.task = x].queue = None
        /\ [Idle EXCEPT !.task = x, !.guard = home[x]].queue = None
      BY DEF Idle
  <2> QED
      BY <2>1, <2>2
<1> DEFINE e == [frame |-> frame[t], pc |-> AfterPoll(t), warp |-> warpIndex[t]]
<1>3. frame'[t] = f /\ stack'[t] = <<e>> \o stack[t]
    BY <1>2 DEF Activate, Typed, ActivationTyped
<1>4. e \in EntryType
    BY <1>1, PollsAtTop DEF EntryType, Typed, LocalTyped, ActivationTyped
<1> HIDE DEF e
<1>5. /\ DOMAIN stack'[t] = 1 .. Len(stack[t]) + 1 /\ stack'[t][1] = e
      /\ \A i \in 1 .. Len(stack[t]) : stack'[t][i + 1] = stack[t][i]
  <2>1. <<e>> \in Seq(EntryType) /\ Len(<<e>>) = 1 /\ <<e>>[1] = e
      BY <1>4
  <2>2. <<e>> \o stack[t] \in Seq(EntryType) /\ Len(<<e>> \o stack[t]) = Len(stack[t]) + 1
      BY <1>1, <2>1, ConcatProperties
  <2>3. (<<e>> \o stack[t])[1] = e
      BY <1>1, <2>1, ConcatProperties
  <2>4. ASSUME NEW i \in 1 .. Len(stack[t])
        PROVE  (<<e>> \o stack[t])[i + 1] = stack[t][i]
      BY <1>1, <2>1, ConcatProperties
  <2>5. DOMAIN (<<e>> \o stack[t]) = 1 .. Len(stack[t]) + 1
      BY <2>2, LenProperties
  <2> QED
      BY <1>3, <2>3, <2>4, <2>5
<1>6. e.frame = frame[t]
    BY DEF e
<1>7. frame[t].queue # None => Point(t) = "body"
    BY <1>1 DEF NestedAt, ActivationOK, Idle, Guarded, Releasing
<1>8. ring' = ring /\ queueing' = queueing
    BY DEF Direct
<1>9. PassAt(t)'
  <2> SUFFICES ASSUME NEW i \in DOMAIN stack'[t], stack'[t][i].frame.queue # None
               PROVE  stack'[t][i].frame.executed
      BY <1>2, <1>3 DEF PassAt
  <2>1. CASE i = 1
      BY <1>5, <1>6, <1>7, <2>1 DEF PassAt, Inner
  <2>2. CASE i # 1
    <3>1. i - 1 \in 1 .. Len(stack[t]) /\ (i - 1) + 1 = i
        BY <1>1, <1>5, <2>2
    <3>2. stack'[t][i] = stack[t][i - 1] /\ i - 1 \in DOMAIN stack[t]
        BY <1>1, <1>5, <3>1
    <3> QED
        BY <3>2 DEF PassAt
  <2> QED
      BY <2>1, <2>2
<1>10. ASSUME NEW w \in Warps, NEW u \in Threads, Sees(t, w, u)
       PROVE  Sees(t, w, u)'
  <2>1. CASE frame[t].queue = w
    <3>1. 1 \in DOMAIN stack'[t] /\ stack'[t][1].frame.queue = w
        BY <1>1, <1>5, <1>6, <2>1
    <3> QED
        BY <3>1 DEF Sees
  <2>2. CASE \E i \in DOMAIN stack[t] : stack[t][i].frame.queue = w
    <3>1. PICK i \in DOMAIN stack[t] : stack[t][i].frame.queue = w
        BY <2>2
    <3>2. i + 1 \in DOMAIN stack'[t] /\ stack'[t][i + 1].frame.queue = w
        BY <1>1, <1>5, <3>1
    <3> QED
        BY <3>2 DEF Sees
  <2> QED
      BY <1>10, <2>1, <2>2 DEF Sees
<1>11. Sweeps(t)
    BY <1>1, <1>8, <1>10 DEF Sweeps, Covered, Scheduled, Fills
<1> QED
    BY <1>9, <1>11

(* QueueRoutine looks again, and ends.                                       *)
LEMMA DirectedSwept ==
    ASSUME NEW t \in Threads, Typed, NestedAt(t), PassAt(t), DirectRecheck(t) \/ DirectEnd(t)
    PROVE  PassAt(t)' /\ Sweeps(t)
<1>1. frame \in [Threads -> FrameType] /\ frame[t] \in FrameType /\ pc \in [Threads -> Labels]
    BY DEF Typed, ActivationTyped, LocalTyped
<1>2. pc[t] \in {"directed", "undirect"} /\ Point(t) = pc[t]
    BY PointIs DEF DirectRecheck, DirectEnd, FlushLabels
<1>3. frame[t].queue = None
    BY <1>2 DEF NestedAt, ActivationOK, Idle, Guarded, Releasing
<1>4. CASE DirectEnd(t)
  <2>1. Point(t)' \in {"return", "yield"}
      BY <1>1, <1>4, PointIs DEF DirectEnd, CallYield, Goto, FlushLabels
  <2> QED
      BY <1>2, <1>3, <1>4, <2>1, StepsOn DEF DirectEnd, FlushLabels, warpState, activation
<1>5. CASE DirectRecheck(t)
  <2>1. frame[t].task # None /\ frame[t].task \in Tasks
      BY <1>1, <1>2, <1>5 DEF DirectRecheck, NestedAt, ActivationOK, Idle, FrameType
  <2>2. home[frame[t].task] \in Warps
      BY <2>1 DEF Typed, KernelTyped
  <2>3. stack' = stack /\ queueing' = queueing
      BY <1>5 DEF DirectRecheck
  <2>4. CASE UNCHANGED <<ring, frame, args>>
      BY <1>2, <1>3, <2>3, <2>4, StepsOn DEF FlushLabels
  <2>5. CASE /\ ring' = [ring EXCEPT ![home[frame[t].task]][t] = Append(@, frame[t].task)]
             /\ frame' = [frame EXCEPT ![t].task = None]
             /\ CallFlush(t, home[frame[t].task], "undirect")
    <3>1. /\ frame'[t].queue = frame[t].queue /\ frame'[t].scan = frame[t].scan
          /\ frame'[t].executed = frame[t].executed
        BY <1>1, <2>5 DEF FrameType
    <3> QED
        BY <1>2, <1>3, <2>2, <2>3, <2>5, <3>1, PushSwept DEF FlushLabels, CallPoints
  <2> QED
      BY <1>5, <2>4, <2>5 DEF DirectRecheck
<1> QED
    BY <1>4, <1>5

(* A routine that is done goes back to Execute or QueueRoutine.              *)
LEMMA FinishSwept ==
    ASSUME NEW t \in Threads, Typed, NestedAt(t), PassAt(t), Finish(t) \/ SetWarpIndex(t)
    PROVE  PassAt(t)' /\ Sweeps(t)
<1>1. frame \in [Threads -> FrameType] /\ frame[t] \in FrameType /\ pc \in [Threads -> Labels]
    BY DEF Typed, ActivationTyped, LocalTyped
<1>2. pc[t] \in {"poll", "body"} /\ ring' = ring /\ queueing' = queueing /\ stack' = stack
    BY DEF Finish, SetWarpIndex, warpState, activation
<1>3. CASE Finish(t)
  <2>1. /\ frame'[t].queue = frame[t].queue /\ frame'[t].scan = frame[t].scan
        /\ frame'[t].executed = frame[t].executed
      BY <1>1, <1>3 DEF Finish, FrameType
  <2>2. pc[t] = "body" /\ Point(t)' = (IF frame[t].queue # None THEN "invoked" ELSE "undirect")
      BY <1>1, <1>3, PointIs DEF Finish, Goto, FlushLabels
  <2> QED
      BY <1>2, <2>1, <2>2, StepsOn DEF FlushLabels, Inner, Starts
<1>4. CASE SetWarpIndex(t)
  <2>1. frame' = frame /\ Point(t)' = pc[t]
      BY <1>2, <1>4, PointIs DEF SetWarpIndex, activation, FlushLabels
  <2> QED
      BY <1>2, <2>1, StepsOn DEF FlushLabels
<1> QED
    BY <1>3, <1>4

(* No step leaves a routine behind as long as nothing is suspended.          *)
LEMMA StepSwept ==
    ASSUME Typed, Nested, Swept, NEW t \in Threads, Unwaiting(t), UNCHANGED suspends, suspends \in Nat
    PROVE  Swept'
<1>1. NestedAt(t) /\ PassAt(t) /\ Unsuspended
    BY DEF Nested, Swept, Passes
<1>2. ~SuspendWarp(t) /\ ~ResumeWarp(t)
  <2>1. ~SuspendWarp(t)
      BY DEF SuspendWarp
  <2>2. ~ResumeWarp(t)
      BY <1>1 DEF ResumeWarp, Unsuspended
  <2> QED
      BY <2>1, <2>2
<1>3. PassAt(t)' /\ Sweeps(t)
    BY <1>1, <1>2, CallsSwept, PlainSwept, GuardSwept, PopSwept, PassSwept, ForwardSwept, TakeSwept,
       ReturnSwept, PostSwept, DirectSwept, DirectedSwept, FinishSwept
       DEF Unwaiting, RoutineStep, ExecuteStep, PlainExecute, QueueStep
<1>4. \A v \in Threads \ {t} : Undisturbed(v)
    BY OthersUndisturbed DEF Unwaiting
<1>5. suspendCount' = suspendCount
    BY <1>2 DEF Unwaiting, RoutineStep, FlushStep, FlushMark, FlushAcquire, FlushDispatch, FlushUndo,
           FlushSetMask, FlushAnnounce, ReleaseStep, Release, ReleaseAnnounced, ReleaseUnmask,
           ReleaseFlushWarp, ReleaseUnannounce, YieldStep, YieldLeave, YieldReflush, ExecuteStep, Take,
           EnterSuspended, Enter, Guard, GuardOwn, GuardRecheck, ExecuteRecheck, ExecuteRequeue,
           ExecuteBegin, Pop, NextRing, NextPass, Invoke, Forward, InvokeReturn, ExecuteEnd, Return,
           QueueStep, Post, Direct, DirectRecheck, DirectEnd, Finish, SetWarpIndex, warpState
<1>6. Unsuspended'
    BY <1>1, <1>5 DEF Unsuspended
<1>7. Passes' /\ Seen'
    BY <1>3, <1>4, PassesMoves, SeenMoves DEF Swept
<1> QED
    BY <1>6, <1>7 DEF Swept

(* What may bar a thread: suspended from inside, a warp stays so until it is *)
(* resumed, and no thread comes near a routine of it meanwhile.              *)
LEMMA BarredMoves ==
    ASSUME Barred, NEW t \in Threads, \A v \in Threads \ {t} : Undisturbed(v),
           inside' \subseteq inside, \A w \in inside' : suspendCount'[w] # 0,
           \A w \in inside' : Nearing(t)' => frame'[t].queue # w
    PROVE  Barred'
<1>1. ASSUME NEW w \in inside', NEW v \in Threads, Nearing(v)'
      PROVE  frame'[v].queue # w
    BY <1>1 DEF Barred, Undisturbed, Nearing
<1> QED
    BY <1>1 DEF Barred

(* Where the calls of Flush, ReleaseFlush and YieldExecution go on.          *)
LEMMA CallsGo ==
    ASSUME Typed, NEW t \in Threads, NestedAt(t), FlushStep(t) \/ ReleaseStep(t) \/ YieldStep(t)
    PROVE  pc'[t] \in FlushLabels \cup Releasing \cup CallPoints \cup {"yielded", "yield"}
<1>0. pc \in [Threads -> Labels] /\ args \in [Threads -> ArgsType]
    BY DEF Typed, LocalTyped
<1>1. CASE FlushStep(t)
  <2>1. pc[t] \in FlushLabels /\ args[t].flushRet \in CallPoints
        /\ (args[t].flushRet = "unmask" => args[t].releaseRet = "return")
      BY <1>1 DEF FlushStep, FlushMark, FlushAcquire, FlushDispatch, FlushUndo, FlushSetMask,
                  FlushAnnounce, FlushLabels, Point, NestedAt, ArgsOK, Releasing
  <2> QED
      BY <1>0, <1>1, <2>1 DEF FlushStep, FlushMark, FlushAcquire, FlushDispatch, FlushUndo,
         FlushSetMask, FlushAnnounce, FlushReturns, Goto, FlushLabels, CallPoints
<1>2. CASE ReleaseStep(t)
  <2>1. args[t].releaseRet = "return" /\ (pc[t] = "reflush" => args[t].flushRet = "unmask")
      BY <1>2 DEF ReleaseStep, Release, ReleaseAnnounced, ReleaseUnmask, ReleaseFlushWarp,
                  ReleaseUnannounce, Releasing, Point, FlushLabels, NestedAt, ArgsOK
  <2> QED
      BY <1>0, <1>2, <2>1 DEF ReleaseStep, Release, ReleaseAnnounced, ReleaseUnmask,
         ReleaseFlushWarp, ReleaseUnannounce, FlushReturns, Goto, Releasing, FlushLabels, CallPoints
<1>3. CASE YieldStep(t)
  <2>1. args[t].yieldRet \in CallPoints
      BY <1>3 DEF YieldStep, YieldLeave, YieldReflush, Point, FlushLabels, NestedAt, ArgsOK, CallPoints
  <2> QED
      BY <1>0, <1>3, <2>1 DEF YieldStep, YieldLeave, YieldReflush, YieldReturns, Goto, FlushLabels
<1> QED
    BY <1>1, <1>2, <1>3

(* An activation returns to where one polls, or to the body of a routine.    *)
LEMMA ReturnGoes ==
    ASSUME Typed, NEW t \in Threads, NestedAt(t), Return(t)
    PROVE  pc'[t] \in {"poll", "body"}
<1>1. stack[t] # <<>>
    BY PointIs DEF Return, FlushLabels, NestedAt, ActivationOK
<1>2. Head(stack[t]) = stack[t][1] /\ stack[t] \in Seq(EntryType)
    BY <1>1, HeadType DEF Typed, ActivationTyped
<1>3. 1 \in DOMAIN stack[t]
    BY <1>1, <1>2, EmptySeq, LenProperties
<1>4. EntryOK(t, 1)
    BY <1>3 DEF NestedAt, StackOK
<1>5. stack[t][1].pc \in {"poll", "body"}
  <2>1. CASE Len(stack[t]) = 1
      BY <1>4, <2>1 DEF EntryOK
  <2>2. CASE Len(stack[t]) # 1
      BY <1>4, <2>2 DEF EntryOK
  <2> QED
      BY <2>1, <2>2
<1> QED
    BY <1>2, <1>5 DEF Return, Goto, Typed, LocalTyped

(* A thread comes near a routine only where Execute looks at suspendCount,   *)
(* before it begins and after each routine.                                  *)
LEMMA NearingMoves ==
    ASSUME Typed, NEW t \in Threads, NestedAt(t), Unwaiting(t), Nearing(t)'
    PROVE  /\ frame'[t].queue = frame[t].queue
           /\ Nearing(t) \/ suspendCount[frame[t].queue] = 0
<1>1. /\ pc \in [Threads -> Labels] /\ args \in [Threads -> ArgsType]
      /\ frame \in [Threads -> FrameType] /\ frame[t] \in FrameType
    BY DEF Typed, LocalTyped, ActivationTyped
<1>2. pc'[t] \in {"flushing", "scan", "invoke"}
    BY DEF Nearing
<1>3. ASSUME FlushStep(t) \/ ReleaseStep(t) \/ YieldStep(t)
      PROVE  FALSE
    BY <1>2, <1>3, CallsGo DEF FlushLabels, Releasing, CallPoints
<1>4. CASE PlainExecute(t)
  <2>1. frame' = frame
      BY <1>4 DEF PlainExecute, EnterSuspended, Enter, GuardOwn, GuardRecheck, ExecuteRecheck,
           ExecuteRequeue, ExecuteBegin, Invoke, InvokeReturn, ExecuteEnd, activation
  <2>2. CASE ExecuteRecheck(t) \/ ExecuteBegin(t) \/ InvokeReturn(t)
      BY <1>1, <1>2, <2>1, <2>2 DEF ExecuteRecheck, ExecuteBegin, InvokeReturn, Goto, Nearing
  <2>3. CASE EnterSuspended(t) \/ Enter(t) \/ GuardOwn(t) \/ GuardRecheck(t) \/ ExecuteRequeue(t)
             \/ Invoke(t) \/ ExecuteEnd(t)
    <3>1. pc'[t] \in {"release", "guard", "begin", "yield", "body", "flush"}
        BY <1>1, <2>3 DEF EnterSuspended, Enter, GuardOwn, GuardRecheck, ExecuteRequeue, Invoke,
           ExecuteEnd, ExecuteReleases, LeaveGuard, Goto
    <3> QED
        BY <1>2, <3>1
  <2> QED
      BY <1>4, <2>2, <2>3 DEF PlainExecute
<1>5. CASE Pop(t) \/ NextRing(t) \/ NextPass(t)
    BY <1>1, <1>5 DEF Pop, NextRing, NextPass, FrameType, Nearing
<1>6. ASSUME Guard(t) \/ Take(t) \/ Forward(t) \/ Return(t) \/ QueueStep(t) \/ Finish(t)
      PROVE  FALSE
  <2>1. CASE Return(t)
      BY <1>2, <2>1, ReturnGoes
  <2>2. CASE Guard(t) \/ Take(t) \/ Forward(t) \/ Finish(t)
      BY <1>1, <1>2, <2>2 DEF Guard, ExecuteReleases, Take, Forward, CallFlush, Finish, Goto
  <2>3. CASE QueueStep(t)
      BY <1>1, <1>2, <2>3 DEF QueueStep, Post, Direct, DirectRecheck, DirectEnd, CallFlush, CallYield, Goto
  <2> QED
      BY <1>6, <2>1, <2>2, <2>3
<1>7. CASE SuspendWarp(t) \/ SetWarpIndex(t)
    BY <1>2, <1>7 DEF SuspendWarp, SetWarpIndex, activation, Nearing
<1>8. ASSUME ResumeWarp(t)
      PROVE  FALSE
  <2>1. pc[t] = "poll" /\ AfterPoll(t) = "poll"
      BY <1>8, PollsAtTop DEF ResumeWarp
  <2>2. pc'[t] \in {"yielded", "poll"}
      BY <1>1, <1>8, <2>1 DEF ResumeWarp, Goto
  <2> QED
      BY <1>2, <2>2
<1> QED
    BY <1>3, <1>4, <1>5, <1>6, <1>7, <1>8 DEF Unwaiting, RoutineStep, ExecuteStep, PlainExecute

(* A routine that suspends its warp is the only one near it.                 *)
LEMMA SuspendBarred ==
    ASSUME Typed, Nested, Barred, NEW t \in Threads, SuspendWarp(t)
    PROVE  Barred'
<1>1. pc' = pc /\ frame' = frame
    BY DEF SuspendWarp, activation
<1>2. PICK w \in Warps : /\ \/ pc[t] = "body" /\ w = warpIndex[t] /\ inside' = inside \cup {w}
                            \/ pc[t] = "poll" /\ UNCHANGED inside
                         /\ suspendCount' = [suspendCount EXCEPT ![w] = @ + 1]
    BY DEF SuspendWarp
<1>3. suspendCount \in [Warps -> Nat] /\ suspendCount'[w] # 0
      /\ \A v \in Warps \ {w} : suspendCount'[v] = suspendCount[v]
    BY <1>2 DEF Typed, WarpsTyped
<1>4. ASSUME NEW v \in inside, v # w
      PROVE  /\ v \in Warps /\ suspendCount'[v] # 0
             /\ \A u \in Threads : Nearing(u)' => frame'[u].queue # v
    BY <1>1, <1>3, <1>4 DEF Barred, Nearing
<1>5. CASE pc[t] = "body" /\ w = warpIndex[t]
  <2>1. threadWarp[w] = t
      BY <1>5, NoneApart DEF Nested, NestedAt, Mine
  <2>2. ASSUME NEW u \in Threads, Nearing(u), frame[u].queue = w
        PROVE  FALSE
    <3>1. threadWarp[w] = u
        BY <2>2, InExecuteLabels DEF Nested, Nearing, ExecuteLabels, Guarded
    <3> QED
        BY <1>5, <2>1, <2>2, <3>1 DEF Nearing
  <2>3. \A u \in Threads : Nearing(u)' => frame'[u].queue # w
      BY <1>1, <2>2 DEF Nearing
  <2> QED
      BY <1>2, <1>3, <1>4, <2>3 DEF Barred
<1>6. CASE UNCHANGED inside
  <2>1. ASSUME w \in inside
        PROVE  \A u \in Threads : Nearing(u)' => frame'[u].queue # w
      BY <1>1, <2>1 DEF Barred, Nearing
  <2> QED
      BY <1>2, <1>3, <1>4, <1>6, <2>1 DEF Barred
<1> QED
    BY <1>2, <1>5, <1>6

(* No step lets a thread near a warp that is suspended from inside.          *)
LEMMA StepBarred ==
    ASSUME Typed, Nested, Barred, NEW t \in Threads, Unwaiting(t)
    PROVE  Barred'
<1>1. NestedAt(t) /\ \A v \in Threads \ {t} : Undisturbed(v)
    BY OthersUndisturbed DEF Nested, Unwaiting
<1>2. CASE SuspendWarp(t)
    BY <1>2, SuspendBarred
<1>3. CASE ~SuspendWarp(t)
  <2>1. inside' \subseteq inside /\ \A w \in inside' : suspendCount'[w] = suspendCount[w]
    <3>1. CASE ResumeWarp(t)
      <4>1. PICK w \in Warps : /\ suspendCount' = [suspendCount EXCEPT ![w] = @ - 1]
                               /\ inside' = inside \ {w}
          BY <3>1 DEF ResumeWarp
      <4>2. suspendCount \in [Warps -> Nat] /\ \A v \in inside : v \in Warps
          BY DEF Typed, WarpsTyped, Barred
      <4> QED
          BY <4>1, <4>2
    <3>2. CASE inside' = inside /\ suspendCount' = suspendCount
        BY <3>2
    <3> QED
        BY <1>3, <3>1, <3>2
        DEF Unwaiting, RoutineStep, FlushStep, FlushMark, FlushAcquire, FlushDispatch, FlushUndo,
           FlushSetMask, FlushAnnounce, ReleaseStep, Release, ReleaseAnnounced, ReleaseUnmask,
           ReleaseFlushWarp, ReleaseUnannounce, YieldStep, YieldLeave, YieldReflush, ExecuteStep, Take,
           EnterSuspended, Enter, Guard, GuardOwn, GuardRecheck, ExecuteRecheck, ExecuteRequeue,
           ExecuteBegin, Pop, NextRing, NextPass, Invoke, Forward, InvokeReturn, ExecuteEnd, Return,
           QueueStep, Post, Direct, DirectRecheck, DirectEnd, Finish, SetWarpIndex, warpState, history
  <2>2. \A w \in inside' : suspendCount'[w] # 0
      BY <2>1 DEF Barred
  <2>3. ASSUME NEW w \in inside', Nearing(t)'
        PROVE  frame'[t].queue # w
    <3>1. suspendCount[w] # 0 /\ w \in inside
        BY <2>1 DEF Barred
    <3>2. /\ frame'[t].queue = frame[t].queue
          /\ Nearing(t) \/ suspendCount[frame[t].queue] = 0
        BY <1>1, <2>3, NearingMoves
    <3> QED
        BY <3>1, <3>2 DEF Barred
  <2> QED
      BY <1>1, <2>1, <2>2, <2>3, BarredMoves
<1> QED
    BY <1>2, <1>3

(* Only QueueRoutine goes to where it looks at suspendCount again.           *)
LEMMA StepDirecting ==
    ASSUME Typed, Nested, Directing, NEW t \in Threads, Unwaiting(t)
    PROVE  Directing'
<1>1. NestedAt(t) /\ \A v \in Threads \ {t} : Undisturbed(v)
    BY OthersUndisturbed DEF Nested, Unwaiting
<1>2. ASSUME pc'[t] = "directed"
      PROVE  frame'[t].guard # None
  <2>1. /\ pc \in [Threads -> Labels] /\ args \in [Threads -> ArgsType]
        /\ frame \in [Threads -> FrameType] /\ stack \in [Threads -> Seq(EntryType)]
      BY DEF Typed, LocalTyped, ActivationTyped
  <2>2. ~FlushStep(t) /\ ~ReleaseStep(t) /\ ~YieldStep(t)
      BY <1>1, <1>2, CallsGo DEF FlushLabels, Releasing, CallPoints
  <2>3. ~PlainExecute(t)
      BY <1>2, <2>1 DEF PlainExecute, EnterSuspended, Enter, GuardOwn, GuardRecheck, ExecuteRecheck,
           ExecuteRequeue, ExecuteBegin, Invoke, InvokeReturn, ExecuteEnd, ExecuteReleases,
           LeaveGuard, Goto
  <2>4. ~Return(t)
      BY <1>1, <1>2, ReturnGoes
  <2>5. ~(Pop(t) \/ NextRing(t) \/ NextPass(t) \/ Guard(t) \/ Take(t) \/ Forward(t) \/ Finish(t))
      BY <1>2, <2>1 DEF Pop, NextRing, NextPass, Guard, ExecuteReleases, Take, Forward, CallFlush,
         Finish, Goto
  <2>6. ~ResumeWarp(t)
    <3>1. ASSUME ResumeWarp(t)
          PROVE  FALSE
      <4>1. AfterPoll(t) = "poll"
          BY <1>1, <3>1, PollsAtTop DEF ResumeWarp
      <4>2. pc'[t] \in {"yielded", "poll"}
          BY <2>1, <3>1, <4>1 DEF ResumeWarp, Goto
      <4> QED
          BY <1>2, <4>2
    <3> QED
        BY <3>1
  <2>7. ~(Post(t) \/ DirectRecheck(t) \/ DirectEnd(t))
      BY <1>2, <2>1 DEF Post, DirectRecheck, DirectEnd, CallFlush, CallYield, Goto
  <2>8. CASE SuspendWarp(t) \/ SetWarpIndex(t)
      BY <1>2, <2>8 DEF SuspendWarp, SetWarpIndex, activation, Directing
  <2>9. CASE Direct(t)
    <3>1. AfterPoll(t) \in {"poll", "body"}
        BY <1>1, <2>9, PollsAtTop DEF Direct
    <3>2. PICK x \in fresh : Activate(t, [Idle EXCEPT !.task = x, !.guard = home[x]], AfterPoll(t))
        BY <1>2, <2>1, <2>9 DEF Direct, Goto
    <3>3. home[x] # None
        BY NoneApart DEF Typed, HistoryTyped, KernelTyped
    <3> QED
        BY <2>1, <3>2, <3>3 DEF Activate, Idle
  <2> QED
      BY <2>2, <2>3, <2>4, <2>5, <2>6, <2>7, <2>8, <2>9
      DEF Unwaiting, RoutineStep, ExecuteStep, PlainExecute, QueueStep
<1> QED
    BY <1>1, <1>2 DEF Directing, Undisturbed

(* Only SuspendWarp counts, and while no routine has waited each step is one *)
(* of those of the invariant.                                                *)
LEMMA SuspendsMoves ==
    ASSUME NEW t \in Threads, ThreadStep(t), suspends \in Nat
    PROVE  suspends' \in Nat /\ (suspends' = 0 => suspends = 0 /\ UNCHANGED suspends)
<1>1. suspends' = suspends \/ suspends' = suspends + 1
    BY DEF ThreadStep, FlushStep, FlushMark, FlushAcquire, FlushDispatch, FlushUndo,
           FlushSetMask, FlushAnnounce, ReleaseStep, Release, ReleaseAnnounced, ReleaseUnmask,
           ReleaseFlushWarp, ReleaseUnannounce, YieldStep, YieldLeave, YieldReflush, ExecuteStep, Take,
           EnterSuspended, Enter, Guard, GuardOwn, GuardRecheck, ExecuteRecheck, ExecuteRequeue,
           ExecuteBegin, Pop, NextRing, NextPass, Invoke, Forward, InvokeReturn, ExecuteEnd, Return,
           QueueStep, Post, Direct, DirectRecheck, DirectEnd, Finish, SuspendWarp, ResumeWarp,
           SetWarpIndex, WaitStep, Wait, YieldWarp, WaitCheck, WaitPoll, WaitWarp,
           AcquireFlushOnWait, history
<1> QED
    BY <1>1

(* All warps are empty at first, and none is suspended.                      *)
LEMMA InitSettled == Init => Settled
<1> SUFFICES ASSUME Init PROVE Settled
    OBVIOUS
<1>1. IInv /\ suspends \in Nat
    BY InitIInv DEF Init
<1>2. Barred /\ Directing /\ Unsuspended
    BY DEF Init, Barred, Directing, Unsuspended
<1>3. Passes
  <2>1. ASSUME NEW t \in Threads
        PROVE  frame[t].queue = None /\ stack[t] = <<>>
      BY DEF Init, Idle
  <2> QED
      BY <2>1 DEF Passes, PassAt
<1>4. Seen
    BY DEF Init, Seen, Fills
<1> QED
    BY <1>1, <1>2, <1>3, <1>4 DEF Settled, Swept

(* No step breaks it.                                                        *)
LEMMA StepSettled == Settled /\ [Next]_vars => Settled'
<1> SUFFICES ASSUME Settled, [Next]_vars PROVE Settled'
    OBVIOUS
<1>0. IInv'
    BY StepIInv DEF Settled
<1>1. CASE UNCHANGED vars
  <2>1. /\ UNCHANGED <<ring, queueing, suspendCount, threadWarp, pc, frame, stack, args>>
        /\ UNCHANGED <<inside, suspends, waits>>
      BY <1>1 DEF vars, warpState, activation, history
  <2>2. (Barred' <=> Barred) /\ (Directing' <=> Directing) /\ (Unsuspended' <=> Unsuspended)
      BY <2>1 DEF Barred, Nearing, Directing, Unsuspended
  <2>3. Passes' <=> Passes
      BY <2>1 DEF Passes, PassAt, Point
  <2>4. Seen' <=> Seen
      BY <2>1 DEF Seen, Fills, Covered, Scheduled, Sees, Point
  <2> QED
      BY <1>0, <2>1, <2>2, <2>3, <2>4 DEF Settled, Swept
<1>2. CASE \E t \in Threads : ThreadStep(t)
  <2>1. PICK t \in Threads : ThreadStep(t)
      BY <1>2
  <2>2. /\ waits' = 0 => waits = 0 /\ waits' = waits
        /\ suspends' \in Nat /\ (suspends' = 0 => suspends = 0 /\ UNCHANGED suspends)
      BY <2>1, WaitsMoves, SuspendsMoves DEF Settled, IInv
  <2>3. ASSUME waits' = 0
        PROVE  Barred' /\ Directing' /\ (suspends' = 0 => Swept')
    <3>1. Typed /\ Nested /\ Barred /\ Directing /\ (suspends = 0 => Swept) /\ waits = 0
        BY <2>2, <2>3 DEF Settled, IInv
    <3>2. pc[t] \in Labels
        BY <3>1 DEF Typed, LocalTyped
    <3>3. Unwaiting(t)
        BY <2>1, <2>3, <3>1, <3>2, WaitsMoves DEF Labels
    <3> QED
        BY <2>2, <3>1, <3>3, StepBarred, StepDirecting, StepSwept
  <2> QED
      BY <1>0, <2>2, <2>3 DEF Settled
<1> QED
    BY <1>1, <1>2 DEF Next, Terminated

(* As long as no routine has waited, no thread comes near a warp that one of *)
(* its routines has suspended; and as long as nothing has been suspended     *)
(* either, what is in a warp is seen by the thread that executes it, or the  *)
(* warp is scheduled.                                                        *)
THEOREM Settling == Spec => []Settled
BY InitSettled, StepSettled, PTL DEF Spec

(* A warp that nobody is in and that is not scheduled has no routines: none  *)
(* is forgotten between the push to a ring buffer, the exchange of queueing  *)
(* and the last pass of Execute over the ring buffers.                       *)
THEOREM Emptiness == Spec => []IdleIsEmpty
<1>1. Settled => IdleIsEmpty
  <2> SUFFICES ASSUME Settled, suspends = 0, waits = 0, NEW w \in Warps,
                      queueing[w] # "queueing", threadWarp[w] = None,
                      \A t \in Threads : w # args[t].flush,
                      NEW x \in Queued(w)
               PROVE  FALSE
      BY DEF IdleIsEmpty
  <2>1. Typed /\ Nested /\ Seen
      BY DEF Settled, IInv, Swept
  <2>2. PICK u \in Threads : x \in Range(ring[w][u])
      BY DEF Queued
  <2>3. Fills(w, u)
      BY <2>2 DEF Fills, Range
  <2>4. PICK t \in Threads : Sees(t, w, u)
      BY <2>1, <2>3 DEF Seen, Covered, Scheduled
  <2>5. threadWarp[w] = t
      BY <2>1, <2>4, SeesInside DEF Nested
  <2> QED
      BY <2>5, NoneApart
<1> QED
    BY <1>1, Settling, PTL

(* There is one way on from where QueueRoutine looks again.                  *)
LEMMA Redirected ==
    ASSUME NEW t \in Threads, pc[t] = "directed", Unwaiting(t), pc'[t] # pc[t]
    PROVE  DirectRecheck(t)
BY DEF Unwaiting, RoutineStep, Polling, FlushStep, FlushMark, FlushAcquire, FlushDispatch, FlushUndo,
           FlushSetMask, FlushAnnounce, ReleaseStep, Release, ReleaseAnnounced, ReleaseUnmask,
           ReleaseFlushWarp, ReleaseUnannounce, YieldStep, YieldLeave, YieldReflush, ExecuteStep, Take,
           EnterSuspended, Enter, Guard, GuardOwn, GuardRecheck, ExecuteRecheck, ExecuteRequeue,
           ExecuteBegin, Pop, NextRing, NextPass, Invoke, Forward, InvokeReturn, ExecuteEnd, Return,
           QueueStep, Post, Direct, DirectEnd, Finish, SuspendWarp, ResumeWarp, SetWarpIndex

(* Once a routine has suspended its warp, no other of that warp begins until *)
(* it is resumed: neither Execute nor QueueRoutine goes on to one without    *)
(* having looked at suspendCount in between.                                 *)
THEOREM Suspension == Spec /\ [](waits = 0) => SuspendedWarpWaits
<1> DEFINE Starting(t) == pc[t] # "body" /\ pc'[t] = "body" /\ Len(stack'[t]) = Len(stack[t])
                          /\ pc[t] \in {"invoke", "directed"}
           A == \A t \in Threads : Starting(t) => warpIndex[t] \notin inside
<1>1. ASSUME Settled, waits = 0, (waits = 0)', Next
      PROVE  A
  <2> SUFFICES ASSUME NEW t \in Threads, Starting(t), warpIndex[t] \in inside
               PROVE  FALSE
      OBVIOUS
  <2>1. Typed /\ Nested /\ Barred /\ Directing /\ NestedAt(t)
      BY <1>1 DEF Settled, IInv, Nested
  <2>2. CASE pc[t] = "invoke"
    <3>1. warpIndex[t] = frame[t].queue
        BY <2>1, <2>2, InExecuteLabels DEF ExecuteLabels, Guarded
    <3> QED
        BY <2>1, <2>2, <3>1 DEF Barred, Nearing
  <2>3. CASE pc[t] = "directed"
    <3>1. PICK u \in Threads : ThreadStep(u)
        BY <1>1, <2>3 DEF Next, Terminated, vars
    <3>2. Unwaiting(u)
      <4>1. pc[u] \in Labels
          BY <2>1 DEF Typed, LocalTyped
      <4> QED
          BY <1>1, <3>1, <4>1, WaitsMoves DEF Labels
    <3>3. u = t
        BY <2>1, <2>3, <3>2, OthersUndisturbed DEF Unwaiting, Undisturbed
    <3>4. DirectRecheck(t)
        BY <2>3, <3>2, <3>3, Redirected
    <3>5. suspendCount[frame[t].guard] = 0
        BY <2>1, <2>3, <3>4 DEF DirectRecheck, CallFlush, Goto, Typed, LocalTyped
    <3>6. frame[t].guard # None /\ Point(t) = "directed"
        BY <2>1, <2>3, PointIs DEF Directing, FlushLabels
    <3>7. warpIndex[t] = frame[t].guard
        BY <3>6 , <2>1 DEF NestedAt, ActivationOK, Holds, Directed, Stands
    <3> QED
        BY <2>1, <3>5, <3>7 DEF Barred
  <2> QED
      BY <2>2, <2>3
<1>2. ASSUME Settled, waits = 0, (waits = 0)', [Next]_vars
      PROVE  [A]_vars
    BY <1>1, <1>2
<1> QED
    BY <1>2, Settling, PTL DEF Spec, SuspendedWarpWaits

=============================================================================
