----------------------------- MODULE ThreadPool -----------------------------
(***************************************************************************)
(* The fixed-size worker pool of Core/System/ThreadPool.cpp.               *)
(*                                                                         *)
(* Every worker and every external thread is a process with its own        *)
(* program counter; a step is one atomic operation of the code (a load,    *)
(* an exchange, a compare-exchange, a fetch_add) or one critical section   *)
(* of the pool's mutex.  Tasks hang on lock-free lists: one list head per  *)
(* slot, a slot being a priority index and one of the TASK_DUPLICATE_COUNT *)
(* heads of that index, chained by ITask::next.  The lists are modelled    *)
(* with their pointers, because what can go wrong in them is that two      *)
(* pointers lead to one task, or none does.                                *)
(*                                                                         *)
(* memory_order arguments are abstracted to sequential consistency.        *)
(***************************************************************************)
EXTENDS Integers, FiniteSets

CONSTANTS
    Workers,        \* the threads created by Initialize
    Clients,        \* external threads that use the pool
    Closer,         \* the client that calls Uninitialize
    Pollers,        \* the clients that call PollDelay
    Balancers,      \* the clients that call BalanceUp and BalanceDown
    Tasks,          \* ITask objects
    Null,           \* nullptr
    ThreadCount,    \* ThreadPool::threadCount
    Dup,            \* TASK_DUPLICATE_COUNT
    Priorities,     \* the priorities passed to Dispatch
    BalanceWindow,  \* balanceWindowSize
    MaxCalls        \* bound: calls of Dispatch in one behaviour

ASSUME ThreadCountAssumption ==
    /\ ThreadCount \in Nat \ {0}
    /\ IsFiniteSet(Workers)
    /\ ThreadCount = Cardinality(Workers)
ASSUME ThreadsAssumption ==
    /\ Workers \cap Clients = {}
    /\ IsFiniteSet(Clients)
    /\ Closer \in Clients
    /\ Pollers \subseteq Clients \ {Closer}
    /\ Balancers \subseteq Clients
ASSUME DataAssumption ==
    /\ Null \notin Tasks
    /\ Dup \in Nat \ {0}
    /\ Priorities \subseteq Int
    /\ BalanceWindow \in Nat
    /\ MaxCalls \in Nat
ASSUME TasksAssumption == IsFiniteSet(Tasks)     \* memory is finite

Threads == Workers \cup Clients
Slots == (0 .. ThreadCount - 1) \X (1 .. Dup)
Pointers == Tasks \cup {Null}

VARIABLES
    head,               \* threadInfos[i].taskHead[n]
    next,               \* ITask::next
    queued,             \* ITask::queued
    taskCount, runningCount, liveThreadCount,
    runningToken, limit, balanceCounter,
    waitEventCounter,
    sleeping,           \* the threads blocked on eventPump
    pc,                 \* what each thread does next
    link,               \* the task a thread is pushing
    hand,               \* p: the task Poll has taken
    rest,               \* a list a thread has detached and still holds
    want,               \* the argument of Dispatch; then r, the head expected
    slot,               \* the slot Dispatch pushes to, or Uninitialize drains
    from,               \* the slot Poll scans, or has fetched
    bound,              \* maxIndex of a scan; signals left to send (Closer)
    exec,               \* the task a thread is executing
    owner,              \* history: the pointer each task hangs on
    accepted,           \* history: how often Dispatch took the task
    calls,              \* history: calls of Dispatch
    settled             \* history: how often the pool ran or aborted it

lists == <<head, next, owner>>
marks == <<queued, accepted>>
counters == <<taskCount, runningCount, liveThreadCount>>
switches == <<runningToken, limit, balanceCounter, calls>>
event == <<waitEventCounter, sleeping>>
holds == <<link, hand, rest>>
scratch == <<want, slot, from, bound>>
runs == <<exec, settled>>
vars == <<lists, marks, counters, switches, event, pc, holds, scratch, runs>>

(* Where a task may hang: on a list head, behind another task, or on a local *)
(* pointer of a thread.  A task on no list is Free.                          *)
Free == <<"free">>
OnHead(s) == <<"head", s>>
Behind(x) == <<"next", x>>
InLink(t) == <<"link", t>>
InHand(t) == <<"hand", t>>
InRest(t) == <<"rest", t>>
Owners == {Free}
    \cup {OnHead(s) : s \in Slots} \cup {Behind(x) : x \in Tasks}
    \cup {InLink(t) : t \in Threads} \cup {InHand(t) : t \in Threads}
    \cup {InRest(t) : t \in Threads}

(* The task that pointer p leads to, if any, now hangs on o (and that of q   *)
(* on r).                                                                    *)
Own(p, o) == owner' = [x \in Tasks |-> IF x = p THEN o ELSE owner[x]]
OwnBoth(p, o, q, r) ==
    owner' = [x \in Tasks |-> IF x = p THEN o ELSE IF x = q THEN r ELSE owner[x]]

Goto(t, label) == pc' = [pc EXCEPT ![t] = label]

Init ==
    /\ head = [s \in Slots |-> Null]
    /\ next = [x \in Tasks |-> Null]
    /\ queued = [x \in Tasks |-> 0]
    /\ taskCount = 0 /\ runningCount = 0 /\ liveThreadCount = 0
    /\ runningToken = 1 /\ limit = 0 /\ balanceCounter = 0
    /\ waitEventCounter = 0 /\ sleeping = {}
    /\ pc = [t \in Threads |-> IF t \in Workers THEN "start" ELSE "idle"]
    /\ link = [t \in Threads |-> Null]
    /\ hand = [t \in Threads |-> Null]
    /\ rest = [t \in Threads |-> Null]
    /\ want = [t \in Threads |-> Null]
    /\ slot = [t \in Threads |-> <<0, 1>>]
    /\ from = [t \in Threads |-> <<0, 1>>]
    /\ bound = [t \in Threads |-> 0]
    /\ exec = [t \in Threads |-> Null]
    /\ owner = [x \in Tasks |-> Free]
    /\ accepted = [x \in Tasks |-> 0]
    /\ settled = [x \in Tasks |-> 0]
    /\ calls = 0

-----------------------------------------------------------------------------
(* The mutex.  Signal and Wait are single critical sections, so only         *)
(* Uninitialize keeps it from one step to the next.                          *)

Locked == pc[Closer] \in {"count", "drain", "abort"}

(* threadApi.Signal: notify_one wakes one of the sleepers, if there is one. *)
Notify ==
    /\ ~Locked
    /\ \/ sleeping = {} /\ UNCHANGED sleeping
       \/ \E t \in sleeping : sleeping' = sleeping \ {t}

(* "if (waitEventCounter > index + limit) Signal()", at the end of a push. *)
CheckSignal(t, at, s, yes, no) ==
    /\ pc[t] = at
    /\ IF waitEventCounter > s[1] + limit THEN Goto(t, yes) ELSE Goto(t, no)
    /\ UNCHANGED <<lists, marks, counters, switches, event, holds, scratch, runs>>

SendSignal(t, at, after) ==
    /\ pc[t] = at
    /\ Notify
    /\ Goto(t, after)
    /\ UNCHANGED <<lists, marks, counters, switches, waitEventCounter, holds, scratch, runs>>

(* Wait: ++waitEventCounter and the blocking are one critical section, and   *)
(* so is what follows the wake-up.                                           *)
WaitEnter(t) ==
    /\ pc[t] = "wait"
    /\ ~Locked
    /\ waitEventCounter' = waitEventCounter + 1
    /\ sleeping' = sleeping \cup {t}
    /\ Goto(t, "asleep")
    /\ UNCHANGED <<lists, marks, counters, switches, holds, scratch, runs>>

(* Mutant: an early return when the pool stops skips --waitEventCounter. *)
WaitLeaveStopping(t, to) ==
    /\ pc[t] = "asleep" /\ t \notin sleeping /\ ~Locked
    /\ waitEventCounter' = waitEventCounter - runningToken
    /\ Goto(t, to)
    /\ UNCHANGED <<lists, marks, counters, switches, sleeping, holds, scratch, runs>>

WaitLeave(t, to) ==
    /\ pc[t] = "asleep"
    /\ t \notin sleeping
    /\ ~Locked
    /\ waitEventCounter' = waitEventCounter - 1
    /\ Goto(t, to)
    /\ UNCHANGED <<lists, marks, counters, switches, sleeping, holds, scratch, runs>>

(* A wait ends without a signal: always possible for a condition variable,   *)
(* and certain for the timed waits, which are those of the clients.          *)
WakeUp(t) ==
    /\ t \in sleeping
    /\ sleeping' = sleeping \ {t}
    /\ UNCHANGED <<lists, marks, counters, switches, waitEventCounter, pc, holds, scratch, runs>>

-----------------------------------------------------------------------------
(* Dispatch.  A client calls it, or a task body running on some thread, and  *)
(* it returns to where it was called from.                                   *)

Least(a, b) == IF a < b THEN a ELSE b
SlotIndex(priority) ==
    LET offset == IF priority >= 0 THEN priority ELSE ThreadCount + priority
    IN  IF offset < 0 THEN 0 ELSE Least(offset, ThreadCount - 1)

Caller(t) == IF exec[t] # Null THEN "exec" ELSE "idle"

(* When the pool is stopping the task is aborted on the spot. *)
Dispatch(t, x, priority) ==
    /\ pc[t] = Caller(t) /\ t # Closer
    /\ calls < MaxCalls /\ calls' = calls + 1
    /\ runningToken # 0
    /\ want' = [want EXCEPT ![t] = x]
    /\ slot' = [slot EXCEPT ![t] = <<SlotIndex(priority), 1>>]
    /\ Goto(t, "dmark")
    /\ UNCHANGED <<lists, marks, counters, runningToken, limit, balanceCounter, event, holds,
                   from, bound, runs>>

(* Mutant: queued is set, but not tested. *)
DispatchMarkUntested(t) ==
    /\ pc[t] = "dmark"
    /\ queued' = [queued EXCEPT ![want[t]] = 1]
    /\ accepted' = [accepted EXCEPT ![want[t]] = @ + 1]
    /\ link' = [link EXCEPT ![t] = want[t]]
    /\ Own(want[t], InLink(t))
    /\ want' = [want EXCEPT ![t] = Null]
    /\ Goto(t, "dcount")
    /\ UNCHANGED <<head, next, counters, switches, event, hand, rest, slot, from, bound, runs>>

DispatchMark(t) ==
    /\ pc[t] = "dmark"
    /\ LET x == want[t] IN
       IF queued[x] = 1
       THEN Goto(t, Caller(t)) /\ UNCHANGED <<marks, link, owner>>
       ELSE /\ queued' = [queued EXCEPT ![x] = 1]
            /\ accepted' = [accepted EXCEPT ![x] = @ + 1]
            /\ link' = [link EXCEPT ![t] = x]
            /\ Own(x, InLink(t))
            /\ Goto(t, "dcount")
    /\ want' = [want EXCEPT ![t] = Null]
    /\ UNCHANGED <<head, next, counters, switches, event, hand, rest, slot, from, bound, runs>>

DispatchCount(t) ==
    /\ pc[t] = "dcount"
    /\ taskCount' = taskCount + 1
    /\ Goto(t, "dtry")
    /\ UNCHANGED <<lists, marks, runningCount, liveThreadCount, switches, event, holds,
                   scratch, runs>>

(* One turn of the loop over the heads of the index; the comparison of       *)
(* addresses that picks "best" after the last one may favour any of them.    *)
DispatchTry(t) ==
    /\ pc[t] = "dtry"
    /\ LET s == slot[t] IN
       \/ /\ head[s] = Null
          /\ head' = [head EXCEPT ![s] = link[t]]
          /\ link' = [link EXCEPT ![t] = Null]
          /\ Own(link[t], OnHead(s))
          /\ Goto(t, "dsignal")
          /\ UNCHANGED slot
       \/ /\ head[s] # Null /\ s[2] < Dup
          /\ slot' = [slot EXCEPT ![t] = <<s[1], s[2] + 1>>]
          /\ UNCHANGED <<head, link, owner, pc>>
       \/ /\ head[s] # Null /\ s[2] = Dup
          /\ \E best \in 1 .. Dup : slot' = [slot EXCEPT ![t] = <<s[1], best>>]
          /\ Goto(t, "dload")
          /\ UNCHANGED <<head, link, owner>>
    /\ UNCHANGED <<next, marks, counters, switches, event, hand, rest, want, from, bound, runs>>

DispatchLoad(t) ==
    /\ pc[t] = "dload"
    /\ want' = [want EXCEPT ![t] = head[slot[t]]]
    /\ Goto(t, "dpush")
    /\ UNCHANGED <<lists, marks, counters, switches, event, holds, slot, from, bound, runs>>

(* "do next = r; while (!compare_exchange_weak(r, task))", one evaluation,   *)
(* for Dispatch and for the rechaining loop of Poll.  A failure leaves the   *)
(* current head in r.                                                        *)
PushHead(t, at, s, after) ==
    /\ pc[t] = at
    /\ next' = [next EXCEPT ![link[t]] = want[t]]
    /\ IF head[s] = want[t]
       THEN /\ head' = [head EXCEPT ![s] = link[t]]
            /\ link' = [link EXCEPT ![t] = Null]
            /\ OwnBoth(link[t], OnHead(s), want[t], Behind(link[t]))
            /\ want' = [want EXCEPT ![t] = Null]
            /\ Goto(t, after)
       ELSE /\ want' = [want EXCEPT ![t] = head[s]]
            /\ UNCHANGED <<head, link, owner, pc>>
    /\ UNCHANGED <<marks, counters, switches, event, hand, rest, slot, from, bound, runs>>

DispatchPush(t) == PushHead(t, "dpush", slot[t], "dsignal")
DispatchCheck(t) == CheckSignal(t, "dsignal", slot[t], "dnotify", Caller(t))
DispatchSignal(t) == SendSignal(t, "dnotify", Caller(t))

DispatchStep(t) ==
    \/ \E x \in Tasks, priority \in Priorities : Dispatch(t, x, priority)
    \/ DispatchMark(t) \/ DispatchCount(t) \/ DispatchTry(t) \/ DispatchLoad(t)
    \/ DispatchPush(t) \/ DispatchCheck(t) \/ DispatchSignal(t)

-----------------------------------------------------------------------------
(* Poll, with the scan of Fetch.  It returns false at "missed", true at      *)
(* "polled".                                                                 *)

PollBegin(t) ==
    /\ pc[t] = "poll"
    /\ bound' = [bound EXCEPT ![t] = ThreadCount - Least(runningCount, ThreadCount)]
    /\ from' = [from EXCEPT ![t] = <<0, 1>>]
    /\ Goto(t, "fetch")
    /\ UNCHANGED <<lists, marks, counters, switches, event, holds, want, slot, runs>>

NextSlot(s) == IF s[2] < Dup THEN <<s[1], s[2] + 1>> ELSE <<s[1] + 1, 1>>

PollFetch(t) ==
    /\ pc[t] = "fetch"
    /\ LET s == from[t] IN
       \/ /\ s[1] >= bound[t]
          /\ Goto(t, "missed")
          /\ UNCHANGED from
       \/ /\ s[1] < bound[t] /\ head[s] # Null
          /\ Goto(t, "claim")
          /\ UNCHANGED from
       \/ /\ s[1] < bound[t] /\ head[s] = Null
          /\ from' = [from EXCEPT ![t] = NextSlot(s)]
          /\ UNCHANGED pc
    /\ UNCHANGED <<lists, marks, counters, switches, event, holds, want, slot, bound, runs>>

(* Mutant: off by one in the test of the reserve. *)
PollClaimOneMore(t) ==
    /\ pc[t] = "claim"
    /\ runningCount' = runningCount + 1
    /\ Goto(t, IF from[t][1] + runningCount <= ThreadCount THEN "take" ELSE "unclaim")
    /\ UNCHANGED <<lists, marks, taskCount, liveThreadCount, switches, event, holds, scratch,
                   runs>>

PollClaim(t) ==
    /\ pc[t] = "claim"
    /\ runningCount' = runningCount + 1
    /\ Goto(t, IF from[t][1] + runningCount < ThreadCount THEN "take" ELSE "unclaim")
    /\ UNCHANGED <<lists, marks, taskCount, liveThreadCount, switches, event, holds, scratch,
                   runs>>

(* taskHead.exchange(nullptr): the whole list becomes this thread's. *)
PollTake(t) ==
    /\ pc[t] = "take"
    /\ LET s == from[t] IN
       /\ hand' = [hand EXCEPT ![t] = head[s]]
       /\ head' = [head EXCEPT ![s] = Null]
       /\ Own(head[s], InHand(t))
       /\ Goto(t, IF head[s] = Null THEN "leave" ELSE "split")
    /\ UNCHANGED <<next, marks, counters, switches, event, link, rest, scratch, runs>>

(* Mutant: p->next is cleared before it is read. *)
PollSplitClearFirst(t) ==
    /\ pc[t] = "split"
    /\ next' = [next EXCEPT ![hand[t]] = Null]
    /\ Goto(t, "uncount")
    /\ UNCHANGED <<head, owner, marks, counters, switches, event, holds, scratch, runs>>
(* Detach the first task from the rest of the list. *)
PollSplit(t) ==
    /\ pc[t] = "split"
    /\ LET p == hand[t] IN
       /\ rest' = [rest EXCEPT ![t] = next[p]]
       /\ next' = [next EXCEPT ![p] = Null]
       /\ Own(next[p], InRest(t))
       /\ Goto(t, IF next[p] = Null THEN "uncount" ELSE "giveback")
    /\ UNCHANGED <<head, marks, counters, switches, event, link, hand, scratch, runs>>

(* Mutant: a store instead of the exchange. *)
PollGiveBackStore(t) ==
    /\ pc[t] = "giveback"
    /\ head' = [head EXCEPT ![from[t]] = rest[t]]
    /\ Own(rest[t], OnHead(from[t]))
    /\ rest' = [rest EXCEPT ![t] = Null]
    /\ Goto(t, "uncount")
    /\ UNCHANGED <<next, marks, counters, switches, event, link, hand, scratch, runs>>

(* t = taskHead.exchange(next): what was pushed meanwhile comes back. *)
PollGiveBack(t) ==
    /\ pc[t] = "giveback"
    /\ LET s == from[t] IN
       /\ rest' = [rest EXCEPT ![t] = head[s]]
       /\ head' = [head EXCEPT ![s] = rest[t]]
       /\ OwnBoth(rest[t], OnHead(s), head[s], InRest(t))
       /\ Goto(t, IF head[s] = Null THEN "uncount" ELSE "rechain")
    /\ UNCHANGED <<next, marks, counters, switches, event, link, hand, scratch, runs>>

(* q = t; t = t->next; r = taskHead.load() *)
PollRechain(t) ==
    /\ pc[t] = "rechain"
    /\ link' = [link EXCEPT ![t] = rest[t]]
    /\ rest' = [rest EXCEPT ![t] = next[rest[t]]]
    /\ OwnBoth(rest[t], InLink(t), next[rest[t]], InRest(t))
    /\ want' = [want EXCEPT ![t] = head[from[t]]]
    /\ Goto(t, "repush")
    /\ UNCHANGED <<head, next, marks, counters, switches, event, hand, slot, from, bound, runs>>

PollRepush(t) ==
    PushHead(t, "repush", from[t], IF rest[t] = Null THEN "rsignal" ELSE "rechain")
PollCheck(t) == CheckSignal(t, "rsignal", from[t], "rnotify", "uncount")
PollSignal(t) == SendSignal(t, "rnotify", "uncount")

PollUncount(t) ==
    /\ pc[t] = "uncount"
    /\ taskCount' = taskCount - 1
    /\ Goto(t, "unmark")
    /\ UNCHANGED <<lists, marks, runningCount, liveThreadCount, switches, event, holds,
                   scratch, runs>>

(* queued.store(0): from here on the task may be dispatched again. *)
PollUnmark(t) ==
    /\ pc[t] = "unmark"
    /\ queued' = [queued EXCEPT ![hand[t]] = 0]
    /\ exec' = [exec EXCEPT ![t] = hand[t]]
    /\ hand' = [hand EXCEPT ![t] = Null]
    /\ Own(hand[t], Free)
    /\ Goto(t, "run")
    /\ UNCHANGED <<head, next, accepted, counters, switches, event, link, rest, scratch, settled>>

(* Mutant: a stopping pool drops the task it has taken. *)
PollRunDrops(t) ==
    /\ pc[t] = "run"
    /\ settled' = [settled EXCEPT ![exec[t]] = @ + runningToken]
    /\ IF runningToken = 0
       THEN exec' = [exec EXCEPT ![t] = Null] /\ Goto(t, "leave")
       ELSE UNCHANGED exec /\ Goto(t, "exec")
    /\ UNCHANGED <<lists, marks, counters, switches, event, holds, scratch>>

(* Abort when the pool is stopping, else Execute, which may itself Dispatch. *)
PollRun(t) ==
    /\ pc[t] = "run"
    /\ settled' = [settled EXCEPT ![exec[t]] = @ + 1]
    /\ IF runningToken = 0
       THEN exec' = [exec EXCEPT ![t] = Null] /\ Goto(t, "leave")
       ELSE UNCHANGED exec /\ Goto(t, "exec")
    /\ UNCHANGED <<lists, marks, counters, switches, event, holds, scratch>>

PollFinish(t) ==
    /\ pc[t] = "exec"
    /\ exec' = [exec EXCEPT ![t] = Null]
    /\ Goto(t, "leave")
    /\ UNCHANGED <<lists, marks, counters, switches, event, holds, scratch, settled>>

(* Mutant: the path of a failed claim returns without the fetch_sub. *)
PollLeaveEarly(t) ==
    /\ pc[t] \in {"leave", "unclaim"}
    /\ runningCount' = runningCount - (IF pc[t] = "leave" THEN 1 ELSE 0)
    /\ Goto(t, IF pc[t] = "leave" THEN "polled" ELSE "missed")
    /\ UNCHANGED <<lists, marks, taskCount, liveThreadCount, switches, event, holds, scratch,
                   runs>>

PollLeave(t) ==
    /\ pc[t] \in {"leave", "unclaim"}
    /\ runningCount' = runningCount - 1
    /\ Goto(t, IF pc[t] = "leave" THEN "polled" ELSE "missed")
    /\ UNCHANGED <<lists, marks, taskCount, liveThreadCount, switches, event, holds, scratch,
                   runs>>

PollStep(t) ==
    \/ PollBegin(t) \/ PollFetch(t) \/ PollClaim(t) \/ PollTake(t) \/ PollSplit(t)
    \/ PollGiveBack(t) \/ PollRechain(t) \/ PollRepush(t) \/ PollCheck(t) \/ PollSignal(t)
    \/ PollUncount(t) \/ PollUnmark(t) \/ PollRun(t) \/ PollFinish(t) \/ PollLeave(t)

-----------------------------------------------------------------------------
(* Run, the loop of a worker thread.                                         *)

Move(t, at, to) ==
    /\ pc[t] = at
    /\ Goto(t, to)
    /\ UNCHANGED <<lists, marks, counters, switches, event, holds, scratch, runs>>

RunEnter(t) ==
    /\ pc[t] = "start"
    /\ liveThreadCount' = liveThreadCount + 1
    /\ Goto(t, "loop")
    /\ UNCHANGED <<lists, marks, taskCount, runningCount, switches, event, holds, scratch, runs>>

RunTest(t) == Move(t, "loop", IF runningToken # 0 THEN "poll" ELSE "exit")
RunPolled(t) == Move(t, "polled", "loop")
RunMissed(t) == Move(t, "missed", "wait")

RunExit(t) ==
    /\ pc[t] = "exit"
    /\ liveThreadCount' = liveThreadCount - 1
    /\ Goto(t, "done")
    /\ UNCHANGED <<lists, marks, taskCount, runningCount, switches, event, holds, scratch, runs>>

WorkerStep(t) ==
    \/ RunEnter(t) \/ RunTest(t) \/ RunPolled(t) \/ RunMissed(t) \/ RunExit(t)
    \/ WaitEnter(t) \/ WaitLeave(t, "loop")
    \/ PollStep(t) \/ DispatchStep(t)

-----------------------------------------------------------------------------
(* External threads: PollDelay, BalanceUp and BalanceDown.  The application  *)
(* keeps them out of the pool once it closes it (see Uninitialize).          *)

InUse == pc[Closer] = "idle"

PollDelay(t) == t \in Pollers /\ InUse /\ Move(t, "idle", "poll")
PollDelayed(t) == t \in Pollers /\ Move(t, "polled", "idle")
(* With delay 0, PollDelay is Poll alone. *)
PollDelayMissed(t) ==
    /\ t \in Pollers
    /\ \E delay \in {0, 5} :
          Move(t, "missed", IF delay # 0 /\ runningToken # 0 THEN "wait" ELSE "idle")

BalanceUp(t) ==
    /\ t \in Balancers /\ pc[t] = "idle" /\ InUse
    /\ limit # 0 /\ taskCount > 0
    /\ IF balanceCounter > BalanceWindow
       THEN limit' = limit - 1 /\ balanceCounter' = balanceCounter - BalanceWindow
       ELSE limit' = limit /\ balanceCounter' = balanceCounter + 1
    /\ UNCHANGED <<lists, marks, counters, runningToken, calls, event, pc, holds,
                   scratch, runs>>

(* Mutant: no upper bound on limit. *)
BalanceDownUnbounded(t) ==
    /\ t \in Balancers /\ pc[t] = "idle" /\ InUse
    /\ limit < ThreadCount /\ taskCount = 0
    /\ IF balanceCounter + BalanceWindow < 0
       THEN limit' = limit + 1 /\ balanceCounter' = balanceCounter + BalanceWindow
       ELSE limit' = limit /\ balanceCounter' = balanceCounter - 1
    /\ UNCHANGED <<lists, marks, counters, runningToken, calls, event, pc, holds,
                   scratch, runs>>

BalanceDown(t) ==
    /\ t \in Balancers /\ pc[t] = "idle" /\ InUse
    /\ limit + 1 < ThreadCount /\ taskCount = 0
    /\ IF balanceCounter + BalanceWindow < 0
       THEN limit' = limit + 1 /\ balanceCounter' = balanceCounter + BalanceWindow
       ELSE limit' = limit /\ balanceCounter' = balanceCounter - 1
    /\ UNCHANGED <<lists, marks, counters, runningToken, calls, event, pc, holds,
                   scratch, runs>>

ClientStep(t) ==
    \/ PollDelay(t) \/ PollDelayed(t) \/ PollDelayMissed(t)
    \/ BalanceUp(t) \/ BalanceDown(t)
    \/ (t # Closer /\ (WaitEnter(t) \/ WaitLeave(t, "idle")))
    \/ PollStep(t) \/ DispatchStep(t)

-----------------------------------------------------------------------------
(* Uninitialize, called once no other external thread is inside the pool.    *)

Uninitialize ==
    /\ \A t \in Clients : pc[t] = "idle"
    /\ runningToken' = 0
    /\ Goto(Closer, "count")
    /\ UNCHANGED <<lists, marks, counters, limit, balanceCounter, calls, event, holds,
                   scratch, runs>>

(* Mutants: the last worker is not waited for, or not signalled. *)
CloseCountOneLeft ==
    /\ pc[Closer] = "count"
    /\ slot' = [slot EXCEPT ![Closer] = <<0, 1>>]
    /\ bound' = [bound EXCEPT ![Closer] = liveThreadCount]
    /\ Goto(Closer, IF liveThreadCount <= 1 THEN "drain" ELSE "wakeall")
    /\ UNCHANGED <<lists, marks, counters, switches, event, holds, want, from, runs>>
CloseCountOneFewer ==
    /\ pc[Closer] = "count"
    /\ slot' = [slot EXCEPT ![Closer] = <<0, 1>>]
    /\ bound' = [bound EXCEPT ![Closer] = liveThreadCount - 1]
    /\ Goto(Closer, IF liveThreadCount = 0 THEN "drain" ELSE "wakeall")
    /\ UNCHANGED <<lists, marks, counters, switches, event, holds, want, from, runs>>

CloseCount ==
    /\ pc[Closer] = "count"
    /\ slot' = [slot EXCEPT ![Closer] = <<0, 1>>]
    /\ bound' = [bound EXCEPT ![Closer] = liveThreadCount]
    /\ Goto(Closer, IF liveThreadCount = 0 THEN "drain" ELSE "wakeall")
    /\ UNCHANGED <<lists, marks, counters, switches, event, holds, want, from, runs>>

CloseSignal ==
    /\ pc[Closer] = "wakeall"
    /\ IF bound[Closer] > 0
       THEN /\ Notify
            /\ bound' = [bound EXCEPT ![Closer] = @ - 1]
            /\ UNCHANGED pc
       ELSE Goto(Closer, "wait") /\ UNCHANGED <<bound, sleeping>>
    /\ UNCHANGED <<lists, marks, counters, switches, waitEventCounter, holds, want, slot,
                   from, runs>>

CloseRelock == Move(Closer, "relock", "count")

(* taskHead.exchange(nullptr) for the next slot, or the end of the loop and  *)
(* threadInfos.clear().                                                      *)
CloseDrain ==
    /\ pc[Closer] = "drain"
    /\ LET s == slot[Closer] IN
       IF s[1] < ThreadCount
       THEN /\ rest' = [rest EXCEPT ![Closer] = head[s]]
            /\ head' = [head EXCEPT ![s] = Null]
            /\ Own(head[s], InRest(Closer))
            /\ slot' = [slot EXCEPT ![Closer] = NextSlot(s)]
            /\ Goto(Closer, "abort")
       ELSE Goto(Closer, "done") /\ UNCHANGED <<rest, head, owner, slot>>
    /\ UNCHANGED <<next, marks, counters, switches, event, link, hand, want, from, bound, runs>>

CloseAbort ==
    /\ pc[Closer] = "abort"
    /\ LET q == rest[Closer] IN
       IF q # Null
       THEN /\ rest' = [rest EXCEPT ![Closer] = next[q]]
            /\ next' = [next EXCEPT ![q] = Null]
            /\ OwnBoth(q, Free, next[q], InRest(Closer))
            /\ settled' = [settled EXCEPT ![q] = @ + 1]
            /\ UNCHANGED pc
       ELSE Goto(Closer, "drain") /\ UNCHANGED <<rest, next, owner, settled>>
    /\ UNCHANGED <<head, marks, counters, switches, event, link, hand, scratch, exec>>

CloserStep ==
    \/ Uninitialize \/ CloseCount \/ CloseSignal \/ CloseRelock \/ CloseDrain \/ CloseAbort
    \/ WaitEnter(Closer) \/ WaitLeave(Closer, "relock")

(* threadInfos is empty and nothing is left to happen. *)
Cleared == pc[Closer] = "done"
Stopped == Cleared /\ (\A t \in Workers : pc[t] = "done") /\ UNCHANGED vars

Next ==
    \/ \E t \in Workers : WorkerStep(t)
    \/ \E t \in Clients : ClientStep(t)
    \/ \E t \in Threads : WakeUp(t)
    \/ CloserStep
    \/ Stopped

Spec == Init /\ [][Next]_vars

-----------------------------------------------------------------------------
(* Fairness.  Every thread keeps running, and every task body returns.  The  *)
(* mutex is fair: a thread that waits for it while others take and release   *)
(* it gets it in the end (hence SF).  A timed wait expires; the waits of the *)
(* workers do not.                                                           *)

Ongoing(t) ==
    \/ RunEnter(t) \/ RunTest(t) \/ RunPolled(t) \/ RunMissed(t) \/ RunExit(t)
    \/ PollStep(t) \/ PollDelayed(t) \/ PollDelayMissed(t)
    \/ DispatchMark(t) \/ DispatchCount(t) \/ DispatchTry(t) \/ DispatchLoad(t)
    \/ DispatchPush(t) \/ DispatchCheck(t) \/ DispatchSignal(t)
    \/ WaitEnter(t)
    \/ WaitLeave(t, IF t \in Workers THEN "loop" ELSE IF t = Closer THEN "relock" ELSE "idle")
    \/ t \in Clients /\ WakeUp(t)
    \/ t = Closer /\ (CloseCount \/ CloseSignal \/ CloseRelock \/ CloseDrain \/ CloseAbort)

FairSpec == Spec /\ \A t \in Threads : SF_vars(Ongoing(t))
(* The application also keeps polling, as its wait helpers do. *)
PollingSpec == FairSpec /\ \A t \in Pollers : WF_vars(PollDelay(t))

-----------------------------------------------------------------------------
(* Properties                                                                *)

(* Where the program counter says a thread is.                               *)
Dispatching == {"dmark", "dcount", "dtry", "dload", "dpush", "dsignal", "dnotify"}
Taking == {"take", "split", "giveback", "rechain", "repush", "rsignal", "rnotify",
           "uncount", "unmark", "run", "exec"}
Polling == {"poll", "fetch", "claim", "unclaim", "leave"} \cup Taking
Waiting == {"wait", "asleep"}
Labels == {"start", "loop", "polled", "missed", "exit", "done", "idle",
           "count", "wakeall", "relock", "drain", "abort"}
          \cup Dispatching \cup Polling \cup Waiting

NumberAt(labels) == Cardinality({t \in Threads : pc[t] \in labels})

(* A thread between the fetch_add and the fetch_sub of runningCount in Poll; *)
(* a Dispatch called by the task it executes does not end that.              *)
Claims(t) == pc[t] \in {"leave", "unclaim"} \cup Taking \/ exec[t] # Null
Claiming == {t \in Threads : Claims(t)}

(* Types, with the labels each thread may be at.                             *)
TypeOK ==
    /\ head \in [Slots -> Pointers]
    /\ next \in [Tasks -> Pointers]
    /\ queued \in [Tasks -> {0, 1}]
    /\ taskCount \in Int /\ runningCount \in Int /\ liveThreadCount \in Int
    /\ runningToken \in {0, 1}
    /\ limit \in 0 .. ThreadCount - 1 /\ balanceCounter \in Int
    /\ waitEventCounter \in Int
    /\ sleeping \subseteq Threads
    /\ pc \in [Threads -> Labels]
    /\ link \in [Threads -> Pointers]
    /\ hand \in [Threads -> Pointers]
    /\ rest \in [Threads -> Pointers]
    /\ want \in [Threads -> Pointers]
    /\ slot \in [Threads -> (0 .. ThreadCount) \X (1 .. Dup)]
    /\ from \in [Threads -> (0 .. ThreadCount) \X (1 .. Dup)]
    /\ bound \in [Threads -> Int]
    /\ exec \in [Threads -> Pointers]
    /\ owner \in [Tasks -> Owners]
    /\ accepted \in [Tasks -> Nat]
    /\ settled \in [Tasks -> Nat]
    /\ calls \in Nat

(* Every pointer that the code follows leads to a task that hangs on that    *)
(* pointer and on no other: no interleaving of pushes, exchanges and the     *)
(* rechaining of Poll lets two lists, or a list and a thread, share a task,  *)
(* and none drops a task that is still queued.  (The next field of a task    *)
(* that is being pushed is scratch until the compare-exchange succeeds.)     *)
HeadOwner(x) == \A s \in Slots : head[s] = x <=> owner[x] = OnHead(s)
NextOwner(x) ==
    \A y \in Tasks :
        (next[y] = x /\ \A t \in Threads : link[t] # y) <=> owner[x] = Behind(y)
HoldOwner(x) ==
    \A t \in Threads :
        /\ link[t] = x <=> owner[x] = InLink(t)
        /\ hand[t] = x <=> owner[x] = InHand(t)
        /\ rest[t] = x <=> owner[x] = InRest(t)
MarkOwner(x) ==
    /\ queued[x] = 0 => owner[x] = Free
    /\ (owner[x] = Free /\ runningToken = 1) => queued[x] = 0
SingleOwner ==
    \A x \in Tasks : HeadOwner(x) /\ NextOwner(x) /\ HoldOwner(x) /\ MarkOwner(x)

(* The assertions of Dispatch (lines 199, 224, 225) and Poll (285, 304):     *)
(* a task that is pushed is not chained yet and not the head already, one    *)
(* that is rechained is marked, and one about to run is detached.            *)
CodeAssertions ==
    \A t \in Threads :
        /\ pc[t] \in {"dcount", "dtry", "dload"} => next[link[t]] = Null
        /\ pc[t] = "dload" => head[slot[t]] # link[t]
        /\ pc[t] = "rechain" => queued[rest[t]] = 1
        /\ pc[t] \in {"uncount", "unmark"} => next[hand[t]] = Null

(* What a thread holds at each point of Dispatch, Poll and Uninitialize: the *)
(* strengthening that makes SingleOwner inductive.                           *)
Pushing == {"dcount", "dtry", "dload", "dpush", "repush"}
Detached == {"giveback", "rechain", "repush", "rsignal", "rnotify", "uncount", "unmark"}
OfCloser == {"count", "wakeall", "relock", "drain", "abort"}
Held(t) ==
    /\ link[t] # Null <=> pc[t] \in Pushing
    /\ hand[t] # Null <=> pc[t] \in Detached \cup {"split"}
    /\ pc[t] \in {"giveback", "rechain"} => rest[t] # Null
    /\ rest[t] # Null => pc[t] \in {"giveback", "rechain", "repush", "abort"}
    /\ pc[t] \in Detached => next[hand[t]] = Null
    /\ pc[t] \in {"dcount", "dtry", "dload"} => next[link[t]] = Null
    /\ pc[t] = "dmark" => want[t] # Null
    /\ pc[t] \in {"run", "exec"} => exec[t] # Null
    /\ exec[t] # Null => pc[t] \in {"run", "exec"} \cup Dispatching
    /\ pc[t] \in Dispatching => slot[t] \in Slots
    /\ pc[t] = "fetch" => bound[t] <= ThreadCount
    /\ pc[t] \in {"claim"} \cup Taking \/ exec[t] # Null => from[t] \in Slots
HeldOK ==
    /\ \A t \in Threads : Held(t)
    /\ \A t \in Threads : pc[t] \in OfCloser => t = Closer
    /\ exec[Closer] = Null
    /\ pc[Closer] \in OfCloser \cup {"idle", "wait", "asleep", "done"}
    /\ pc[Closer] # "idle" => runningToken = 0
    /\ \A x \in Tasks : owner[x] = Free => next[x] = Null
    /\ runningCount = Cardinality(Claiming)

(* No queued task is out of reach: following next from the list heads and    *)
(* from the pointers threads hold leads to every task that hangs somewhere,  *)
(* so the chains have no cycle that is cut off.                              *)
NothingLost ==
    LET Roots == {head[s] : s \in Slots}
                 \cup UNION {{link[t], hand[t], rest[t]} : t \in Threads}
        Reached[n \in Nat] ==
            IF n = 0 THEN Roots \ {Null}
            ELSE LET R == Reached[n - 1]
                 IN  R \cup ({next[y] : y \in R \cap Tasks} \ {Null})
    IN  {x \in Tasks : owner[x] # Free} \subseteq Reached[Cardinality(Tasks)]

(* Every dispatch the pool accepted is run or aborted once: whatever is not  *)
(* settled yet is queued, or is in the hands of a thread about to run it.    *)
SettledOnce ==
    \A x \in Tasks :
        accepted[x] = settled[x]
            + (IF owner[x] = Free THEN 0 ELSE 1)
            + Cardinality({t \in Threads : pc[t] = "run" /\ exec[t] = x})

(* The counters agree with what they count, whatever path Poll leaves by; in *)
(* particular taskCount (an unsigned) never drops below zero.                *)
CountersExact ==
    /\ taskCount = Cardinality({x \in Tasks : queued[x] = 1})
                   - NumberAt({"dcount"}) - NumberAt({"unmark"})
    /\ waitEventCounter = NumberAt({"asleep"})
    /\ liveThreadCount =
          Cardinality({t \in Workers : pc[t] \notin {"start", "done"}})

(* A task of index i is taken only while i threads are left over for tasks   *)
(* of a smaller index: of the threads inside Poll, external ones included,   *)
(* at most threadCount - i hold a task of index i or more.                   *)
PriorityReserve ==
    \A i \in 0 .. ThreadCount - 1 :
        Cardinality({t \in Threads : /\ pc[t] \in Taking \/ exec[t] # Null
                                     /\ from[t][1] >= i}) <= ThreadCount - i

(* Once Uninitialize has cleared threadInfos, no thread is where it would    *)
(* read it, and every task has been settled.                                 *)
ClosedClean ==
    Cleared =>
        /\ \A t \in Threads : pc[t] \notin Polling \cup Dispatching
        /\ \A x \in Tasks : owner[x] = Free /\ accepted[x] = settled[x]

(* Uninitialize returns, although it has to wake every sleeping worker       *)
(* through an event that wakes one thread at a time.                         *)
CloseTerminates == (pc[Closer] = "count") ~> Cleared

(* A task that Dispatch accepted is run or aborted in the end.               *)
DispatchedRuns == \A x \in Tasks : (owner[x] # Free) ~> (owner[x] = Free)
=============================================================================
