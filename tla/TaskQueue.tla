----------------------------- MODULE TaskQueue ------------------------------
(***************************************************************************)
(* TaskQueue of Core/System: the queue of a warp.  Every thread of the     *)
(* pool pushes to a ring of its own, and the thread that holds the warp    *)
(* runs through the rings (OnOperation).  A barrier holds up its ring      *)
(* until the others have been emptied: it carries a version, and a ring    *)
(* is served while its version is not ahead of currentVersion.             *)
(*                                                                         *)
(* A ring is what Channel promises.  A step is one access to a ring.       *)
(***************************************************************************)
EXTENDS Integers, Sequences

CONSTANTS
    Rings,          \* idCount
    MaxTasks,       \* bound: tasks pushed
    MaxBarriers     \* bound: calls of Barrier

VARIABLES
    ring, ringVersions, barrierVersion, currentVersion,
    at, stepVersion, executed,  \* OnOperation: i, stepVersion, executeCounter # 0
    pc, task,                   \* label of the consumer, the task it runs
    version,                    \* of each producer: the version Barrier has drawn, or 0
    pushed, done,               \* tasks pushed so far, and executed
    before,                     \* of each barrier: the tasks pushed before it was drawn
    fence, earlier,             \* what has to run before the next task of a ring, and before each task
    lapsed                      \* whether a version may have been passed over: see Properties

queue == <<ring, ringVersions, barrierVersion, currentVersion>>
consumer == <<at, stepVersion, executed, pc, task, done>>
history == <<before, fence, earlier, lapsed>>
vars == <<queue, consumer, version, pushed, history>>

Ids == 1 .. Rings
Tasks == 1 .. MaxTasks

Init ==
    /\ ring = [i \in Ids |-> <<>>]
    /\ ringVersions = [i \in Ids |-> 0]
    /\ barrierVersion = 0 /\ currentVersion = 0
    /\ at = 1 /\ stepVersion = 0 /\ executed = FALSE
    /\ pc = "idle" /\ task = 0 /\ done = {}
    /\ version = [i \in Ids |-> 0]
    /\ pushed = 0
    /\ before = [v \in 1 .. MaxBarriers |-> {}]
    /\ fence = [i \in Ids |-> {}]
    /\ earlier = [t \in Tasks |-> {}]
    /\ lapsed = FALSE

-----------------------------------------------------------------------------
(* The producers                                                             *)

Element(t, v) == [task |-> t, version |-> v]

Push(i) ==
    /\ version[i] = 0
    /\ pushed < MaxTasks
    /\ ring' = [ring EXCEPT ![i] = Append(@, Element(pushed + 1, 0))]
    /\ pushed' = pushed + 1
    /\ earlier' = [earlier EXCEPT ![pushed + 1] = fence[i]]
    /\ UNCHANGED <<ringVersions, barrierVersion, currentVersion, consumer, version, before, fence, lapsed>>

(* A barrier of ring i has been drawn, and is not done with. *)
UnderWay(i) ==
    \/ version[i] # 0
    \/ ringVersions[i] > currentVersion
    \/ \E k \in DOMAIN ring[i] : ring[i][k].version # 0

Barrier(i) ==
    /\ version[i] = 0
    /\ barrierVersion < MaxBarriers
    /\ barrierVersion' = barrierVersion + 1
    /\ version' = [version EXCEPT ![i] = barrierVersion + 1]
    /\ before' = [before EXCEPT ![barrierVersion + 1] = 1 .. pushed]
    /\ lapsed' = (lapsed \/ \E j \in Ids \ {i} : UnderWay(j))
    /\ UNCHANGED <<ring, ringVersions, currentVersion, consumer, pushed, fence, earlier>>

BarrierPush(i) ==
    /\ version[i] # 0
    /\ ring' = [ring EXCEPT ![i] = Append(@, Element(0, version[i]))]
    /\ fence' = [fence EXCEPT ![i] = @ \cup before[version[i]]]
    /\ version' = [version EXCEPT ![i] = 0]
    /\ UNCHANGED <<ringVersions, barrierVersion, currentVersion, consumer, pushed, before, earlier, lapsed>>

Producer == \E i \in Ids : Push(i) \/ Barrier(i) \/ BarrierPush(i)

-----------------------------------------------------------------------------
(* The consumer: OnOperation                                                 *)

unchangedByConsumer == <<barrierVersion, version, pushed, history>>

Begin ==
    /\ pc = "idle"
    /\ pc' = "rings"
    /\ at' = 1 /\ stepVersion' = currentVersion /\ executed' = FALSE
    /\ UNCHANGED <<queue, task, done, version, pushed, history>>

(* A ring is served unless its barrier has to wait. *)
Served == currentVersion >= ringVersions[at]

(* What follows an element: counter is the version of the ring by now. *)
Settle(counter) ==
    /\ stepVersion' = IF currentVersion + 1 = counter THEN counter ELSE stepVersion
    /\ ringVersions' = [ringVersions EXCEPT
          ![at] = IF currentVersion > counter THEN currentVersion ELSE counter]

Pop ==
    /\ pc = "rings" /\ at <= Rings /\ Served /\ ring[at] # <<>>
    /\ ring' = [ring EXCEPT ![at] = Tail(@)]
    /\ executed' = TRUE
    /\ UNCHANGED currentVersion

(* Mutant: a barrier does not change the version of its ring. *)
TakeBarrierIgnored ==
    /\ Pop
    /\ Head(ring[at]).task = 0
    /\ Settle(ringVersions[at])
    /\ UNCHANGED <<at, pc, task, done, unchangedByConsumer>>

TakeBarrier ==
    /\ Pop
    /\ Head(ring[at]).task = 0
    /\ Settle(Head(ring[at]).version)
    /\ UNCHANGED <<at, pc, task, done, unchangedByConsumer>>

TakeTask ==
    /\ Pop
    /\ Head(ring[at]).task # 0
    /\ task' = Head(ring[at]).task
    /\ pc' = "run"
    /\ UNCHANGED <<ringVersions, at, stepVersion, done, unchangedByConsumer>>

(* InvokeOperation, and what follows if it lets the loop go on. *)
Run ==
    /\ pc = "run"
    /\ done' = done \cup {task} /\ task' = 0
    /\ pc' = "rings"
    /\ Settle(ringVersions[at])
    /\ UNCHANGED <<ring, currentVersion, at, executed, unchangedByConsumer>>

(* InvokeOperation has run the task and returns FALSE: stepVersion is lost. *)
RunAndStop ==
    /\ pc = "run"
    /\ done' = done \cup {task} /\ task' = 0
    /\ pc' = "idle"
    /\ lapsed' = (lapsed \/ stepVersion # currentVersion)
    /\ UNCHANGED <<queue, at, stepVersion, executed, version, pushed, before, fence, earlier>>

NextRing ==
    /\ pc = "rings" /\ at <= Rings
    /\ ~Served \/ ring[at] = <<>>
    /\ at' = at + 1
    /\ UNCHANGED <<queue, stepVersion, executed, pc, task, done, version, pushed, history>>

(* Mutant: stepVersion is not stored. *)
NextPassForgets ==
    /\ pc = "rings" /\ at > Rings
    /\ pc' = IF executed THEN "rings" ELSE "idle"
    /\ at' = 1 /\ stepVersion' = currentVersion /\ executed' = FALSE
    /\ UNCHANGED <<queue, task, done, version, pushed, history>>

NextPass ==
    /\ pc = "rings" /\ at > Rings
    /\ currentVersion' = stepVersion
    /\ pc' = IF executed THEN "rings" ELSE "idle"
    /\ at' = 1 /\ executed' = FALSE
    /\ UNCHANGED <<ring, ringVersions, stepVersion, task, done, unchangedByConsumer>>

Consumer == Begin \/ TakeBarrier \/ TakeTask \/ Run \/ RunAndStop \/ NextRing \/ NextPass

Next == Producer \/ Consumer

Spec == Init /\ [][Next]_vars

(* The queue is flushed again and again, and Barrier returns. *)
Fairness == WF_vars(Consumer) /\ \A i \in Ids : WF_vars(BarrierPush(i))

FairSpec == Spec /\ Fairness

-----------------------------------------------------------------------------
(* Properties                                                                *)

TypeOK ==
    /\ \A i \in Ids : \A k \in 1 .. Len(ring[i]) :
          ring[i][k] \in [task : 0 .. MaxTasks, version : 0 .. MaxBarriers]
    /\ ringVersions \in [Ids -> 0 .. MaxBarriers]
    /\ barrierVersion \in 0 .. MaxBarriers /\ currentVersion \in 0 .. barrierVersion
    /\ at \in 1 .. Rings + 1 /\ stepVersion \in {currentVersion, currentVersion + 1}
    /\ executed \in BOOLEAN /\ pc \in {"idle", "rings", "run"}
    /\ task \in 0 .. MaxTasks /\ (task # 0 <=> pc = "run")
    /\ version \in [Ids -> 0 .. MaxBarriers]
    /\ pushed \in 0 .. MaxTasks /\ done \subseteq Tasks

(* What a barrier is for: a task pushed after it runs after every task that  *)
(* any thread has pushed before it.                                          *)
BarrierSeparates == TypeOK /\ (task # 0 => earlier[task] \subseteq done)

(* Two things make a ring pass over a version, and never be served again:    *)
(* barriers of two rings that are under way at once (the test that advances  *)
(* currentVersion is only made when a ring is served), and an execution cut  *)
(* short between a barrier and the end of its pass (stepVersion is lost).    *)
(* lapsed says that one of them has happened.                                *)

(* Otherwise every task that is pushed is run: a ring that is ahead of       *)
(* currentVersion is caught up with.  (The tasks are bounded.)               *)
EveryTaskRuns == []<>(1 .. pushed \subseteq done \/ lapsed)

=============================================================================
