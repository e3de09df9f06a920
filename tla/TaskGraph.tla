----------------------------- MODULE TaskGraph ------------------------------
(***************************************************************************)
(* TaskGraph of Core/System: tasks that the pool runs in topological       *)
(* order.  The owner inserts nodes, connects them and dispatches the       *)
(* graph; every node counts the predecessors it waits for, and the last    *)
(* node to complete calls the completion and lets go of the graph.         *)
(*                                                                         *)
(* The pool is a set of queued nodes, each of which a thread takes, as     *)
(* ThreadPool and Kernel promise.  A node that QueueRoutine runs at once,  *)
(* on the stack of its caller, is one that is taken before the caller goes *)
(* on.  A step is one access to a counter or to the pool.                  *)
(***************************************************************************)
EXTENDS Integers, FiniteSets

CONSTANTS
    MaxNodes,           \* bound: nodes inserted
    MaxDispatches,      \* bound: calls of Dispatch
    OwnerReferences,    \* the references the owner holds on the graph
    MaySuspend,         \* whether tasks suspend their successors
    MayClose            \* whether the pool may be closed

ASSUME TaskGraphAssumption ==
    /\ MaxNodes \in Nat \ {0} /\ MaxDispatches \in Nat
    /\ OwnerReferences \in Nat \ {0}
    /\ {MaySuspend, MayClose} \subseteq BOOLEAN

VARIABLES
    nodes,              \* taskNodes.size()
    nextNodes,          \* of each node: its successors
    refCount, totalRefCount, completedCount, running,
    refs,               \* references to the graph
    queued,             \* nodes handed to the pool, or to the warp of their host
    closed,             \* the pool is closed
    cpc, at, committed, \* Dispatch: label, n, committed
    npc, left,          \* of each node: label, and the nodes still to release
    suspended,
    started, finished,  \* nodes whose task has been run or aborted since Dispatch
    dispatches, completions

build == <<nodes, nextNodes, totalRefCount>>
counters == <<refCount, completedCount, running, refs>>
pool == <<queued, closed>>
owner == <<cpc, at, committed, dispatches>>
threads == <<npc, left>>
tasks == <<suspended, started, finished>>
vars == <<build, counters, pool, owner, threads, tasks, completions>>

Ids == 1 .. MaxNodes
Nodes == 1 .. nodes

Init ==
    /\ nodes = 0 /\ nextNodes = [n \in Ids |-> {}]
    /\ refCount = [n \in Ids |-> 0] /\ totalRefCount = [n \in Ids |-> 0]
    /\ completedCount = 0 /\ running = 0 /\ refs = OwnerReferences
    /\ queued = {} /\ closed = FALSE
    /\ cpc = "build" /\ at = 1 /\ committed = FALSE
    /\ npc = [n \in Ids |-> "idle"] /\ left = [n \in Ids |-> {}]
    /\ suspended = {} /\ started = {} /\ finished = {}
    /\ dispatches = 0 /\ completions = 0

-----------------------------------------------------------------------------
(* The owner builds the graph                                                *)

(* Next keeps addresses of vector elements that a later Insert may move: the *)
(* owner connects nodes when it has inserted them all.                       *)
Insert ==
    /\ cpc = "build" /\ nodes < MaxNodes
    /\ \A n \in Nodes : nextNodes[n] = {}
    /\ nodes' = nodes + 1
    /\ UNCHANGED <<nextNodes, totalRefCount, counters, pool, owner, threads, tasks, completions>>

(* TaskGraph::Next, once for each edge; nothing keeps the owner from a cycle. *)
Connect ==
    /\ cpc = "build"
    /\ \E from, to \in Nodes :
       /\ to \notin nextNodes[from]
       /\ nextNodes' = [nextNodes EXCEPT ![from] = @ \cup {to}]
       /\ totalRefCount' = [totalRefCount EXCEPT ![to] = @ + 1]
    /\ UNCHANGED <<nodes, counters, pool, owner, threads, tasks, completions>>

Predecessors(n) == {m \in Nodes : n \in nextNodes[m]}

-----------------------------------------------------------------------------
(* Dispatch                                                                  *)

(* "assert(r == 0)" (TaskGraph.cpp, line 151) is taken as what the owner      *)
(* keeps to: it dispatches again when running is 0, which is later than when  *)
(* the completion is called.                                                  *)
MayDispatch ==
    /\ dispatches < MaxDispatches
    /\ cpc \in {"build", "idle"} /\ running = 0

DispatchBegin ==
    /\ MayDispatch
    /\ running' = 1
    /\ refCount' = [n \in Ids |-> IF n \in Nodes THEN totalRefCount[n] + 1 ELSE 0]
    /\ cpc' = "dispatch" /\ at' = 1 /\ committed' = FALSE
    /\ dispatches' = dispatches + 1
    /\ started' = {} /\ finished' = {}
    /\ UNCHANGED <<build, completedCount, refs, pool, threads, suspended, completions>>

(* Dispatch of the pool, which has no effect on a node that is queued, or    *)
(* QueueRoutine.                                                             *)
Hand(n) ==
    /\ queued' = queued \cup {n}
    /\ UNCHANGED closed

(* One predecessor less, or one call of Suspend. *)
CountDown(n) ==
    /\ refCount' = [refCount EXCEPT ![n] = @ - 1]
    /\ IF refCount[n] = 1 THEN Hand(n) ELSE UNCHANGED pool

DispatchNode ==
    /\ cpc = "dispatch" /\ at <= nodes
    /\ CountDown(at)
    /\ committed' = (committed \/ refCount[at] = 1)
    /\ at' = at + 1
    /\ UNCHANGED <<build, completedCount, running, refs, cpc, dispatches, threads, tasks, completions>>

DispatchEnd ==
    /\ cpc = "dispatch" /\ at > nodes
    /\ refs' = IF committed THEN refs + 1 ELSE refs
    /\ cpc' = IF committed THEN "idle" ELSE "failed"
    /\ UNCHANGED <<build, refCount, completedCount, running, pool, at, committed, dispatches,
                   threads, tasks, completions>>

Owner == Insert \/ Connect \/ DispatchBegin \/ DispatchNode \/ DispatchEnd

-----------------------------------------------------------------------------
(* TaskNode                                                                  *)

At(n, from, to) == npc[n] = from /\ npc' = [npc EXCEPT ![n] = to]

Take(n) ==
    /\ n \in queued
    /\ At(n, "idle", IF closed THEN "abort" ELSE "task")
    /\ queued' = queued \ {n}
    /\ started' = started \cup {n}
    /\ UNCHANGED <<build, counters, closed, owner, left, suspended, finished, completions>>

(* The task of the node has run. *)
TaskEnd(n) ==
    /\ At(n, "task", "release")
    /\ finished' = finished \cup {n}
    /\ left' = [left EXCEPT ![n] = nextNodes[n]]
    /\ UNCHANGED <<build, counters, pool, owner, suspended, started, completions>>

(* Mutant: a successor is handed to the pool by its first predecessor. *)
ReleaseEager(n) ==
    \E m \in left[n] :
       /\ npc[n] = "release"
       /\ refCount' = [refCount EXCEPT ![m] = @ - 1]
       /\ Hand(m)
       /\ left' = [left EXCEPT ![n] = @ \ {m}]
       /\ UNCHANGED <<build, completedCount, running, refs, owner, npc, tasks, completions>>

Release(n) ==
    \E m \in left[n] :
       /\ npc[n] = "release"
       /\ CountDown(m)
       /\ left' = [left EXCEPT ![n] = @ \ {m}]
       /\ UNCHANGED <<build, completedCount, running, refs, owner, npc, tasks, completions>>

(* Abort runs the Abort of the task, and of the successors that wait for     *)
(* nothing else: of their tasks, not of their nodes.                         *)
TaskAbort(n) ==
    /\ At(n, "abort", "aborting")
    /\ finished' = finished \cup {n}
    /\ left' = [left EXCEPT ![n] = nextNodes[n]]
    /\ UNCHANGED <<build, counters, pool, owner, suspended, started, completions>>

AbortSuccessor(n) ==
    \E m \in left[n] :
       /\ npc[n] = "aborting"
       /\ refCount' = [refCount EXCEPT ![m] = @ - 1]
       /\ finished' = IF refCount[m] = 1 THEN finished \cup {m} ELSE finished
       /\ left' = [left EXCEPT ![n] = @ \ {m}]
       /\ UNCHANGED <<build, completedCount, running, refs, pool, owner, npc, suspended, started, completions>>

(* The host of the node is released too. *)
ReleaseHost(n) ==
    /\ left[n] = {}
    /\ At(n, "release", "complete") \/ At(n, "aborting", "complete")
    /\ UNCHANGED <<build, counters, pool, owner, left, tasks, completions>>

-----------------------------------------------------------------------------
(* Complete                                                                  *)

(* Mutant: the last node but one completes the graph. *)
CountOneFewer(n) ==
    /\ At(n, "complete", IF completedCount + 2 = nodes THEN "completion" ELSE "idle")
    /\ completedCount' = completedCount + 1
    /\ UNCHANGED <<build, refCount, running, refs, pool, owner, left, tasks, completions>>

Count(n) ==
    /\ At(n, "complete", IF completedCount + 1 = nodes THEN "completion" ELSE "idle")
    /\ completedCount' = completedCount + 1
    /\ UNCHANGED <<build, refCount, running, refs, pool, owner, left, tasks, completions>>

Completion(n) ==
    /\ At(n, "completion", "reset")
    /\ completions' = completions + 1
    /\ UNCHANGED <<build, counters, pool, owner, left, tasks>>

Reset(n) ==
    /\ At(n, "reset", "stop")
    /\ completedCount' = 0
    /\ UNCHANGED <<build, refCount, running, refs, pool, owner, left, tasks, completions>>

Stop(n) ==
    /\ At(n, "stop", "unreference")
    /\ running' = 0
    /\ UNCHANGED <<build, refCount, completedCount, refs, pool, owner, left, tasks, completions>>

(* Mutant: the node that completes the graph does not let go of it. *)
UnreferenceNot(n) ==
    /\ At(n, "unreference", "idle")
    /\ UNCHANGED <<build, counters, pool, owner, left, tasks, completions>>

Unreference(n) ==
    /\ At(n, "unreference", "idle")
    /\ refs' = refs - 1
    /\ UNCHANGED <<build, refCount, completedCount, running, pool, owner, left, tasks, completions>>

Node(n) ==
    \/ Take(n) \/ TaskEnd(n) \/ Release(n) \/ TaskAbort(n) \/ AbortSuccessor(n) \/ ReleaseHost(n)
    \/ Count(n) \/ Completion(n) \/ Reset(n) \/ Stop(n) \/ Unreference(n)

-----------------------------------------------------------------------------
(* A task suspends a successor of its node, "before target task actually     *)
(* runs" (TaskGraph.h), and somebody resumes it.                             *)
Suspend(m) ==
    /\ MaySuspend
    /\ \E n \in Predecessors(m) : npc[n] = "task"
    /\ m \notin suspended
    /\ suspended' = suspended \cup {m}
    /\ refCount' = [refCount EXCEPT ![m] = @ + 1]
    /\ UNCHANGED <<build, completedCount, running, refs, pool, owner, threads, started, finished, completions>>

(* Mutant: Resume only counts. *)
ResumeUnhanded(m) ==
    /\ m \in suspended
    /\ suspended' = suspended \ {m}
    /\ refCount' = [refCount EXCEPT ![m] = @ - 1]
    /\ UNCHANGED <<build, completedCount, running, refs, pool, owner, threads, started, finished, completions>>

Resume(m) ==
    /\ m \in suspended
    /\ suspended' = suspended \ {m}
    /\ CountDown(m)
    /\ UNCHANGED <<build, completedCount, running, refs, owner, threads, started, finished, completions>>

Close ==
    /\ MayClose /\ ~closed
    /\ closed' = TRUE
    /\ UNCHANGED <<build, counters, queued, owner, threads, tasks, completions>>

Next == Owner \/ (\E n \in Ids : Node(n) \/ Suspend(n) \/ Resume(n)) \/ Close

Spec == Init /\ [][Next]_vars

(* Dispatch goes on, the pool runs what it is given, tasks end, and what is  *)
(* suspended is resumed.                                                     *)
Fairness ==
    /\ WF_vars(DispatchNode \/ DispatchEnd)
    /\ \A n \in Ids : WF_vars(Node(n)) /\ WF_vars(Resume(n))

FairSpec == Spec /\ Fairness

-----------------------------------------------------------------------------
(* Properties                                                                *)

Quiet == queued = {} /\ \A n \in Ids : npc[n] = "idle"

TypeOK ==
    /\ nodes \in 0 .. MaxNodes /\ nextNodes \in [Ids -> SUBSET Nodes]
    /\ refCount \in [Ids -> Nat] /\ totalRefCount \in [Ids -> Nat]
    /\ completedCount \in 0 .. nodes /\ running \in {0, 1} /\ refs \in Nat
    /\ queued \subseteq Nodes /\ closed \in BOOLEAN
    /\ cpc \in {"build", "dispatch", "idle", "failed"} /\ at \in 1 .. MaxNodes + 1
    /\ committed \in BOOLEAN
    /\ npc \in [Ids -> {"idle", "task", "release", "abort", "aborting", "complete", "completion",
                        "reset", "stop", "unreference"}]
    /\ left \in [Ids -> SUBSET Ids]
    /\ suspended \subseteq Nodes /\ started \subseteq Nodes /\ finished \subseteq Nodes
    /\ dispatches \in 0 .. MaxDispatches /\ completions \in Nat

(* "add relation that 'to' must be executed after 'from' executed"           *)
(* (TaskGraph.h, line 22).                                                   *)
TopologicalOrder ==
    \A n \in Ids : npc[n] \in {"task", "abort"} => Predecessors(n) \subseteq finished

(* "all tasks finished" (TaskGraph.cpp, line 81): when the completion is     *)
(* called no task is left, and it is called once for every run.              *)
CompletionIsLast ==
    /\ \A n \in Ids : npc[n] = "completion" => finished = Nodes /\ queued = {}
    /\ completions <= dispatches

(* Nothing of the last run is left when the next one begins.                 *)
DispatchFresh ==
    [][dispatches' # dispatches =>
         /\ queued = {} /\ completedCount = 0
         /\ \A n \in Ids : npc[n] \in {"idle", "unreference"}]_vars

(* Each run takes one reference on the graph and returns it.                 *)
ReferencesBalanced == TypeOK /\ (Quiet /\ running = 0 /\ cpc # "dispatch" => refs = OwnerReferences)

Acyclic ==
    \A S \in SUBSET Nodes : S # {} => \E n \in S : Predecessors(n) \cap S = {}

(* A graph without a cycle whose Dispatch has returned TRUE is completed,    *)
(* unless the pool is closed ("Callback on all task finished",               *)
(* BridgeSunset.h, line 160).                                                *)
EveryRunCompletes ==
    cpc = "idle" /\ Acyclic ~> completions = dispatches \/ closed

=============================================================================
