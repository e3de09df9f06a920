--------------------------- MODULE MCGraphAndQueue ---------------------------
(* TaskGraph and TaskQueue, side by side: `part` is the one that moves. *)
EXTENDS TaskGraph

CONSTANTS Rings, MaxTasks, MaxBarriers

VARIABLES
    ring, ringVersions, barrierVersion, currentVersion, i, stepVersion, executed, pc, task,
    version, pushed, done, before, fence, earlier, lapsed,
    part

queueVars == <<ring, ringVersions, barrierVersion, currentVersion, i, stepVersion, executed, pc,
               task, version, pushed, done, before, fence, earlier, lapsed>>

Queue == INSTANCE TaskQueue WITH at <- i

GraphAndQueueInit == Init /\ Queue!Init /\ part \in {"graph", "queue"}

GraphAndQueueNext ==
    \/ part = "graph" /\ Next /\ UNCHANGED <<queueVars, part>>
    \/ part = "queue" /\ Queue!Next /\ UNCHANGED <<vars, part>>

(* The fairness of the two *)
GraphMoves(A) == part = "graph" /\ A /\ UNCHANGED <<queueVars, part>>
QueueMoves(A) == part = "queue" /\ A /\ UNCHANGED <<vars, part>>

allVars == <<vars, queueVars, part>>

GraphAndQueueSpec ==
    /\ GraphAndQueueInit /\ [][GraphAndQueueNext]_allVars
    /\ WF_allVars(GraphMoves(DispatchNode \/ DispatchEnd))
    /\ \A n \in Ids : WF_allVars(GraphMoves(Node(n))) /\ WF_allVars(GraphMoves(Resume(n)))
    /\ WF_allVars(QueueMoves(Queue!Consumer))
    /\ \A r \in 1 .. Rings : WF_allVars(QueueMoves(Queue!BarrierPush(r)))

(* TaskQueue: a task pushed after a barrier runs after every task that any   *)
(* thread has pushed before it.                                              *)
BarrierSeparates == Queue!BarrierSeparates

(* TaskQueue: every task that is pushed is run, if no barrier is passed over.*)
EveryTaskRuns == Queue!EveryTaskRuns
=============================================================================
