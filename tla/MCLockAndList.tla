---------------------------- MODULE MCLockAndList ----------------------------
(* SharedLock and TQueueList, side by side: `part` is the one that moves. *)
EXTENDS SharedLock

CONSTANTS N, MaxPages, MaxSent, RangeSizes

VARIABLES
    items, nextPage, freed, pushHead, popHead, allocated, wpc, left, room, rpc, sent, received,
    dropped, pageLost,
    part

listVars == <<items, nextPage, freed, pushHead, popHead, allocated, wpc, left, room, rpc, sent,
              received, dropped, pageLost>>

List == INSTANCE TQueueList

ASSUME ListAssumption == List!Assumption

LockAndListInit == Init /\ List!Init /\ part \in {"lock", "list"}

LockAndListNext ==
    \/ part = "lock" /\ Next /\ UNCHANGED <<listVars, part>>
    \/ part = "list" /\ List!Next /\ UNCHANGED <<vars, part>>

(* The fairness of the two *)
LockMoves(A) == part = "lock" /\ A /\ UNCHANGED <<listVars, part>>
ListMoves(A) == part = "list" /\ A /\ UNCHANGED <<vars, part>>

allVars == <<vars, listVars, part>>

LockAndListSpec ==
    /\ LockAndListInit /\ [][LockAndListNext]_allVars
    /\ \A t \in Threads : WF_allVars(LockMoves(Step(t)))
    /\ WF_allVars(ListMoves(List!Reader)) /\ WF_allVars(ListMoves(List!Writer /\ wpc # "idle"))

(* TQueueList: Top finds an element.                                         *)
TopAssertion == List!TopAssertion

(* TQueueList: what is popped is what has been stored, in order.             *)
ImplementsChannel == List!ImplementsChannel

(* TQueueList: what is stored is popped in the end, if nothing is dropped.   *)
EverythingArrives == List!EverythingArrives
=============================================================================
