--------------------------- MODULE TaskGraphProofs ---------------------------
(***************************************************************************)
(* Theorems about TaskGraph, for every graph, any number of dispatches,    *)
(* suspensions and a pool that may be closed at any moment.                *)
(*                                                                         *)
(* None of the properties is inductive.  What they rest on is what refCount*)
(* counts (CountsOK), that a node is counted as completed once in a run    *)
(* (DoneOK), and that nothing of a run is left when running is 0 (RestOK). *)
(***************************************************************************)
EXTENDS MCGraphAndQueue, FiniteSetTheorems, TLAPS

Bit(b) == IF b THEN 1 ELSE 0

(* The predecessors of m that have not released it in this run.              *)
Pending(m) ==
    {p \in Predecessors(m) :
        p \notin started \/ npc[p] \in {"task", "abort"} \/ m \in left[p]}

Handed == queued \cup started

(* The nodes that are counted as completed, until completedCount is reset.   *)
Counted == {n \in started : npc[n] \in {"idle", "completion", "reset"}}

IsLast(n) == npc[n] \in {"completion", "reset", "stop"}

Waiting == {n \in Ids : npc[n] = "unreference"}

(* totalRefCount is the number of predecessors, and a graph is built before  *)
(* it runs.                                                                  *)
GraphOK ==
    /\ \A n \in Ids : totalRefCount[n] = Cardinality(Predecessors(n))
    /\ \A n \in Ids \ Nodes : nextNodes[n] = {} /\ npc[n] = "idle"
    /\ cpc = "build" => running = 0

(* refCount counts what a node waits for; it waits for nothing if it has been*)
(* handed to the pool, which happens once in a run.                          *)
CountsOK ==
    /\ running = 1 =>
        /\ \A m \in Nodes :
            refCount[m] = Cardinality(Pending(m)) + Bit(cpc = "dispatch" /\ at <= m)
                            + Bit(m \in suspended)
        /\ \A m \in Handed : refCount[m] = 0
    /\ queued \cap started = {}

(* Where the nodes are.                                                      *)
NodesOK ==
    \A n \in Ids :
        /\ npc[n] \notin {"idle", "unreference"} => n \in started /\ running = 1
        /\ running = 1 /\ npc[n] = "unreference" => n \notin started
        /\ left[n] \subseteq nextNodes[n]
        /\ left[n] # {} => npc[n] \in {"release", "aborting"}
        /\ n \in started /\ npc[n] \notin {"task", "abort"} => n \in finished

(* The node that completes the graph is the last one, and alone.             *)
LastOK ==
    \A n \in Ids : IsLast(n) => started = Nodes /\ \A k \in Ids \ {n} : npc[k] = "idle"

DoneOK ==
    running = 1 =>
        completedCount = IF \E n \in Ids : npc[n] = "stop" THEN 0 ELSE Cardinality(Counted)

(* Nothing of a run is left when running is 0.                               *)
RestOK ==
    running = 0 =>
        /\ queued = {} /\ suspended = {} /\ completedCount = 0
        /\ cpc # "failed" /\ (cpc = "dispatch" => at > nodes /\ committed)

(* A run begins with a node that Dispatch hands to the pool.                 *)
CommitOK ==
    /\ cpc \in {"dispatch", "failed"} /\ Handed # {} => committed
    /\ cpc = "failed" => ~committed
    /\ suspended # {} => started # {}

(* The references on the graph: one for a run from the end of Dispatch until *)
(* its last node lets go, which may come first.                              *)
RefsOK ==
    /\ refs = OwnerReferences + Bit(Waiting # {})
                + IF running = 1 THEN Bit(cpc = "idle") ELSE - Bit(cpc = "dispatch")
    /\ \A n, k \in Waiting : n = k

CallsOK ==
    /\ completions <= dispatches
    /\ running = 1 /\ (\A n \in Ids : npc[n] \notin {"reset", "stop"}) => completions < dispatches

IInv ==
    /\ TypeOK /\ GraphOK /\ CountsOK /\ NodesOK /\ LastOK /\ DoneOK /\ RestOK /\ CommitOK
    /\ RefsOK /\ CallsOK

-----------------------------------------------------------------------------
(* Sets and their sizes                                                      *)

(* A set of nodes is finite, and all of them are as many as nodes says.      *)
LEMMA NodeSets ==
  ASSUME TypeOK, NEW S \in SUBSET Nodes
  PROVE  /\ IsFiniteSet(S) /\ Cardinality(S) \in 0 .. nodes
         /\ Cardinality(S) = nodes => S = Nodes
  <1>1. nodes \in Nat
    BY DEF TypeOK
  <1>2. IsFiniteSet(Nodes) /\ Cardinality(Nodes) = nodes
    BY <1>1, FS_Interval DEF Nodes
  <1> QED
    BY <1>1, <1>2, FS_Subset, FS_CardinalityType

(* Nodes are named by Ids.                                                   *)
LEMMA NodesAreIds ==
  ASSUME TypeOK
  PROVE  Nodes \subseteq Ids /\ nodes \in Nat /\ nodes <= MaxNodes
  BY TaskGraphAssumption DEF TypeOK, Nodes, Ids

(* One element more or less.                                                 *)
LEMMA OneLess ==
  ASSUME NEW S, IsFiniteSet(S), NEW x \in S
  PROVE  /\ Cardinality(S) \in Nat \ {0}
         /\ Cardinality(S \ {x}) = Cardinality(S) - 1
  BY FS_RemoveElement, FS_CardinalityType, FS_EmptySet

(* And one more.                                                             *)
LEMMA OneMore ==
  ASSUME NEW S, IsFiniteSet(S), NEW x, x \notin S
  PROVE  Cardinality(S \cup {x}) = Cardinality(S) + 1
  BY FS_AddElement

(* What is pending is a set of nodes.                                        *)
LEMMA PendingSize ==
  ASSUME TypeOK, NEW m
  PROVE  IsFiniteSet(Pending(m)) /\ Cardinality(Pending(m)) \in Nat
  <1>1. Pending(m) \in SUBSET Nodes
    BY DEF Pending, Predecessors
  <1> QED
    BY <1>1, NodeSets

(* Who waits for something has not been handed to the pool.                  *)
LEMMA WhoWaits ==
  ASSUME IInv, running = 1, NEW m \in Nodes,
         Pending(m) # {} \/ (cpc = "dispatch" /\ at <= m) \/ m \in suspended
  PROVE  refCount[m] \in Nat \ {0} /\ m \notin Handed
  <1>1. Cardinality(Pending(m)) \in Nat /\ (Pending(m) # {} => Cardinality(Pending(m)) # 0)
    BY PendingSize, FS_EmptySet DEF IInv
  <1>2. refCount[m] = Cardinality(Pending(m)) + Bit(cpc = "dispatch" /\ at <= m)
                        + Bit(m \in suspended)
    BY DEF IInv, CountsOK
  <1>3. Bit(cpc = "dispatch" /\ at <= m) \in {0, 1} /\ Bit(m \in suspended) \in {0, 1}
    BY DEF Bit
  <1>4. refCount[m] \in Nat \ {0}
    BY <1>1, <1>2, <1>3 DEF Bit
  <1> QED
    BY <1>4 DEF IInv, CountsOK

(* A node that releases its successors is pending for each of them.          *)
LEMMA Releases ==
  ASSUME IInv, NEW n \in Ids, NEW m \in left[n]
  PROVE  /\ running = 1 /\ n \in started /\ n \in Nodes /\ m \in Nodes /\ n \in Pending(m)
         /\ refCount[m] \in Nat \ {0} /\ m \notin Handed
         /\ npc[n] \in {"release", "aborting"}
  <1>1. running = 1 /\ n \in started /\ m \in nextNodes[n] /\ npc[n] \in {"release", "aborting"}
    BY DEF IInv, NodesOK
  <1>2. n \in Nodes /\ m \in Nodes
    BY <1>1 DEF IInv, TypeOK
  <1>3. n \in Pending(m)
    BY <1>1, <1>2 DEF Pending, Predecessors
  <1> QED
    BY <1>1, <1>2, <1>3, WhoWaits

(* A node in its task keeps its successors waiting.                          *)
LEMMA TaskHolds ==
  ASSUME IInv, NEW n \in Nodes, npc[n] \in {"task", "abort"}, NEW m \in nextNodes[n]
  PROVE  /\ running = 1 /\ m \in Nodes /\ n \in Pending(m) /\ n \in started
         /\ refCount[m] \in Nat \ {0} /\ m \notin Handed
  <1>1. n \in Ids
    BY NodesAreIds DEF IInv
  <1>2. running = 1 /\ n \in started /\ m \in Nodes
    BY <1>1 DEF IInv, NodesOK, TypeOK
  <1>3. n \in Pending(m)
    BY DEF Pending, Predecessors
  <1> QED
    BY <1>2, <1>3, WhoWaits

-----------------------------------------------------------------------------
(* The properties follow from the invariant                                  *)

(* The order, the last completion and the references.                        *)
LEMMA Implied ==
  ASSUME IInv
  PROVE  TopologicalOrder /\ CompletionIsLast /\ ReferencesBalanced
  <1>1. TopologicalOrder
    <2>1. SUFFICES ASSUME NEW n \in Ids, npc[n] \in {"task", "abort"}, NEW p \in Predecessors(n)
                   PROVE  p \in finished
      BY DEF TopologicalOrder
    <2>2. running = 1 /\ n \in started /\ n \in Nodes
      BY <2>1 DEF IInv, NodesOK, TypeOK
    <2>3. Pending(n) = {}
      BY <2>2, WhoWaits DEF Handed
    <2>4. p \in Ids /\ p \in started /\ npc[p] \notin {"task", "abort"}
      BY <2>1, <2>3, NodesAreIds DEF Pending, Predecessors, IInv
    <2> QED
      BY <2>4 DEF IInv, NodesOK
  <1>2. CompletionIsLast
    <2>1. ASSUME NEW n \in Ids, npc[n] = "completion"
          PROVE  finished = Nodes /\ queued = {}
      <3>1. started = Nodes /\ \A k \in Ids \ {n} : npc[k] = "idle"
        BY <2>1 DEF IInv, LastOK, IsLast
      <3>2. Nodes \subseteq finished
        BY <2>1, <3>1, NodesAreIds DEF IInv, NodesOK
      <3> QED
        BY <3>1, <3>2 DEF IInv, CountsOK, TypeOK
    <2> QED
      BY <2>1 DEF CompletionIsLast, IInv, CallsOK
  <1>3. ReferencesBalanced
    <2>1. ASSUME Quiet, running = 0, cpc # "dispatch"
          PROVE  refs = OwnerReferences
      <3>1. Waiting = {}
        BY <2>1 DEF Quiet, Waiting
      <3> QED
        BY <2>1, <3>1, TaskGraphAssumption DEF IInv, RefsOK, Bit
    <2> QED
      BY <2>1 DEF ReferencesBalanced, IInv
  <1> QED
    BY <1>1, <1>2, <1>3

-----------------------------------------------------------------------------
(* What an action has to leave alone                                         *)

(* The graph is the same.                                                    *)
LEMMA SameGraph ==
  ASSUME IInv, UNCHANGED build, cpc' = "build" => running' = 0,
         \A n \in Ids \ Nodes : npc'[n] = "idle"
  PROVE  GraphOK' /\ Nodes' = Nodes /\ \A n : Predecessors(n)' = Predecessors(n)
  <1>1. UNCHANGED <<nodes, nextNodes, totalRefCount>>
    BY DEF build
  <1>2. Nodes' = Nodes
    BY <1>1 DEF Nodes
  <1>3. \A n : Predecessors(n)' = Predecessors(n)
    BY <1>1, <1>2 DEF Predecessors
  <1> QED
    BY <1>1, <1>2, <1>3 DEF IInv, GraphOK

(* And the same nodes hold up m.                                             *)
LEMMA SamePending ==
  ASSUME UNCHANGED build, NEW m,
         \A p \in Predecessors(m) :
            p \in Pending(m) <=> (p \notin started' \/ npc'[p] \in {"task", "abort"} \/ m \in left'[p])
  PROVE  Pending(m)' = Pending(m)
  <1>1. Predecessors(m)' = Predecessors(m)
    BY DEF Predecessors, build, Nodes
  <1> QED
    BY <1>1 DEF Pending

(* CountsOK, if nothing it is about changes.                                 *)
LEMMA SameCounts ==
  ASSUME IInv, UNCHANGED <<build, refCount, running, queued, started, cpc, at, suspended>>,
         \A m \in Nodes : Pending(m)' = Pending(m)
  PROVE  CountsOK'
  BY DEF IInv, CountsOK, build, Nodes, Handed

-----------------------------------------------------------------------------
(* The steps of a node                                                       *)

(* A thread takes a node that the pool holds.                                *)
LEMMA TakeKeeps ==
  ASSUME IInv, NEW n \in Ids, Take(n)
  PROVE  IInv'
  <1>1. /\ n \in queued /\ npc[n] = "idle" /\ n \in Nodes /\ n \notin started
        /\ running = 1
        /\ npc' = [npc EXCEPT ![n] = IF closed THEN "abort" ELSE "task"]
        /\ queued' = queued \ {n} /\ started' = started \cup {n}
        /\ UNCHANGED <<build, counters, closed, owner, left, suspended, finished, completions>>
    BY DEF Take, At, IInv, TypeOK, RestOK, CountsOK
  <1>2. npc'[n] \in {"task", "abort"} /\ \A k \in Ids \ {n} : npc'[k] = npc[k]
    BY <1>1 DEF IInv, TypeOK
  <1>3. TypeOK'
    BY <1>1 DEF IInv, TypeOK, build, counters, owner, Nodes
  <1>4. GraphOK'
    BY <1>1, <1>2, SameGraph DEF owner, counters, IInv, GraphOK
  <1>5. CountsOK'
    <2>1. \A m \in Nodes : Pending(m)' = Pending(m)
      BY <1>1, <1>2, SamePending, NodesAreIds DEF Pending, Predecessors, IInv
    <2>2. Handed' = Handed
      BY <1>1 DEF Handed
    <2> QED
      BY <1>1, <2>1, <2>2 DEF IInv, CountsOK, build, counters, owner, Nodes
  <1>6. NodesOK'
    BY <1>1, <1>2 DEF IInv, NodesOK, build, counters, TypeOK
  <1>7. LastOK' /\ \A k \in Ids : ~IsLast(k)
    BY <1>1, <1>2 DEF IInv, LastOK, IsLast
  <1>8. DoneOK'
    <2>1. Counted' = Counted
      BY <1>1, <1>2, NodesAreIds DEF Counted, IInv, TypeOK
    <2> QED
      BY <1>1, <1>2, <1>7, <2>1 DEF IInv, DoneOK, counters, IsLast
  <1>9. RestOK' /\ CommitOK'
    BY <1>1 DEF IInv, RestOK, CommitOK, Handed, counters, owner
  <1>10. RefsOK'
    <2>1. Waiting' = Waiting
      BY <1>1, <1>2 DEF Waiting
    <2> QED
      BY <1>1, <2>1 DEF IInv, RefsOK, counters, owner
  <1>11. CallsOK'
    BY <1>1, <1>2 DEF IInv, CallsOK, counters, owner
  <1> QED
    BY <1>3, <1>4, <1>5, <1>6, <1>7, <1>8, <1>9, <1>10, <1>11 DEF IInv

(* Its task ends: the successors go on waiting, now for their release.       *)
LEMMA TaskKeeps ==
  ASSUME IInv, NEW n \in Ids, TaskEnd(n) \/ TaskAbort(n)
  PROVE  IInv'
  <1>1. /\ npc[n] \in {"task", "abort"} /\ n \in Nodes /\ n \in started /\ running = 1
        /\ npc' = [npc EXCEPT ![n] = IF npc[n] = "task" THEN "release" ELSE "aborting"]
        /\ finished' = finished \cup {n} /\ left' = [left EXCEPT ![n] = nextNodes[n]]
        /\ UNCHANGED <<build, counters, pool, owner, suspended, started, completions>>
    BY DEF TaskEnd, TaskAbort, At, IInv, TypeOK, NodesOK
  <1>2. npc'[n] \in {"release", "aborting"} /\ \A k \in Ids \ {n} : npc'[k] = npc[k]
    BY <1>1 DEF IInv, TypeOK
  <1>3. TypeOK'
    BY <1>1, <1>2, NodesAreIds DEF IInv, TypeOK, build, counters, pool, owner, Nodes
  <1>4. GraphOK'
    BY <1>1, <1>2, SameGraph DEF owner, counters, IInv, GraphOK
  <1>5. CountsOK'
    <2>1. \A m \in Nodes : Pending(m)' = Pending(m)
      BY <1>1, <1>2, SamePending, NodesAreIds DEF Pending, Predecessors, IInv, TypeOK
    <2> QED
      BY <1>1, <2>1, SameCounts DEF counters, pool, owner
  <1>6. NodesOK'
    BY <1>1, <1>2 DEF IInv, NodesOK, build, counters, TypeOK
  <1>7. LastOK' /\ \A k \in Ids : ~IsLast(k)
    BY <1>1, <1>2 DEF IInv, LastOK, IsLast
  <1>8. DoneOK'
    <2>1. Counted' = Counted
      BY <1>1, <1>2, NodesAreIds DEF Counted, IInv, TypeOK
    <2> QED
      BY <1>1, <1>2, <1>7, <2>1 DEF IInv, DoneOK, counters, IsLast
  <1>9. RestOK' /\ CommitOK'
    BY <1>1 DEF IInv, RestOK, CommitOK, Handed, counters, owner, pool
  <1>10. RefsOK'
    <2>1. Waiting' = Waiting
      BY <1>1, <1>2 DEF Waiting
    <2> QED
      BY <1>1, <2>1 DEF IInv, RefsOK, counters, owner
  <1>11. CallsOK'
    BY <1>1, <1>2 DEF IInv, CallsOK, counters, owner
  <1> QED
    BY <1>3, <1>4, <1>5, <1>6, <1>7, <1>8, <1>9, <1>10, <1>11 DEF IInv

(* Release and AbortSuccessor.                                               *)
LEMMA ReleaseKeeps ==
  ASSUME IInv, NEW n \in Ids, Release(n) \/ AbortSuccessor(n)
  PROVE  IInv'
  <1>1. PICK m \in left[n] :
            /\ npc[n] \in {"release", "aborting"}
            /\ refCount' = [refCount EXCEPT ![m] = @ - 1]
            /\ left' = [left EXCEPT ![n] = @ \ {m}]
            /\ queued' \in {queued, IF refCount[m] = 1 THEN queued \cup {m} ELSE queued}
            /\ finished' \in {finished, finished \cup {m}}
            /\ UNCHANGED <<build, completedCount, running, refs, closed, owner, npc, suspended,
                           started, completions>>
    BY DEF Release, AbortSuccessor, CountDown, Hand, pool, tasks
  <1>2. /\ running = 1 /\ n \in started /\ n \in Nodes /\ m \in Nodes /\ n \in Pending(m)
        /\ refCount[m] \in Nat \ {0} /\ m \notin Handed /\ m \in Ids
    BY <1>1, Releases, NodesAreIds DEF IInv
  <1>3. TypeOK'
    BY <1>1, <1>2 DEF IInv, TypeOK, build, owner, Nodes
  <1>4. GraphOK'
    BY <1>1, SameGraph DEF owner, IInv, GraphOK
  <1>5. CountsOK'
    <2>1. \A k \in Nodes \ {m} : Pending(k)' = Pending(k)
      BY <1>1, <1>2, SamePending, NodesAreIds DEF Pending, Predecessors, IInv, TypeOK
    <2>2. Pending(m)' = Pending(m) \ {n}
      <3>1. Predecessors(m)' = Predecessors(m)
        BY <1>1 DEF Predecessors, build, Nodes
      <3>2. left'[n] = left[n] \ {m} /\ \A k \in Ids \ {n} : left'[k] = left[k]
        BY <1>1 DEF IInv, TypeOK
      <3> QED
        BY <1>1, <1>2, <3>1, <3>2, NodesAreIds DEF Pending, Predecessors, IInv
    <2>3. Cardinality(Pending(m)') = Cardinality(Pending(m)) - 1
      BY <1>2, <2>2, PendingSize, OneLess DEF IInv
    <2>4. refCount'[m] = refCount[m] - 1 /\ \A k \in Ids \ {m} : refCount'[k] = refCount[k]
      BY <1>1, <1>2 DEF IInv, TypeOK
    <2>5. \A k \in Nodes :
            refCount'[k] = Cardinality(Pending(k)') + Bit(cpc = "dispatch" /\ at <= k)
                             + Bit(k \in suspended)
      <3>1. \A k \in Nodes :
              refCount[k] = Cardinality(Pending(k)) + Bit(cpc = "dispatch" /\ at <= k)
                              + Bit(k \in suspended)
        BY <1>2 DEF IInv, CountsOK
      <3>2. /\ Bit(cpc = "dispatch" /\ at <= m) \in Int /\ Bit(m \in suspended) \in Int
            /\ Cardinality(Pending(m)) \in Nat
        BY PendingSize DEF Bit, IInv
      <3> QED
        BY <1>2, <2>1, <2>3, <2>4, <3>1, <3>2, NodesAreIds DEF IInv
    <2>6. \A k \in Handed' : refCount'[k] = 0
      BY <1>1, <1>2, <2>4, NodesAreIds DEF IInv, CountsOK, Handed, TypeOK
    <2> QED
      BY <1>1, <1>2, <2>5, <2>6 DEF CountsOK, IInv, build, owner, Nodes, Handed
  <1>6. NodesOK'
    BY <1>1, <1>2 DEF IInv, NodesOK, build, TypeOK
  <1>7. LastOK' /\ \A k \in Ids : ~IsLast(k)
    <2>1. \A k \in Ids : ~IsLast(k)
      BY <1>1 DEF IInv, LastOK, IsLast
    <2> QED
      BY <1>1, <2>1 DEF LastOK, IsLast
  <1>8. DoneOK'
    <2>1. Counted' = Counted
      BY <1>1 DEF Counted
    <2> QED
      BY <1>1, <2>1 DEF IInv, DoneOK
  <1>9. RestOK' /\ CommitOK'
    BY <1>1, <1>2 DEF IInv, RestOK, CommitOK, Handed, owner
  <1>10. RefsOK'
    <2>1. Waiting' = Waiting
      BY <1>1 DEF Waiting
    <2> QED
      BY <1>1, <2>1 DEF IInv, RefsOK, owner
  <1>11. CallsOK'
    BY <1>1 DEF IInv, CallsOK, owner
  <1> QED
    BY <1>3, <1>4, <1>5, <1>6, <1>7, <1>8, <1>9, <1>10, <1>11 DEF IInv

(* All successors have been released.                                        *)
LEMMA HostKeeps ==
  ASSUME IInv, NEW n \in Ids, ReleaseHost(n)
  PROVE  IInv'
  <1>1. /\ npc[n] \in {"release", "aborting"} /\ left[n] = {} /\ running = 1 /\ n \in started
        /\ npc' = [npc EXCEPT ![n] = "complete"]
        /\ UNCHANGED <<build, counters, pool, owner, left, tasks, completions>>
    BY DEF ReleaseHost, At, IInv, NodesOK
  <1>2. npc'[n] = "complete" /\ \A k \in Ids \ {n} : npc'[k] = npc[k]
    BY <1>1 DEF IInv, TypeOK
  <1>3. TypeOK'
    BY <1>1, <1>2 DEF IInv, TypeOK, build, counters, pool, owner, tasks, Nodes
  <1>4. GraphOK'
    BY <1>1, <1>2, SameGraph DEF owner, counters, IInv, GraphOK, TypeOK
  <1>5. CountsOK'
    <2>1. \A m \in Nodes : Pending(m)' = Pending(m)
      BY <1>1, <1>2, SamePending, NodesAreIds DEF Pending, Predecessors, IInv, TypeOK, tasks
    <2> QED
      BY <1>1, <2>1, SameCounts DEF counters, pool, owner, tasks
  <1>6. NodesOK'
    BY <1>1, <1>2 DEF IInv, NodesOK, build, counters, tasks, TypeOK
  <1>7. LastOK' /\ \A k \in Ids : ~IsLast(k)
    BY <1>1, <1>2 DEF IInv, LastOK, IsLast, tasks, build
  <1>8. DoneOK'
    <2>1. Counted' = Counted
      BY <1>1, <1>2, NodesAreIds DEF Counted, IInv, TypeOK, tasks
    <2> QED
      BY <1>1, <1>2, <1>7, <2>1 DEF IInv, DoneOK, counters, IsLast
  <1>9. RestOK' /\ CommitOK'
    BY <1>1 DEF IInv, RestOK, CommitOK, Handed, counters, owner, pool, tasks
  <1>10. RefsOK'
    <2>1. Waiting' = Waiting
      BY <1>1, <1>2 DEF Waiting
    <2> QED
      BY <1>1, <2>1 DEF IInv, RefsOK, counters, owner
  <1>11. CallsOK'
    BY <1>1, <1>2 DEF IInv, CallsOK, counters, owner
  <1> QED
    BY <1>3, <1>4, <1>5, <1>6, <1>7, <1>8, <1>9, <1>10, <1>11 DEF IInv

(* The node that is counted last finds all others idle.                      *)
LEMMA CountKeeps ==
  ASSUME IInv, NEW n \in Ids, Count(n)
  PROVE  IInv'
  <1>1. /\ npc[n] = "complete" /\ n \in started /\ n \in Nodes /\ running = 1
        /\ npc' = [npc EXCEPT ![n] = IF completedCount + 1 = nodes THEN "completion" ELSE "idle"]
        /\ completedCount' = completedCount + 1
        /\ UNCHANGED <<build, refCount, running, refs, pool, owner, left, tasks, completions>>
    BY DEF Count, At, IInv, NodesOK, TypeOK
  <1>2. /\ npc'[n] = (IF completedCount + 1 = nodes THEN "completion" ELSE "idle")
        /\ \A k \in Ids \ {n} : npc'[k] = npc[k]
    BY <1>1 DEF IInv, TypeOK
  <1>3. \A k \in Ids : ~IsLast(k)
    BY <1>1 DEF IInv, LastOK, IsLast
  <1>4. completedCount = Cardinality(Counted) /\ n \notin Counted /\ Counted' = Counted \cup {n}
    <2>1. Counted' = Counted \cup {n}
      BY <1>1, <1>2, NodesAreIds DEF Counted, IInv, TypeOK, tasks
    <2> QED
      BY <1>1, <1>3, <2>1 DEF IInv, DoneOK, IsLast, Counted
  <1>5. /\ IsFiniteSet(Counted) /\ Cardinality(Counted') = completedCount'
        /\ Cardinality(Counted') \in 0 .. nodes
        /\ completedCount' = nodes => Counted' = Nodes
    <2>1. Counted \in SUBSET Nodes /\ Counted \cup {n} \in SUBSET Nodes
      BY <1>1 DEF Counted, IInv, TypeOK
    <2>2. IsFiniteSet(Counted)
      BY <2>1, NodeSets DEF IInv
    <2>3. Cardinality(Counted \cup {n}) = Cardinality(Counted) + 1
      BY <2>2, <1>4, OneMore
    <2> QED
      BY <1>1, <1>4, <2>1, <2>2, <2>3, NodeSets DEF IInv
  <1>6. TypeOK'
    BY <1>1, <1>2, <1>5 DEF IInv, TypeOK, build, pool, owner, tasks, Nodes
  <1>7. GraphOK'
    BY <1>1, <1>2, SameGraph DEF owner, IInv, GraphOK
  <1>8. CountsOK'
    <2>1. \A m \in Nodes : Pending(m)' = Pending(m)
      BY <1>1, <1>2, SamePending, NodesAreIds DEF Pending, Predecessors, IInv, TypeOK, tasks
    <2> QED
      BY <1>1, <2>1, SameCounts DEF pool, owner, tasks
  <1>9. NodesOK'
    BY <1>1, <1>2 DEF IInv, NodesOK, build, tasks, TypeOK
  <1>10. LastOK'
    <2>1. CASE completedCount + 1 = nodes
      <3>1. Counted \cup {n} = Nodes
        BY <1>1, <1>4, <1>5, <2>1
      <3>2. started = Nodes
        BY <3>1, <1>1 DEF Counted, IInv, TypeOK
      <3>3. \A k \in Ids \ {n} : npc[k] = "idle"
        BY <1>3, <3>1 DEF Counted, IsLast, IInv, GraphOK
      <3> QED
        BY <1>1, <1>2, <3>2, <3>3 DEF LastOK, IsLast, tasks, build, Nodes
    <2>2. CASE completedCount + 1 # nodes
      BY <1>1, <1>2, <1>3, <2>2 DEF LastOK, IsLast
    <2> QED
      BY <2>1, <2>2
  <1>11. DoneOK'
    BY <1>1, <1>2, <1>3, <1>5 DEF DoneOK, IsLast
  <1>12. RestOK' /\ CommitOK'
    BY <1>1 DEF IInv, RestOK, CommitOK, Handed, owner, pool, tasks
  <1>13. RefsOK'
    <2>1. Waiting' = Waiting
      BY <1>1, <1>2 DEF Waiting
    <2> QED
      BY <1>1, <2>1 DEF IInv, RefsOK, owner
  <1>14. CallsOK'
    BY <1>1, <1>2, <1>3 DEF IInv, CallsOK, owner, IsLast
  <1> QED
    BY <1>6, <1>7, <1>8, <1>9, <1>10, <1>11, <1>12, <1>13, <1>14 DEF IInv

(* The steps of the node that completes the graph: Completion, Reset, Stop.  *)
LEMMA LastKeeps ==
  ASSUME IInv, NEW n \in Ids, Completion(n) \/ Reset(n) \/ Stop(n)
  PROVE  IInv'
  <1>1. /\ IsLast(n) /\ n \in started /\ n \in Nodes /\ running = 1
        /\ npc' = [npc EXCEPT ![n] = IF npc[n] = "completion" THEN "reset"
                                     ELSE IF npc[n] = "reset" THEN "stop" ELSE "unreference"]
        /\ completedCount' = IF npc[n] = "reset" THEN 0 ELSE completedCount
        /\ running' = IF npc[n] = "stop" THEN 0 ELSE running
        /\ completions' = IF npc[n] = "completion" THEN completions + 1 ELSE completions
        /\ UNCHANGED <<build, refCount, refs, pool, owner, left, tasks>>
    BY DEF Completion, Reset, Stop, At, IInv, NodesOK, TypeOK, IsLast, counters
  <1>2. /\ npc'[n] = (IF npc[n] = "completion" THEN "reset"
                      ELSE IF npc[n] = "reset" THEN "stop" ELSE "unreference")
        /\ \A k \in Ids \ {n} : npc[k] = "idle" /\ npc'[k] = "idle"
    BY <1>1 DEF IInv, TypeOK, LastOK
  <1>3. started = Nodes /\ queued = {} /\ suspended = {} /\ (cpc = "dispatch" => at > nodes)
    <2>1. started = Nodes
      BY <1>1 DEF IInv, LastOK
    <2>2. queued = {}
      BY <2>1 DEF IInv, CountsOK, TypeOK
    <2>3. suspended = {}
      BY <1>1, <2>1, WhoWaits DEF IInv, TypeOK, Handed
    <2>4. ASSUME cpc = "dispatch", at <= nodes PROVE FALSE
      <3>1. at \in Nodes
        BY <2>4 DEF IInv, TypeOK, Nodes
      <3> QED
        BY <1>1, <2>1, <2>4, <3>1, WhoWaits DEF Handed, IInv, TypeOK
    <2> QED
      BY <2>1, <2>2, <2>3, <2>4 DEF IInv, TypeOK
  <1>4. TypeOK'
    BY <1>1, <1>2 DEF IInv, TypeOK, build, pool, owner, tasks, Nodes
  <1>5. GraphOK'
    BY <1>1, <1>2, SameGraph DEF owner, IInv, GraphOK
  <1>6. CountsOK'
    <2>1. \A m \in Nodes : Pending(m)' = Pending(m)
      BY <1>1, <1>2, SamePending, NodesAreIds DEF Pending, Predecessors, IInv, TypeOK, tasks, IsLast
    <2>2. CASE running' = running
      BY <1>1, <2>1, <2>2, SameCounts DEF pool, owner, tasks
    <2>3. CASE running' = 0
      BY <1>1, <2>3 DEF CountsOK, IInv, pool, tasks
    <2> QED
      BY <1>1, <2>2, <2>3
  <1>7. NodesOK'
    BY <1>1, <1>2 DEF IInv, NodesOK, build, tasks, TypeOK, IsLast
  <1>8. LastOK'
    BY <1>1, <1>2, <1>3 DEF LastOK, IsLast, tasks, build, Nodes
  <1>9. DoneOK'
    <2>1. CASE npc[n] = "completion"
      <3>1. Counted' = Counted
        BY <1>1, <1>2, <2>1, NodesAreIds DEF Counted, IInv, TypeOK, tasks
      <3>2. (\E k \in Ids : npc[k] = "stop") <=> FALSE
        BY <1>2, <2>1
      <3>3. (\E k \in Ids : npc'[k] = "stop") <=> FALSE
        BY <1>2, <2>1
      <3> QED
        BY <1>1, <2>1, <3>1, <3>2, <3>3 DEF IInv, DoneOK
    <2>2. CASE npc[n] # "completion"
      BY <1>1, <1>2, <2>2 DEF DoneOK, IsLast
    <2> QED
      BY <2>1, <2>2
  <1>10. RestOK'
    <2>1. CASE npc[n] = "stop"
      BY <1>1, <1>3, <2>1 DEF IInv, RestOK, DoneOK, CommitOK, Handed, pool, tasks, owner, build
    <2>2. CASE npc[n] # "stop"
      BY <1>1, <2>2 DEF RestOK
    <2> QED
      BY <2>1, <2>2
  <1>11. CommitOK'
    BY <1>1 DEF IInv, CommitOK, Handed, owner, pool, tasks
  <1>12. RefsOK'
    <2>1. Waiting = {}
      BY <1>1, <1>2 DEF Waiting, IsLast
    <2>2. CASE npc[n] = "stop"
      <3>1. Waiting' = {n}
        BY <1>2, <2>2 DEF Waiting
      <3>2. cpc \in {"dispatch", "idle"}
        BY <1>1 DEF IInv, TypeOK, GraphOK, CommitOK, Handed
      <3> QED
        BY <1>1, <2>1, <2>2, <3>1, <3>2, TaskGraphAssumption DEF IInv, RefsOK, owner, Bit
    <2>3. CASE npc[n] # "stop"
      <3>1. Waiting' = {}
        BY <1>1, <1>2, <2>3 DEF Waiting, IsLast
      <3> QED
        BY <1>1, <2>1, <2>3, <3>1 DEF IInv, RefsOK, owner
    <2> QED
      BY <2>2, <2>3
  <1>13. CallsOK'
    BY <1>1, <1>2 DEF IInv, CallsOK, owner, IsLast, TypeOK
  <1> QED
    BY <1>4, <1>5, <1>6, <1>7, <1>8, <1>9, <1>10, <1>11, <1>12, <1>13 DEF IInv

(* And it lets go of the graph, maybe after the next run has begun.          *)
LEMMA UnreferenceKeeps ==
  ASSUME IInv, NEW n \in Ids, Unreference(n)
  PROVE  IInv'
  <1>1. /\ npc[n] = "unreference"
        /\ npc' = [npc EXCEPT ![n] = "idle"] /\ refs' = refs - 1
        /\ UNCHANGED <<build, refCount, completedCount, running, pool, owner, left, tasks, completions>>
    BY DEF Unreference, At
  <1>2. npc'[n] = "idle" /\ \A k \in Ids \ {n} : npc'[k] = npc[k]
    BY <1>1 DEF IInv, TypeOK
  <1>3. Waiting' = {} /\ Waiting # {}
    BY <1>1, <1>2 DEF Waiting, IInv, RefsOK
  <1>4. RefsOK'
    BY <1>1, <1>3, TaskGraphAssumption DEF IInv, RefsOK, owner, Bit
  <1>5. refs' \in Nat
    BY <1>1, <1>3, <1>4, TaskGraphAssumption DEF RefsOK, Bit, owner, IInv, TypeOK
  <1>6. TypeOK'
    BY <1>1, <1>2, <1>5 DEF IInv, TypeOK, build, pool, owner, tasks, Nodes
  <1>7. GraphOK'
    BY <1>1, <1>2, SameGraph DEF owner, IInv, GraphOK
  <1>8. CountsOK'
    <2>1. \A m \in Nodes : Pending(m)' = Pending(m)
      BY <1>1, <1>2, SamePending, NodesAreIds DEF Pending, Predecessors, IInv, TypeOK, tasks
    <2> QED
      BY <1>1, <2>1, SameCounts DEF pool, owner, tasks
  <1>9. NodesOK'
    BY <1>1, <1>2 DEF IInv, NodesOK, build, tasks, TypeOK
  <1>10. LastOK'
    BY <1>1, <1>2 DEF IInv, LastOK, IsLast, tasks, build, Nodes
  <1>11. DoneOK'
    <2>1. running = 1 => Counted' = Counted
      BY <1>1, <1>2, NodesAreIds DEF Counted, IInv, TypeOK, NodesOK, tasks
    <2>2. (\E k \in Ids : npc'[k] = "stop") <=> (\E k \in Ids : npc[k] = "stop")
      BY <1>1, <1>2
    <2> QED
      BY <1>1, <2>1, <2>2 DEF IInv, DoneOK
  <1>12. RestOK' /\ CommitOK'
    BY <1>1 DEF IInv, RestOK, CommitOK, Handed, owner, pool, tasks, build
  <1>13. CallsOK'
    BY <1>1, <1>2 DEF IInv, CallsOK, owner
  <1> QED
    BY <1>4, <1>6, <1>7, <1>8, <1>9, <1>10, <1>11, <1>12, <1>13 DEF IInv

-----------------------------------------------------------------------------
(* Suspension                                                                *)

(* What is suspended waits for a predecessor that is in its task.            *)
LEMMA SuspendKeeps ==
  ASSUME IInv, NEW m \in Ids, Suspend(m)
  PROVE  IInv'
  <1>1. PICK n \in Predecessors(m) : npc[n] = "task"
    BY DEF Suspend
  <1>2. /\ m \notin suspended
        /\ suspended' = suspended \cup {m} /\ refCount' = [refCount EXCEPT ![m] = @ + 1]
        /\ UNCHANGED <<build, completedCount, running, refs, pool, owner, npc, left, started,
                       finished, completions>>
    BY DEF Suspend, threads
  <1>3. running = 1 /\ m \in Nodes /\ n \in started /\ m \notin Handed /\ refCount[m] \in Nat
    BY <1>1, TaskHolds DEF Predecessors
  <1>4. TypeOK'
    BY <1>2, <1>3 DEF IInv, TypeOK, build, pool, owner, Nodes
  <1>5. GraphOK'
    BY <1>2, SameGraph DEF owner, IInv, GraphOK
  <1>6. CountsOK'
    <2>1. \A k \in Nodes : Pending(k)' = Pending(k)
      BY <1>2, SamePending DEF Pending
    <2>2. refCount'[m] = refCount[m] + 1 /\ \A k \in Ids \ {m} : refCount'[k] = refCount[k]
      BY <1>2 DEF IInv, TypeOK
    <2>3. \A k \in Nodes :
            refCount'[k] = Cardinality(Pending(k)') + Bit(cpc = "dispatch" /\ at <= k)
                             + Bit(k \in suspended')
      <3>1. \A k \in Nodes :
              refCount[k] = Cardinality(Pending(k)) + Bit(cpc = "dispatch" /\ at <= k)
                              + Bit(k \in suspended)
        BY <1>3 DEF IInv, CountsOK
      <3>2. Bit(m \in suspended) = 0 /\ Bit(m \in suspended') = 1
        BY <1>2 DEF Bit
      <3>3. \A k \in Nodes \ {m} : Bit(k \in suspended') = Bit(k \in suspended)
        BY <1>2 DEF Bit
      <3>4. Cardinality(Pending(m)) \in Nat /\ Bit(cpc = "dispatch" /\ at <= m) \in Int
        BY PendingSize DEF Bit, IInv
      <3> QED
        BY <1>3, <2>1, <2>2, <3>1, <3>2, <3>3, <3>4, NodesAreIds DEF IInv
    <2>4. \A k \in Handed : refCount'[k] = 0
      BY <1>3, <2>2, NodesAreIds DEF IInv, CountsOK, Handed, TypeOK
    <2> QED
      BY <1>2, <1>3, <2>3, <2>4 DEF CountsOK, IInv, build, pool, owner, Nodes, Handed
  <1>7. NodesOK' /\ LastOK'
    BY <1>2 DEF IInv, NodesOK, LastOK, IsLast, build, Nodes
  <1>8. DoneOK'
    BY <1>2 DEF IInv, DoneOK, Counted
  <1>9. RestOK' /\ CommitOK'
    BY <1>2, <1>3 DEF IInv, RestOK, CommitOK, Handed, pool, owner
  <1>10. RefsOK' /\ CallsOK'
    BY <1>2 DEF IInv, RefsOK, CallsOK, Waiting, owner
  <1> QED
    BY <1>4, <1>5, <1>6, <1>7, <1>8, <1>9, <1>10 DEF IInv

(* What is resumed is handed to the pool if it waits for nothing else.       *)
LEMMA ResumeKeeps ==
  ASSUME IInv, NEW m \in Ids, Resume(m)
  PROVE  IInv'
  <1>1. /\ m \in suspended /\ suspended' = suspended \ {m}
        /\ refCount' = [refCount EXCEPT ![m] = @ - 1]
        /\ queued' = IF refCount[m] = 1 THEN queued \cup {m} ELSE queued
        /\ UNCHANGED <<build, completedCount, running, refs, closed, owner, npc, left, started,
                       finished, completions>>
    BY DEF Resume, CountDown, Hand, pool, threads
  <1>2. /\ running = 1 /\ m \in Nodes /\ started # {} /\ m \notin Handed
        /\ refCount[m] \in Nat \ {0}
    BY <1>1, WhoWaits DEF IInv, TypeOK, RestOK, CommitOK
  <1>3. TypeOK'
    BY <1>1, <1>2 DEF IInv, TypeOK, build, owner, Nodes
  <1>4. GraphOK'
    BY <1>1, SameGraph DEF owner, IInv, GraphOK
  <1>5. CountsOK'
    <2>1. \A k \in Nodes : Pending(k)' = Pending(k)
      BY <1>1, SamePending DEF Pending
    <2>2. refCount'[m] = refCount[m] - 1 /\ \A k \in Ids \ {m} : refCount'[k] = refCount[k]
      BY <1>1, <1>2 DEF IInv, TypeOK
    <2>3. \A k \in Nodes :
            refCount'[k] = Cardinality(Pending(k)') + Bit(cpc = "dispatch" /\ at <= k)
                             + Bit(k \in suspended')
      <3>1. \A k \in Nodes :
              refCount[k] = Cardinality(Pending(k)) + Bit(cpc = "dispatch" /\ at <= k)
                              + Bit(k \in suspended)
        BY <1>2 DEF IInv, CountsOK
      <3>2. Bit(m \in suspended) = 1 /\ Bit(m \in suspended') = 0
        BY <1>1 DEF Bit
      <3>3. \A k \in Nodes \ {m} : Bit(k \in suspended') = Bit(k \in suspended)
        BY <1>1 DEF Bit
      <3>4. Cardinality(Pending(m)) \in Nat /\ Bit(cpc = "dispatch" /\ at <= m) \in Int
        BY PendingSize DEF Bit, IInv
      <3> QED
        BY <1>2, <2>1, <2>2, <3>1, <3>2, <3>3, <3>4, NodesAreIds DEF IInv
    <2>4. \A k \in Handed' : refCount'[k] = 0
      BY <1>1, <1>2, <2>2, NodesAreIds DEF IInv, CountsOK, Handed, TypeOK
    <2> QED
      BY <1>1, <1>2, <2>3, <2>4 DEF CountsOK, IInv, build, owner, Nodes, Handed
  <1>6. NodesOK' /\ LastOK'
    BY <1>1 DEF IInv, NodesOK, LastOK, IsLast, build, Nodes
  <1>7. DoneOK'
    BY <1>1 DEF IInv, DoneOK, Counted
  <1>8. RestOK' /\ CommitOK'
    BY <1>1, <1>2 DEF IInv, RestOK, CommitOK, Handed, owner
  <1>9. RefsOK' /\ CallsOK'
    BY <1>1 DEF IInv, RefsOK, CallsOK, Waiting, owner
  <1> QED
    BY <1>3, <1>4, <1>5, <1>6, <1>7, <1>8, <1>9 DEF IInv

-----------------------------------------------------------------------------
(* The steps of the owner                                                    *)

(* The graph is built while nothing runs.                                    *)
LEMMA BuildRests ==
  ASSUME IInv, cpc = "build"
  PROVE  running = 0 /\ \A n \in Ids : npc[n] \in {"idle", "unreference"} /\ left[n] = {}
  BY DEF IInv, GraphOK, NodesOK, TypeOK

(* A new node has no predecessor, nor has any other yet.                     *)
LEMMA InsertKeeps ==
  ASSUME IInv, Insert
  PROVE  IInv'
  <1>1. /\ cpc = "build" /\ nodes < MaxNodes /\ nodes' = nodes + 1
        /\ \A n \in Ids : nextNodes[n] = {}
        /\ UNCHANGED <<nextNodes, totalRefCount, counters, pool, owner, threads, tasks, completions>>
    BY DEF Insert, IInv, GraphOK
  <1>2. Nodes \subseteq Nodes' /\ Nodes' \subseteq Ids /\ nodes \in Nat
    BY <1>1, NodesAreIds, TaskGraphAssumption DEF Nodes, Ids, IInv
  <1>3. TypeOK'
    BY <1>1, <1>2, TaskGraphAssumption DEF IInv, TypeOK, counters, pool, owner, threads, tasks
  <1>4. GraphOK'
    <2>1. \A n \in Ids : Predecessors(n) = {} /\ Predecessors(n)' = {}
      BY <1>1, <1>2 DEF Predecessors
    <2> QED
      BY <1>1, <1>2, <2>1, BuildRests DEF IInv, GraphOK, counters, owner, threads
  <1>5. CountsOK' /\ DoneOK'
    BY <1>1, BuildRests DEF IInv, CountsOK, DoneOK, counters, pool, tasks
  <1>6. NodesOK' /\ LastOK'
    BY <1>1, BuildRests DEF IInv, NodesOK, LastOK, IsLast, counters, threads, tasks
  <1>7. RestOK' /\ CommitOK'
    BY <1>1 DEF IInv, RestOK, CommitOK, Handed, counters, pool, owner, tasks
  <1>8. RefsOK' /\ CallsOK'
    BY <1>1 DEF IInv, RefsOK, CallsOK, Waiting, counters, owner, threads
  <1> QED
    BY <1>3, <1>4, <1>5, <1>6, <1>7, <1>8 DEF IInv

(* An edge is one predecessor more.                                          *)
LEMMA ConnectKeeps ==
  ASSUME IInv, Connect
  PROVE  IInv'
  <1>1. PICK from, to \in Nodes :
            /\ cpc = "build" /\ to \notin nextNodes[from]
            /\ nextNodes' = [nextNodes EXCEPT ![from] = @ \cup {to}]
            /\ totalRefCount' = [totalRefCount EXCEPT ![to] = @ + 1]
            /\ UNCHANGED <<nodes, counters, pool, owner, threads, tasks, completions>>
    BY DEF Connect
  <1>2. Nodes' = Nodes /\ from \in Ids /\ to \in Ids
    BY <1>1, NodesAreIds DEF Nodes, IInv
  <1>3. /\ nextNodes'[from] = nextNodes[from] \cup {to}
        /\ \A n \in Ids \ {from} : nextNodes'[n] = nextNodes[n]
    BY <1>1, <1>2 DEF IInv, TypeOK
  <1>4. TypeOK'
    BY <1>1, <1>2 DEF IInv, TypeOK, counters, pool, owner, threads, tasks
  <1>5. GraphOK'
    <2>1. Predecessors(to)' = Predecessors(to) \cup {from} /\ from \notin Predecessors(to)
      BY <1>1, <1>2, <1>3, NodesAreIds DEF Predecessors, IInv
    <2>2. \A n \in Ids \ {to} : Predecessors(n)' = Predecessors(n)
      BY <1>1, <1>2, <1>3, NodesAreIds DEF Predecessors, IInv
    <2>3. IsFiniteSet(Predecessors(to))
      BY NodeSets DEF Predecessors, IInv
    <2>4. Cardinality(Predecessors(to)') = Cardinality(Predecessors(to)) + 1
      BY <2>1, <2>3, OneMore
    <2>5. \A n \in Ids : totalRefCount'[n] = Cardinality(Predecessors(n)')
      BY <1>1, <1>2, <2>2, <2>4 DEF IInv, GraphOK, TypeOK
    <2> QED
      BY <1>1, <1>2, <1>3, <2>5 DEF IInv, GraphOK, counters, owner, threads
  <1>6. CountsOK' /\ DoneOK'
    BY <1>1, BuildRests DEF IInv, CountsOK, DoneOK, counters, pool, tasks
  <1>7. NodesOK' /\ LastOK'
    BY <1>1, BuildRests DEF IInv, NodesOK, LastOK, IsLast, counters, threads, tasks
  <1>8. RestOK' /\ CommitOK'
    BY <1>1 DEF IInv, RestOK, CommitOK, Handed, counters, pool, owner, tasks
  <1>9. RefsOK' /\ CallsOK'
    BY <1>1 DEF IInv, RefsOK, CallsOK, Waiting, counters, owner, threads
  <1> QED
    BY <1>4, <1>5, <1>6, <1>7, <1>8, <1>9 DEF IInv

(* When a run begins, nothing is left of the one before.                     *)
LEMMA BeginsFresh ==
  ASSUME IInv, running = 0
  PROVE  /\ queued = {} /\ suspended = {} /\ completedCount = 0
         /\ \A n \in Ids : npc[n] \in {"idle", "unreference"} /\ left[n] = {}
  BY DEF IInv, RestOK, NodesOK, TypeOK

(* Dispatch begins: every node waits for all its predecessors and for Dispatch. *)
LEMMA BeginKeeps ==
  ASSUME IInv, DispatchBegin
  PROVE  IInv'
  <1>1. /\ cpc \in {"build", "idle"} /\ running = 0 /\ dispatches < MaxDispatches
        /\ running' = 1 /\ cpc' = "dispatch" /\ at' = 1 /\ committed' = FALSE
        /\ refCount' = [n \in Ids |-> IF n \in Nodes THEN totalRefCount[n] + 1 ELSE 0]
        /\ dispatches' = dispatches + 1 /\ started' = {} /\ finished' = {}
        /\ UNCHANGED <<build, completedCount, refs, pool, npc, left, suspended, completions>>
    BY DEF DispatchBegin, MayDispatch, threads
  <1>2. /\ queued = {} /\ suspended = {} /\ completedCount = 0
        /\ \A n \in Ids : npc[n] \in {"idle", "unreference"} /\ left[n] = {}
    BY <1>1, BeginsFresh
  <1>3. TypeOK'
    <2>1. refCount' \in [Ids -> Nat]
      BY <1>1 DEF IInv, TypeOK
    <2>2. dispatches' \in 0 .. MaxDispatches /\ at' \in 1 .. MaxNodes + 1
      BY <1>1, TaskGraphAssumption DEF IInv, TypeOK
    <2>3. Nodes' = Nodes
      BY <1>1 DEF Nodes, build
    <2> QED
      BY <1>1, <2>1, <2>2, <2>3 DEF IInv, TypeOK, build, pool
  <1>4. GraphOK'
    BY <1>1, SameGraph DEF IInv, GraphOK
  <1>5. CountsOK'
    <2>1. \A m \in Nodes : Pending(m)' = Predecessors(m)
      <3>1. \A m : Predecessors(m)' = Predecessors(m)
        BY <1>1 DEF Predecessors, build, Nodes
      <3> QED
        BY <1>1, <3>1 DEF Pending
    <2>2. \A m \in Nodes : refCount'[m] = Cardinality(Predecessors(m)) + 1
      BY <1>1, NodesAreIds DEF IInv, GraphOK
    <2>3. \A m \in Nodes : Bit(m \in suspended') = 0 /\ Bit(cpc' = "dispatch" /\ at' <= m) = 1
      BY <1>1, <1>2 DEF Bit, Nodes
    <2>4. \A m \in Nodes : Cardinality(Predecessors(m)) \in Nat
      BY NodesAreIds DEF IInv, GraphOK, TypeOK
    <2>5. Nodes' = Nodes
      BY <1>1 DEF Nodes, build
    <2> QED
      BY <1>1, <1>2, <2>1, <2>2, <2>3, <2>4, <2>5 DEF CountsOK, Handed, pool
  <1>6. NodesOK' /\ LastOK'
    BY <1>1, <1>2 DEF NodesOK, LastOK, IsLast, IInv
  <1>7. DoneOK'
    <2>1. Counted' = {}
      BY <1>1 DEF Counted
    <2> QED
      BY <1>1, <1>2, <2>1, FS_EmptySet DEF DoneOK
  <1>8. RestOK' /\ CommitOK'
    BY <1>1, <1>2 DEF RestOK, CommitOK, Handed, pool
  <1>9. RefsOK'
    <2>1. Waiting' = Waiting
      BY <1>1 DEF Waiting
    <2> QED
      BY <1>1, <2>1, TaskGraphAssumption DEF IInv, RefsOK, Bit
  <1>10. CallsOK'
    BY <1>1 DEF IInv, CallsOK, TypeOK
  <1> QED
    BY <1>3, <1>4, <1>5, <1>6, <1>7, <1>8, <1>9, <1>10 DEF IInv

(* Dispatch stops holding a node back.                                       *)
LEMMA NodeKeeps ==
  ASSUME IInv, DispatchNode
  PROVE  IInv'
  <1>1. /\ cpc = "dispatch" /\ at <= nodes /\ at' = at + 1
        /\ refCount' = [refCount EXCEPT ![at] = @ - 1]
        /\ queued' = IF refCount[at] = 1 THEN queued \cup {at} ELSE queued
        /\ committed' = (committed \/ refCount[at] = 1)
        /\ UNCHANGED <<build, completedCount, running, refs, closed, cpc, dispatches, npc, left,
                       tasks, completions>>
    BY DEF DispatchNode, CountDown, Hand, pool, threads
  <1>2. at \in Nodes /\ at \in Ids /\ at \in Nat
    BY <1>1, NodesAreIds DEF IInv, TypeOK, Nodes
  <1>3. running = 1 /\ refCount[at] \in Nat \ {0} /\ at \notin Handed
    <2>1. running = 1
      BY <1>1, <1>2, NodesAreIds DEF IInv, TypeOK, RestOK
    <2> QED
      BY <1>1, <1>2, <2>1, WhoWaits
  <1>4. TypeOK'
    <2>1. at' \in 1 .. MaxNodes + 1
      BY <1>1, <1>2, NodesAreIds, TaskGraphAssumption DEF IInv, Nodes
    <2>2. refCount' \in [Ids -> Nat] /\ queued' \subseteq Nodes /\ committed' \in BOOLEAN
      BY <1>1, <1>2, <1>3 DEF IInv, TypeOK
    <2>3. Nodes' = Nodes
      BY <1>1 DEF Nodes, build
    <2> QED
      BY <1>1, <2>1, <2>2, <2>3 DEF IInv, TypeOK, build, tasks
  <1>5. GraphOK'
    BY <1>1, SameGraph DEF IInv, GraphOK
  <1>6. CountsOK'
    <2>1. \A k \in Nodes : Pending(k)' = Pending(k)
      BY <1>1, SamePending DEF Pending, tasks
    <2>2. refCount'[at] = refCount[at] - 1 /\ \A k \in Ids \ {at} : refCount'[k] = refCount[k]
      BY <1>1, <1>2 DEF IInv, TypeOK
    <2>3. \A k \in Nodes :
            refCount'[k] = Cardinality(Pending(k)') + Bit(cpc = "dispatch" /\ at' <= k)
                             + Bit(k \in suspended)
      <3>1. \A k \in Nodes :
              refCount[k] = Cardinality(Pending(k)) + Bit(cpc = "dispatch" /\ at <= k)
                              + Bit(k \in suspended)
        BY <1>3 DEF IInv, CountsOK
      <3>2. Bit(cpc = "dispatch" /\ at <= at) = 1 /\ Bit(cpc = "dispatch" /\ at' <= at) = 0
        BY <1>1, <1>2 DEF Bit
      <3>3. \A k \in Nodes \ {at} :
              Bit(cpc = "dispatch" /\ at' <= k) = Bit(cpc = "dispatch" /\ at <= k)
        <4>1. \A k \in Nodes \ {at} : at + 1 <= k <=> at <= k
          BY <1>2 DEF Nodes
        <4> QED
          BY <1>1, <4>1 DEF Bit
      <3>4. Cardinality(Pending(at)) \in Nat /\ Bit(at \in suspended) \in Int
        BY PendingSize DEF Bit, IInv
      <3> QED
        BY <1>2, <1>3, <2>1, <2>2, <3>1, <3>2, <3>3, <3>4, NodesAreIds DEF IInv
    <2>4. \A k \in Handed' : refCount'[k] = 0
      BY <1>1, <1>2, <1>3, <2>2, NodesAreIds DEF IInv, CountsOK, Handed, TypeOK, tasks
    <2> QED
      BY <1>1, <1>2, <1>3, <2>3, <2>4 DEF CountsOK, IInv, build, Nodes, Handed, tasks
  <1>7. NodesOK' /\ LastOK'
    BY <1>1 DEF IInv, NodesOK, LastOK, IsLast, build, Nodes, tasks
  <1>8. DoneOK'
    BY <1>1 DEF IInv, DoneOK, Counted, tasks
  <1>9. RestOK' /\ CommitOK'
    <2>1. Handed # {} => committed
      BY <1>1 DEF IInv, CommitOK
    <2>2. Handed' # {} => committed'
      BY <1>1, <2>1 DEF Handed, tasks
    <2>3. suspended' # {} => started' # {}
      BY <1>1 DEF IInv, CommitOK, tasks
    <2> QED
      BY <1>1, <1>3, <2>2, <2>3 DEF RestOK, CommitOK
  <1>10. RefsOK' /\ CallsOK'
    BY <1>1 DEF IInv, RefsOK, CallsOK, Waiting
  <1> QED
    BY <1>4, <1>5, <1>6, <1>7, <1>8, <1>9, <1>10 DEF IInv

(* Dispatch takes the reference of the run, even when that is over already.  *)
LEMMA EndKeeps ==
  ASSUME IInv, DispatchEnd
  PROVE  IInv'
  <1>1. /\ cpc = "dispatch" /\ at > nodes
        /\ refs' = IF committed THEN refs + 1 ELSE refs
        /\ cpc' = IF committed THEN "idle" ELSE "failed"
        /\ UNCHANGED <<build, refCount, completedCount, running, pool, at, committed, dispatches,
                       npc, left, tasks, completions>>
    BY DEF DispatchEnd, threads
  <1>2. TypeOK'
    BY <1>1 DEF IInv, TypeOK, build, pool, tasks, Nodes
  <1>3. GraphOK'
    BY <1>1, SameGraph DEF IInv, GraphOK
  <1>4. CountsOK'
    <2>1. \A k \in Nodes : Pending(k)' = Pending(k)
      BY <1>1, SamePending DEF Pending, tasks
    <2>2. \A k \in Nodes :
            Bit(cpc = "dispatch" /\ at <= k) = 0 /\ Bit(cpc' = "dispatch" /\ at' <= k) = 0
      <3>1. \A k \in Nodes : ~(at <= k)
        BY <1>1, NodesAreIds DEF Nodes, IInv, TypeOK
      <3> QED
        BY <1>1, <3>1 DEF Bit
    <2>3. Nodes' = Nodes /\ Handed' = Handed
      BY <1>1 DEF Nodes, Handed, build, pool, tasks
    <2> QED
      BY <1>1, <2>1, <2>2, <2>3 DEF CountsOK, IInv, pool, tasks
  <1>5. NodesOK' /\ LastOK'
    BY <1>1 DEF IInv, NodesOK, LastOK, IsLast, build, Nodes, tasks
  <1>6. DoneOK'
    BY <1>1 DEF IInv, DoneOK, Counted, tasks
  <1>7. RestOK' /\ CommitOK'
    BY <1>1 DEF IInv, RestOK, CommitOK, Handed, pool, tasks
  <1>8. RefsOK'
    <2>1. Waiting' = Waiting
      BY <1>1 DEF Waiting
    <2>2. Bit(Waiting # {}) \in Int
      BY DEF Bit
    <2>3. running = 0 => committed
      BY <1>1 DEF IInv, RestOK
    <2> QED
      BY <1>1, <2>1, <2>2, <2>3, TaskGraphAssumption DEF IInv, RefsOK, TypeOK, Bit
  <1>9. CallsOK'
    BY <1>1 DEF IInv, CallsOK
  <1> QED
    BY <1>2, <1>3, <1>4, <1>5, <1>6, <1>7, <1>8, <1>9 DEF IInv

(* The pool is closed.                                                       *)
LEMMA CloseKeeps ==
  ASSUME IInv, Close
  PROVE  IInv'
  <1>1. /\ closed' = TRUE
        /\ UNCHANGED <<build, counters, queued, owner, threads, tasks, completions>>
    BY DEF Close
  <1>2. TypeOK' /\ GraphOK'
    BY <1>1, SameGraph DEF IInv, TypeOK, GraphOK, build, counters, owner, threads, tasks, Nodes
  <1>3. CountsOK'
    <2>1. \A k \in Nodes : Pending(k)' = Pending(k)
      BY <1>1, SamePending DEF Pending, tasks, threads
    <2> QED
      BY <1>1, <2>1, SameCounts DEF counters, owner, tasks
  <1>4. NodesOK' /\ LastOK' /\ DoneOK'
    BY <1>1 DEF IInv, NodesOK, LastOK, DoneOK, Counted, IsLast, build, Nodes, counters, tasks, threads
  <1>5. RestOK' /\ CommitOK' /\ RefsOK' /\ CallsOK'
    BY <1>1 DEF IInv, RestOK, CommitOK, RefsOK, CallsOK, Handed, Waiting, build, counters, owner, tasks, threads
  <1> QED
    BY <1>2, <1>3, <1>4, <1>5 DEF IInv

-----------------------------------------------------------------------------
(* The theorems                                                              *)

(* The invariant holds in the empty graph.                                   *)
LEMMA InitInv == Init => IInv
  <1> SUFFICES ASSUME Init PROVE IInv
    OBVIOUS
  <1>1. Nodes = {} /\ \A n : Predecessors(n) = {} /\ Pending(n) = {}
    BY DEF Init, Nodes, Predecessors, Pending
  <1>2. TypeOK
    <2>1. nodes \in 0 .. MaxNodes /\ completedCount \in 0 .. nodes /\ at \in 1 .. MaxNodes + 1
      BY TaskGraphAssumption DEF Init
    <2>2. refs \in Nat /\ dispatches \in 0 .. MaxDispatches
      BY TaskGraphAssumption DEF Init
    <2> QED
      BY <2>1, <2>2 DEF Init, TypeOK
  <1>3. GraphOK
    BY <1>1, FS_EmptySet DEF Init, GraphOK
  <1>4. CountsOK /\ NodesOK /\ LastOK /\ DoneOK /\ RestOK /\ CommitOK /\ CallsOK
    BY <1>1 DEF Init, CountsOK, NodesOK, LastOK, IsLast, DoneOK, RestOK, CommitOK, Handed, CallsOK
  <1>5. RefsOK
    <2>1. Waiting = {}
      BY DEF Init, Waiting
    <2> QED
      BY <2>1, TaskGraphAssumption DEF Init, RefsOK, Bit
  <1> QED
    BY <1>2, <1>3, <1>4, <1>5 DEF IInv

(* Every step keeps it.                                                      *)
LEMMA NextInv == IInv /\ [Next]_vars => IInv'
  <1> SUFFICES ASSUME IInv, [Next]_vars PROVE IInv'
    OBVIOUS
  <1>1. CASE Owner
    BY <1>1, InsertKeeps, ConnectKeeps, BeginKeeps, NodeKeeps, EndKeeps DEF Owner
  <1>2. ASSUME NEW n \in Ids, Node(n) PROVE IInv'
    BY <1>2, TakeKeeps, TaskKeeps, ReleaseKeeps, HostKeeps, CountKeeps, LastKeeps, UnreferenceKeeps
       DEF Node
  <1>3. ASSUME NEW n \in Ids, Suspend(n) \/ Resume(n) PROVE IInv'
    BY <1>3, SuspendKeeps, ResumeKeeps
  <1>4. CASE Close
    BY <1>4, CloseKeeps
  <1>5. CASE UNCHANGED vars
    <2>1. CountsOK'
      <3>1. \A m \in Nodes : Pending(m)' = Pending(m)
        BY <1>5, SamePending DEF Pending, vars, threads, tasks
      <3> QED
        BY <1>5, <3>1, SameCounts DEF vars, counters, pool, owner, tasks
    <2>2. TypeOK' /\ GraphOK'
      BY <1>5, SameGraph DEF IInv, TypeOK, GraphOK, vars, build, counters, pool, owner, threads, tasks, Nodes
    <2>3. NodesOK' /\ LastOK' /\ DoneOK'
      BY <1>5 DEF IInv, NodesOK, LastOK, DoneOK, Counted, IsLast, vars, build, Nodes, counters, tasks, threads
    <2>4. RestOK' /\ CommitOK' /\ RefsOK' /\ CallsOK'
      BY <1>5 DEF IInv, RestOK, CommitOK, RefsOK, CallsOK, Handed, Waiting, vars, build, counters,
                  pool, owner, tasks, threads
    <2> QED
      BY <2>1, <2>2, <2>3, <2>4 DEF IInv
  <1> QED
    BY <1>1, <1>2, <1>3, <1>4, <1>5 DEF Next

(* What the counters of the graph and of its nodes count, at every moment.   *)
THEOREM Invariance == Spec => []IInv
  BY InitInv, NextInv, PTL DEF Spec

(* A node's task runs when those of all its predecessors have: Next promises *)
(* "'to' must be executed after 'from' executed" (TaskGraph.h, line 22).     *)
THEOREM Order == Spec => []TopologicalOrder
  BY Invariance, Implied, PTL

(* The completion is called once for a run, when all tasks have been run or  *)
(* aborted (TaskGraph.cpp, line 81).                                         *)
THEOREM LastCompletion == Spec => []CompletionIsLast
  BY Invariance, Implied, PTL

(* No reference on the graph is leaked and none is returned twice (Dispatch  *)
(* and Complete of TaskGraph.cpp).                                           *)
THEOREM References == Spec => []ReferencesBalanced
  BY Invariance, Implied, PTL

(* A run begins with clean counters and an empty pool, once running is 0     *)
(* (the assertion of Dispatch, TaskGraph.cpp, line 151).                     *)
THEOREM FreshDispatch == Spec => DispatchFresh
  <1> DEFINE Fresh ==
        dispatches' # dispatches =>
          /\ queued = {} /\ completedCount = 0
          /\ \A n \in Ids : npc[n] \in {"idle", "unreference"}
  <1>1. IInv /\ [Next]_vars => [Fresh]_vars
    <2> SUFFICES ASSUME IInv, Next, dispatches' # dispatches
                 PROVE  /\ queued = {} /\ completedCount = 0
                        /\ \A n \in Ids : npc[n] \in {"idle", "unreference"}
      OBVIOUS
    <2>1. DispatchBegin
      BY DEF Next, Owner, Insert, Connect, DispatchNode, DispatchEnd, Node, Take, TaskEnd, Release,
             TaskAbort, AbortSuccessor, ReleaseHost, Count, Completion, Reset, Stop, Unreference,
             Suspend, Resume, Close, owner
    <2> QED
      BY <2>1, BeginsFresh DEF DispatchBegin, MayDispatch
  <1> QED
    BY <1>1, Invariance, PTL DEF Spec, DispatchFresh

-----------------------------------------------------------------------------
(* The queue of a warp, that moves beside the graph in the runs              *)

QueueProofs == INSTANCE TaskQueueProofs WITH at <- i

(* A task that is pushed after a barrier runs after every task that any      *)
(* thread has pushed before it (TaskQueue.cpp): Barriers of TaskQueueProofs, *)
(* for the property the runs check.                                          *)
THEOREM BarriersSeparate ==
    ASSUME Rings \in Nat, MaxTasks \in Nat, MaxBarriers \in Nat
    PROVE  GraphAndQueueSpec => []BarrierSeparates
  <1>1. ASSUME Rings \in Nat, MaxTasks \in Nat, MaxBarriers \in Nat
        PROVE  QueueProofs!Spec => []QueueProofs!BarrierSeparates
    BY <1>1, QueueProofs!Barriers
  <1>2. QueueProofs!BarrierSeparates => BarrierSeparates
    BY DEF BarrierSeparates, Queue!BarrierSeparates, QueueProofs!BarrierSeparates, Queue!TypeOK,
           QueueProofs!TypeOK, Queue!Ids, QueueProofs!Ids, Queue!Tasks, QueueProofs!Tasks
  <1>3. GraphAndQueueInit => QueueProofs!Init
    BY DEF GraphAndQueueInit, Queue!Init, QueueProofs!Init, Queue!Ids, QueueProofs!Ids, Queue!Tasks,
           QueueProofs!Tasks
  <1>4. [GraphAndQueueNext]_allVars => [QueueProofs!Next]_QueueProofs!vars
    <2> USE DEF Queue!Ids, QueueProofs!Ids, Queue!Element, QueueProofs!Element
    <2>1. ASSUME NEW r \in Queue!Ids PROVE Queue!Push(r) => QueueProofs!Push(r)
      BY DEF Queue!Push, QueueProofs!Push, Queue!consumer, QueueProofs!consumer
    <2>2. ASSUME NEW r \in Queue!Ids PROVE Queue!Barrier(r) => QueueProofs!Barrier(r)
      BY DEF Queue!Barrier, QueueProofs!Barrier, Queue!consumer, QueueProofs!consumer,
             Queue!UnderWay, QueueProofs!UnderWay
    <2>3. ASSUME NEW r \in Queue!Ids PROVE Queue!BarrierPush(r) => QueueProofs!BarrierPush(r)
      BY DEF Queue!BarrierPush, QueueProofs!BarrierPush, Queue!consumer, QueueProofs!consumer
    <2>4. Queue!Producer => QueueProofs!Producer
      BY <2>1, <2>2, <2>3 DEF Queue!Producer, QueueProofs!Producer
    <2>5. Queue!Begin => QueueProofs!Begin
      BY DEF Queue!Begin, QueueProofs!Begin, Queue!queue, QueueProofs!queue, Queue!history,
             QueueProofs!history
    <2>6. (Queue!TakeBarrier => QueueProofs!TakeBarrier) /\ (Queue!TakeTask => QueueProofs!TakeTask)
      BY DEF Queue!TakeBarrier, QueueProofs!TakeBarrier, Queue!TakeTask, QueueProofs!TakeTask,
             Queue!Pop, QueueProofs!Pop, Queue!Served, QueueProofs!Served, Queue!Settle,
             QueueProofs!Settle, Queue!unchangedByConsumer, QueueProofs!unchangedByConsumer,
             Queue!history, QueueProofs!history
    <2>7. (Queue!Run => QueueProofs!Run) /\ (Queue!RunAndStop => QueueProofs!RunAndStop)
      BY DEF Queue!Run, QueueProofs!Run, Queue!RunAndStop, QueueProofs!RunAndStop, Queue!Settle,
             QueueProofs!Settle, Queue!queue, QueueProofs!queue, Queue!unchangedByConsumer,
             QueueProofs!unchangedByConsumer, Queue!history, QueueProofs!history
    <2>8. (Queue!NextRing => QueueProofs!NextRing) /\ (Queue!NextPass => QueueProofs!NextPass)
      BY DEF Queue!NextRing, QueueProofs!NextRing, Queue!NextPass, QueueProofs!NextPass,
             Queue!Served, QueueProofs!Served, Queue!queue, QueueProofs!queue,
             Queue!unchangedByConsumer, QueueProofs!unchangedByConsumer, Queue!history,
             QueueProofs!history
    <2>9. Queue!Next => QueueProofs!Next
      BY <2>4, <2>5, <2>6, <2>7, <2>8 DEF Queue!Next, QueueProofs!Next, Queue!Consumer,
         QueueProofs!Consumer
    <2> QED
      BY <2>9 DEF GraphAndQueueNext, allVars, queueVars, QueueProofs!vars, QueueProofs!queue,
                  QueueProofs!consumer, QueueProofs!history
  <1> QED
    BY <1>1, <1>2, <1>3, <1>4, PTL DEF GraphAndQueueSpec, QueueProofs!Spec

=============================================================================
