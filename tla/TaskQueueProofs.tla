-------------------------- MODULE TaskQueueProofs ---------------------------
(***************************************************************************)
(* What a barrier of the queue of a warp is for, for any number of rings,  *)
(* tasks and barriers.                                                     *)
(*                                                                         *)
(* A barrier v holds up the ring it was pushed to until currentVersion is  *)
(* v, but that is not all it takes: when currentVersion becomes v the      *)
(* tasks it has to wait for may still lie in rings of lower index, pushed  *)
(* there after the pass had gone by.  They run first because the next pass *)
(* begins at the first ring.  The invariant says where these tasks are at  *)
(* every moment (Separated, Closing).                                      *)
(***************************************************************************)
EXTENDS TaskQueue, SequenceTheorems, TLAPS

Elements == [task : 0 .. MaxTasks, version : 0 .. MaxBarriers]

(* The types TypeOK leaves out. *)
Typed ==
    /\ TypeOK
    /\ ring \in [Ids -> Seq(Elements)]
    /\ before \in [1 .. MaxBarriers -> SUBSET Tasks]
    /\ fence \in [Ids -> SUBSET Tasks]
    /\ earlier \in [Tasks -> SUBSET Tasks]
    /\ \A i \in Ids : \A k \in 1 .. Len(ring[i]) :
          ring[i][k].task = 0 <=> ring[i][k].version # 0

(* A version that a producer has drawn, or that is in a ring. *)
Present(v) ==
    \/ \E i \in Ids : version[i] = v
    \/ \E i \in Ids : \E k \in 1 .. Len(ring[i]) : ring[i][k].version = v

(* A version is in one place: with a producer, in a ring, or taken from one  *)
(* that waits for it.                                                        *)
VersionsDistinct ==
    /\ \A i, j \in Ids : version[i] # 0 /\ version[i] = version[j] => i = j
    /\ \A i, j \in Ids : \A k \in 1 .. Len(ring[i]), l \in 1 .. Len(ring[j]) :
          ring[i][k].version # 0 /\ ring[i][k].version = ring[j][l].version => i = j /\ k = l
    /\ \A i, j \in Ids : \A k \in 1 .. Len(ring[i]) :
          ring[i][k].version # 0 => ring[i][k].version # version[j]
    /\ \A i, j \in Ids :
          ringVersions[i] > currentVersion /\ ringVersions[i] = ringVersions[j] => i = j

(* currentVersion is behind every barrier that has not been taken. *)
VersionsAhead ==
    /\ \A v \in 1 .. currentVersion : ~Present(v)
    /\ \A i \in Ids : ringVersions[i] > currentVersion => ~Present(ringVersions[i])
    /\ pc # "idle" /\ stepVersion > currentVersion => ~Present(stepVersion)

(* No version is ahead of barrierVersion, no task ahead of pushed. *)
Drawn ==
    /\ \A i \in Ids : version[i] <= barrierVersion /\ ringVersions[i] <= barrierVersion
    /\ \A i \in Ids : \A k \in 1 .. Len(ring[i]) :
          ring[i][k].version <= barrierVersion /\ ring[i][k].task <= pushed
    /\ task <= pushed
    /\ pc # "idle" => stepVersion <= barrierVersion
    /\ \A v \in 1 .. MaxBarriers : before[v] \subseteq 1 .. pushed

Waiting(u, i) == \E k \in 1 .. Len(ring[i]) : ring[i][k].task = u

(* A task that has been pushed is done, running or in a ring. *)
Kept == \A u \in 1 .. pushed : u \in done \/ u = task \/ \E i \in Ids : Waiting(u, i)

(* Task u was pushed after version v, and all before it, had been drawn. *)
After(u, v) == \A w \in 1 .. v : u \notin before[w]

(* What lies behind a barrier was pushed after it, ... *)
BehindBarriers ==
    \A i \in Ids : \A k \in 1 .. Len(ring[i]) : \A l \in 1 .. k - 1 :
        ring[i][k].task # 0 => After(ring[i][k].task, ring[i][l].version)

(* ... also if the barrier has been taken and the ring waits for it. *)
BehindTaken ==
    \A i \in Ids : \A k \in 1 .. Len(ring[i]) :
        ring[i][k].task # 0 /\ ringVersions[i] > currentVersion
            => After(ring[i][k].task, ringVersions[i])

(* Task u, pushed before a barrier that is over, is served before ring i.    *)
InFront(u, i) ==
    /\ \E v \in 1 .. currentVersion : u \in before[v]
    /\ \/ u = task /\ at < i
       \/ \E j \in 1 .. i - 1 : Waiting(u, j) /\ (pc = "idle" \/ at <= j)

(* Nothing is taken from ring i before task u has run. *)
HeldUp(u, i) ==
    \/ u \in done
    \/ ringVersions[i] > currentVersion /\ u \in before[ringVersions[i]]
    \/ ringVersions[i] <= currentVersion /\ InFront(u, i)

(* What is at place k of ring i is not taken before task u has run. *)
Precedes(u, i, k) ==
    \/ \E l \in 1 .. k - 1 : ring[i][l].version # 0 /\ u \in before[ring[i][l].version]
    \/ HeldUp(u, i)

Separated ==
    \A i \in Ids :
        /\ \A k \in 1 .. Len(ring[i]) :
              ring[i][k].task # 0 => \A u \in earlier[ring[i][k].task] : Precedes(u, i, k)
        /\ \A u \in fence[i] : Precedes(u, i, Len(ring[i]) + 1)

(* While currentVersion is about to become the version ring i waits for,     *)
(* what that barrier separates is in a ring that this pass has yet to come   *)
(* to, or in one the next pass comes to before it comes to i.                *)
Closing ==
    \A i \in Ids :
        pc # "idle" /\ stepVersion > currentVersion /\ ringVersions[i] = stepVersion
            => /\ i <= at
               /\ \A u \in before[stepVersion] :
                     \/ u \in done \/ u = task
                     \/ \E j \in Ids \ {i} : Waiting(u, j) /\ (j < i \/ at <= j)

RunsInOrder == task # 0 => earlier[task] \subseteq done

(* The ring of the task that runs is served. *)
Serving == pc = "run" => at <= Rings /\ Served

IInv ==
    /\ Typed /\ Serving /\ VersionsDistinct /\ VersionsAhead /\ Drawn /\ Kept
    /\ BehindBarriers /\ BehindTaken /\ Separated /\ Closing /\ RunsInOrder

-----------------------------------------------------------------------------
(* The rings                                                                 *)

LEMMA Appended ==
    ASSUME ring \in [Ids -> Seq(Elements)], NEW i \in Ids, NEW e \in Elements,
           ring' = [ring EXCEPT ![i] = Append(@, e)]
    PROVE  /\ ring' \in [Ids -> Seq(Elements)]
           /\ Len(ring[i]) \in Nat /\ Len(ring'[i]) = Len(ring[i]) + 1
           /\ ring'[i][Len(ring[i]) + 1] = e
           /\ \A k \in 1 .. Len(ring[i]) : ring'[i][k] = ring[i][k]
           /\ \A j \in Ids : j # i => ring'[j] = ring[j]
  <1>1. ring[i] \in Seq(Elements) /\ ring'[i] = Append(ring[i], e)
    OBVIOUS
  <1>2. Append(ring[i], e) \in Seq(Elements)
    BY <1>1
  <1> QED
    BY <1>1, <1>2, AppendProperties

LEMMA Popped ==
    ASSUME ring \in [Ids -> Seq(Elements)], NEW i \in Ids, ring[i] # <<>>,
           ring' = [ring EXCEPT ![i] = Tail(@)]
    PROVE  /\ ring' \in [Ids -> Seq(Elements)]
           /\ Len(ring[i]) \in Nat \ {0} /\ Len(ring'[i]) = Len(ring[i]) - 1
           /\ Head(ring[i]) = ring[i][1] /\ ring[i][1] \in Elements
           /\ \A k \in 1 .. Len(ring'[i]) : ring'[i][k] = ring[i][k + 1] /\ k + 1 \in 1 .. Len(ring[i])
           /\ \A j \in Ids : j # i => ring'[j] = ring[j]
  <1>1. ring[i] \in Seq(Elements) /\ ring'[i] = Tail(ring[i])
    OBVIOUS
  <1>2. Tail(ring[i]) \in Seq(Elements) /\ Len(ring[i]) \in Nat \ {0}
    BY <1>1
  <1>3. Len(Tail(ring[i])) = Len(ring[i]) - 1 /\ Head(ring[i]) = ring[i][1] /\ ring[i][1] \in Elements
    BY <1>1, <1>2
  <1>4. \A k \in 1 .. Len(Tail(ring[i])) : Tail(ring[i])[k] = ring[i][k + 1]
    BY <1>1, <1>2, <1>3
  <1>5. ring' \in [Ids -> Seq(Elements)]
    BY <1>1, <1>2
  <1>6. \A j \in Ids : j # i => ring'[j] = ring[j]
    OBVIOUS
  <1> QED
    BY <1>1, <1>2, <1>3, <1>4, <1>5, <1>6

-----------------------------------------------------------------------------
(* The steps                                                                 *)

Counted == Rings \in Nat /\ MaxTasks \in Nat /\ MaxBarriers \in Nat

(* What the types say of the variables a step computes with.                 *)
LEMMA Numbers ==
    ASSUME Counted, Typed
    PROVE  /\ currentVersion \in Nat /\ barrierVersion \in Nat /\ stepVersion \in Nat /\ at \in Nat
           /\ currentVersion <= barrierVersion /\ barrierVersion <= MaxBarriers
           /\ at >= 1 /\ at <= Rings + 1
           /\ stepVersion = currentVersion \/ stepVersion = currentVersion + 1
           /\ ringVersions \in [Ids -> Nat] /\ version \in [Ids -> Nat]
           /\ \A i \in Ids : ringVersions[i] <= MaxBarriers /\ version[i] <= MaxBarriers
           /\ task \in Nat /\ task <= MaxTasks /\ pushed \in Nat /\ pushed <= MaxTasks
           /\ ring \in [Ids -> Seq(Elements)]
           /\ \A i \in Ids : Len(ring[i]) \in Nat
           /\ \A i \in Ids : \A k \in 1 .. Len(ring[i]) :
                 /\ ring[i][k].task \in Nat /\ ring[i][k].version \in Nat
                 /\ ring[i][k].version <= MaxBarriers /\ ring[i][k].task <= MaxTasks
  <1> USE DEF Counted, Ids
  <1>1. \A i \in Ids : ring[i] \in Seq(Elements)
    BY DEF Typed
  <1>2. \A i \in Ids : \A k \in 1 .. Len(ring[i]) : ring[i][k] \in Elements
    BY <1>1
  <1>3. ring \in [Ids -> Seq(Elements)] /\ \A i \in Ids : Len(ring[i]) \in Nat
    BY <1>1 DEF Typed
  <1>4. \A i \in Ids : \A k \in 1 .. Len(ring[i]) :
           /\ ring[i][k].task \in Nat /\ ring[i][k].version \in Nat
           /\ ring[i][k].version <= MaxBarriers /\ ring[i][k].task <= MaxTasks
    BY <1>2 DEF Elements
  <1> QED
    BY <1>3, <1>4 DEF Typed, TypeOK

(* What was pushed before a barrier are tasks.                               *)
LEMMA BeforeTasks ==
    ASSUME Typed, NEW v \in 1 .. MaxBarriers, NEW u \in before[v]
    PROVE  u \in Tasks /\ u # 0
  <1>1. before[v] \subseteq Tasks
    BY DEF Typed
  <1> QED
    BY <1>1 DEF Tasks

LEMMA BeginKeeps ==
    ASSUME Counted, IInv, Begin
    PROVE  IInv'
  <1>0. Typed
    BY DEF IInv
  <1>n. /\ ring' = ring /\ ringVersions' = ringVersions /\ barrierVersion' = barrierVersion
        /\ currentVersion' = currentVersion /\ version' = version /\ pushed' = pushed
        /\ task' = task /\ done' = done
        /\ before' = before /\ fence' = fence /\ earlier' = earlier
    BY DEF Begin, queue, history
  <1>c. pc = "idle" /\ pc' = "rings" /\ at' = 1 /\ stepVersion' = currentVersion /\ executed' = FALSE
    BY DEF Begin
  <1>1. Typed' /\ Serving'
    <2>1. TypeOK'
      <3>1. at' \in 1 .. Rings + 1
        BY <1>c DEF Counted
      <3>2. task' # 0 <=> pc' = "run"
        BY <1>0, <1>n, <1>c DEF Typed, TypeOK
      <3>3. stepVersion' \in {currentVersion', currentVersion' + 1}
        BY <1>n, <1>c
      <3>4. executed' \in BOOLEAN /\ pc' \in {"idle", "rings", "run"}
        BY <1>c
      <3>5. TypeOK
        BY <1>0 DEF Typed
      <3> QED
        BY <1>n, <3>1, <3>2, <3>3, <3>4, <3>5 DEF TypeOK
    <2>2. Serving'
      BY <1>c DEF Serving
    <2> QED
      BY <2>1, <2>2, <1>0, <1>n DEF Typed
  <1>2. VersionsDistinct'
    BY <1>n DEF IInv, VersionsDistinct
  <1>3. VersionsAhead'
    <2>1. \A v : Present(v)' <=> Present(v)
      BY <1>n DEF Present
    <2>2. currentVersion \in Nat /\ stepVersion' = currentVersion
      BY <1>c, <1>0, Numbers
    <2> QED
      BY <1>n, <2>1, <2>2 DEF IInv, VersionsAhead
  <1>4. Drawn'
    BY <1>n, <1>c, <1>0, Numbers DEF IInv, Drawn
  <1>5. Kept'
    BY <1>n DEF IInv, Kept, Waiting
  <1>6. BehindBarriers' /\ BehindTaken'
    BY <1>n DEF IInv, BehindBarriers, BehindTaken, After
  <1>7. ASSUME NEW u, NEW i \in Ids, HeldUp(u, i) PROVE HeldUp(u, i)'
    BY <1>7, <1>n, <1>c, <1>0 DEF Typed, TypeOK, HeldUp, InFront, Waiting, Ids
  <1>8. Separated'
    BY <1>n, <1>7 DEF IInv, Separated, Precedes
  <1>9. Closing'
    BY <1>n, <1>c, <1>0, Numbers DEF Closing
  <1>10. RunsInOrder'
    BY <1>n DEF IInv, RunsInOrder
  <1> QED
    BY <1>1, <1>2, <1>3, <1>4, <1>5, <1>6, <1>8, <1>9, <1>10 DEF IInv

LEMMA RunKeeps ==
    ASSUME Counted, IInv, Run
    PROVE  IInv'
  <1>0. Typed
    BY DEF IInv
  <1>n. /\ ring' = ring /\ barrierVersion' = barrierVersion
        /\ currentVersion' = currentVersion /\ version' = version /\ pushed' = pushed
        /\ at' = at /\ executed' = executed
        /\ before' = before /\ fence' = fence /\ earlier' = earlier
    BY DEF Run, unchangedByConsumer, history
  <1>s. at \in Ids /\ ringVersions[at] <= currentVersion
    BY <1>0, Numbers DEF IInv, Serving, Served, Run, Ids, Counted
  <1>c. /\ pc = "run" /\ pc' = "rings" /\ done' = done \cup {task} /\ task' = 0
        /\ stepVersion' = stepVersion
        /\ ringVersions' = [ringVersions EXCEPT ![at] = currentVersion]
    <2>1. ringVersions[at] \in Nat /\ currentVersion \in Nat
      BY <1>s, <1>0, Numbers
    <2>2. currentVersion + 1 # ringVersions[at]
      BY <2>1, <1>s
    <2>3. (IF currentVersion > ringVersions[at] THEN currentVersion ELSE ringVersions[at]) = currentVersion
      BY <2>1, <1>s
    <2> QED
      BY <2>2, <2>3 DEF Run, Settle
  <1>r. \A i \in Ids : /\ ringVersions'[i] > currentVersion <=> ringVersions[i] > currentVersion
                       /\ ringVersions[i] > currentVersion => ringVersions'[i] = ringVersions[i]
                       /\ ringVersions'[i] <= currentVersion <=> ringVersions[i] <= currentVersion
                       /\ ringVersions'[i] <= barrierVersion
    BY <1>s, <1>c, <1>0, Numbers DEF IInv, Drawn
  <1>1. Typed' /\ Serving'
    <2>1. TypeOK'
      <3>1. TypeOK
        BY <1>0 DEF Typed
      <3>2. done' \subseteq Tasks
        BY <3>1, <1>c DEF TypeOK, Tasks
      <3>3. ringVersions' \in [Ids -> 0 .. MaxBarriers]
        <4>1. currentVersion \in 0 .. MaxBarriers
          BY <1>0, Numbers DEF Counted
        <4> QED
          BY <4>1, <3>1, <1>c DEF TypeOK
      <3>4. task' \in 0 .. MaxTasks /\ (task' # 0 <=> pc' = "run")
        BY <1>c DEF Counted
      <3>5. executed' \in BOOLEAN /\ pc' \in {"idle", "rings", "run"}
        BY <3>1, <1>c, <1>n DEF TypeOK
      <3>6. stepVersion' \in {currentVersion', currentVersion' + 1}
        BY <3>1, <1>c, <1>n DEF TypeOK
      <3> QED
        BY <1>n, <3>1, <3>2, <3>3, <3>4, <3>5, <3>6 DEF TypeOK
    <2>2. Serving'
      BY <1>c DEF Serving
    <2> QED
      BY <2>1, <2>2, <1>0, <1>n DEF Typed
  <1>2. VersionsDistinct'
    BY <1>n, <1>r DEF IInv, VersionsDistinct
  <1>3. VersionsAhead'
    BY <1>n, <1>c, <1>r DEF IInv, VersionsAhead, Present
  <1>4. Drawn'
    BY <1>n, <1>c, <1>r, <1>0, Numbers DEF IInv, Drawn
  <1>5. Kept'
    BY <1>n, <1>c DEF IInv, Kept, Waiting
  <1>6. BehindBarriers' /\ BehindTaken'
    BY <1>n, <1>r DEF IInv, BehindBarriers, BehindTaken, After
  <1>7. ASSUME NEW u, NEW i \in Ids, HeldUp(u, i) PROVE HeldUp(u, i)'
    BY <1>7, <1>n, <1>c, <1>r DEF HeldUp, InFront, Waiting
  <1>8. Separated'
    BY <1>n, <1>7 DEF IInv, Separated, Precedes
  <1>9. Closing'
    BY <1>n, <1>c, <1>r DEF IInv, Closing, Waiting
  <1>10. RunsInOrder'
    BY <1>c DEF RunsInOrder
  <1> QED
    BY <1>1, <1>2, <1>3, <1>4, <1>5, <1>6, <1>8, <1>9, <1>10 DEF IInv

LEMMA RunAndStopKeeps ==
    ASSUME Counted, IInv, RunAndStop
    PROVE  IInv'
  <1>0. Typed
    BY DEF IInv
  <1>n. /\ ring' = ring /\ ringVersions' = ringVersions /\ barrierVersion' = barrierVersion
        /\ currentVersion' = currentVersion /\ version' = version /\ pushed' = pushed
        /\ at' = at /\ executed' = executed /\ stepVersion' = stepVersion
        /\ before' = before /\ fence' = fence /\ earlier' = earlier
    BY DEF RunAndStop, queue
  <1>c. pc = "run" /\ pc' = "idle" /\ done' = done \cup {task} /\ task' = 0
    BY DEF RunAndStop
  <1>1. Typed' /\ Serving'
    <2>1. TypeOK'
      <3>1. TypeOK
        BY <1>0 DEF Typed
      <3>2. done' \subseteq Tasks
        BY <3>1, <1>c DEF TypeOK, Tasks
      <3>4. task' \in 0 .. MaxTasks /\ (task' # 0 <=> pc' = "run")
        BY <1>c DEF Counted
      <3>5. executed' \in BOOLEAN /\ pc' \in {"idle", "rings", "run"}
        BY <3>1, <1>c, <1>n DEF TypeOK
      <3>6. stepVersion' \in {currentVersion', currentVersion' + 1}
        BY <3>1, <1>c, <1>n DEF TypeOK
      <3> QED
        BY <1>n, <3>1, <3>2, <3>4, <3>5, <3>6 DEF TypeOK
    <2>2. Serving'
      BY <1>c DEF Serving
    <2> QED
      BY <2>1, <2>2, <1>0, <1>n DEF Typed
  <1>2. VersionsDistinct'
    BY <1>n DEF IInv, VersionsDistinct
  <1>3. VersionsAhead'
    BY <1>n, <1>c DEF IInv, VersionsAhead, Present
  <1>4. Drawn'
    BY <1>n, <1>c, <1>0, Numbers DEF IInv, Drawn
  <1>5. Kept'
    BY <1>n, <1>c DEF IInv, Kept, Waiting
  <1>6. BehindBarriers' /\ BehindTaken'
    BY <1>n DEF IInv, BehindBarriers, BehindTaken, After
  <1>7. ASSUME NEW u, NEW i \in Ids, HeldUp(u, i) PROVE HeldUp(u, i)'
    BY <1>7, <1>n, <1>c DEF HeldUp, InFront, Waiting
  <1>8. Separated'
    BY <1>n, <1>7 DEF IInv, Separated, Precedes
  <1>9. Closing'
    BY <1>c DEF Closing
  <1>10. RunsInOrder'
    BY <1>c DEF RunsInOrder
  <1> QED
    BY <1>1, <1>2, <1>3, <1>4, <1>5, <1>6, <1>8, <1>9, <1>10 DEF IInv

(* A ring is passed over if it is empty, or if what it holds was pushed      *)
(* after the barrier it waits for.                                           *)
LEMMA NextRingKeeps ==
    ASSUME Counted, IInv, NextRing
    PROVE  IInv'
  <1>0. Typed
    BY DEF IInv
  <1>n. /\ ring' = ring /\ ringVersions' = ringVersions /\ barrierVersion' = barrierVersion
        /\ currentVersion' = currentVersion /\ version' = version /\ pushed' = pushed
        /\ task' = task /\ done' = done /\ pc' = pc /\ stepVersion' = stepVersion
        /\ executed' = executed
        /\ before' = before /\ fence' = fence /\ earlier' = earlier
    BY DEF NextRing, queue, history
  <1>c. /\ pc = "rings" /\ at \in Ids /\ at' = at + 1 /\ task = 0
        /\ ring[at] = <<>> \/ ringVersions[at] > currentVersion
    BY <1>0, Numbers DEF NextRing, Served, Ids, Typed, TypeOK, Counted
  <1>p. ASSUME NEW u, NEW v \in 1 .. MaxBarriers, u \in before[v],
               v <= currentVersion \/ v = stepVersion, Waiting(u, at)
        PROVE  FALSE
    <2>1. PICK k \in 1 .. Len(ring[at]) : ring[at][k].task = u
      BY <1>p DEF Waiting
    <2>2. ring[at] # <<>>
      BY <2>1
    <2>3. ringVersions[at] > currentVersion
      BY <2>2, <1>c
    <2>4. u # 0
      BY <1>p, <1>0, BeforeTasks
    <2>5. After(u, ringVersions[at])
      BY <2>1, <2>3, <2>4, <1>c DEF IInv, BehindTaken
    <2>6. v \in 1 .. ringVersions[at]
      <3>1. ringVersions[at] \in Nat /\ currentVersion \in Nat
        BY <1>c, <1>0, Numbers
      <3>2. stepVersion = currentVersion \/ stepVersion = currentVersion + 1
        BY <1>0, Numbers
      <3> QED
        BY <2>3, <1>p, <3>1, <3>2 DEF Counted
    <2> QED
      BY <2>5, <2>6, <1>p DEF After
  <1>1. Typed' /\ Serving'
    <2>1. TypeOK'
      <3>1. TypeOK
        BY <1>0 DEF Typed
      <3>2. at' \in 1 .. Rings + 1
        BY <1>c DEF Ids, Counted
      <3> QED
        BY <1>n, <3>1, <3>2 DEF TypeOK
    <2>2. Serving'
      BY <1>c, <1>n DEF Serving
    <2> QED
      BY <2>1, <2>2, <1>0, <1>n DEF Typed
  <1>2. VersionsDistinct'
    BY <1>n DEF IInv, VersionsDistinct
  <1>3. VersionsAhead'
    BY <1>n, <1>c DEF IInv, VersionsAhead, Present
  <1>4. Drawn'
    BY <1>n, <1>c, <1>0, Numbers DEF IInv, Drawn
  <1>5. Kept'
    BY <1>n, <1>c DEF IInv, Kept, Waiting
  <1>6. BehindBarriers' /\ BehindTaken'
    BY <1>n DEF IInv, BehindBarriers, BehindTaken, After
  <1>7. ASSUME NEW u, NEW i \in Ids, HeldUp(u, i) PROVE HeldUp(u, i)'
    <2>1. CASE u \in done \/ ringVersions[i] > currentVersion
      BY <2>1, <1>7, <1>n, <1>0, Numbers DEF HeldUp
    <2>2. CASE ringVersions[i] <= currentVersion /\ InFront(u, i)
      <3>1. PICK v \in 1 .. currentVersion : u \in before[v]
        BY <2>2 DEF InFront
      <3>2. v \in 1 .. MaxBarriers /\ v <= currentVersion
        BY <1>0, Numbers DEF Counted
      <3>3. u # task
        BY <3>1, <3>2, <1>c, <1>0, BeforeTasks
      <3>4. PICK j \in 1 .. i - 1 : Waiting(u, j) /\ at <= j
        BY <2>2, <3>3, <1>c DEF InFront
      <3>5. j # at
        BY <1>p, <3>1, <3>2, <3>4
      <3>6. j \in Int /\ at + 1 <= j
        BY <3>4, <3>5, <1>c DEF Ids
      <3>7. Waiting(u, j)'
        BY <3>4, <1>n DEF Waiting
      <3>8. InFront(u, i)'
        BY <3>1, <3>4, <3>6, <3>7, <1>n, <1>c DEF InFront
      <3> QED
        BY <3>8, <2>2, <1>n DEF HeldUp
    <2> QED
      BY <2>1, <2>2, <1>7 DEF HeldUp
  <1>8. Separated'
    BY <1>n, <1>7 DEF IInv, Separated, Precedes
  <1>9. Closing'
    <2> SUFFICES ASSUME NEW i \in Ids, stepVersion > currentVersion, ringVersions[i] = stepVersion
                 PROVE  /\ i <= at'
                        /\ \A u \in before[stepVersion] :
                              \/ u \in done \/ u = task
                              \/ \E j \in Ids \ {i} : Waiting(u, j) /\ (j < i \/ at' <= j)
      BY <1>n DEF Closing, Waiting
    <2>1. /\ i <= at
          /\ \A u \in before[stepVersion] :
                \/ u \in done \/ u = task
                \/ \E j \in Ids \ {i} : Waiting(u, j) /\ (j < i \/ at <= j)
      BY <1>c DEF IInv, Closing
    <2>2. i <= at'
      BY <2>1, <1>c DEF Ids
    <2>3. stepVersion \in 1 .. MaxBarriers
      BY <1>c, <1>0, Numbers DEF Counted
    <2>4. ASSUME NEW u \in before[stepVersion], u \notin done, u # task
          PROVE  \E j \in Ids \ {i} : Waiting(u, j) /\ (j < i \/ at' <= j)
      <3>1. PICK j \in Ids \ {i} : Waiting(u, j) /\ (j < i \/ at <= j)
        BY <2>1, <2>4
      <3>2. j # at
        BY <3>1, <2>3, <1>p
      <3>3. j < i \/ at' <= j
        BY <3>1, <3>2, <1>c DEF Ids
      <3> QED
        BY <3>1, <3>3
    <2> QED
      BY <2>2, <2>4
  <1>10. RunsInOrder'
    BY <1>n DEF IInv, RunsInOrder
  <1> QED
    BY <1>1, <1>2, <1>3, <1>4, <1>5, <1>6, <1>8, <1>9, <1>10 DEF IInv

(* The end of a pass: what Closing says becomes what InFront says.           *)
LEMMA NextPassKeeps ==
    ASSUME Counted, IInv, NextPass
    PROVE  IInv'
  <1>0. Typed
    BY DEF IInv
  <1>n. /\ ring' = ring /\ ringVersions' = ringVersions /\ barrierVersion' = barrierVersion
        /\ version' = version /\ pushed' = pushed
        /\ task' = task /\ done' = done /\ stepVersion' = stepVersion
        /\ before' = before /\ fence' = fence /\ earlier' = earlier
    BY DEF NextPass, unchangedByConsumer, history
  <1>c. /\ pc = "rings" /\ at > Rings /\ task = 0
        /\ currentVersion' = stepVersion /\ at' = 1 /\ executed' = FALSE
        /\ pc' \in {"idle", "rings"}
    BY <1>0 DEF NextPass, Typed, TypeOK
  <1>s. /\ stepVersion <= barrierVersion /\ stepVersion \in Nat
        /\ stepVersion = currentVersion \/ stepVersion = currentVersion + 1
        /\ \A i \in Ids : ringVersions[i] \in Nat
    BY <1>c, <1>0, Numbers DEF IInv, Drawn
  <1>v. currentVersion \in Nat /\ MaxBarriers \in Nat /\ barrierVersion \in Nat /\ barrierVersion <= MaxBarriers
    BY <1>0, Numbers DEF Counted
  <1>1. Typed' /\ Serving'
    <2>1. TypeOK'
      <3>1. TypeOK
        BY <1>0 DEF Typed
      <3>2. currentVersion' \in 0 .. barrierVersion' /\ stepVersion' \in {currentVersion', currentVersion' + 1}
        BY <1>n, <1>c, <1>s, <1>v
      <3>3. at' \in 1 .. Rings + 1
        BY <1>c DEF Counted
      <3>4. executed' \in BOOLEAN /\ pc' \in {"idle", "rings", "run"} /\ (task' # 0 <=> pc' = "run")
        BY <1>c, <1>n
      <3> QED
        BY <1>n, <3>1, <3>2, <3>3, <3>4 DEF TypeOK
    <2>2. Serving'
      BY <1>c DEF Serving
    <2> QED
      BY <2>1, <2>2, <1>0, <1>n DEF Typed
  <1>2. VersionsDistinct'
    BY <1>n, <1>c, <1>s, <1>v DEF IInv, VersionsDistinct
  <1>3. VersionsAhead'
    BY <1>n, <1>c, <1>s, <1>v DEF IInv, VersionsAhead, Present
  <1>4. Drawn'
    BY <1>n, <1>c, <1>s DEF IInv, Drawn
  <1>5. Kept'
    BY <1>n, <1>c DEF IInv, Kept, Waiting
  <1>6. BehindBarriers' /\ BehindTaken'
    BY <1>n, <1>c, <1>s, <1>v DEF IInv, BehindBarriers, BehindTaken, After
  <1>7. ASSUME NEW u, NEW i \in Ids, HeldUp(u, i) PROVE HeldUp(u, i)'
    <2>0. \A v \in 1 .. MaxBarriers : u \in before[v] => u # task
      BY <1>c, <1>0 DEF Typed, Tasks
    <2>1. CASE u \in done \/ ringVersions[i] > stepVersion
      BY <2>1, <1>7, <1>n, <1>c, <1>s, <1>v DEF HeldUp
    <2>2. CASE ringVersions[i] <= currentVersion /\ InFront(u, i)
      <3>1. \E v \in 1 .. MaxBarriers : u \in before[v]
        BY <2>2, <1>s, <1>v, <1>0, Numbers DEF InFront
      <3>2. PICK j \in 1 .. i - 1 : at <= j
        BY <2>2, <3>1, <2>0, <1>c DEF InFront
      <3> QED
        BY <3>2, <1>c, <1>0, Numbers DEF Ids, Counted
    <2>3. CASE /\ ringVersions[i] > currentVersion /\ u \in before[ringVersions[i]]
               /\ ringVersions[i] <= stepVersion /\ u \notin done
      <3>1. ringVersions[i] = stepVersion /\ stepVersion > currentVersion
        BY <2>3, <1>s, <1>v
      <3>2. stepVersion \in 1 .. MaxBarriers
        BY <3>1, <1>s, <1>v
      <3>3. u # task
        BY <2>3, <3>1, <3>2, <2>0
      <3>4. PICK j \in Ids \ {i} : Waiting(u, j) /\ (j < i \/ at <= j)
        BY <2>3, <3>1, <3>3, <1>c DEF IInv, Closing
      <3>5. j \in 1 .. i - 1
        BY <3>4, <1>c, <1>0, Numbers DEF Ids, Counted
      <3>6. Waiting(u, j)' /\ at' <= j
        BY <3>4, <3>5, <1>n, <1>c DEF Waiting
      <3>7. stepVersion \in 1 .. currentVersion' /\ u \in before'[stepVersion]
        BY <2>3, <3>1, <3>2, <1>n, <1>c
      <3>8. InFront(u, i)'
        BY <3>5, <3>6, <3>7 DEF InFront
      <3> QED
        BY <3>1, <3>8, <1>n, <1>c, <1>s DEF HeldUp
    <2> QED
      BY <2>1, <2>2, <2>3, <1>7, <1>s, <1>v DEF HeldUp
  <1>8. Separated'
    BY <1>n, <1>7 DEF IInv, Separated, Precedes
  <1>9. Closing'
    BY <1>n, <1>c, <1>s DEF Closing
  <1>10. RunsInOrder'
    BY <1>n DEF IInv, RunsInOrder
  <1> QED
    BY <1>1, <1>2, <1>3, <1>4, <1>5, <1>6, <1>8, <1>9, <1>10 DEF IInv

-----------------------------------------------------------------------------
(* The producers                                                             *)

(* A version is drawn: it is ahead of all others, and every task that has    *)
(* been pushed is before it.                                                 *)
LEMMA BarrierKeeps ==
    ASSUME Counted, IInv, NEW p \in Ids, Barrier(p)
    PROVE  IInv'
  <1> DEFINE new == barrierVersion + 1
  <1>0. Typed
    BY DEF IInv
  <1>n. /\ ring' = ring /\ ringVersions' = ringVersions /\ currentVersion' = currentVersion
        /\ at' = at /\ stepVersion' = stepVersion /\ executed' = executed /\ pc' = pc
        /\ task' = task /\ done' = done /\ pushed' = pushed /\ fence' = fence /\ earlier' = earlier
    BY DEF Barrier, consumer
  <1>c. /\ version[p] = 0 /\ barrierVersion' = new
        /\ version' = [version EXCEPT ![p] = new]
        /\ before' = [before EXCEPT ![new] = 1 .. pushed]
    BY DEF Barrier
  <1>v. /\ barrierVersion \in Nat /\ MaxBarriers \in Nat /\ new \in 1 .. MaxBarriers
        /\ currentVersion \in Nat /\ currentVersion <= barrierVersion
    BY <1>0, Numbers DEF Counted, Barrier
  <1> HIDE DEF new
  <1>w. new \in Nat /\ new > barrierVersion /\ \A v \in Nat : v <= barrierVersion => v < new
    BY <1>v DEF new
  <1>b. /\ \A v \in 1 .. barrierVersion : before'[v] = before[v]
        /\ before'[new] = 1 .. pushed
        /\ \A v \in 1 .. MaxBarriers : v # new => before'[v] = before[v]
    BY <1>c, <1>v, <1>w, <1>0 DEF Typed
  <1>d. /\ version'[p] = new
        /\ \A i \in Ids : i # p => version'[i] = version[i]
    BY <1>c, <1>0, Numbers
  <1>f. /\ \A i \in Ids : version[i] \in Nat /\ version[i] <= barrierVersion
        /\ \A i \in Ids : ringVersions[i] \in Nat /\ ringVersions[i] <= barrierVersion
        /\ \A i \in Ids : \A k \in 1 .. Len(ring[i]) :
              ring[i][k].version \in Nat /\ ring[i][k].version <= barrierVersion
        /\ stepVersion \in Nat /\ (pc # "idle" => stepVersion <= barrierVersion)
    BY <1>0, Numbers DEF IInv, Drawn
  <1>a. \A u : \A v \in 0 .. barrierVersion : After(u, v) => After(u, v)'
    BY <1>b, <1>v DEF After
  <1>1. Typed' /\ Serving'
    <2>1. TypeOK'
      <3>1. TypeOK
        BY <1>0 DEF Typed
      <3>2. barrierVersion' \in 0 .. MaxBarriers /\ currentVersion' \in 0 .. barrierVersion'
        BY <1>n, <1>c, <1>v, <1>w
      <3>3. version' \in [Ids -> 0 .. MaxBarriers]
        <4>1. new \in 0 .. MaxBarriers
          BY <1>v
        <4> QED
          BY <4>1, <3>1, <1>c DEF TypeOK
      <3> QED
        BY <1>n, <3>1, <3>2, <3>3 DEF TypeOK
    <2>2. Serving'
      BY <1>n DEF IInv, Serving, Served
    <2>3. before' \in [1 .. MaxBarriers -> SUBSET Tasks]
      <3>1. 1 .. pushed \subseteq Tasks
        BY <1>0, Numbers DEF Tasks, Counted
      <3> QED
        BY <3>1, <1>c, <1>0 DEF Typed
    <2> QED
      BY <2>1, <2>2, <2>3, <1>0, <1>n DEF Typed
  <1>2. VersionsDistinct'
    <2>1. ASSUME NEW i \in Ids, NEW j \in Ids, version'[i] # 0, version'[i] = version'[j]
          PROVE  i = j
      BY <2>1, <1>d, <1>f, <1>w DEF IInv, VersionsDistinct
    <2>2. ASSUME NEW i \in Ids, NEW j \in Ids, NEW k \in 1 .. Len(ring[i]), ring[i][k].version # 0
          PROVE  ring[i][k].version # version'[j]
      BY <2>2, <1>d, <1>f, <1>w DEF IInv, VersionsDistinct
    <2> QED
      BY <2>1, <2>2, <1>n DEF IInv, VersionsDistinct
  <1>3. VersionsAhead'
    <2>1. \A v \in Nat : v <= barrierVersion /\ Present(v)' => Present(v)
      BY <1>n, <1>d, <1>w DEF Present
    <2>2. \A v \in 1 .. currentVersion : v \in Nat /\ v <= barrierVersion
      BY <1>v
    <2> QED
      BY <2>1, <2>2, <1>n, <1>f DEF IInv, VersionsAhead
  <1>4. Drawn'
    <2>1. \A i \in Ids : version'[i] <= barrierVersion' /\ ringVersions'[i] <= barrierVersion'
      BY <1>n, <1>c, <1>d, <1>f, <1>w
    <2>2. \A i \in Ids : \A k \in 1 .. Len(ring'[i]) :
             ring'[i][k].version <= barrierVersion' /\ ring'[i][k].task <= pushed'
      BY <1>n, <1>c, <1>f, <1>w DEF IInv, Drawn
    <2>3. pc' # "idle" => stepVersion' <= barrierVersion'
      BY <1>n, <1>c, <1>f, <1>w
    <2>4. \A v \in 1 .. MaxBarriers : before'[v] \subseteq 1 .. pushed'
      BY <1>n, <1>b DEF IInv, Drawn
    <2> QED
      BY <2>1, <2>2, <2>3, <2>4, <1>n DEF IInv, Drawn
  <1>5. Kept'
    BY <1>n DEF IInv, Kept, Waiting
  <1>6. BehindBarriers'
    <2> SUFFICES ASSUME NEW i \in Ids, NEW k \in 1 .. Len(ring[i]), NEW l \in 1 .. k - 1,
                        ring[i][k].task # 0
                 PROVE  After(ring[i][k].task, ring[i][l].version)'
      BY <1>n DEF BehindBarriers
    <2>1. l \in 1 .. Len(ring[i])
      BY <1>0, Numbers
    <2>2. ring[i][l].version \in 0 .. barrierVersion
      BY <2>1, <1>f, <1>v
    <2> QED
      BY <2>2, <1>a, <1>n DEF IInv, BehindBarriers, After
  <1>7. BehindTaken'
    <2>1. \A i \in Ids : ringVersions[i] \in 0 .. barrierVersion
      BY <1>f, <1>v
    <2> QED
      BY <2>1, <1>a, <1>n DEF IInv, BehindTaken, After
  <1>8. ASSUME NEW u, NEW i \in Ids, HeldUp(u, i) PROVE HeldUp(u, i)'
    <2>1. \A v \in 1 .. currentVersion : v \in 1 .. barrierVersion
      BY <1>v
    <2>2. ringVersions[i] > currentVersion => ringVersions[i] \in 1 .. barrierVersion
      BY <1>f, <1>v
    <2> QED
      BY <1>8, <2>1, <2>2, <1>n, <1>b DEF HeldUp, InFront, Waiting
  <1>9. Separated'
    <2>1. ASSUME NEW i \in Ids, NEW k \in Nat, k <= Len(ring[i]) + 1, NEW u, Precedes(u, i, k)
          PROVE  Precedes(u, i, k)'
      <3>1. \A l \in 1 .. k - 1 : l \in 1 .. Len(ring[i])
        BY <2>1, <1>0, Numbers
      <3>2. \A l \in 1 .. k - 1 : ring[i][l].version # 0 => ring[i][l].version \in 1 .. barrierVersion
        BY <3>1, <1>f, <1>v
      <3> QED
        BY <2>1, <3>2, <1>8, <1>n, <1>b DEF Precedes
    <2>2. \A i \in Ids : /\ Len(ring[i]) + 1 \in Nat /\ Len(ring[i]) \in Nat
                         /\ \A k \in 1 .. Len(ring[i]) : k \in Nat /\ k <= Len(ring[i]) + 1
      BY <1>0, Numbers
    <2> QED
      BY <2>1, <2>2, <1>n DEF IInv, Separated
  <1>10. Closing'
    <2>1. pc # "idle" /\ stepVersion > currentVersion => stepVersion \in 1 .. barrierVersion
      BY <1>f, <1>v
    <2> QED
      BY <2>1, <1>n, <1>b DEF IInv, Closing, Waiting
  <1>11. RunsInOrder'
    BY <1>n DEF IInv, RunsInOrder
  <1> QED
    BY <1>1, <1>2, <1>3, <1>4, <1>5, <1>6, <1>7, <1>9, <1>10, <1>11 DEF IInv

(* The barrier is pushed: what comes after it is fenced by what came before. *)
LEMMA BarrierPushKeeps ==
    ASSUME Counted, IInv, NEW p \in Ids, BarrierPush(p)
    PROVE  IInv'
  <1> DEFINE new == version[p]
             n == Len(ring[p])
  <1>0. Typed
    BY DEF IInv
  <1>n. /\ ringVersions' = ringVersions /\ barrierVersion' = barrierVersion
        /\ currentVersion' = currentVersion /\ at' = at /\ stepVersion' = stepVersion
        /\ executed' = executed /\ pc' = pc /\ task' = task /\ done' = done /\ pushed' = pushed
        /\ before' = before /\ earlier' = earlier
    BY DEF BarrierPush, consumer
  <1>c. /\ new # 0 /\ version' = [version EXCEPT ![p] = 0]
        /\ ring' = [ring EXCEPT ![p] = Append(@, Element(0, new))]
        /\ fence' = [fence EXCEPT ![p] = @ \cup before[new]]
    BY DEF BarrierPush
  <1>e. Element(0, new) \in Elements /\ Element(0, new).task = 0 /\ Element(0, new).version = new
    BY <1>0, Numbers DEF Element, Elements, Counted
  <1>r. /\ ring' \in [Ids -> Seq(Elements)]
        /\ n \in Nat /\ Len(ring'[p]) = n + 1
        /\ ring'[p][n + 1].task = 0 /\ ring'[p][n + 1].version = new
        /\ \A k \in 1 .. n : ring'[p][k] = ring[p][k]
        /\ \A j \in Ids : j # p => ring'[j] = ring[j]
    <2>1. ring \in [Ids -> Seq(Elements)]
      BY <1>0 DEF Typed
    <2> QED
      BY <2>1, <1>c, <1>e, Appended
  <1>v. new \in 1 .. MaxBarriers
    BY <1>c, <1>0, Numbers DEF Counted
  <1> HIDE DEF new, n
  <1>d. version'[p] = 0 /\ \A i \in Ids : i # p => version'[i] = version[i]
    BY <1>c, <1>0, Numbers
  <1>p. version[p] = new /\ Len(ring[p]) = n
    BY DEF new, n
  <1>k. \A i \in Ids : /\ Len(ring[i]) \in Nat
                       /\ \A k \in 1 .. Len(ring[i]) : ring'[i][k] = ring[i][k] /\ k \in 1 .. Len(ring'[i])
                       /\ \A k \in 1 .. Len(ring'[i]) :
                             \/ k \in 1 .. Len(ring[i])
                             \/ i = p /\ k = n + 1
    <2> SUFFICES ASSUME NEW i \in Ids
                 PROVE  /\ Len(ring[i]) \in Nat
                        /\ \A k \in 1 .. Len(ring[i]) : ring'[i][k] = ring[i][k] /\ k \in 1 .. Len(ring'[i])
                        /\ \A k \in 1 .. Len(ring'[i]) :
                             \/ k \in 1 .. Len(ring[i])
                             \/ i = p /\ k = n + 1
      OBVIOUS
    <2>1. Len(ring[i]) \in Nat
      BY <1>0, Numbers
    <2>2. CASE i = p
      BY <2>2, <1>r, <1>p
    <2>3. CASE i # p
      BY <2>1, <2>3, <1>r
    <2> QED
      BY <2>2, <2>3
  <1>1. Typed' /\ Serving'
    <2>1. TypeOK'
      <3>1. TypeOK
        BY <1>0 DEF Typed
      <3>2. version' \in [Ids -> 0 .. MaxBarriers]
        BY <3>1, <1>c DEF TypeOK, Counted
      <3>3. \A i \in Ids : \A k \in 1 .. Len(ring'[i]) : ring'[i][k] \in Elements
        BY <1>r
      <3> QED
        BY <1>n, <3>1, <3>2, <3>3 DEF TypeOK, Elements
    <2>2. Serving'
      BY <1>n DEF IInv, Serving, Served
    <2>3. fence' \in [Ids -> SUBSET Tasks]
      BY <1>c, <1>v, <1>0 DEF Typed
    <2>4. \A i \in Ids : \A k \in 1 .. Len(ring'[i]) : ring'[i][k].task = 0 <=> ring'[i][k].version # 0
      BY <1>r, <1>k, <1>c, <1>0 DEF Typed
    <2> QED
      BY <2>1, <2>2, <2>3, <2>4, <1>r, <1>0, <1>n DEF Typed
  <1>t. \A i \in Ids : \A k \in 1 .. Len(ring'[i]) :
           ring'[i][k].task # 0 => k \in 1 .. Len(ring[i]) /\ ring'[i][k] = ring[i][k]
    BY <1>k, <1>r
  <1>x. \A v : v # 0 /\ Present(v)' => Present(v)
    <2> SUFFICES ASSUME NEW v, v # 0, Present(v)' PROVE Present(v)
      OBVIOUS
    <2>1. CASE \E i \in Ids : version'[i] = v
      BY <2>1, <1>d DEF Present
    <2>2. CASE \E i \in Ids : \E k \in 1 .. Len(ring'[i]) : ring'[i][k].version = v
      <3>0. PICK i \in Ids : \E k \in 1 .. Len(ring'[i]) : ring'[i][k].version = v
        BY <2>2
      <3>1. PICK k \in 1 .. Len(ring'[i]) : ring'[i][k].version = v
        BY <3>0
      <3>2. CASE k \in 1 .. Len(ring[i])
        BY <3>1, <3>2, <1>k DEF Present
      <3>3. CASE i = p /\ k = n + 1
        BY <3>1, <3>3, <1>r, <1>p DEF Present
      <3> QED
        BY <3>2, <3>3, <1>k
    <2> QED
      BY <2>1, <2>2 DEF Present
  <1>2. VersionsDistinct'
    <2>1. ASSUME NEW i \in Ids, NEW j \in Ids, version'[i] # 0, version'[i] = version'[j]
          PROVE  i = j
      BY <2>1, <1>d DEF IInv, VersionsDistinct
    <2>2. ASSUME NEW i \in Ids, NEW j \in Ids, NEW k \in 1 .. Len(ring'[i]), ring'[i][k].version # 0
          PROVE  ring'[i][k].version # version'[j]
      <3>1. CASE k \in 1 .. Len(ring[i])
        <4>1. ring'[i][k].version = ring[i][k].version
          BY <3>1, <1>k
        <4>2. ring[i][k].version # version[j]
          BY <2>2, <3>1, <4>1 DEF IInv, VersionsDistinct
        <4> QED
          BY <2>2, <4>1, <4>2, <1>d
      <3>2. CASE i = p /\ k = n + 1
        BY <2>2, <3>2, <1>d, <1>r, <1>p, <1>c DEF IInv, VersionsDistinct
      <3> QED
        BY <3>1, <3>2, <1>k
    <2>3. ASSUME NEW i \in Ids, NEW j \in Ids, NEW k \in 1 .. Len(ring'[i]), NEW l \in 1 .. Len(ring'[j]),
                 ring'[i][k].version # 0, ring'[i][k].version = ring'[j][l].version
          PROVE  i = j /\ k = l
      <3>1. CASE k \in 1 .. Len(ring[i]) /\ l \in 1 .. Len(ring[j])
        <4>1. ring'[i][k] = ring[i][k] /\ ring'[j][l] = ring[j][l]
          BY <3>1, <1>k
        <4>2. ring[i][k].version # 0 /\ ring[i][k].version = ring[j][l].version
          BY <2>3, <4>1
        <4> QED
          BY <3>1, <4>2 DEF IInv, VersionsDistinct
      <3>2. CASE k \in 1 .. Len(ring[i]) /\ j = p /\ l = n + 1
        BY <2>3, <3>2, <1>k, <1>r, <1>p DEF IInv, VersionsDistinct
      <3>3. CASE i = p /\ k = n + 1 /\ l \in 1 .. Len(ring[j])
        BY <2>3, <3>3, <1>k, <1>r, <1>p, <1>c DEF IInv, VersionsDistinct
      <3>4. CASE i = p /\ k = n + 1 /\ j = p /\ l = n + 1
        BY <3>4
      <3> QED
        BY <3>1, <3>2, <3>3, <3>4, <1>k
    <2> QED
      BY <2>1, <2>2, <2>3, <1>n DEF IInv, VersionsDistinct
  <1>3. VersionsAhead'
    <2>1. /\ \A v \in 1 .. currentVersion : v # 0
          /\ \A i \in Ids : ringVersions[i] > currentVersion => ringVersions[i] # 0
          /\ stepVersion > currentVersion => stepVersion # 0
      BY <1>0, Numbers
    <2> QED
      BY <2>1, <1>n, <1>x DEF IInv, VersionsAhead
  <1>4. Drawn'
    <2>1. \A i \in Ids : version'[i] <= barrierVersion'
      <3>1. barrierVersion \in Nat
        BY <1>0, Numbers
      <3> QED
        BY <3>1, <1>n, <1>d DEF IInv, Drawn
    <2>2. \A i \in Ids : \A k \in 1 .. Len(ring'[i]) :
             ring'[i][k].version <= barrierVersion' /\ ring'[i][k].task <= pushed'
      <3> SUFFICES ASSUME NEW i \in Ids, NEW k \in 1 .. Len(ring'[i])
                   PROVE  ring'[i][k].version <= barrierVersion /\ ring'[i][k].task <= pushed
        BY <1>n
      <3>1. CASE k \in 1 .. Len(ring[i])
        BY <3>1, <1>k DEF IInv, Drawn
      <3>2. CASE i = p /\ k = n + 1
        BY <3>2, <1>r, <1>p, <1>0, Numbers DEF IInv, Drawn
      <3> QED
        BY <3>1, <3>2, <1>k
    <2> QED
      BY <2>1, <2>2, <1>n DEF IInv, Drawn
  <1>w. \A u : \A i \in Ids : Waiting(u, i) => Waiting(u, i)'
    BY <1>k DEF Waiting
  <1>5. Kept'
    BY <1>n, <1>w DEF IInv, Kept
  <1>6. BehindBarriers'
    <2> SUFFICES ASSUME NEW i \in Ids, NEW k \in 1 .. Len(ring'[i]), NEW l \in 1 .. k - 1,
                        ring'[i][k].task # 0
                 PROVE  After(ring[i][k].task, ring[i][l].version)'
      BY DEF BehindBarriers
    <2>1. k \in 1 .. Len(ring[i]) /\ ring'[i][k] = ring[i][k]
      BY <1>t
    <2>2. l \in 1 .. Len(ring[i]) /\ ring'[i][l] = ring[i][l]
      BY <2>1, <1>k
    <2> QED
      BY <2>1, <2>2, <1>n DEF IInv, BehindBarriers, After
  <1>7. BehindTaken'
    BY <1>t, <1>n DEF IInv, BehindTaken, After
  <1>8. ASSUME NEW u, NEW i \in Ids, HeldUp(u, i) PROVE HeldUp(u, i)'
    <2>1. \A j \in 1 .. i - 1 : j \in Ids
      BY DEF Ids, Counted
    <2> QED
      BY <1>8, <2>1, <1>w, <1>n DEF HeldUp, InFront
  <1>9. Separated'
    <2>1. ASSUME NEW i \in Ids, NEW k \in 1 .. Len(ring[i]) + 1, NEW m \in Nat, k <= m,
                 NEW u, Precedes(u, i, k)
          PROVE  Precedes(u, i, m)'
      <3>1. \A l \in 1 .. k - 1 : l \in 1 .. Len(ring[i]) /\ l \in 1 .. m - 1 /\ ring'[i][l] = ring[i][l]
        BY <2>1, <1>k
      <3> QED
        BY <2>1, <3>1, <1>8, <1>n DEF Precedes
    <2>2. ASSUME NEW i \in Ids, NEW k \in 1 .. Len(ring'[i]), ring'[i][k].task # 0,
                 NEW u \in earlier'[ring'[i][k].task]
          PROVE  Precedes(u, i, k)'
      <3>1. k \in 1 .. Len(ring[i]) /\ ring'[i][k] = ring[i][k]
        BY <2>2, <1>t
      <3>2. Precedes(u, i, k)
        BY <2>2, <3>1, <1>n DEF IInv, Separated
      <3>3. k \in 1 .. Len(ring[i]) + 1 /\ k \in Nat /\ k <= k
        BY <3>1, <1>k
      <3> QED
        BY <2>1, <3>2, <3>3
    <2>3. ASSUME NEW i \in Ids, NEW u \in fence'[i]
          PROVE  Precedes(u, i, Len(ring[i]) + 1)'
      <3>1. CASE u \in fence[i]
        <4>1. Precedes(u, i, Len(ring[i]) + 1)
          BY <3>1 DEF IInv, Separated
        <4>2. /\ Len(ring[i]) + 1 \in 1 .. Len(ring[i]) + 1 /\ Len(ring'[i]) + 1 \in Nat
              /\ Len(ring[i]) + 1 <= Len(ring'[i]) + 1
          BY <1>k, <1>r, <1>p
        <4> QED
          BY <2>1, <4>1, <4>2
      <3>2. CASE i = p /\ u \in before[new]
        <4>1. n + 1 \in 1 .. (Len(ring'[p]) + 1) - 1
          BY <1>r
        <4> QED
          BY <3>2, <4>1, <1>r, <1>c, <1>n DEF Precedes
      <3> QED
        BY <3>1, <3>2, <2>3, <1>c, <1>0 DEF Typed
    <2> QED
      BY <2>2, <2>3 DEF Separated
  <1>10. Closing'
    BY <1>w, <1>n DEF IInv, Closing
  <1>11. RunsInOrder'
    BY <1>n DEF IInv, RunsInOrder
  <1> QED
    BY <1>1, <1>2, <1>3, <1>4, <1>5, <1>6, <1>7, <1>9, <1>10, <1>11 DEF IInv

(* A task is pushed: it is behind every barrier that has been drawn.         *)
LEMMA PushKeeps ==
    ASSUME Counted, IInv, NEW p \in Ids, Push(p)
    PROVE  IInv'
  <1> DEFINE new == pushed + 1
             n == Len(ring[p])
  <1>0. Typed
    BY DEF IInv
  <1>n. /\ ringVersions' = ringVersions /\ barrierVersion' = barrierVersion
        /\ currentVersion' = currentVersion /\ at' = at /\ stepVersion' = stepVersion
        /\ executed' = executed /\ pc' = pc /\ task' = task /\ done' = done /\ version' = version
        /\ before' = before /\ fence' = fence
    BY DEF Push, consumer
  <1>c. /\ pushed' = new
        /\ ring' = [ring EXCEPT ![p] = Append(@, Element(new, 0))]
        /\ earlier' = [earlier EXCEPT ![new] = fence[p]]
    BY DEF Push
  <1>v. new \in Tasks /\ new \in Nat /\ new # 0 /\ pushed < new /\ pushed \in Nat
    <2>1. pushed \in Nat /\ pushed < MaxTasks /\ MaxTasks \in Nat
      BY <1>0, Numbers DEF Push, Counted
    <2> QED
      BY <2>1 DEF Tasks
  <1>e. Element(new, 0) \in Elements /\ Element(new, 0).task = new /\ Element(new, 0).version = 0
    BY <1>v DEF Element, Elements, Tasks, Counted
  <1>r. /\ ring' \in [Ids -> Seq(Elements)]
        /\ n \in Nat /\ Len(ring'[p]) = n + 1
        /\ ring'[p][n + 1].task = new /\ ring'[p][n + 1].version = 0
        /\ \A k \in 1 .. n : ring'[p][k] = ring[p][k]
        /\ \A j \in Ids : j # p => ring'[j] = ring[j]
    <2>1. ring \in [Ids -> Seq(Elements)]
      BY <1>0 DEF Typed
    <2> QED
      BY <2>1, <1>c, <1>e, Appended
  <1>y. \A i \in Ids : \A k \in 1 .. Len(ring[i]) : ring[i][k].task <= pushed /\ ring[i][k].task \in Nat
    BY <1>0, Numbers DEF IInv, Drawn
  <1>z. \A v \in 1 .. MaxBarriers : new \notin before[v]
    BY <1>v DEF IInv, Drawn
  <1> HIDE DEF new, n
  <1>p. Len(ring[p]) = n
    BY DEF n
  <1>k. \A i \in Ids : /\ Len(ring[i]) \in Nat
                       /\ \A k \in 1 .. Len(ring[i]) : ring'[i][k] = ring[i][k] /\ k \in 1 .. Len(ring'[i])
                       /\ \A k \in 1 .. Len(ring'[i]) :
                             \/ k \in 1 .. Len(ring[i])
                             \/ i = p /\ k = n + 1
    <2> SUFFICES ASSUME NEW i \in Ids
                 PROVE  /\ Len(ring[i]) \in Nat
                        /\ \A k \in 1 .. Len(ring[i]) : ring'[i][k] = ring[i][k] /\ k \in 1 .. Len(ring'[i])
                        /\ \A k \in 1 .. Len(ring'[i]) :
                             \/ k \in 1 .. Len(ring[i])
                             \/ i = p /\ k = n + 1
      OBVIOUS
    <2>1. Len(ring[i]) \in Nat
      BY <1>0, Numbers
    <2>2. CASE i = p
      BY <2>2, <1>r, <1>p
    <2>3. CASE i # p
      BY <2>1, <2>3, <1>r
    <2> QED
      BY <2>2, <2>3
  <1>q. \A t \in Nat : t <= pushed /\ t # 0 => earlier'[t] = earlier[t]
    BY <1>c, <1>v, <1>0, Numbers DEF Typed, Tasks, Counted
  <1>1. Typed' /\ Serving'
    <2>1. TypeOK'
      <3>1. TypeOK
        BY <1>0 DEF Typed
      <3>2. pushed' \in 0 .. MaxTasks
        BY <1>c, <1>v DEF Tasks, Counted
      <3>3. \A i \in Ids : \A k \in 1 .. Len(ring'[i]) : ring'[i][k] \in Elements
        BY <1>r
      <3> QED
        BY <1>n, <3>1, <3>2, <3>3 DEF TypeOK, Elements
    <2>2. Serving'
      BY <1>n DEF IInv, Serving, Served
    <2>3. earlier' \in [Tasks -> SUBSET Tasks]
      BY <1>c, <1>v, <1>0 DEF Typed
    <2>4. \A i \in Ids : \A k \in 1 .. Len(ring'[i]) : ring'[i][k].task = 0 <=> ring'[i][k].version # 0
      BY <1>r, <1>k, <1>v, <1>0 DEF Typed
    <2> QED
      BY <2>1, <2>2, <2>3, <2>4, <1>r, <1>0, <1>n DEF Typed
  <1>t. \A i \in Ids : \A k \in 1 .. Len(ring'[i]) :
           ring'[i][k].version # 0 => k \in 1 .. Len(ring[i]) /\ ring'[i][k] = ring[i][k]
    BY <1>k, <1>r
  <1>x. \A v : v # 0 /\ Present(v)' => Present(v)
    BY <1>t, <1>n DEF Present
  <1>2. VersionsDistinct'
    <2>1. ASSUME NEW i \in Ids, NEW j \in Ids, NEW k \in 1 .. Len(ring'[i]), ring'[i][k].version # 0
          PROVE  ring'[i][k].version # version[j]
      BY <2>1, <1>t DEF IInv, VersionsDistinct
    <2>2. ASSUME NEW i \in Ids, NEW j \in Ids, NEW k \in 1 .. Len(ring'[i]), NEW l \in 1 .. Len(ring'[j]),
                 ring'[i][k].version # 0, ring'[i][k].version = ring'[j][l].version
          PROVE  i = j /\ k = l
      <3>1. /\ k \in 1 .. Len(ring[i]) /\ ring'[i][k] = ring[i][k]
            /\ l \in 1 .. Len(ring[j]) /\ ring'[j][l] = ring[j][l]
        BY <2>2, <1>t
      <3>2. ring[i][k].version # 0 /\ ring[i][k].version = ring[j][l].version
        BY <2>2, <3>1
      <3> QED
        BY <3>1, <3>2 DEF IInv, VersionsDistinct
    <2> QED
      BY <2>1, <2>2, <1>n DEF IInv, VersionsDistinct
  <1>3. VersionsAhead'
    <2>1. /\ \A v \in 1 .. currentVersion : v # 0
          /\ \A i \in Ids : ringVersions[i] > currentVersion => ringVersions[i] # 0
          /\ stepVersion > currentVersion => stepVersion # 0
      BY <1>0, Numbers
    <2> QED
      BY <2>1, <1>n, <1>x DEF IInv, VersionsAhead
  <1>4. Drawn'
    <2>1. \A i \in Ids : \A k \in 1 .. Len(ring'[i]) :
             ring'[i][k].version <= barrierVersion' /\ ring'[i][k].task <= pushed'
      <3> SUFFICES ASSUME NEW i \in Ids, NEW k \in 1 .. Len(ring'[i])
                   PROVE  ring'[i][k].version <= barrierVersion /\ ring'[i][k].task <= new
        BY <1>n, <1>c
      <3>1. CASE k \in 1 .. Len(ring[i])
        <4>1. ring'[i][k] = ring[i][k] /\ ring[i][k].version <= barrierVersion
          BY <3>1, <1>k DEF IInv, Drawn
        <4>2. ring[i][k].task <= pushed /\ ring[i][k].task \in Nat
          BY <3>1, <1>y
        <4> QED
          BY <4>1, <4>2, <1>v
      <3>2. CASE i = p /\ k = n + 1
        BY <3>2, <1>r, <1>v, <1>0, Numbers
      <3> QED
        BY <3>1, <3>2, <1>k
    <2>2. \A v \in 1 .. MaxBarriers : before[v] \subseteq 1 .. new
      BY <1>v DEF IInv, Drawn
    <2>3. task <= new
      BY <1>v, <1>0, Numbers DEF IInv, Drawn
    <2> QED
      BY <2>1, <2>2, <2>3, <1>n, <1>c DEF IInv, Drawn
  <1>w. \A u : \A i \in Ids : Waiting(u, i) => Waiting(u, i)'
    BY <1>k DEF Waiting
  <1>5. Kept'
    <2> SUFFICES ASSUME NEW u \in 1 .. pushed'
                 PROVE  u \in done' \/ u = task' \/ \E i \in Ids : Waiting(u, i)'
      BY DEF Kept
    <2>1. CASE u \in 1 .. pushed
      BY <2>1, <1>n, <1>w DEF IInv, Kept
    <2>2. CASE u = new
      <3>1. n + 1 \in 1 .. Len(ring'[p])
        BY <1>r
      <3> QED
        BY <2>2, <3>1, <1>r DEF Waiting
    <2> QED
      BY <2>1, <2>2, <1>c, <1>v DEF new
  <1>6. BehindBarriers'
    <2> SUFFICES ASSUME NEW i \in Ids, NEW k \in 1 .. Len(ring'[i]), NEW l \in 1 .. k - 1,
                        ring'[i][k].task # 0
                 PROVE  After(ring[i][k].task, ring[i][l].version)'
      BY DEF BehindBarriers
    <2>1. l \in 1 .. Len(ring[i]) /\ ring'[i][l] = ring[i][l]
      BY <1>k, <1>r, <1>p
    <2>2. CASE k \in 1 .. Len(ring[i])
      <3>1. ring'[i][k] = ring[i][k]
        BY <2>2, <1>k
      <3> QED
        BY <2>1, <2>2, <3>1, <1>n DEF IInv, BehindBarriers, After
    <2>3. CASE i = p /\ k = n + 1
      <3>0. ring[i][l].version \in Nat /\ ring[i][l].version <= MaxBarriers
        BY <2>1, <1>0, Numbers DEF IInv
      <3>1. \A w \in 1 .. ring[i][l].version : w \in 1 .. MaxBarriers
        BY <3>0 DEF Counted
      <3> QED
        BY <2>1, <2>3, <3>1, <1>r, <1>z, <1>n DEF After
    <2> QED
      BY <2>2, <2>3, <1>k
  <1>7. BehindTaken'
    <2> SUFFICES ASSUME NEW i \in Ids, NEW k \in 1 .. Len(ring'[i]),
                        ring'[i][k].task # 0, ringVersions[i] > currentVersion
                 PROVE  \A w \in 1 .. ringVersions[i] : ring'[i][k].task \notin before[w]
      BY <1>n DEF BehindTaken, After
    <2>1. CASE k \in 1 .. Len(ring[i])
      BY <2>1, <1>k DEF IInv, BehindTaken, After
    <2>2. CASE i = p /\ k = n + 1
      <3>0. ringVersions[i] \in Nat /\ ringVersions[i] <= MaxBarriers
        BY <1>0, Numbers
      <3>1. \A w \in 1 .. ringVersions[i] : w \in 1 .. MaxBarriers
        BY <3>0 DEF Counted
      <3> QED
        BY <2>2, <3>1, <1>r, <1>z
    <2> QED
      BY <2>1, <2>2, <1>k
  <1>8. ASSUME NEW u, NEW i \in Ids, HeldUp(u, i) PROVE HeldUp(u, i)'
    <2>1. \A j \in 1 .. i - 1 : j \in Ids
      BY DEF Ids, Counted
    <2> QED
      BY <1>8, <2>1, <1>w, <1>n DEF HeldUp, InFront
  <1>9. Separated'
    <2>1. ASSUME NEW i \in Ids, NEW k \in 1 .. Len(ring[i]) + 1, NEW m \in Nat, k <= m,
                 NEW u, Precedes(u, i, k)
          PROVE  Precedes(u, i, m)'
      <3>1. \A l \in 1 .. k - 1 : l \in 1 .. Len(ring[i]) /\ l \in 1 .. m - 1 /\ ring'[i][l] = ring[i][l]
        BY <2>1, <1>k
      <3> QED
        BY <2>1, <3>1, <1>8, <1>n DEF Precedes
    <2>2. ASSUME NEW i \in Ids, NEW k \in 1 .. Len(ring'[i]), ring'[i][k].task # 0,
                 NEW u \in earlier'[ring'[i][k].task]
          PROVE  Precedes(u, i, k)'
      <3>1. CASE k \in 1 .. Len(ring[i])
        <4>1. ring'[i][k] = ring[i][k]
          BY <3>1, <1>k
        <4>2. u \in earlier[ring[i][k].task]
          BY <2>2, <3>1, <4>1, <1>y, <1>q
        <4>3. Precedes(u, i, k)
          BY <2>2, <3>1, <4>1, <4>2 DEF IInv, Separated
        <4>4. k \in 1 .. Len(ring[i]) + 1 /\ k \in Nat /\ k <= k
          BY <3>1, <1>k
        <4> QED
          BY <2>1, <4>3, <4>4
      <3>2. CASE i = p /\ k = n + 1
        <4>1. u \in fence[p]
          BY <2>2, <3>2, <1>r, <1>c, <1>v, <1>0 DEF Typed
        <4>2. Precedes(u, p, n + 1)
          BY <4>1, <1>p DEF IInv, Separated
        <4>3. n + 1 \in 1 .. Len(ring[p]) + 1 /\ n + 1 \in Nat /\ n + 1 <= n + 1
          BY <1>p, <1>r
        <4> QED
          BY <2>1, <3>2, <4>2, <4>3
      <3> QED
        BY <3>1, <3>2, <1>k
    <2>3. ASSUME NEW i \in Ids, NEW u \in fence'[i]
          PROVE  Precedes(u, i, Len(ring[i]) + 1)'
      <3>1. Precedes(u, i, Len(ring[i]) + 1)
        BY <2>3, <1>n DEF IInv, Separated
      <3>2. /\ Len(ring[i]) + 1 \in 1 .. Len(ring[i]) + 1 /\ Len(ring'[i]) + 1 \in Nat
            /\ Len(ring[i]) + 1 <= Len(ring'[i]) + 1
        BY <1>k, <1>r, <1>p
      <3> QED
        BY <2>1, <3>1, <3>2
    <2> QED
      BY <2>2, <2>3 DEF Separated
  <1>10. Closing'
    BY <1>w, <1>n DEF IInv, Closing
  <1>11. RunsInOrder'
    <2>1. CASE task = 0
      BY <2>1, <1>n DEF RunsInOrder
    <2>2. CASE task # 0
      <3>1. task \in Nat /\ task <= pushed
        BY <1>0, Numbers DEF IInv, Drawn
      <3> QED
        BY <2>2, <3>1, <1>n, <1>q DEF IInv, RunsInOrder
    <2> QED
      BY <2>1, <2>2
  <1> QED
    BY <1>1, <1>2, <1>3, <1>4, <1>5, <1>6, <1>7, <1>9, <1>10, <1>11 DEF IInv

-----------------------------------------------------------------------------
(* What the consumer takes                                                   *)

(* The front of ring at has been taken.                                      *)
LEMMA Taken ==
    ASSUME Counted, IInv, Pop
    PROVE  /\ at \in Ids /\ ringVersions[at] <= currentVersion /\ task = 0 /\ pc = "rings"
           /\ Len(ring[at]) \in Nat /\ 1 \in 1 .. Len(ring[at]) /\ Head(ring[at]) = ring[at][1]
           /\ ring' \in [Ids -> Seq(Elements)]
           /\ Len(ring'[at]) \in Nat
           /\ \A k \in 1 .. Len(ring'[at]) : ring'[at][k] = ring[at][k + 1] /\ k + 1 \in 1 .. Len(ring[at])
           /\ \A k \in 1 .. Len(ring[at]) :
                 k # 1 => k - 1 \in 1 .. Len(ring'[at]) /\ ring'[at][k - 1] = ring[at][k]
           /\ \A j \in Ids : j # at => ring'[j] = ring[j]
           /\ \A j \in Ids : Len(ring[j]) \in Nat
  <1>0. Typed
    BY DEF IInv
  <1>1. at \in Ids /\ ringVersions[at] <= currentVersion /\ pc = "rings" /\ ring[at] # <<>>
    BY <1>0, Numbers DEF Pop, Served, Ids, Counted
  <1>2. task = 0
    BY <1>0, <1>1 DEF Typed, TypeOK
  <1>3. ring \in [Ids -> Seq(Elements)] /\ ring' = [ring EXCEPT ![at] = Tail(@)]
    BY <1>0 DEF Typed, Pop
  <1>4. /\ ring' \in [Ids -> Seq(Elements)]
        /\ Len(ring[at]) \in Nat \ {0} /\ Len(ring'[at]) = Len(ring[at]) - 1
        /\ Head(ring[at]) = ring[at][1]
        /\ \A k \in 1 .. Len(ring'[at]) : ring'[at][k] = ring[at][k + 1] /\ k + 1 \in 1 .. Len(ring[at])
        /\ \A j \in Ids : j # at => ring'[j] = ring[j]
    BY <1>1, <1>3, Popped
  <1>5. \A k \in 1 .. Len(ring[at]) :
           k # 1 => k - 1 \in 1 .. Len(ring'[at]) /\ ring'[at][k - 1] = ring[at][k]
    <2> SUFFICES ASSUME NEW k \in 1 .. Len(ring[at]), k # 1
                 PROVE  k - 1 \in 1 .. Len(ring'[at]) /\ ring'[at][k - 1] = ring[at][k]
      OBVIOUS
    <2>1. k - 1 \in 1 .. Len(ring'[at])
      BY <1>4
    <2>2. ring'[at][k - 1] = ring[at][(k - 1) + 1]
      BY <1>4, <2>1
    <2> QED
      BY <2>1, <2>2
  <1>6. \A j \in Ids : Len(ring[j]) \in Nat
    BY <1>0, Numbers
  <1>7. Len(ring'[at]) \in Nat
    BY <1>4
  <1>8. 1 \in 1 .. Len(ring[at])
    BY <1>4
  <1> QED
    BY <1>1, <1>2, <1>4, <1>5, <1>6, <1>7, <1>8

(* What is in a ring now was in it before. *)
LEMMA TakenFrom ==
    ASSUME Counted, IInv, Pop, NEW i \in Ids, NEW k \in 1 .. Len(ring'[i])
    PROVE  \E m \in 1 .. Len(ring[i]) :
              /\ ring'[i][k] = ring[i][m]
              /\ IF i = at THEN m = k + 1 ELSE m = k
  BY Taken

LEMMA TakenLength ==
    ASSUME Counted, IInv, Pop, NEW i \in Ids
    PROVE  /\ Len(ring[i]) \in Nat /\ Len(ring'[i]) \in Nat
           /\ IF i = at THEN Len(ring[i]) = Len(ring'[i]) + 1 ELSE Len(ring[i]) = Len(ring'[i])
  <1>1. at \in Ids /\ \A j \in Ids : Len(ring[j]) \in Nat
    BY Taken
  <1>2. ring \in [Ids -> Seq(Elements)] /\ ring' = [ring EXCEPT ![at] = Tail(@)] /\ ring[at] # <<>>
    BY DEF IInv, Typed, Pop
  <1>3. Len(ring[at]) \in Nat \ {0} /\ Len(ring'[at]) = Len(ring[at]) - 1
    BY <1>1, <1>2, Popped
  <1> QED
    BY <1>1, <1>3, Taken

(* A task u # 0 that waited in a ring does so still, but for the one taken.  *)
LEMMA TakenWaiting ==
    ASSUME Counted, IInv, Pop, NEW u, NEW i \in Ids, Waiting(u, i), u # ring[at][1].task
    PROVE  Waiting(u, i)'
  <1>1. PICK k \in 1 .. Len(ring[i]) : ring[i][k].task = u
    BY DEF Waiting
  <1>2. CASE i = at
    <2>1. k # 1
      BY <1>1, <1>2
    <2>2. k - 1 \in 1 .. Len(ring'[at]) /\ ring'[at][k - 1] = ring[at][k]
      BY <1>1, <1>2, <2>1, Taken
    <2> QED
      BY <1>1, <1>2, <2>2 DEF Waiting
  <1>3. CASE i # at
    BY <1>1, <1>3, Taken DEF Waiting
  <1> QED
    BY <1>2, <1>3

(* What a ring at its turn still owes has been done.                         *)
LEMMA ServedOwesNothing ==
    ASSUME Counted, IInv, Pop, NEW u, HeldUp(u, at)
    PROVE  u \in done
  <1>1. at \in Ids /\ ringVersions[at] <= currentVersion /\ pc = "rings" /\ ringVersions[at] \in Nat
    BY Taken, Numbers DEF IInv
  <1>2. currentVersion \in Nat /\ at \in Nat
    BY Numbers DEF IInv
  <1> QED
    BY <1>1, <1>2 DEF HeldUp, InFront

(* The rings after a Pop: the parts of the invariant about order and places. *)
LEMMA TakenOrder ==
    ASSUME Counted, IInv, Pop, version' = version, before' = before
    PROVE  /\ \A v : Present(v)' => Present(v)
           /\ \A i, j \in Ids : \A k \in 1 .. Len(ring'[i]), l \in 1 .. Len(ring'[j]) :
                 ring'[i][k].version # 0 /\ ring'[i][k].version = ring'[j][l].version => i = j /\ k = l
           /\ \A i, j \in Ids : \A k \in 1 .. Len(ring'[i]) :
                 ring'[i][k].version # 0 => ring'[i][k].version # version[j]
           /\ \A i \in Ids : \A k \in 1 .. Len(ring'[i]) :
                 /\ ring'[i][k].task = 0 <=> ring'[i][k].version # 0
                 /\ ring'[i][k].version <= barrierVersion /\ ring'[i][k].task <= pushed
           /\ BehindBarriers'
  <1>1. ASSUME NEW v, Present(v)' PROVE Present(v)
    <2>1. CASE \E i \in Ids : version'[i] = v
      BY <2>1 DEF Present
    <2>2. CASE \E i \in Ids : \E k \in 1 .. Len(ring'[i]) : ring'[i][k].version = v
      BY <2>2, TakenFrom DEF Present
    <2> QED
      BY <1>1, <2>1, <2>2 DEF Present
  <1>2. ASSUME NEW i \in Ids, NEW j \in Ids, NEW k \in 1 .. Len(ring'[i]), NEW l \in 1 .. Len(ring'[j]),
               ring'[i][k].version # 0, ring'[i][k].version = ring'[j][l].version
        PROVE  i = j /\ k = l
    <2>1. PICK m \in 1 .. Len(ring[i]) :
             ring'[i][k] = ring[i][m] /\ IF i = at THEN m = k + 1 ELSE m = k
      BY TakenFrom
    <2>2. PICK q \in 1 .. Len(ring[j]) :
             ring'[j][l] = ring[j][q] /\ IF j = at THEN q = l + 1 ELSE q = l
      BY TakenFrom
    <2>3. ring[i][m].version # 0 /\ ring[i][m].version = ring[j][q].version
      BY <1>2, <2>1, <2>2
    <2>4. i = j /\ m = q
      BY <2>3 DEF IInv, VersionsDistinct
    <2> QED
      BY <2>1, <2>2, <2>4
  <1>3. ASSUME NEW i \in Ids, NEW k \in 1 .. Len(ring'[i])
        PROVE  /\ \A j \in Ids : ring'[i][k].version # 0 => ring'[i][k].version # version[j]
               /\ ring'[i][k].task = 0 <=> ring'[i][k].version # 0
               /\ ring'[i][k].version <= barrierVersion /\ ring'[i][k].task <= pushed
    <2>1. PICK m \in 1 .. Len(ring[i]) : ring'[i][k] = ring[i][m]
      BY TakenFrom
    <2> QED
      BY <2>1 DEF IInv, VersionsDistinct, Typed, Drawn
  <1>4. BehindBarriers'
    <2> SUFFICES ASSUME NEW i \in Ids, NEW k \in 1 .. Len(ring'[i]), NEW l \in 1 .. k - 1,
                        ring'[i][k].task # 0
                 PROVE  After(ring[i][k].task, ring[i][l].version)'
      BY DEF BehindBarriers
    <2>1. l \in 1 .. Len(ring'[i])
      BY Taken
    <2>2. PICK m \in 1 .. Len(ring[i]) :
             ring'[i][k] = ring[i][m] /\ IF i = at THEN m = k + 1 ELSE m = k
      BY TakenFrom
    <2>3. PICK q \in 1 .. Len(ring[i]) :
             ring'[i][l] = ring[i][q] /\ IF i = at THEN q = l + 1 ELSE q = l
      BY <2>1, TakenFrom
    <2>4. q \in 1 .. m - 1
      BY <2>2, <2>3
    <2>5. After(ring[i][m].task, ring[i][q].version)
      BY <2>2, <2>4 DEF IInv, BehindBarriers
    <2> QED
      BY <2>2, <2>3, <2>5 DEF After
  <1> QED
    BY <1>1, <1>2, <1>3, <1>4

LEMMA TakeTaskKeeps ==
    ASSUME Counted, IInv, TakeTask
    PROVE  IInv'
  <1> DEFINE new == ring[at][1].task
  <1>0. Typed /\ Pop
    BY DEF IInv, TakeTask
  <1>n. /\ ringVersions' = ringVersions /\ barrierVersion' = barrierVersion
        /\ currentVersion' = currentVersion /\ at' = at /\ stepVersion' = stepVersion
        /\ executed' = TRUE /\ done' = done /\ version' = version /\ pushed' = pushed
        /\ before' = before /\ fence' = fence /\ earlier' = earlier
    BY DEF TakeTask, Pop, unchangedByConsumer, history
  <1>t. /\ at \in Ids /\ ringVersions[at] <= currentVersion /\ task = 0 /\ pc = "rings"
        /\ 1 \in 1 .. Len(ring[at])
    BY <1>0, Taken
  <1>c. pc' = "run" /\ task' = new /\ new # 0
    BY <1>0, Taken DEF TakeTask
  <1>v. new \in Tasks /\ ring[at][1].version = 0 /\ new <= pushed
    <2>1. new \in Nat /\ new <= MaxTasks
      BY <1>t, <1>0, Numbers
    <2>2. new <= pushed
      BY <1>t DEF IInv, Drawn
    <2>3. ring[at][1].version = 0
      BY <1>t, <1>c DEF IInv, Typed
    <2> HIDE DEF new
    <2> QED
      BY <2>1, <2>2, <2>3, <1>c DEF Tasks, Counted
  <1> HIDE DEF new
  <1>o. /\ \A v : Present(v)' => Present(v)
        /\ \A i, j \in Ids : \A k \in 1 .. Len(ring'[i]), l \in 1 .. Len(ring'[j]) :
              ring'[i][k].version # 0 /\ ring'[i][k].version = ring'[j][l].version => i = j /\ k = l
        /\ \A i, j \in Ids : \A k \in 1 .. Len(ring'[i]) :
              ring'[i][k].version # 0 => ring'[i][k].version # version[j]
        /\ \A i \in Ids : \A k \in 1 .. Len(ring'[i]) :
              /\ ring'[i][k].task = 0 <=> ring'[i][k].version # 0
              /\ ring'[i][k].version <= barrierVersion /\ ring'[i][k].task <= pushed
        /\ BehindBarriers'
    BY <1>0, <1>n, TakenOrder
  <1>w. \A u : \A i \in Ids : Waiting(u, i) /\ u # new => Waiting(u, i)'
    BY <1>0, TakenWaiting DEF new
  <1>1. Typed' /\ Serving'
    <2>0. ring' \in [Ids -> Seq(Elements)]
      BY <1>0, Taken
    <2>1. TypeOK'
      <3>1. TypeOK
        BY <1>0 DEF Typed
      <3>2. task' \in 0 .. MaxTasks /\ (task' # 0 <=> pc' = "run")
        BY <1>c, <1>v DEF Tasks, Counted
      <3>3. \A i \in Ids : \A k \in 1 .. Len(ring'[i]) : ring'[i][k] \in Elements
        BY <2>0
      <3>4. executed' \in BOOLEAN /\ pc' \in {"idle", "rings", "run"}
        BY <1>n, <1>c
      <3> QED
        BY <1>n, <3>1, <3>2, <3>3, <3>4 DEF TypeOK, Elements
    <2>2. Serving'
      BY <1>n, <1>t, <1>0, Numbers DEF Serving, Served, Ids, Counted
    <2> QED
      BY <2>0, <2>1, <2>2, <1>o, <1>0, <1>n DEF Typed
  <1>2. VersionsDistinct'
    BY <1>o, <1>n DEF IInv, VersionsDistinct
  <1>3. VersionsAhead'
    BY <1>o, <1>n, <1>t DEF IInv, VersionsAhead
  <1>4. Drawn'
    BY <1>o, <1>n, <1>c, <1>t, <1>v DEF IInv, Drawn
  <1>5. Kept'
    BY <1>w, <1>n, <1>c, <1>t DEF IInv, Kept
  <1>7. BehindTaken'
    <2> SUFFICES ASSUME NEW i \in Ids, NEW k \in 1 .. Len(ring'[i]),
                        ring'[i][k].task # 0, ringVersions[i] > currentVersion
                 PROVE  \A w \in 1 .. ringVersions[i] : ring'[i][k].task \notin before[w]
      BY <1>n DEF BehindTaken, After
    <2>1. PICK m \in 1 .. Len(ring[i]) : ring'[i][k] = ring[i][m]
      BY <1>0, TakenFrom
    <2> QED
      BY <2>1 DEF IInv, BehindTaken, After
  <1>8. ASSUME NEW u, NEW i \in Ids, HeldUp(u, i) PROVE HeldUp(u, i)'
    <2>1. CASE u \in done \/ (ringVersions[i] > currentVersion /\ u \in before[ringVersions[i]])
      BY <2>1, <1>n DEF HeldUp
    <2>2. CASE ringVersions[i] <= currentVersion /\ InFront(u, i)
      <3>1. PICK v \in 1 .. currentVersion : u \in before[v]
        BY <2>2 DEF InFront
      <3>2. u # 0
        <4>1. v \in 1 .. MaxBarriers
          BY <1>0, Numbers DEF Counted
        <4> QED
          BY <3>1, <4>1, <1>0, BeforeTasks
      <3>3. PICK j \in 1 .. i - 1 : Waiting(u, j) /\ at <= j
        BY <2>2, <3>2, <1>t DEF InFront
      <3>4. j \in Ids /\ at < i
        BY <3>3, <1>t DEF Ids, Counted
      <3>5. CASE u = new
        BY <2>2, <3>1, <3>4, <3>5, <1>n, <1>c DEF HeldUp, InFront
      <3>6. CASE u # new
        BY <2>2, <3>1, <3>3, <3>4, <3>6, <1>w, <1>n, <1>c DEF HeldUp, InFront
      <3> QED
        BY <3>5, <3>6
    <2> QED
      BY <2>1, <2>2, <1>8 DEF HeldUp
  <1>9. Separated'
    <2>1. ASSUME NEW i \in Ids, NEW m \in 1 .. Len(ring[i]) + 1, NEW k \in Nat,
                 IF i = at THEN m = k + 1 ELSE m = k, NEW u, Precedes(u, i, m)
          PROVE  Precedes(u, i, k)'
      <3>1. CASE HeldUp(u, i)
        BY <3>1, <1>8 DEF Precedes
      <3>2. CASE \E l \in 1 .. m - 1 : ring[i][l].version # 0 /\ u \in before[ring[i][l].version]
        <4>1. PICK l \in 1 .. m - 1 : ring[i][l].version # 0 /\ u \in before[ring[i][l].version]
          BY <3>2
        <4>2. l \in 1 .. Len(ring[i])
          BY <1>0, Taken
        <4>3. CASE i # at
          BY <2>1, <4>1, <4>2, <4>3, <1>0, <1>n, Taken DEF Precedes
        <4>4. CASE i = at
          <5>1. l # 1
            BY <4>1, <4>4, <1>v
          <5>2. ring'[at][l - 1] = ring[at][l] /\ l - 1 \in 1 .. k - 1
            BY <2>1, <4>2, <4>4, <5>1, <1>0, Taken
          <5> QED
            BY <4>1, <4>4, <5>2, <1>n DEF Precedes
        <4> QED
          BY <4>3, <4>4
      <3> QED
        BY <2>1, <3>1, <3>2 DEF Precedes
    <2>2. ASSUME NEW i \in Ids, NEW k \in 1 .. Len(ring'[i]), ring'[i][k].task # 0,
                 NEW u \in earlier'[ring'[i][k].task]
          PROVE  Precedes(u, i, k)'
      <3>1. PICK m \in 1 .. Len(ring[i]) :
               ring'[i][k] = ring[i][m] /\ IF i = at THEN m = k + 1 ELSE m = k
        BY <1>0, TakenFrom
      <3>2. Precedes(u, i, m)
        BY <2>2, <3>1, <1>n DEF IInv, Separated
      <3>3. m \in 1 .. Len(ring[i]) + 1 /\ k \in Nat
        BY <3>1, <1>0, Taken
      <3> QED
        BY <2>1, <3>1, <3>2, <3>3
    <2>3. ASSUME NEW i \in Ids, NEW u \in fence'[i]
          PROVE  Precedes(u, i, Len(ring[i]) + 1)'
      <3>1. Precedes(u, i, Len(ring[i]) + 1)
        BY <2>3, <1>n DEF IInv, Separated
      <3>2. /\ Len(ring[i]) + 1 \in 1 .. Len(ring[i]) + 1 /\ Len(ring'[i]) + 1 \in Nat
            /\ IF i = at THEN Len(ring[i]) + 1 = (Len(ring'[i]) + 1) + 1
                         ELSE Len(ring[i]) + 1 = Len(ring'[i]) + 1
        BY <1>0, Taken, TakenLength
      <3> QED
        BY <2>1, <3>1, <3>2
    <2> QED
      BY <2>2, <2>3 DEF Separated
  <1>10. Closing'
    <2> SUFFICES ASSUME NEW i \in Ids, stepVersion > currentVersion, ringVersions[i] = stepVersion
                 PROVE  /\ i <= at
                        /\ \A u \in before[stepVersion] :
                              \/ u \in done \/ u = new
                              \/ \E j \in Ids \ {i} : Waiting(u, j)' /\ (j < i \/ at <= j)
      BY <1>n, <1>c DEF Closing
    <2>1. /\ i <= at
          /\ \A u \in before[stepVersion] :
                \/ u \in done \/ u = task
                \/ \E j \in Ids \ {i} : Waiting(u, j) /\ (j < i \/ at <= j)
      BY <1>t DEF IInv, Closing
    <2>2. stepVersion \in 1 .. MaxBarriers
      BY <1>0, <1>t, Numbers DEF IInv, Drawn, Counted
    <2>3. \A u \in before[stepVersion] : u # task
      BY <2>2, <1>t, <1>0, BeforeTasks
    <2> QED
      BY <2>1, <2>3, <1>w
  <1>11. RunsInOrder'
    <2>1. ASSUME NEW u \in earlier[new] PROVE u \in done
      <3>1. Precedes(u, at, 1)
        BY <2>1, <1>t, <1>c DEF new, IInv, Separated
      <3>2. HeldUp(u, at)
        BY <3>1 DEF Precedes
      <3> QED
        BY <3>2, <1>0, ServedOwesNothing
    <2> QED
      BY <2>1, <1>n, <1>c DEF RunsInOrder
  <1> QED
    BY <1>1, <1>2, <1>3, <1>4, <1>5, <1>o, <1>7, <1>9, <1>10, <1>11 DEF IInv

(* A barrier is taken: its ring waits, if only until the end of the pass.    *)
LEMMA TakeBarrierKeeps ==
    ASSUME Counted, IInv, TakeBarrier
    PROVE  IInv'
  <1> DEFINE new == ring[at][1].version
  <1>0. Typed /\ Pop
    BY DEF IInv, TakeBarrier
  <1>n. /\ barrierVersion' = barrierVersion
        /\ currentVersion' = currentVersion /\ at' = at /\ pc' = pc /\ task' = task
        /\ executed' = TRUE /\ done' = done /\ version' = version /\ pushed' = pushed
        /\ before' = before /\ fence' = fence /\ earlier' = earlier
    BY DEF TakeBarrier, Pop, unchangedByConsumer, history
  <1>t. /\ at \in Ids /\ ringVersions[at] <= currentVersion /\ task = 0 /\ pc = "rings"
        /\ 1 \in 1 .. Len(ring[at])
    BY <1>0, Taken
  <1>h. ring[at][1].task = 0 /\ new # 0
    BY <1>0, <1>t, Taken DEF TakeBarrier, Typed
  <1>i. /\ currentVersion \in Nat /\ new \in Nat /\ MaxBarriers \in Nat /\ stepVersion \in Nat
        /\ barrierVersion \in Nat /\ barrierVersion <= MaxBarriers
        /\ stepVersion = currentVersion \/ stepVersion = currentVersion + 1
    BY <1>0, <1>t, Numbers DEF Counted
  <1>p. Present(new)
    BY <1>t DEF Present
  <1>v. new > currentVersion /\ new <= barrierVersion /\ new \in 1 .. MaxBarriers
    <2>1. new \notin 1 .. currentVersion
      BY <1>p DEF IInv, VersionsAhead
    <2>2. new <= barrierVersion
      BY <1>t DEF IInv, Drawn
    <2> QED
      BY <2>1, <2>2, <1>h, <1>i
  <1>c. /\ stepVersion' = IF currentVersion + 1 = new THEN new ELSE stepVersion
        /\ ringVersions' = [ringVersions EXCEPT ![at] = new]
    <2>1. Settle(new)
      BY <1>0, Taken DEF TakeBarrier
    <2>2. (IF currentVersion > new THEN currentVersion ELSE new) = new
      BY <1>v, <1>i
    <2> QED
      BY <2>1, <2>2 DEF Settle
  <1>q. /\ ~\E i \in Ids : version[i] = new
        /\ ~\E i \in Ids : \E k \in 1 .. Len(ring'[i]) : ring'[i][k].version = new
    <2>1. ~\E i \in Ids : version[i] = new
      BY <1>t, <1>h DEF IInv, VersionsDistinct
    <2>2. ASSUME NEW i \in Ids, NEW k \in 1 .. Len(ring'[i]), ring'[i][k].version = new
          PROVE  FALSE
      <3>1. PICK m \in 1 .. Len(ring[i]) :
               ring'[i][k] = ring[i][m] /\ IF i = at THEN m = k + 1 ELSE m = k
        BY <1>0, TakenFrom
      <3>2. ring[at][1].version # 0 /\ ring[at][1].version = ring[i][m].version
        BY <2>2, <3>1, <1>h
      <3>3. i = at /\ m = 1
        BY <3>2, <1>t DEF IInv, VersionsDistinct
      <3> QED
        BY <3>1, <3>3
    <2> QED
      BY <2>1, <2>2
  <1>z. \A i \in Ids : \A k \in 1 .. Len(ring[i]) :
           i = at /\ ring[i][k].task # 0 => \A w \in 1 .. new : ring[i][k].task \notin before[w]
    <2> SUFFICES ASSUME NEW k \in 1 .. Len(ring[at]), ring[at][k].task # 0
                 PROVE  After(ring[at][k].task, new)
      BY DEF After
    <2>1. k # 1
      BY <1>h
    <2>2. 1 \in 1 .. k - 1
      BY <2>1, <1>0, Taken
    <2> QED
      BY <2>2, <1>t DEF IInv, BehindBarriers
  <1>r. /\ ringVersions'[at] = new
        /\ \A i \in Ids : i # at => ringVersions'[i] = ringVersions[i]
    BY <1>c, <1>t, <1>0, Numbers
  <1>e. \A i \in Ids : ringVersions[i] \in Nat /\ (ringVersions[i] > currentVersion => ringVersions[i] # new)
    BY <1>p, <1>0, Numbers DEF IInv, VersionsAhead
  <1>s. stepVersion > currentVersion => stepVersion # new
    BY <1>p, <1>t DEF IInv, VersionsAhead
  <1>o. /\ \A v : Present(v)' => Present(v)
        /\ \A i, j \in Ids : \A k \in 1 .. Len(ring'[i]), l \in 1 .. Len(ring'[j]) :
              ring'[i][k].version # 0 /\ ring'[i][k].version = ring'[j][l].version => i = j /\ k = l
        /\ \A i, j \in Ids : \A k \in 1 .. Len(ring'[i]) :
              ring'[i][k].version # 0 => ring'[i][k].version # version[j]
        /\ \A i \in Ids : \A k \in 1 .. Len(ring'[i]) :
              /\ ring'[i][k].task = 0 <=> ring'[i][k].version # 0
              /\ ring'[i][k].version <= barrierVersion /\ ring'[i][k].task <= pushed
        /\ BehindBarriers'
    BY <1>0, <1>n, TakenOrder
  <1>w. \A u : \A i \in Ids : Waiting(u, i) /\ u # 0 => Waiting(u, i)'
    BY <1>0, <1>h, TakenWaiting
  <1> HIDE DEF new
  <1>u. \A v : v = new => ~Present(v)'
    BY <1>q, <1>n DEF Present
  <1>1. Typed' /\ Serving'
    <2>0. ring' \in [Ids -> Seq(Elements)]
      BY <1>0, Taken
    <2>1. TypeOK'
      <3>1. TypeOK
        BY <1>0 DEF Typed
      <3>2. ringVersions' \in [Ids -> 0 .. MaxBarriers]
        <4>1. new \in 0 .. MaxBarriers
          BY <1>v
        <4> QED
          BY <4>1, <3>1, <1>c DEF TypeOK
      <3>3. \A i \in Ids : \A k \in 1 .. Len(ring'[i]) : ring'[i][k] \in Elements
        BY <2>0
      <3>4. executed' \in BOOLEAN
        BY <1>n
      <3>5. stepVersion' \in {currentVersion', currentVersion' + 1}
        BY <1>n, <1>c, <1>i
      <3> QED
        BY <1>n, <3>1, <3>2, <3>3, <3>4, <3>5 DEF TypeOK, Elements
    <2>2. Serving'
      BY <1>n, <1>t DEF Serving
    <2> QED
      BY <2>0, <2>1, <2>2, <1>o, <1>0, <1>n DEF Typed
  <1>2. VersionsDistinct'
    <2>1. ASSUME NEW i \in Ids, NEW j \in Ids, ringVersions'[i] > currentVersion,
                 ringVersions'[i] = ringVersions'[j]
          PROVE  i = j
      BY <2>1, <1>r, <1>e DEF IInv, VersionsDistinct
    <2> QED
      BY <2>1, <1>o, <1>n DEF IInv, VersionsDistinct
  <1>3. VersionsAhead'
    <2>1. \A i \in Ids : \A v : v = ringVersions'[i] /\ v > currentVersion => ~Present(v)'
      <3> SUFFICES ASSUME NEW i \in Ids, NEW v, v = ringVersions'[i], v > currentVersion
                   PROVE  ~Present(v)'
        OBVIOUS
      <3>1. CASE i = at
        BY <3>1, <1>r, <1>u
      <3>2. CASE i # at
        BY <3>2, <1>r, <1>o DEF IInv, VersionsAhead
      <3> QED
        BY <3>1, <3>2
    <2>2. \A v : v = stepVersion' /\ v > currentVersion => ~Present(v)'
      BY <1>c, <1>u, <1>o, <1>t DEF IInv, VersionsAhead
    <2> QED
      BY <2>1, <2>2, <1>o, <1>n DEF IInv, VersionsAhead
  <1>4. Drawn'
    <2>1. \A i \in Ids : ringVersions'[i] <= barrierVersion
      BY <1>r, <1>v DEF IInv, Drawn
    <2>2. stepVersion' <= barrierVersion
      BY <1>c, <1>v, <1>t DEF IInv, Drawn
    <2> QED
      BY <2>1, <2>2, <1>o, <1>n DEF IInv, Drawn
  <1>5. Kept'
    <2> SUFFICES ASSUME NEW u \in 1 .. pushed
                 PROVE  u \in done \/ u = task \/ \E i \in Ids : Waiting(u, i)'
      BY <1>n DEF Kept
    <2>1. u # 0
      OBVIOUS
    <2> QED
      BY <2>1, <1>w DEF IInv, Kept
  <1>7. BehindTaken'
    <2> SUFFICES ASSUME NEW i \in Ids, NEW k \in 1 .. Len(ring'[i]),
                        ring'[i][k].task # 0, ringVersions'[i] > currentVersion
                 PROVE  \A w \in 1 .. ringVersions'[i] : ring'[i][k].task \notin before[w]
      BY <1>n DEF BehindTaken, After
    <2>1. PICK m \in 1 .. Len(ring[i]) : ring'[i][k] = ring[i][m]
      BY <1>0, TakenFrom
    <2>2. CASE i = at
      BY <2>1, <2>2, <1>r, <1>z
    <2>3. CASE i # at
      BY <2>1, <2>3, <1>r DEF IInv, BehindTaken, After
    <2> QED
      BY <2>2, <2>3
  <1>8. ASSUME NEW u, NEW i \in Ids, HeldUp(u, i) PROVE HeldUp(u, i)'
    <2>1. CASE u \in done
      BY <2>1, <1>n DEF HeldUp
    <2>2. CASE i = at
      BY <2>1, <2>2, <1>8, <1>0, <1>n, ServedOwesNothing DEF HeldUp
    <2>3. CASE i # at /\ ringVersions[i] > currentVersion /\ u \in before[ringVersions[i]]
      BY <2>3, <1>r, <1>n DEF HeldUp
    <2>4. CASE i # at /\ ringVersions[i] <= currentVersion /\ InFront(u, i)
      <3>1. PICK v \in 1 .. currentVersion : u \in before[v]
        BY <2>4 DEF InFront
      <3>2. u # 0
        <4>1. v \in 1 .. MaxBarriers
          BY <1>0, Numbers DEF Counted
        <4> QED
          BY <3>1, <4>1, <1>0, BeforeTasks
      <3>3. PICK j \in 1 .. i - 1 : Waiting(u, j) /\ at <= j
        BY <2>4, <3>2, <1>t DEF InFront
      <3>4. j \in Ids
        BY <3>3 DEF Ids, Counted
      <3>5. InFront(u, i)'
        BY <3>1, <3>2, <3>3, <3>4, <1>w, <1>n DEF InFront
      <3> QED
        BY <2>4, <3>5, <1>r, <1>n DEF HeldUp
    <2> QED
      BY <2>1, <2>2, <2>3, <2>4, <1>8 DEF HeldUp
  <1>9. Separated'
    <2>1. ASSUME NEW i \in Ids, NEW m \in 1 .. Len(ring[i]) + 1, NEW k \in Nat,
                 IF i = at THEN m = k + 1 ELSE m = k, NEW u, Precedes(u, i, m)
          PROVE  Precedes(u, i, k)'
      <3>1. CASE HeldUp(u, i)
        BY <3>1, <1>8 DEF Precedes
      <3>2. CASE \E l \in 1 .. m - 1 : ring[i][l].version # 0 /\ u \in before[ring[i][l].version]
        <4>1. PICK l \in 1 .. m - 1 : ring[i][l].version # 0 /\ u \in before[ring[i][l].version]
          BY <3>2
        <4>2. l \in 1 .. Len(ring[i])
          BY <1>0, Taken
        <4>3. CASE i # at
          BY <2>1, <4>1, <4>2, <4>3, <1>0, <1>n, Taken DEF Precedes
        <4>4. CASE i = at /\ l = 1
          <5>1. HeldUp(u, i)'
            BY <4>1, <4>4, <1>r, <1>v, <1>n DEF HeldUp, new
          <5> QED
            BY <5>1 DEF Precedes
        <4>5. CASE i = at /\ l # 1
          <5>1. ring'[at][l - 1] = ring[at][l]
            BY <4>2, <4>5, <1>0, Taken
          <5>2. ring'[at][l - 1] = ring[at][l] /\ l - 1 \in 1 .. k - 1
            BY <2>1, <4>1, <4>5, <5>1
          <5> QED
            BY <4>1, <4>5, <5>2, <1>n DEF Precedes
        <4> QED
          BY <4>3, <4>4, <4>5
      <3> QED
        BY <2>1, <3>1, <3>2 DEF Precedes
    <2>2. ASSUME NEW i \in Ids, NEW k \in 1 .. Len(ring'[i]), ring'[i][k].task # 0,
                 NEW u \in earlier'[ring'[i][k].task]
          PROVE  Precedes(u, i, k)'
      <3>1. PICK m \in 1 .. Len(ring[i]) :
               ring'[i][k] = ring[i][m] /\ IF i = at THEN m = k + 1 ELSE m = k
        BY <1>0, TakenFrom
      <3>2. Precedes(u, i, m)
        BY <2>2, <3>1, <1>n DEF IInv, Separated
      <3>3. m \in 1 .. Len(ring[i]) + 1 /\ k \in Nat
        BY <3>1, <1>0, Taken
      <3> QED
        BY <2>1, <3>1, <3>2, <3>3
    <2>3. ASSUME NEW i \in Ids, NEW u \in fence'[i]
          PROVE  Precedes(u, i, Len(ring[i]) + 1)'
      <3>1. Precedes(u, i, Len(ring[i]) + 1)
        BY <2>3, <1>n DEF IInv, Separated
      <3>2. /\ Len(ring[i]) + 1 \in 1 .. Len(ring[i]) + 1 /\ Len(ring'[i]) + 1 \in Nat
            /\ IF i = at THEN Len(ring[i]) + 1 = (Len(ring'[i]) + 1) + 1
                         ELSE Len(ring[i]) + 1 = Len(ring'[i]) + 1
        BY <1>0, Taken, TakenLength
      <3> QED
        BY <2>1, <3>1, <3>2
    <2> QED
      BY <2>2, <2>3 DEF Separated
  <1>10. Closing'
    <2> SUFFICES ASSUME NEW i \in Ids, stepVersion' > currentVersion, ringVersions'[i] = stepVersion'
                 PROVE  /\ i <= at
                        /\ \A u \in before[stepVersion'] :
                              \/ u \in done \/ u = task
                              \/ \E j \in Ids \ {i} : Waiting(u, j)' /\ (j < i \/ at <= j)
      BY <1>n DEF Closing
    <2>1. CASE i = at
      <3>1. stepVersion' = new
        BY <2>1, <1>r
      <3>2. ASSUME NEW u \in before[new], u \notin done, u # task
            PROVE  \E j \in Ids \ {i} : Waiting(u, j)' /\ (j < i \/ at <= j)
        <4>1. u \in 1 .. pushed /\ u # 0
          BY <1>v DEF IInv, Drawn
        <4>2. PICK j \in Ids : Waiting(u, j)
          BY <3>2, <4>1 DEF IInv, Kept
        <4>3. j # at
          BY <4>1, <4>2, <1>z, <1>v DEF Waiting
        <4>4. j < at \/ at <= j
          BY <1>t DEF Ids
        <4> QED
          BY <2>1, <4>1, <4>2, <4>3, <4>4, <1>w
      <3> QED
        BY <2>1, <3>1, <3>2, <1>t DEF Ids
    <2>2. CASE i # at
      <3>1. ringVersions[i] = stepVersion' /\ ringVersions[i] > currentVersion
        BY <2>2, <1>r
      <3>2. stepVersion' = stepVersion /\ stepVersion > currentVersion
        BY <3>1, <1>c, <1>e
      <3>3. /\ i <= at
            /\ \A u \in before[stepVersion] :
                  \/ u \in done \/ u = task
                  \/ \E j \in Ids \ {i} : Waiting(u, j) /\ (j < i \/ at <= j)
        BY <3>1, <3>2, <1>t DEF IInv, Closing
      <3>4. stepVersion \in 1 .. MaxBarriers
        BY <3>2, <1>i, <1>t DEF IInv, Drawn
      <3>5. \A u \in before[stepVersion] : u # 0
        BY <3>4, <1>0, BeforeTasks
      <3> QED
        BY <3>2, <3>3, <3>5, <1>w
    <2> QED
      BY <2>1, <2>2
  <1>11. RunsInOrder'
    BY <1>n, <1>t DEF RunsInOrder
  <1> QED
    BY <1>1, <1>2, <1>3, <1>4, <1>5, <1>o, <1>7, <1>9, <1>10, <1>11 DEF IInv

-----------------------------------------------------------------------------
(* The theorem                                                               *)

LEMMA StutterKeeps ==
    ASSUME IInv, UNCHANGED vars
    PROVE  IInv'
  <1>n. /\ ring' = ring /\ ringVersions' = ringVersions /\ barrierVersion' = barrierVersion
        /\ currentVersion' = currentVersion /\ version' = version /\ pushed' = pushed
        /\ task' = task /\ done' = done /\ pc' = pc /\ stepVersion' = stepVersion
        /\ executed' = executed /\ at' = at
        /\ before' = before /\ fence' = fence /\ earlier' = earlier
    BY DEF vars, queue, consumer, history
  <1>1. Typed' /\ Serving' /\ VersionsDistinct'
    BY <1>n DEF IInv, Typed, TypeOK, Serving, Served, VersionsDistinct
  <1>2. VersionsAhead' /\ Drawn' /\ Kept'
    BY <1>n DEF IInv, VersionsAhead, Present, Drawn, Kept, Waiting
  <1>3. BehindBarriers' /\ BehindTaken' /\ Closing' /\ RunsInOrder'
    BY <1>n DEF IInv, BehindBarriers, BehindTaken, After, Closing, Waiting, RunsInOrder
  <1>4. Separated'
    BY <1>n DEF IInv, Separated, Precedes, HeldUp, InFront, Waiting
  <1> QED
    BY <1>1, <1>2, <1>3, <1>4 DEF IInv

LEMMA Initially ==
    ASSUME Counted, Init
    PROVE  IInv
  <1>1. Typed /\ Serving
    <2>1. TypeOK
      <3>1. \A i \in Ids : ring[i] = <<>>
        BY DEF Init
      <3>2. at \in 1 .. Rings + 1 /\ stepVersion \in {currentVersion, currentVersion + 1}
        BY DEF Init, Counted
      <3>3. executed \in BOOLEAN /\ pc \in {"idle", "rings", "run"} /\ (task # 0 <=> pc = "run")
        BY DEF Init
      <3>4. /\ ringVersions \in [Ids -> 0 .. MaxBarriers] /\ version \in [Ids -> 0 .. MaxBarriers]
            /\ barrierVersion \in 0 .. MaxBarriers /\ currentVersion \in 0 .. barrierVersion
            /\ task \in 0 .. MaxTasks /\ pushed \in 0 .. MaxTasks /\ done \subseteq Tasks
        BY DEF Init, Counted
      <3>5. \A i \in Ids : \A k \in 1 .. Len(ring[i]) : FALSE
        BY <3>1
      <3> QED
        BY <3>2, <3>3, <3>4, <3>5 DEF TypeOK
    <2>2. ring \in [Ids -> Seq(Elements)]
      BY DEF Init
    <2> QED
      BY <2>1, <2>2 DEF Counted, Init, Typed, Serving
  <1>2. VersionsDistinct /\ VersionsAhead /\ Kept /\ BehindBarriers /\ BehindTaken
    BY DEF Init, VersionsDistinct, VersionsAhead, Kept, BehindBarriers, BehindTaken
  <1>3. Drawn
    BY DEF Init, Drawn
  <1>4. Separated /\ Closing /\ RunsInOrder
    BY DEF Init, Separated, Closing, RunsInOrder
  <1> QED
    BY <1>1, <1>2, <1>3, <1>4 DEF IInv

(* What a barrier is for ("barrier", TaskQueue.cpp): a task pushed after it  *)
(* runs after every task that any thread has pushed before it was drawn,     *)
(* whatever the number of rings, and even where barriers are passed over.    *)
THEOREM Barriers ==
    ASSUME Rings \in Nat, MaxTasks \in Nat, MaxBarriers \in Nat
    PROVE  Spec => []BarrierSeparates
  <1>0. Counted
    BY DEF Counted
  <1>1. Init => IInv
    BY <1>0, Initially
  <1>2. IInv /\ [Next]_vars => IInv'
    <2> SUFFICES ASSUME IInv, [Next]_vars PROVE IInv'
      OBVIOUS
    <2>1. ASSUME NEW i \in Ids, Push(i) \/ Barrier(i) \/ BarrierPush(i) PROVE IInv'
      BY <2>1, <1>0, PushKeeps, BarrierKeeps, BarrierPushKeeps
    <2>2. CASE Begin
      BY <2>2, <1>0, BeginKeeps
    <2>3. CASE TakeBarrier
      BY <2>3, <1>0, TakeBarrierKeeps
    <2>4. CASE TakeTask
      BY <2>4, <1>0, TakeTaskKeeps
    <2>5. CASE Run
      BY <2>5, <1>0, RunKeeps
    <2>6. CASE RunAndStop
      BY <2>6, <1>0, RunAndStopKeeps
    <2>7. CASE NextRing
      BY <2>7, <1>0, NextRingKeeps
    <2>8. CASE NextPass
      BY <2>8, <1>0, NextPassKeeps
    <2>9. CASE UNCHANGED vars
      BY <2>9, <1>0, StutterKeeps
    <2> QED
      BY <2>1, <2>2, <2>3, <2>4, <2>5, <2>6, <2>7, <2>8, <2>9 DEF Next, Producer, Consumer
  <1>3. IInv => BarrierSeparates
    BY DEF IInv, Typed, RunsInOrder, BarrierSeparates
  <1> QED
    BY <1>1, <1>2, <1>3, PTL DEF Spec

=============================================================================
