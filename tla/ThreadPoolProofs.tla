-------------------------- MODULE ThreadPoolProofs --------------------------
(***************************************************************************)
(* Proofs about ThreadPool for any number of threads, clients, tasks, list *)
(* heads and priorities: who owns a task; from the invariant for that, what*)
(* the counters count; that every dispatch that is accepted is run or      *)
(* aborted once; what Uninitialize leaves behind: nothing; and that no     *)
(* task hangs in a chain that nothing leads to.                            *)
(***************************************************************************)
EXTENDS ThreadPool, FiniteSetTheorems, WellFoundedInduction, TLAPS

(* The inductive invariant: SingleOwner needs to know what each thread holds *)
(* at each point (HeldOK), and HeldOK needs SingleOwner to know that no other *)
(* thread changes the task it holds.                                         *)
IInv == TypeOK /\ SingleOwner /\ HeldOK

USE ThreadCountAssumption, ThreadsAssumption, DataAssumption

(* Two names for owners are equal only if they name the same pointer.        *)
LEMMA OwnersDistinct ==
    /\ \A s : Free # OnHead(s)
    /\ \A x : Free # Behind(x)
    /\ \A t : Free # InLink(t) /\ Free # InHand(t) /\ Free # InRest(t)
    /\ \A s, r : OnHead(s) = OnHead(r) => s = r
    /\ \A x, y : Behind(x) = Behind(y) => x = y
    /\ \A t, u : InLink(t) = InLink(u) => t = u
    /\ \A t, u : InHand(t) = InHand(u) => t = u
    /\ \A t, u : InRest(t) = InRest(u) => t = u
    /\ \A s, x : OnHead(s) # Behind(x)
    /\ \A s, t : OnHead(s) # InLink(t) /\ OnHead(s) # InHand(t) /\ OnHead(s) # InRest(t)
    /\ \A x, t : Behind(x) # InLink(t) /\ Behind(x) # InHand(t) /\ Behind(x) # InRest(t)
    /\ \A t, u : InLink(t) # InHand(u) /\ InLink(t) # InRest(u) /\ InHand(t) # InRest(u)
BY DEF Free, OnHead, Behind, InLink, InHand, InRest

(* Labels that a step may go to.                                             *)
LEMMA SomeLabels == {"exec", "idle", "dnotify", "wakeall", "wait"} \subseteq Labels
BY DEF Labels, Dispatching, Polling, Taking, Waiting

(* There are finitely many threads, so runningCount counts a finite set.     *)
LEMMA ThreadsFinite == IsFiniteSet(Threads)
BY FS_Union DEF Threads

(* The invariant holds once Initialize has returned.                         *)
LEMMA InitInv == Init => IInv
<1> SUFFICES ASSUME Init PROVE IInv
    OBVIOUS
<1>1. TypeOK
    BY DEF Init, TypeOK, Slots, Pointers, Owners, Labels, Waiting
<1>2. SingleOwner
    BY <1>1, OwnersDistinct DEF Init, SingleOwner, HeadOwner, NextOwner, HoldOwner, MarkOwner, Pointers
<1>3. HeldOK
  <2>1. Claiming = {}
    BY DEF Init, Claiming, Claims, Taking, Threads
  <2>2. Cardinality(Claiming) = 0
    BY <2>1, FS_EmptySet
  <2> QED
    BY <2>2 DEF Init, HeldOK, Held, Threads, Pushing, Detached, OfCloser, Dispatching, Taking
<1> QED
    BY <1>1, <1>2, <1>3 DEF IInv

-----------------------------------------------------------------------------
(* Steps that leave the lists alone.                                         *)

(* The state of no thread but t changes.                                     *)
OthersSame(t) ==
    \A u \in Threads \ {t} :
        /\ pc'[u] = pc[u] /\ exec'[u] = exec[u]
        /\ link'[u] = link[u] /\ hand'[u] = hand[u] /\ rest'[u] = rest[u]
        /\ want'[u] = want[u] /\ slot'[u] = slot[u] /\ from'[u] = from[u]
        /\ bound'[u] = bound[u]

(* Only the Closer takes part in Uninitialize, and takes no other part. *)
Role(t) ==
    /\ pc[t] \in OfCloser => t = Closer
    /\ t = Closer =>
          /\ exec[t] = Null
          /\ pc[t] \in OfCloser \cup {"idle", "wait", "asleep", "done"}
          /\ pc[t] # "idle" => runningToken = 0

(* runningCount follows t in and out of Claiming. *)
Counted(t) ==
    \/ Claims(t)' = Claims(t) /\ runningCount' = runningCount
    \/ ~Claims(t) /\ Claims(t)' /\ runningCount' = runningCount + 1
    \/ Claims(t) /\ ~Claims(t)' /\ runningCount' = runningCount - 1

(* What a step of t that leaves the lists alone has to show. *)
Quiet(t) ==
    /\ UNCHANGED <<lists, holds, queued>>
    /\ runningToken' = runningToken \/ runningToken' = 0
    /\ TypeOK' /\ OthersSame(t)
    /\ Held(t)' /\ Role(t)' /\ Counted(t)

(* runningCount stays the number of threads between the fetch_add and the    *)
(* fetch_sub of Poll.                                                        *)
LEMMA ClaimingCount ==
    ASSUME HeldOK, NEW t \in Threads, OthersSame(t), Counted(t)
    PROVE  (runningCount = Cardinality(Claiming))'
<1>1. IsFiniteSet(Claiming) /\ runningCount = Cardinality(Claiming)
    BY ThreadsFinite, FS_Subset DEF Claiming, HeldOK
<1>2. \A u \in Threads \ {t} : Claims(u)' <=> Claims(u)
    BY DEF OthersSame, Claims
<1>3. CASE Claims(t)' = Claims(t) /\ runningCount' = runningCount
  <2>1. Claiming' = Claiming
    BY <1>2, <1>3 DEF Claiming
  <2> QED
    BY <1>1, <1>3, <2>1
<1>4. CASE ~Claims(t) /\ Claims(t)' /\ runningCount' = runningCount + 1
  <2>1. Claiming' = Claiming \cup {t} /\ t \notin Claiming
    BY <1>2, <1>4 DEF Claiming
  <2> QED
    BY <1>1, <1>4, <2>1, FS_AddElement
<1>5. CASE Claims(t) /\ ~Claims(t)' /\ runningCount' = runningCount - 1
  <2>1. Claiming' = Claiming \ {t} /\ t \in Claiming
    BY <1>2, <1>5 DEF Claiming
  <2> QED
    BY <1>1, <1>5, <2>1, FS_RemoveElement
<1> QED
    BY <1>3, <1>4, <1>5 DEF Counted

(* The part of HeldOK that a step of t can disturb is what it does to t, to  *)
(* the next field of a task another thread holds, and to a task it frees.    *)
LEMMA HeldStep ==
    ASSUME TypeOK, HeldOK, NEW t \in Threads, OthersSame(t),
           Held(t)', Role(t)', Counted(t),
           runningToken' = runningToken \/ runningToken' = 0,
           \A u \in Threads \ {t} :
              /\ pc[u] \in Detached => next'[hand[u]] = next[hand[u]]
              /\ pc[u] \in {"dcount", "dtry", "dload"} => next'[link[u]] = next[link[u]],
           \A x \in Tasks : owner'[x] = Free => next'[x] = Null
    PROVE  HeldOK'
<1>1. \A u \in Threads : Held(u)'
  <2> SUFFICES ASSUME NEW u \in Threads \ {t} PROVE Held(u)'
    OBVIOUS
  <2>1. Held(u)
    BY DEF HeldOK
  <2> QED
    BY <2>1 DEF OthersSame, Held, Pushing, Detached, Dispatching, Taking, Slots
<1>2. \A u \in Threads : pc'[u] \in OfCloser => u = Closer
    BY DEF HeldOK, OthersSame, Role
<1>3. /\ exec'[Closer] = Null
      /\ pc'[Closer] \in OfCloser \cup {"idle", "wait", "asleep", "done"}
      /\ pc'[Closer] # "idle" => runningToken' = 0
  <2>1. CASE t = Closer
    BY <2>1 DEF Role, OfCloser
  <2>2. CASE t # Closer
    <3>1. Closer \in Threads \ {t}
      BY <2>2 DEF Threads
    <3> QED
      BY <3>1 DEF HeldOK, OthersSame, OfCloser
  <2> QED
    BY <2>1, <2>2
<1> QED
    BY <1>1, <1>2, <1>3, ClaimingCount DEF HeldOK, OfCloser

(* A step that leaves the lists alone preserves the invariant.               *)
LEMMA QuietStep ==
    ASSUME IInv, NEW t \in Threads, Quiet(t)
    PROVE  IInv'
<1>1. SingleOwner'
    BY DEF IInv, Quiet, SingleOwner, HeadOwner, NextOwner, HoldOwner, MarkOwner,
           TypeOK, lists, holds
<1>2. HeldOK'
  <2>1. \A x \in Tasks : owner'[x] = Free => next'[x] = Null
    BY DEF IInv, Quiet, HeldOK, lists, Free
  <2> QED
    BY <2>1, HeldStep DEF IInv, Quiet, lists, holds
<1> QED
    BY <1>1, <1>2 DEF IInv, Quiet

(* The steps of Dispatch that do not push. *)
LEMMA DispatchQuiet ==
    ASSUME IInv, NEW t \in Threads,
           \/ \E x \in Tasks, priority \in Priorities : Dispatch(t, x, priority)
           \/ DispatchCount(t) \/ DispatchLoad(t) \/ DispatchCheck(t) \/ DispatchSignal(t)
    PROVE  IInv'
<1> USE DEF IInv, Goto, lists, marks, counters, switches, event, holds, scratch, runs
<1>1. ASSUME NEW x \in Tasks, NEW priority \in Priorities, Dispatch(t, x, priority)
      PROVE  IInv'
  <2> USE <1>1 DEF Dispatch, Caller
  <2>1. <<SlotIndex(priority), 1>> \in Slots
    BY DEF SlotIndex, Least, Slots
  <2>2. TypeOK' /\ OthersSame(t)
    BY <2>1 DEF TypeOK, OthersSame, Pointers, Labels, Dispatching, Polling, Taking, Waiting, Slots
  <2>3. Held(t)'
    <3>1. Held(t)
      BY DEF HeldOK
    <3> QED
      BY <2>1, <3>1 DEF TypeOK, Held, Pushing, Detached, Dispatching, Taking
  <2>4. Role(t)' /\ Counted(t)
    BY <2>1 DEF TypeOK, HeldOK, Held, Role, Counted, Claims, OfCloser, Dispatching, Taking
  <2> QED
    BY <2>2, <2>3, <2>4, QuietStep DEF Quiet
<1>2. CASE DispatchCount(t)
  <2> USE <1>2 DEF DispatchCount
  <2>1. TypeOK' /\ OthersSame(t)
    BY DEF TypeOK, OthersSame, Pointers, Labels, Dispatching, Polling, Taking, Waiting
  <2>2. Held(t)'
    BY DEF TypeOK, HeldOK, Held, Pointers, Slots, Pushing, Detached, Dispatching, Taking
  <2>3. Role(t)' /\ Counted(t)
    BY DEF TypeOK, HeldOK, Held, Role, Counted, Claims, OfCloser, Dispatching, Taking
  <2> QED
    BY <2>1, <2>2, <2>3, QuietStep DEF Quiet
<1>3. CASE DispatchLoad(t)
  <2> USE <1>3 DEF DispatchLoad
  <2>1. slot[t] \in Slots
    BY DEF HeldOK, Held, Dispatching
  <2>2. TypeOK' /\ OthersSame(t)
    BY <2>1 DEF TypeOK, OthersSame, Pointers, Labels, Dispatching, Polling, Taking, Waiting
  <2>3. Held(t)'
    BY <2>1 DEF TypeOK, HeldOK, Held, Pointers, Slots, Pushing, Detached, Dispatching, Taking
  <2>4. Role(t)' /\ Counted(t)
    BY <2>1 DEF TypeOK, HeldOK, Held, Role, Counted, Claims, OfCloser, Dispatching, Taking
  <2> QED
    BY <2>2, <2>3, <2>4, QuietStep DEF Quiet
<1>4. CASE DispatchCheck(t)
  <2> USE <1>4 DEF DispatchCheck, CheckSignal, Caller
  <2>1. TypeOK' /\ OthersSame(t)
    <3>1. pc' \in [Threads -> Labels]
      <4>1. pc \in [Threads -> Labels] /\ {"dnotify", "exec", "idle"} \subseteq Labels
        BY SomeLabels DEF TypeOK
      <4>2. PICK after \in {"dnotify", "exec", "idle"} : pc' = [pc EXCEPT ![t] = after]
        OBVIOUS
      <4> QED
        BY <4>1, <4>2
    <3>2. TypeOK'
      BY <3>1 DEF TypeOK, Pointers
    <3>3. OthersSame(t)
      BY DEF TypeOK, OthersSame
    <3> QED
      BY <3>2, <3>3
  <2>2. Held(t)'
    BY DEF TypeOK, HeldOK, Held, Pointers, Slots, Pushing, Detached, Dispatching, Taking
  <2>3. Role(t)' /\ Counted(t)
    BY DEF TypeOK, HeldOK, Held, Role, Counted, Claims, OfCloser, Dispatching, Taking
  <2> QED
    BY <2>1, <2>2, <2>3, QuietStep DEF Quiet
<1>5. CASE DispatchSignal(t)
  <2> USE <1>5 DEF DispatchSignal, SendSignal, Notify, Caller
  <2>1. TypeOK' /\ OthersSame(t)
    BY DEF TypeOK, OthersSame, Pointers, Labels, Dispatching, Polling, Taking, Waiting
  <2>2. Held(t)'
    <3>1. Held(t)
      BY DEF HeldOK
    <3> QED
      BY <3>1 DEF TypeOK, Held, Pushing, Detached, Dispatching, Taking
  <2>3. Role(t)' /\ Counted(t)
    BY DEF TypeOK, HeldOK, Held, Role, Counted, Claims, OfCloser, Dispatching, Taking
  <2> QED
    BY <2>1, <2>2, <2>3, QuietStep DEF Quiet
<1> QED
    BY <1>1, <1>2, <1>3, <1>4, <1>5

(* The steps of Poll that do not touch a list. *)
LEMMA PollQuiet ==
    ASSUME IInv, NEW t \in Threads,
           \/ PollBegin(t) \/ PollFetch(t) \/ PollClaim(t) \/ PollCheck(t) \/ PollSignal(t)
           \/ PollUncount(t) \/ PollRun(t) \/ PollFinish(t) \/ PollLeave(t)
    PROVE  IInv'
<1> USE DEF IInv, Goto, lists, marks, counters, switches, event, holds, scratch, runs
<1>1. CASE PollBegin(t)
  <2> USE <1>1 DEF PollBegin
  <2>1. runningCount \in Nat
    BY ThreadsFinite, FS_Subset, FS_CardinalityType DEF HeldOK, Claiming
  <2>2. ThreadCount - Least(runningCount, ThreadCount) \in 0 .. ThreadCount
    BY <2>1 DEF Least
  <2>3. bound'[t] <= ThreadCount /\ <<0, 1>> \in (0 .. ThreadCount) \X (1 .. Dup)
    BY <2>2 DEF TypeOK
  <2>4. TypeOK' /\ OthersSame(t)
    BY <2>1, <2>2, <2>3 DEF TypeOK, OthersSame, Pointers, Labels, Dispatching, Polling, Taking, Waiting
  <2>5. Held(t)'
    BY <2>1, <2>2, <2>3 DEF TypeOK, HeldOK, Held, Pointers, Slots, Pushing, Detached, Dispatching, Taking
  <2>6. Role(t)' /\ Counted(t)
    BY <2>1, <2>2, <2>3 DEF TypeOK, HeldOK, Held, Role, Counted, Claims, OfCloser, Dispatching, Taking
  <2> QED
    BY <2>4, <2>5, <2>6, QuietStep DEF Quiet
<1>2. CASE PollFetch(t)
  <2> USE <1>2 DEF PollFetch
  <2>1. /\ from[t] \in (0 .. ThreadCount) \X (1 .. Dup)
      /\ from[t][1] < bound[t] => from[t] \in Slots /\ NextSlot(from[t]) \in (0 .. ThreadCount) \X (1 .. Dup)
    <3>1. from[t] \in (0 .. ThreadCount) \X (1 .. Dup) /\ bound[t] \in Int
      BY DEF TypeOK
    <3>2. bound[t] <= ThreadCount
      BY DEF HeldOK, Held
    <3> QED
      BY <3>1, <3>2 DEF NextSlot, Slots
  <2>2. from' \in [Threads -> (0 .. ThreadCount) \X (1 .. Dup)]
    BY <2>1 DEF TypeOK
  <2>3. TypeOK' /\ OthersSame(t)
    BY <2>1, <2>2 DEF TypeOK, OthersSame, Pointers, Labels, Dispatching, Polling, Taking, Waiting
  <2>4. Held(t)'
    BY <2>1, <2>2 DEF TypeOK, HeldOK, Held, Pointers, Slots, Pushing, Detached, Dispatching, Taking
  <2>5. Role(t)' /\ Counted(t)
    BY <2>1, <2>2 DEF TypeOK, HeldOK, Held, Role, Counted, Claims, OfCloser, Dispatching, Taking
  <2> QED
    BY <2>3, <2>4, <2>5, QuietStep DEF Quiet
<1>3. CASE PollClaim(t)
  <2> USE <1>3 DEF PollClaim
  <2>1. TypeOK' /\ OthersSame(t)
    BY DEF TypeOK, OthersSame, Pointers, Labels, Dispatching, Polling, Taking, Waiting
  <2>2. Held(t)'
    BY DEF TypeOK, HeldOK, Held, Pointers, Slots, Pushing, Detached, Dispatching, Taking
  <2>3. Role(t)' /\ Counted(t)
    BY DEF TypeOK, HeldOK, Held, Role, Counted, Claims, OfCloser, Dispatching, Taking
  <2> QED
    BY <2>1, <2>2, <2>3, QuietStep DEF Quiet
<1>4. CASE PollCheck(t)
  <2> USE <1>4 DEF PollCheck, CheckSignal
  <2>1. pc'[t] \in {"rnotify", "uncount"}
    BY DEF TypeOK
  <2>2. TypeOK' /\ OthersSame(t)
    BY <2>1 DEF TypeOK, OthersSame, Pointers, Labels, Dispatching, Polling, Taking, Waiting
  <2>3. Held(t)'
    BY <2>1 DEF TypeOK, HeldOK, Held, Pointers, Slots, Pushing, Detached, Dispatching, Taking
  <2>4. Role(t)' /\ Counted(t)
    BY <2>1 DEF TypeOK, HeldOK, Held, Role, Counted, Claims, OfCloser, Dispatching, Taking
  <2> QED
    BY <2>2, <2>3, <2>4, QuietStep DEF Quiet
<1>5. CASE PollSignal(t)
  <2> USE <1>5 DEF PollSignal, SendSignal, Notify
  <2>1. TypeOK' /\ OthersSame(t)
    BY DEF TypeOK, OthersSame, Pointers, Labels, Dispatching, Polling, Taking, Waiting
  <2>2. Held(t)'
    BY DEF TypeOK, HeldOK, Held, Pointers, Slots, Pushing, Detached, Dispatching, Taking
  <2>3. Role(t)' /\ Counted(t)
    BY DEF TypeOK, HeldOK, Held, Role, Counted, Claims, OfCloser, Dispatching, Taking
  <2> QED
    BY <2>1, <2>2, <2>3, QuietStep DEF Quiet
<1>6. CASE PollUncount(t)
  <2> USE <1>6 DEF PollUncount
  <2>1. TypeOK' /\ OthersSame(t)
    BY DEF TypeOK, OthersSame, Pointers, Labels, Dispatching, Polling, Taking, Waiting
  <2>2. Held(t)'
    BY DEF TypeOK, HeldOK, Held, Pointers, Slots, Pushing, Detached, Dispatching, Taking
  <2>3. Role(t)' /\ Counted(t)
    BY DEF TypeOK, HeldOK, Held, Role, Counted, Claims, OfCloser, Dispatching, Taking
  <2> QED
    BY <2>1, <2>2, <2>3, QuietStep DEF Quiet
<1>7. CASE PollRun(t)
  <2> USE <1>7 DEF PollRun
  <2>1. exec[t] \in Tasks
    BY DEF TypeOK, HeldOK, Held, Pointers
  <2>2. settled' \in [Tasks -> Nat] /\ exec' \in [Threads -> Pointers]
    BY <2>1 DEF TypeOK, Pointers
  <2>3. TypeOK' /\ OthersSame(t)
    <3>1. pc' \in [Threads -> Labels]
      BY <2>1, <2>2 DEF TypeOK, Labels, Dispatching, Polling, Taking, Waiting
    <3>2. TypeOK'
      BY <2>1, <2>2, <3>1 DEF TypeOK, Pointers
    <3>3. OthersSame(t)
      BY <2>1, <2>2 DEF TypeOK, OthersSame
    <3> QED
      BY <3>2, <3>3
  <2>4. Held(t)'
    BY <2>1, <2>2 DEF TypeOK, HeldOK, Held, Pointers, Slots, Pushing, Detached, Dispatching, Taking
  <2>5. Role(t)' /\ Counted(t)
    BY <2>1, <2>2 DEF TypeOK, HeldOK, Held, Role, Counted, Claims, OfCloser, Dispatching, Taking
  <2> QED
    BY <2>3, <2>4, <2>5, QuietStep DEF Quiet
<1>8. CASE PollFinish(t)
  <2> USE <1>8 DEF PollFinish
  <2>1. TypeOK' /\ OthersSame(t)
    BY DEF TypeOK, OthersSame, Pointers, Labels, Dispatching, Polling, Taking, Waiting
  <2>2. Held(t)'
    BY DEF TypeOK, HeldOK, Held, Pointers, Slots, Pushing, Detached, Dispatching, Taking
  <2>3. Role(t)' /\ Counted(t)
    BY DEF TypeOK, HeldOK, Held, Role, Counted, Claims, OfCloser, Dispatching, Taking
  <2> QED
    BY <2>1, <2>2, <2>3, QuietStep DEF Quiet
<1>9. CASE PollLeave(t)
  <2> USE <1>9 DEF PollLeave
  <2>1. TypeOK' /\ OthersSame(t)
    BY DEF TypeOK, OthersSame, Pointers, Labels, Dispatching, Polling, Taking, Waiting
  <2>2. Held(t)'
    <3>1. Held(t)
      BY DEF HeldOK
    <3> QED
      BY <3>1 DEF TypeOK, Held, Pushing, Detached, Dispatching, Taking
  <2>3. Role(t)' /\ Counted(t)
    BY DEF TypeOK, HeldOK, Held, Role, Counted, Claims, OfCloser, Dispatching, Taking
  <2> QED
    BY <2>1, <2>2, <2>3, QuietStep DEF Quiet
<1> QED
    BY <1>1, <1>2, <1>3, <1>4, <1>5, <1>6, <1>7, <1>8, <1>9

(* The steps of Run and of Wait. *)
LEMMA RunQuiet ==
    ASSUME IInv, NEW t \in Threads,
           \/ RunEnter(t) \/ RunTest(t) \/ RunPolled(t) \/ RunMissed(t) \/ RunExit(t)
           \/ WaitEnter(t) \/ WakeUp(t)
           \/ t # Closer /\ (WaitLeave(t, "loop") \/ WaitLeave(t, "idle"))
           \/ t = Closer /\ WaitLeave(t, "relock")
    PROVE  IInv'
<1> USE DEF IInv, Goto, lists, marks, counters, switches, event, holds, scratch, runs
<1>1. CASE RunEnter(t)
  <2> USE <1>1 DEF RunEnter
  <2>1. TypeOK' /\ OthersSame(t)
    BY DEF TypeOK, OthersSame, Pointers, Labels, Dispatching, Polling, Taking, Waiting
  <2>2. Held(t)'
    <3>1. Held(t)
      BY DEF HeldOK
    <3> QED
      BY <3>1 DEF TypeOK, Held, Pushing, Detached, Dispatching, Taking
  <2>3. Role(t)' /\ Counted(t)
    BY DEF TypeOK, HeldOK, Held, Role, Counted, Claims, OfCloser, Dispatching, Taking
  <2> QED
    BY <2>1, <2>2, <2>3, QuietStep DEF Quiet
<1>2. CASE RunTest(t)
  <2> USE <1>2 DEF RunTest, Move
  <2>1. TypeOK' /\ OthersSame(t)
    BY DEF TypeOK, OthersSame, Pointers, Labels, Dispatching, Polling, Taking, Waiting
  <2>2. Held(t)'
    <3>1. Held(t)
      BY DEF HeldOK
    <3> QED
      BY <3>1 DEF TypeOK, Held, Pushing, Detached, Dispatching, Taking
  <2>3. Role(t)' /\ Counted(t)
    BY DEF TypeOK, HeldOK, Held, Role, Counted, Claims, OfCloser, Dispatching, Taking
  <2> QED
    BY <2>1, <2>2, <2>3, QuietStep DEF Quiet
<1>3. CASE RunPolled(t)
  <2> USE <1>3 DEF RunPolled, Move
  <2>1. TypeOK' /\ OthersSame(t)
    BY DEF TypeOK, OthersSame, Pointers, Labels, Dispatching, Polling, Taking, Waiting
  <2>2. Held(t)'
    <3>1. Held(t)
      BY DEF HeldOK
    <3> QED
      BY <3>1 DEF TypeOK, Held, Pushing, Detached, Dispatching, Taking
  <2>3. Role(t)' /\ Counted(t)
    BY DEF TypeOK, HeldOK, Held, Role, Counted, Claims, OfCloser, Dispatching, Taking
  <2> QED
    BY <2>1, <2>2, <2>3, QuietStep DEF Quiet
<1>4. CASE RunMissed(t)
  <2> USE <1>4 DEF RunMissed, Move
  <2>1. TypeOK' /\ OthersSame(t)
    BY DEF TypeOK, OthersSame, Pointers, Labels, Dispatching, Polling, Taking, Waiting
  <2>2. Held(t)'
    <3>1. Held(t)
      BY DEF HeldOK
    <3> QED
      BY <3>1 DEF TypeOK, Held, Pushing, Detached, Dispatching, Taking
  <2>3. Role(t)' /\ Counted(t)
    BY DEF TypeOK, HeldOK, Held, Role, Counted, Claims, OfCloser, Dispatching, Taking
  <2> QED
    BY <2>1, <2>2, <2>3, QuietStep DEF Quiet
<1>5. CASE RunExit(t)
  <2> USE <1>5 DEF RunExit
  <2>1. TypeOK' /\ OthersSame(t)
    BY DEF TypeOK, OthersSame, Pointers, Labels, Dispatching, Polling, Taking, Waiting
  <2>2. Held(t)'
    <3>1. Held(t)
      BY DEF HeldOK
    <3> QED
      BY <3>1 DEF TypeOK, Held, Pushing, Detached, Dispatching, Taking
  <2>3. Role(t)' /\ Counted(t)
    BY DEF TypeOK, HeldOK, Held, Role, Counted, Claims, OfCloser, Dispatching, Taking
  <2> QED
    BY <2>1, <2>2, <2>3, QuietStep DEF Quiet
<1>6. CASE WaitEnter(t)
  <2> USE <1>6 DEF WaitEnter
  <2>1. TypeOK' /\ OthersSame(t)
    BY DEF TypeOK, OthersSame, Pointers, Labels, Dispatching, Polling, Taking, Waiting
  <2>2. Held(t)'
    <3>1. Held(t)
      BY DEF HeldOK
    <3> QED
      BY <3>1 DEF TypeOK, Held, Pushing, Detached, Dispatching, Taking
  <2>3. Role(t)' /\ Counted(t)
    BY DEF TypeOK, HeldOK, Held, Role, Counted, Claims, OfCloser, Dispatching, Taking
  <2> QED
    BY <2>1, <2>2, <2>3, QuietStep DEF Quiet
<1>7. CASE WakeUp(t)
  <2> USE <1>7 DEF WakeUp
  <2>1. TypeOK' /\ OthersSame(t)
    BY DEF TypeOK, OthersSame, Pointers, Labels, Dispatching, Polling, Taking, Waiting
  <2>2. Held(t)'
    BY DEF TypeOK, HeldOK, Held, Pointers, Slots, Pushing, Detached, Dispatching, Taking
  <2>3. Role(t)' /\ Counted(t)
    BY DEF TypeOK, HeldOK, Held, Role, Counted, Claims, OfCloser, Dispatching, Taking
  <2> QED
    BY <2>1, <2>2, <2>3, QuietStep DEF Quiet
<1>8. CASE t # Closer /\ WaitLeave(t, "loop")
  <2> USE <1>8 DEF WaitLeave
  <2>1. TypeOK' /\ OthersSame(t)
    BY DEF TypeOK, OthersSame, Pointers, Labels, Dispatching, Polling, Taking, Waiting
  <2>2. Held(t)'
    <3>1. Held(t)
      BY DEF HeldOK
    <3> QED
      BY <3>1 DEF TypeOK, Held, Pushing, Detached, Dispatching, Taking
  <2>3. Role(t)' /\ Counted(t)
    BY DEF TypeOK, HeldOK, Held, Role, Counted, Claims, OfCloser, Dispatching, Taking
  <2> QED
    BY <2>1, <2>2, <2>3, QuietStep DEF Quiet
<1>9. CASE t # Closer /\ WaitLeave(t, "idle")
  <2> USE <1>9 DEF WaitLeave
  <2>1. TypeOK' /\ OthersSame(t)
    BY DEF TypeOK, OthersSame, Pointers, Labels, Dispatching, Polling, Taking, Waiting
  <2>2. Held(t)'
    <3>1. Held(t)
      BY DEF HeldOK
    <3> QED
      BY <3>1 DEF TypeOK, Held, Pushing, Detached, Dispatching, Taking
  <2>3. Role(t)' /\ Counted(t)
    BY DEF TypeOK, HeldOK, Held, Role, Counted, Claims, OfCloser, Dispatching, Taking
  <2> QED
    BY <2>1, <2>2, <2>3, QuietStep DEF Quiet
<1>10. CASE t = Closer /\ WaitLeave(t, "relock")
  <2> USE <1>10 DEF WaitLeave
  <2>1. TypeOK' /\ OthersSame(t)
    BY DEF TypeOK, OthersSame, Pointers, Labels, Dispatching, Polling, Taking, Waiting
  <2>2. Held(t)'
    BY DEF TypeOK, HeldOK, Held, Pointers, Slots, Pushing, Detached, Dispatching, Taking
  <2>3. Role(t)' /\ Counted(t)
    BY DEF TypeOK, HeldOK, Held, Role, Counted, Claims, OfCloser, Dispatching, Taking
  <2> QED
    BY <2>1, <2>2, <2>3, QuietStep DEF Quiet
<1> QED
    BY <1>1, <1>2, <1>3, <1>4, <1>5, <1>6, <1>7, <1>8, <1>9, <1>10

(* The calls of the external threads. *)
LEMMA ClientQuiet ==
    ASSUME IInv, NEW t \in Clients,
           \/ PollDelay(t) \/ PollDelayed(t) \/ PollDelayMissed(t)
           \/ BalanceUp(t) \/ BalanceDown(t)
    PROVE  IInv'
<1> USE DEF IInv, Goto, lists, marks, counters, switches, event, holds, scratch, runs
<1>1. CASE PollDelay(t)
  <2> USE <1>1 DEF PollDelay, Move, Threads
  <2>1. TypeOK' /\ OthersSame(t)
    BY DEF TypeOK, OthersSame, Pointers, Labels, Dispatching, Polling, Taking, Waiting
  <2>2. Held(t)'
    BY DEF TypeOK, HeldOK, Held, Pointers, Slots, Pushing, Detached, Dispatching, Taking
  <2>3. Role(t)' /\ Counted(t)
    BY DEF TypeOK, HeldOK, Held, Role, Counted, Claims, OfCloser, Dispatching, Taking
  <2> QED
    BY <2>1, <2>2, <2>3, QuietStep DEF Quiet
<1>2. CASE PollDelayed(t)
  <2> USE <1>2 DEF PollDelayed, Move, Threads
  <2>1. TypeOK' /\ OthersSame(t)
    BY DEF TypeOK, OthersSame, Pointers, Labels, Dispatching, Polling, Taking, Waiting
  <2>2. Held(t)'
    BY DEF TypeOK, HeldOK, Held, Pointers, Slots, Pushing, Detached, Dispatching, Taking
  <2>3. Role(t)' /\ Counted(t)
    BY DEF TypeOK, HeldOK, Held, Role, Counted, Claims, OfCloser, Dispatching, Taking
  <2> QED
    BY <2>1, <2>2, <2>3, QuietStep DEF Quiet
<1>3. CASE PollDelayMissed(t)
  <2> USE <1>3 DEF PollDelayMissed, Move, Threads
  <2>1. TypeOK' /\ OthersSame(t)
    BY DEF TypeOK, OthersSame, Pointers, Labels, Dispatching, Polling, Taking, Waiting
  <2>2. Held(t)'
    BY DEF TypeOK, HeldOK, Held, Pointers, Slots, Pushing, Detached, Dispatching, Taking
  <2>3. Role(t)' /\ Counted(t)
    BY DEF TypeOK, HeldOK, Held, Role, Counted, Claims, OfCloser, Dispatching, Taking
  <2> QED
    BY <2>1, <2>2, <2>3, QuietStep DEF Quiet
<1>4. CASE BalanceUp(t)
  <2> USE <1>4 DEF BalanceUp, Threads
  <2>1. TypeOK' /\ OthersSame(t)
    BY DEF TypeOK, OthersSame, Pointers, Labels, Dispatching, Polling, Taking, Waiting
  <2>2. Held(t)'
    BY DEF TypeOK, HeldOK, Held, Pointers, Slots, Pushing, Detached, Dispatching, Taking
  <2>3. Role(t)' /\ Counted(t)
    BY DEF TypeOK, HeldOK, Held, Role, Counted, Claims, OfCloser, Dispatching, Taking
  <2> QED
    BY <2>1, <2>2, <2>3, QuietStep DEF Quiet
<1>5. CASE BalanceDown(t)
  <2> USE <1>5 DEF BalanceDown, Threads
  <2>1. TypeOK' /\ OthersSame(t)
    BY DEF TypeOK, OthersSame, Pointers, Labels, Dispatching, Polling, Taking, Waiting
  <2>2. Held(t)'
    BY DEF TypeOK, HeldOK, Held, Pointers, Slots, Pushing, Detached, Dispatching, Taking
  <2>3. Role(t)' /\ Counted(t)
    BY DEF TypeOK, HeldOK, Held, Role, Counted, Claims, OfCloser, Dispatching, Taking
  <2> QED
    BY <2>1, <2>2, <2>3, QuietStep DEF Quiet
<1> QED
    BY <1>1, <1>2, <1>3, <1>4, <1>5

(* The steps of Uninitialize before it drains the lists. *)
LEMMA CloseQuiet ==
    ASSUME IInv, NEW t \in Threads, t = Closer,
           Uninitialize \/ CloseCount \/ CloseSignal \/ CloseRelock
    PROVE  IInv'
<1> USE DEF IInv, Goto, lists, marks, counters, switches, event, holds, scratch, runs
<1>1. CASE Uninitialize
  <2> USE <1>1 DEF Uninitialize
  <2>1. TypeOK' /\ OthersSame(t)
    BY DEF TypeOK, OthersSame, Pointers, Labels, Dispatching, Polling, Taking, Waiting
  <2>2. Held(t)'
    BY DEF TypeOK, HeldOK, Held, Pointers, Slots, Pushing, Detached, Dispatching, Taking
  <2>3. Role(t)' /\ Counted(t)
    BY DEF TypeOK, HeldOK, Held, Role, Counted, Claims, OfCloser, Dispatching, Taking
  <2> QED
    BY <2>1, <2>2, <2>3, QuietStep DEF Quiet
<1>2. CASE CloseCount
  <2> USE <1>2 DEF CloseCount
  <2>1. <<0, 1>> \in (0 .. ThreadCount) \X (1 .. Dup)
    OBVIOUS
  <2>2. TypeOK' /\ OthersSame(t)
    BY <2>1 DEF TypeOK, OthersSame, Pointers, Labels, Dispatching, Polling, Taking, Waiting
  <2>3. Held(t)'
    BY <2>1 DEF TypeOK, HeldOK, Held, Pointers, Slots, Pushing, Detached, Dispatching, Taking
  <2>4. Role(t)' /\ Counted(t)
    BY <2>1 DEF TypeOK, HeldOK, Held, Role, Counted, Claims, OfCloser, Dispatching, Taking
  <2> QED
    BY <2>2, <2>3, <2>4, QuietStep DEF Quiet
<1>3. CASE CloseSignal
  <2> USE <1>3 DEF CloseSignal, Notify
  <2>1. sleeping' \subseteq Threads /\ bound' \in [Threads -> Int]
    BY DEF TypeOK
  <2>2. TypeOK' /\ OthersSame(t)
    <3>1. pc' \in [Threads -> Labels]
      <4>1. pc \in [Threads -> Labels] /\ "wait" \in Labels
        BY SomeLabels DEF TypeOK
      <4>2. pc' = pc \/ pc' = [pc EXCEPT ![t] = "wait"]
        OBVIOUS
      <4> QED
        BY <4>1, <4>2
    <3>2. TypeOK'
      BY <2>1, <3>1 DEF TypeOK, Pointers
    <3>3. OthersSame(t)
      BY <2>1 DEF TypeOK, OthersSame
    <3> QED
      BY <3>2, <3>3
  <2>3. Held(t)'
    BY <2>1 DEF TypeOK, HeldOK, Held, Pointers, Slots, Pushing, Detached, Dispatching, Taking
  <2>4. Role(t)' /\ Counted(t)
    BY <2>1 DEF TypeOK, HeldOK, Held, Role, Counted, Claims, OfCloser, Dispatching, Taking
  <2> QED
    BY <2>2, <2>3, <2>4, QuietStep DEF Quiet
<1>4. CASE CloseRelock
  <2> USE <1>4 DEF CloseRelock, Move
  <2>1. TypeOK' /\ OthersSame(t)
    BY DEF TypeOK, OthersSame, Pointers, Labels, Dispatching, Polling, Taking, Waiting
  <2>2. Held(t)'
    BY DEF TypeOK, HeldOK, Held, Pointers, Slots, Pushing, Detached, Dispatching, Taking
  <2>3. Role(t)' /\ Counted(t)
    BY DEF TypeOK, HeldOK, Held, Role, Counted, Claims, OfCloser, Dispatching, Taking
  <2> QED
    BY <2>1, <2>2, <2>3, QuietStep DEF Quiet
<1> QED
    BY <1>1, <1>2, <1>3, <1>4

-----------------------------------------------------------------------------
(* Steps that move a task from one pointer to another.                       *)

(* Dispatch marks a task that is on no list, and holds it. *)
LEMMA DispatchAccept ==
    ASSUME IInv, NEW t \in Threads, DispatchMark(t), queued[want[t]] # 1
    PROVE  IInv'
<1> DEFINE a == want[t]
<1> USE DEF IInv, Goto, lists, marks, counters, switches, event, holds, scratch, runs
<1>1. /\ queued' = [queued EXCEPT ![a] = 1] /\ accepted' = [accepted EXCEPT ![a] = @ + 1]
      /\ link' = [link EXCEPT ![t] = a] /\ Own(a, InLink(t))
      /\ pc[t] = "dmark" /\ pc' = [pc EXCEPT ![t] = "dcount"]
      /\ want' = [want EXCEPT ![t] = Null]
      /\ UNCHANGED <<head, next, counters, switches, event, hand, rest, slot, from, bound, runs>>
    BY DEF DispatchMark
<1>2. a \in Tasks /\ link[t] = Null /\ a # Null
  <2>1. Held(t)
    BY DEF HeldOK
  <2>2. a # Null /\ link[t] = Null
    BY <1>1, <2>1 DEF Held, Pushing
  <2> QED
    BY <2>2 DEF TypeOK, Pointers
<1>3. owner[a] = Free /\ next[a] = Null
    BY <1>1, <1>2 DEF TypeOK, HeldOK, SingleOwner, MarkOwner
<1>4. accepted' \in [Tasks -> Nat]
    BY <1>1, <1>2 DEF TypeOK
<1>5. owner' \in [Tasks -> Owners]
    BY <1>1, <1>2, <1>3, <1>4 DEF TypeOK, Own, OwnBoth, Owners
<1>6. TypeOK' /\ OthersSame(t)
    BY <1>1, <1>2, <1>3, <1>4, <1>5 DEF TypeOK, OthersSame, Pointers, Slots, Labels, Dispatching, Polling, Taking
<1>7. Held(t)'
    BY <1>1, <1>2, <1>3, <1>4 DEF TypeOK, HeldOK, Held, Pushing, Detached, Dispatching, Taking
<1>8. Role(t)' /\ Counted(t)
    BY <1>1, <1>2, <1>3, <1>4 DEF TypeOK, HeldOK, Held, Role, Counted, Claims, OfCloser, Dispatching, Taking
<1>9. SingleOwner'
  <2> SUFFICES ASSUME NEW x \in Tasks
               PROVE  (HeadOwner(x) /\ NextOwner(x) /\ HoldOwner(x) /\ MarkOwner(x))'
    BY DEF SingleOwner
  <2>1. HeadOwner(x)'
    BY <1>1, <1>2, <1>3, <1>4, OwnersDistinct DEF TypeOK, SingleOwner, HeadOwner, NextOwner, HoldOwner, MarkOwner, Own, OwnBoth
  <2>2. NextOwner(x)'
    BY <1>1, <1>2, <1>3, <1>4, OwnersDistinct DEF TypeOK, SingleOwner, HeadOwner, NextOwner, HoldOwner, MarkOwner, Own, OwnBoth
  <2>3. HoldOwner(x)'
    BY <1>1, <1>2, <1>3, <1>4, OwnersDistinct DEF TypeOK, SingleOwner, HeadOwner, NextOwner, HoldOwner, MarkOwner, Own, OwnBoth
  <2>4. MarkOwner(x)'
    BY <1>1, <1>2, <1>3, <1>4, OwnersDistinct DEF TypeOK, SingleOwner, HeadOwner, NextOwner, HoldOwner, MarkOwner, Own, OwnBoth
  <2> QED
    BY <2>1, <2>2, <2>3, <2>4
<1>10. \A x \in Tasks : owner'[x] = Free => next'[x] = Null
    BY <1>1, <1>2, <1>3, <1>4, OwnersDistinct DEF TypeOK, HeldOK, Own, OwnBoth
<1> QED
    BY <1>1, <1>2, <1>3, <1>4, <1>6, <1>7, <1>8, <1>9, <1>10, HeldStep

(* queued.exchange(1), whether or not the task was queued already.           *)
LEMMA DispatchMarkInv ==
    ASSUME IInv, NEW t \in Threads, DispatchMark(t)
    PROVE  IInv'
<1> USE DEF IInv, DispatchMark, Goto, Caller, lists, marks, counters, switches, event, holds, scratch, runs
<1>1. CASE queued[want[t]] # 1
    BY <1>1, DispatchAccept
<1>2. CASE queued[want[t]] = 1
  <2>1. TypeOK' /\ OthersSame(t)
    <3>1. pc' \in [Threads -> Labels]
      BY <1>2, SomeLabels DEF TypeOK
    <3>2. TypeOK'
      BY <1>2, <3>1 DEF TypeOK, Pointers
    <3>3. OthersSame(t)
      BY <1>2 DEF TypeOK, OthersSame
    <3> QED
      BY <3>2, <3>3
  <2>2. Held(t)'
    BY <1>2 DEF TypeOK, HeldOK, Held, Pointers, Slots, Pushing, Detached, Dispatching, Taking
  <2>3. Role(t)' /\ Counted(t)
    BY <1>2 DEF TypeOK, HeldOK, Held, Role, Counted, Claims, OfCloser, Dispatching, Taking
  <2> QED
    BY <1>2, <2>1, <2>2, <2>3, QuietStep DEF Quiet
<1> QED
    BY <1>1, <1>2

(* Dispatch finds an empty head and puts its task there. *)
LEMMA DispatchTryEmpty ==
    ASSUME IInv, NEW t \in Threads, DispatchTry(t), head[slot[t]] = Null
    PROVE  IInv'
<1> DEFINE s == slot[t]
           a == link[t]
<1> USE DEF IInv, Goto, lists, marks, counters, switches, event, holds, scratch, runs
<1>1. /\ pc[t] = "dtry" /\ pc' = [pc EXCEPT ![t] = "dsignal"]
      /\ head' = [head EXCEPT ![s] = a] /\ link' = [link EXCEPT ![t] = Null]
      /\ Own(a, OnHead(s))
      /\ UNCHANGED <<next, marks, counters, switches, event, hand, rest, want, slot, from, bound, runs>>
    BY DEF DispatchTry
<1>2. s \in Slots /\ a \in Tasks /\ a # Null /\ next[a] = Null
    BY <1>1 DEF TypeOK, HeldOK, Held, Pointers, Pushing, Detached, Dispatching, Taking
<1>3. owner[a] = InLink(t)
    BY <1>1, <1>2 DEF SingleOwner, HoldOwner
<1>4. owner' \in [Tasks -> Owners]
    BY <1>1, <1>2, <1>3 DEF TypeOK, Own, OwnBoth, Owners
<1>5. TypeOK' /\ OthersSame(t)
    BY <1>1, <1>2, <1>3, <1>4 DEF TypeOK, OthersSame, Pointers, Slots, Labels, Dispatching, Polling, Taking
<1>6. Held(t)'
    BY <1>1, <1>2, <1>3 DEF TypeOK, HeldOK, Held, Pushing, Detached, Dispatching, Taking
<1>7. Role(t)' /\ Counted(t)
    BY <1>1, <1>2, <1>3 DEF TypeOK, HeldOK, Held, Role, Counted, Claims, OfCloser, Dispatching, Taking
<1>8. SingleOwner'
  <2> SUFFICES ASSUME NEW x \in Tasks
               PROVE  (HeadOwner(x) /\ NextOwner(x) /\ HoldOwner(x) /\ MarkOwner(x))'
    BY DEF SingleOwner
  <2>1. HeadOwner(x)'
    BY <1>1, <1>2, <1>3, OwnersDistinct DEF TypeOK, SingleOwner, HeadOwner, NextOwner, HoldOwner, MarkOwner, Own, OwnBoth
  <2>2. NextOwner(x)'
    BY <1>1, <1>2, <1>3, OwnersDistinct DEF TypeOK, SingleOwner, HeadOwner, NextOwner, HoldOwner, MarkOwner, Own, OwnBoth
  <2>3. HoldOwner(x)'
    BY <1>1, <1>2, <1>3, OwnersDistinct DEF TypeOK, SingleOwner, HeadOwner, NextOwner, HoldOwner, MarkOwner, Own, OwnBoth
  <2>4. MarkOwner(x)'
    BY <1>1, <1>2, <1>3, OwnersDistinct DEF TypeOK, SingleOwner, HeadOwner, NextOwner, HoldOwner, MarkOwner, Own, OwnBoth
  <2> QED
    BY <2>1, <2>2, <2>3, <2>4
<1>9. \A x \in Tasks : owner'[x] = Free => next'[x] = Null
    BY <1>1, <1>2, <1>3, OwnersDistinct DEF TypeOK, HeldOK, Own, OwnBoth
<1> QED
    BY <1>1, <1>2, <1>3, <1>5, <1>6, <1>7, <1>8, <1>9, HeldStep

(* One turn of the loop over the heads.                                      *)
LEMMA DispatchTryInv ==
    ASSUME IInv, NEW t \in Threads, DispatchTry(t)
    PROVE  IInv'
<1> USE DEF IInv, DispatchTry, Goto, lists, marks, counters, switches, event, holds, scratch, runs
<1>1. CASE head[slot[t]] = Null
    BY <1>1, DispatchTryEmpty
<1>2. CASE head[slot[t]] # Null
  <2>1. slot[t] \in Slots
    BY <1>2 DEF TypeOK, HeldOK, Held, Dispatching
  <2>2. \/ slot[t][2] < Dup /\ slot' = [slot EXCEPT ![t] = <<slot[t][1], slot[t][2] + 1>>]
        \/ \E best \in 1 .. Dup : slot' = [slot EXCEPT ![t] = <<slot[t][1], best>>]
    BY <1>2
  <2>3. \E s \in Slots : slot' = [slot EXCEPT ![t] = s]
    BY <2>1, <2>2 DEF Slots
  <2>4. /\ pc[t] = "dtry" /\ pc' = [pc EXCEPT ![t] = pc'[t]] /\ pc'[t] \in {"dtry", "dload"}
        /\ UNCHANGED <<head, next, owner, link, hand, rest, marks, counters, switches, event,
                       want, from, bound, runs>>
    BY <1>2 DEF TypeOK
  <2> HIDE DEF DispatchTry
  <2> slot' \in [Threads -> (0 .. ThreadCount) \X (1 .. Dup)]
    BY <2>3 DEF TypeOK, Slots
  <2>5. TypeOK' /\ OthersSame(t)
    <3>1. pc' \in [Threads -> Labels]
      BY <2>3, <2>4 DEF TypeOK, Labels, Dispatching
    <3>2. TypeOK'
      BY <2>3, <2>4, <3>1 DEF TypeOK
    <3>3. OthersSame(t)
      BY <2>3, <2>4 DEF TypeOK, OthersSame
    <3> QED
      BY <3>2, <3>3
  <2>6. Held(t)'
    BY <2>3, <2>4 DEF TypeOK, HeldOK, Held, Pointers, Pushing, Detached, Dispatching, Taking
  <2>7. Role(t)' /\ Counted(t)
    BY <2>4 DEF TypeOK, HeldOK, Held, Role, Counted, Claims, OfCloser, Dispatching, Taking
  <2> QED
    BY <2>4, <2>5, <2>6, <2>7, QuietStep DEF Quiet
<1> QED
    BY <1>1, <1>2

(* The compare-exchange of a push succeeds: the old head moves behind the task. *)
LEMMA PushSucceeds ==
    ASSUME IInv, NEW t \in Threads, NEW at \in {"dpush", "repush"}, NEW s \in Slots,
           NEW after \in {"dsignal", "rsignal", "rechain"}, PushHead(t, at, s, after),
           head[s] = want[t],
           at = "dpush" <=> after = "dsignal",
           after = "rsignal" => rest[t] = Null, after = "rechain" => rest[t] # Null
    PROVE  IInv'
<1> DEFINE a == link[t]
           r == head[s]
<1> USE DEF IInv, Goto, lists, marks, counters, switches, event, holds, scratch, runs
<1>1. /\ pc[t] = at /\ pc' = [pc EXCEPT ![t] = after]
      /\ next' = [next EXCEPT ![a] = r] /\ head' = [head EXCEPT ![s] = a]
      /\ link' = [link EXCEPT ![t] = Null] /\ want' = [want EXCEPT ![t] = Null]
      /\ OwnBoth(a, OnHead(s), r, Behind(a))
      /\ UNCHANGED <<marks, counters, switches, event, hand, rest, slot, from, bound, runs>>
    BY DEF PushHead
<1>2. a \in Tasks /\ a # Null /\ r \in Pointers
    BY <1>1 DEF TypeOK, HeldOK, Held, Pointers, Pushing, Detached, Dispatching, Taking
<1>3. owner[a] = InLink(t) /\ (r # Null => owner[r] = OnHead(s)) /\ a # r
    BY <1>1, <1>2, OwnersDistinct DEF SingleOwner, HoldOwner, HeadOwner, Pointers
<1>4. hand[t] # a
    BY <1>1, <1>2, <1>3, OwnersDistinct DEF SingleOwner, HoldOwner
<1>5. owner' \in [Tasks -> Owners]
    BY <1>1, <1>2, <1>3, <1>4 DEF TypeOK, Own, OwnBoth, Owners
<1>6. TypeOK' /\ OthersSame(t)
    BY <1>1, <1>2, <1>3, <1>4, <1>5 DEF TypeOK, OthersSame, Pointers, Slots, Labels, Dispatching, Polling, Taking
<1>7. Held(t)'
    BY <1>1, <1>2, <1>3, <1>4 DEF TypeOK, HeldOK, Held, Pushing, Detached, Dispatching, Taking
<1>8. Role(t)' /\ Counted(t)
    BY <1>1, <1>2, <1>3, <1>4 DEF TypeOK, HeldOK, Held, Role, Counted, Claims, OfCloser, Dispatching, Taking
<1>9. SingleOwner'
  <2> SUFFICES ASSUME NEW x \in Tasks
               PROVE  (HeadOwner(x) /\ NextOwner(x) /\ HoldOwner(x) /\ MarkOwner(x))'
    BY DEF SingleOwner
  <2>1. HeadOwner(x)'
    BY <1>1, <1>2, <1>3, <1>4, OwnersDistinct DEF TypeOK, SingleOwner, HeadOwner, NextOwner, HoldOwner, MarkOwner, Own, OwnBoth
  <2>2. NextOwner(x)'
    BY <1>1, <1>2, <1>3, <1>4, OwnersDistinct DEF TypeOK, SingleOwner, HeadOwner, NextOwner, HoldOwner, MarkOwner, Own, OwnBoth
  <2>3. HoldOwner(x)'
    BY <1>1, <1>2, <1>3, <1>4, OwnersDistinct DEF TypeOK, SingleOwner, HeadOwner, NextOwner, HoldOwner, MarkOwner, Own, OwnBoth
  <2>4. MarkOwner(x)'
    BY <1>1, <1>2, <1>3, <1>4, OwnersDistinct DEF TypeOK, SingleOwner, HeadOwner, NextOwner, HoldOwner, MarkOwner, Own, OwnBoth
  <2> QED
    BY <2>1, <2>2, <2>3, <2>4
<1>10. \A x \in Tasks : owner'[x] = Free => next'[x] = Null
    BY <1>1, <1>2, <1>3, <1>4, OwnersDistinct DEF TypeOK, HeldOK, Own, OwnBoth
<1>11. \A u \in Threads \ {t} :
         /\ pc[u] \in Detached => next'[hand[u]] = next[hand[u]]
         /\ pc[u] \in {"dcount", "dtry", "dload"} => next'[link[u]] = next[link[u]]
    BY <1>1, <1>2, <1>3, <1>4, OwnersDistinct DEF TypeOK, HeldOK, Held, SingleOwner, HoldOwner, Own, OwnBoth, Pushing, Detached
<1> QED
    BY <1>1, <1>2, <1>3, <1>4, <1>6, <1>7, <1>8, <1>9, <1>10, <1>11, HeldStep

(* The compare-exchange fails, and only next of the held task has changed. *)
LEMMA PushFails ==
    ASSUME IInv, NEW t \in Threads, NEW at \in {"dpush", "repush"}, NEW s \in Slots,
           NEW after, PushHead(t, at, s, after), head[s] # want[t]
    PROVE  IInv'
<1> DEFINE a == link[t]
<1> USE DEF IInv, Goto, lists, marks, counters, switches, event, holds, scratch, runs
<1>1. /\ pc[t] = at /\ next' = [next EXCEPT ![a] = want[t]]
      /\ want' = [want EXCEPT ![t] = head[s]]
      /\ UNCHANGED <<pc, head, owner, marks, counters, switches, event, holds, slot, from, bound, runs>>
    BY DEF PushHead
<1>2. a \in Tasks /\ a # Null /\ head[s] \in Pointers
    BY <1>1 DEF TypeOK, HeldOK, Held, Pointers, Pushing, Detached, Dispatching, Taking
<1>3. owner[a] = InLink(t)
    BY <1>1, <1>2, OwnersDistinct DEF SingleOwner, HoldOwner
<1>4. hand[t] # a
    BY <1>1, <1>2, <1>3, OwnersDistinct DEF SingleOwner, HoldOwner
<1>5. owner' \in [Tasks -> Owners]
    BY <1>1, <1>2, <1>3, <1>4 DEF TypeOK, Own, OwnBoth, Owners
<1>6. TypeOK' /\ OthersSame(t)
    BY <1>1, <1>2, <1>3, <1>4, <1>5 DEF TypeOK, OthersSame, Pointers, Slots, Labels, Dispatching, Polling, Taking
<1>7. Held(t)'
    BY <1>1, <1>2, <1>3, <1>4 DEF TypeOK, HeldOK, Held, Pushing, Detached, Dispatching, Taking
<1>8. Role(t)' /\ Counted(t)
    BY <1>1, <1>2, <1>3, <1>4 DEF TypeOK, HeldOK, Held, Role, Counted, Claims, OfCloser, Dispatching, Taking
<1>9. SingleOwner'
  <2> SUFFICES ASSUME NEW x \in Tasks
               PROVE  (HeadOwner(x) /\ NextOwner(x) /\ HoldOwner(x) /\ MarkOwner(x))'
    BY DEF SingleOwner
  <2>1. HeadOwner(x)'
    BY <1>1, <1>2, <1>3, <1>4, OwnersDistinct DEF TypeOK, SingleOwner, HeadOwner, NextOwner, HoldOwner, MarkOwner, Own, OwnBoth
  <2>2. NextOwner(x)'
    BY <1>1, <1>2, <1>3, <1>4, OwnersDistinct DEF TypeOK, SingleOwner, HeadOwner, NextOwner, HoldOwner, MarkOwner, Own, OwnBoth
  <2>3. HoldOwner(x)'
    BY <1>1, <1>2, <1>3, <1>4, OwnersDistinct DEF TypeOK, SingleOwner, HeadOwner, NextOwner, HoldOwner, MarkOwner, Own, OwnBoth
  <2>4. MarkOwner(x)'
    BY <1>1, <1>2, <1>3, <1>4, OwnersDistinct DEF TypeOK, SingleOwner, HeadOwner, NextOwner, HoldOwner, MarkOwner, Own, OwnBoth
  <2> QED
    BY <2>1, <2>2, <2>3, <2>4
<1>10. \A x \in Tasks : owner'[x] = Free => next'[x] = Null
    BY <1>1, <1>2, <1>3, <1>4, OwnersDistinct DEF TypeOK, HeldOK, Own, OwnBoth
<1>11. \A u \in Threads \ {t} :
         /\ pc[u] \in Detached => next'[hand[u]] = next[hand[u]]
         /\ pc[u] \in {"dcount", "dtry", "dload"} => next'[link[u]] = next[link[u]]
    BY <1>1, <1>2, <1>3, <1>4, OwnersDistinct DEF TypeOK, HeldOK, Held, SingleOwner, HoldOwner, Own, OwnBoth, Pushing, Detached
<1> QED
    BY <1>1, <1>2, <1>3, <1>4, <1>6, <1>7, <1>8, <1>9, <1>10, <1>11, HeldStep

(* A push, by Dispatch or by the rechaining loop of Poll.                    *)
LEMMA PushInv ==
    ASSUME IInv, NEW t \in Threads, DispatchPush(t) \/ PollRepush(t)
    PROVE  IInv'
<1>1. CASE DispatchPush(t)
  <2>1. slot[t] \in Slots
    BY <1>1 DEF IInv, HeldOK, Held, Dispatching, DispatchPush, PushHead
  <2> QED
    BY <1>1, <2>1, PushSucceeds, PushFails DEF DispatchPush
<1>2. CASE PollRepush(t)
  <2>1. from[t] \in Slots
    BY <1>2 DEF IInv, HeldOK, Held, Taking, PollRepush, PushHead
  <2> QED
    BY <1>2, <2>1, PushSucceeds, PushFails DEF PollRepush
<1> QED
    BY <1>1, <1>2

(* taskHead.exchange(nullptr): a whole list changes hands.                   *)
LEMMA PollTakeInv ==
    ASSUME IInv, NEW t \in Threads, PollTake(t)
    PROVE  IInv'
<1> DEFINE s == from[t]
           p == head[s]
<1> USE DEF IInv, PollTake, Goto, lists, marks, counters, switches, event, holds, scratch, runs
<1>1. s \in Slots /\ p \in Pointers /\ hand[t] = Null
    BY DEF TypeOK, HeldOK, Held, Taking, Detached
<1>2. TypeOK' /\ OthersSame(t)
    <2>1. pc' \in [Threads -> Labels]
      BY <1>1 DEF TypeOK, Labels, Polling, Taking
    <2>2. owner' \in [Tasks -> Owners]
      BY DEF TypeOK, Own, Owners
    <2>3. head' \in [Slots -> Pointers] /\ hand' \in [Threads -> Pointers]
      BY <1>1 DEF TypeOK, Pointers
    <2>4. TypeOK'
      BY <2>1, <2>2, <2>3 DEF TypeOK
    <2>5. OthersSame(t)
      BY <1>1 DEF TypeOK, OthersSame
    <2> QED
      BY <2>4, <2>5
<1>3. Held(t)'
    BY <1>1 DEF TypeOK, HeldOK, Held, Pushing, Detached, Dispatching, Taking
<1>4. Role(t)' /\ Counted(t)
    BY DEF TypeOK, HeldOK, Held, Role, Counted, Claims, OfCloser, Dispatching, Taking
<1>5. SingleOwner'
  <2> SUFFICES ASSUME NEW x \in Tasks
               PROVE  (HeadOwner(x) /\ NextOwner(x) /\ HoldOwner(x) /\ MarkOwner(x))'
    BY DEF SingleOwner
  <2>1. HeadOwner(x)'
    BY <1>1, OwnersDistinct DEF TypeOK, SingleOwner, HeadOwner, Own
  <2>2. NextOwner(x)'
    BY <1>1, OwnersDistinct DEF TypeOK, SingleOwner, HeadOwner, NextOwner, Own
  <2>3. HoldOwner(x)'
    BY <1>1, OwnersDistinct DEF TypeOK, SingleOwner, HeadOwner, HoldOwner, Own
  <2>4. MarkOwner(x)'
    BY <1>1, OwnersDistinct DEF TypeOK, SingleOwner, HeadOwner, MarkOwner, Own
  <2> QED
    BY <2>1, <2>2, <2>3, <2>4
<1>6. \A x \in Tasks : owner'[x] = Free => next'[x] = Null
    BY <1>1, OwnersDistinct DEF TypeOK, HeldOK, Own
<1> QED
    BY <1>2, <1>3, <1>4, <1>5, <1>6, HeldStep

(* The task to run is cut from the rest of the list. *)
LEMMA PollSplitInv ==
    ASSUME IInv, NEW t \in Threads, PollSplit(t)
    PROVE  IInv'
<1> DEFINE p == hand[t]
           q == next[p]
<1> USE DEF IInv, PollSplit, Goto, lists, marks, counters, switches, event, holds, scratch, runs
<1>1. p \in Tasks /\ p # Null /\ q \in Pointers /\ rest[t] = Null
  <2>1. Held(t) /\ pc[t] = "split"
    BY DEF HeldOK
  <2>2. p # Null /\ rest[t] = Null
    BY <2>1 DEF Held, Detached
  <2>3. p \in Tasks
    BY <2>2 DEF TypeOK, Pointers
  <2>4. q \in Pointers
    BY <2>3 DEF TypeOK
  <2> QED
    BY <2>2, <2>3, <2>4
<1>2. owner[p] = InHand(t) /\ (q # Null => owner[q] = Behind(p)) /\ p # q
    BY <1>1, OwnersDistinct DEF TypeOK, SingleOwner, HoldOwner, NextOwner, Pointers
<1>3. owner' \in [Tasks -> Owners]
    BY <1>1, <1>2 DEF TypeOK, Own, OwnBoth, Owners
<1>4. TypeOK' /\ OthersSame(t)
    BY <1>1, <1>2, <1>3 DEF TypeOK, OthersSame, Pointers, Slots, Labels, Dispatching, Polling, Taking
<1>5. Held(t)'
    BY <1>1, <1>2 DEF TypeOK, HeldOK, Held, Pushing, Detached, Dispatching, Taking
<1>6. Role(t)' /\ Counted(t)
    BY <1>1, <1>2 DEF TypeOK, HeldOK, Held, Role, Counted, Claims, OfCloser, Dispatching, Taking
<1>7. SingleOwner'
  <2> SUFFICES ASSUME NEW x \in Tasks
               PROVE  (HeadOwner(x) /\ NextOwner(x) /\ HoldOwner(x) /\ MarkOwner(x))'
    BY DEF SingleOwner
  <2>1. HeadOwner(x)'
    BY <1>1, <1>2, OwnersDistinct DEF TypeOK, SingleOwner, HeadOwner, NextOwner, HoldOwner, MarkOwner, Own, OwnBoth
  <2>2. NextOwner(x)'
    BY <1>1, <1>2, OwnersDistinct DEF TypeOK, SingleOwner, HeadOwner, NextOwner, HoldOwner, MarkOwner, Own, OwnBoth
  <2>3. HoldOwner(x)'
    BY <1>1, <1>2, OwnersDistinct DEF TypeOK, SingleOwner, HeadOwner, NextOwner, HoldOwner, MarkOwner, Own, OwnBoth
  <2>4. MarkOwner(x)'
    BY <1>1, <1>2, OwnersDistinct DEF TypeOK, SingleOwner, HeadOwner, NextOwner, HoldOwner, MarkOwner, Own, OwnBoth
  <2> QED
    BY <2>1, <2>2, <2>3, <2>4
<1>8. \A x \in Tasks : owner'[x] = Free => next'[x] = Null
    BY <1>1, <1>2, OwnersDistinct DEF TypeOK, HeldOK, Own, OwnBoth
<1>9. \A u \in Threads \ {t} :
         /\ pc[u] \in Detached => next'[hand[u]] = next[hand[u]]
         /\ pc[u] \in {"dcount", "dtry", "dload"} => next'[link[u]] = next[link[u]]
    BY <1>1, <1>2, OwnersDistinct DEF TypeOK, HeldOK, Held, SingleOwner, HoldOwner, Own, OwnBoth, Pushing, Detached
<1> QED
    BY <1>1, <1>2, <1>4, <1>5, <1>6, <1>7, <1>8, <1>9, HeldStep

(* The rest of the list and what was pushed meanwhile change places. *)
LEMMA PollGiveBackInv ==
    ASSUME IInv, NEW t \in Threads, PollGiveBack(t)
    PROVE  IInv'
<1> DEFINE s == from[t]
           q == rest[t]
           h == head[s]
<1> USE DEF IInv, PollGiveBack, Goto, lists, marks, counters, switches, event, holds, scratch, runs
<1>1. s \in Slots /\ q \in Tasks /\ q # Null /\ h \in Pointers
    BY DEF TypeOK, HeldOK, Held, Pointers, Pushing, Detached, Dispatching, Taking
<1>2. owner[q] = InRest(t) /\ (h # Null => owner[h] = OnHead(s)) /\ q # h
    BY <1>1, OwnersDistinct DEF TypeOK, SingleOwner, HoldOwner, HeadOwner, Pointers
<1>3. owner' \in [Tasks -> Owners]
    BY <1>1, <1>2 DEF TypeOK, Own, OwnBoth, Owners
<1>4. TypeOK' /\ OthersSame(t)
    BY <1>1, <1>2, <1>3 DEF TypeOK, OthersSame, Pointers, Slots, Labels, Dispatching, Polling, Taking
<1>5. Held(t)'
    BY <1>1, <1>2 DEF TypeOK, HeldOK, Held, Pushing, Detached, Dispatching, Taking
<1>6. Role(t)' /\ Counted(t)
    BY <1>1, <1>2 DEF TypeOK, HeldOK, Held, Role, Counted, Claims, OfCloser, Dispatching, Taking
<1>7. SingleOwner'
  <2> SUFFICES ASSUME NEW x \in Tasks
               PROVE  (HeadOwner(x) /\ NextOwner(x) /\ HoldOwner(x) /\ MarkOwner(x))'
    BY DEF SingleOwner
  <2>1. HeadOwner(x)'
    BY <1>1, <1>2, OwnersDistinct DEF TypeOK, SingleOwner, HeadOwner, NextOwner, HoldOwner, MarkOwner, Own, OwnBoth
  <2>2. NextOwner(x)'
    BY <1>1, <1>2, OwnersDistinct DEF TypeOK, SingleOwner, HeadOwner, NextOwner, HoldOwner, MarkOwner, Own, OwnBoth
  <2>3. HoldOwner(x)'
    BY <1>1, <1>2, OwnersDistinct DEF TypeOK, SingleOwner, HeadOwner, NextOwner, HoldOwner, MarkOwner, Own, OwnBoth
  <2>4. MarkOwner(x)'
    BY <1>1, <1>2, OwnersDistinct DEF TypeOK, SingleOwner, HeadOwner, NextOwner, HoldOwner, MarkOwner, Own, OwnBoth
  <2> QED
    BY <2>1, <2>2, <2>3, <2>4
<1>8. \A x \in Tasks : owner'[x] = Free => next'[x] = Null
    BY <1>1, <1>2, OwnersDistinct DEF TypeOK, HeldOK, Own, OwnBoth
<1> QED
    BY <1>1, <1>2, <1>4, <1>5, <1>6, <1>7, <1>8, HeldStep

(* The first of the tasks to rechain is held, the others stay detached. *)
LEMMA PollRechainInv ==
    ASSUME IInv, NEW t \in Threads, PollRechain(t)
    PROVE  IInv'
<1> DEFINE a == rest[t]
           b == next[a]
<1> USE DEF IInv, PollRechain, Goto, lists, marks, counters, switches, event, holds, scratch, runs
<1>1. from[t] \in Slots /\ a \in Tasks /\ a # Null /\ b \in Pointers /\ link[t] = Null
    BY DEF TypeOK, HeldOK, Held, Pointers, Pushing, Detached, Dispatching, Taking
<1>2. owner[a] = InRest(t) /\ (b # Null => owner[b] = Behind(a)) /\ a # b
    BY <1>1, OwnersDistinct DEF TypeOK, SingleOwner, HoldOwner, NextOwner, Pointers
<1>3. owner' \in [Tasks -> Owners]
    BY <1>1, <1>2 DEF TypeOK, Own, OwnBoth, Owners
<1>4. TypeOK' /\ OthersSame(t)
    BY <1>1, <1>2, <1>3 DEF TypeOK, OthersSame, Pointers, Slots, Labels, Dispatching, Polling, Taking
<1>5. Held(t)'
    BY <1>1, <1>2 DEF TypeOK, HeldOK, Held, Pushing, Detached, Dispatching, Taking
<1>6. Role(t)' /\ Counted(t)
    BY <1>1, <1>2 DEF TypeOK, HeldOK, Held, Role, Counted, Claims, OfCloser, Dispatching, Taking
<1>7. SingleOwner'
  <2> SUFFICES ASSUME NEW x \in Tasks
               PROVE  (HeadOwner(x) /\ NextOwner(x) /\ HoldOwner(x) /\ MarkOwner(x))'
    BY DEF SingleOwner
  <2>1. HeadOwner(x)'
    BY <1>1, <1>2, OwnersDistinct DEF TypeOK, SingleOwner, HeadOwner, NextOwner, HoldOwner, MarkOwner, Own, OwnBoth
  <2>2. NextOwner(x)'
    BY <1>1, <1>2, OwnersDistinct DEF TypeOK, SingleOwner, HeadOwner, NextOwner, HoldOwner, MarkOwner, Own, OwnBoth
  <2>3. HoldOwner(x)'
    BY <1>1, <1>2, OwnersDistinct DEF TypeOK, SingleOwner, HeadOwner, NextOwner, HoldOwner, MarkOwner, Own, OwnBoth
  <2>4. MarkOwner(x)'
    BY <1>1, <1>2, OwnersDistinct DEF TypeOK, SingleOwner, HeadOwner, NextOwner, HoldOwner, MarkOwner, Own, OwnBoth
  <2> QED
    BY <2>1, <2>2, <2>3, <2>4
<1>8. \A x \in Tasks : owner'[x] = Free => next'[x] = Null
    BY <1>1, <1>2, OwnersDistinct DEF TypeOK, HeldOK, Own, OwnBoth
<1> QED
    BY <1>1, <1>2, <1>4, <1>5, <1>6, <1>7, <1>8, HeldStep

(* The task leaves the lists. *)
LEMMA PollUnmarkInv ==
    ASSUME IInv, NEW t \in Threads, PollUnmark(t)
    PROVE  IInv'
<1> DEFINE p == hand[t]
<1> USE DEF IInv, PollUnmark, Goto, lists, marks, counters, switches, event, holds, scratch, runs
<1>1. p \in Tasks /\ p # Null /\ next[p] = Null
    BY DEF TypeOK, HeldOK, Held, Pointers, Pushing, Detached, Dispatching, Taking
<1>2. owner[p] = InHand(t)
    BY <1>1, OwnersDistinct DEF SingleOwner, HoldOwner
<1>3. owner' \in [Tasks -> Owners]
    BY <1>1, <1>2 DEF TypeOK, Own, OwnBoth, Owners
<1>4. TypeOK' /\ OthersSame(t)
    BY <1>1, <1>2, <1>3 DEF TypeOK, OthersSame, Pointers, Slots, Labels, Dispatching, Polling, Taking
<1>5. Held(t)'
    BY <1>1, <1>2 DEF TypeOK, HeldOK, Held, Pushing, Detached, Dispatching, Taking
<1>6. Role(t)' /\ Counted(t)
    BY <1>1, <1>2 DEF TypeOK, HeldOK, Held, Role, Counted, Claims, OfCloser, Dispatching, Taking
<1>7. SingleOwner'
  <2> SUFFICES ASSUME NEW x \in Tasks
               PROVE  (HeadOwner(x) /\ NextOwner(x) /\ HoldOwner(x) /\ MarkOwner(x))'
    BY DEF SingleOwner
  <2>1. HeadOwner(x)'
    BY <1>1, <1>2, OwnersDistinct DEF TypeOK, SingleOwner, HeadOwner, NextOwner, HoldOwner, MarkOwner, Own, OwnBoth
  <2>2. NextOwner(x)'
    BY <1>1, <1>2, OwnersDistinct DEF TypeOK, SingleOwner, HeadOwner, NextOwner, HoldOwner, MarkOwner, Own, OwnBoth
  <2>3. HoldOwner(x)'
    BY <1>1, <1>2, OwnersDistinct DEF TypeOK, SingleOwner, HeadOwner, NextOwner, HoldOwner, MarkOwner, Own, OwnBoth
  <2>4. MarkOwner(x)'
    BY <1>1, <1>2, OwnersDistinct DEF TypeOK, SingleOwner, HeadOwner, NextOwner, HoldOwner, MarkOwner, Own, OwnBoth
  <2> QED
    BY <2>1, <2>2, <2>3, <2>4
<1>8. \A x \in Tasks : owner'[x] = Free => next'[x] = Null
    BY <1>1, <1>2, OwnersDistinct DEF TypeOK, HeldOK, Own, OwnBoth
<1> QED
    BY <1>1, <1>2, <1>4, <1>5, <1>6, <1>7, <1>8, HeldStep

(* Uninitialize detaches the next list. *)
LEMMA CloseDrainNext ==
    ASSUME IInv, NEW t \in Threads, t = Closer, CloseDrain, slot[t][1] < ThreadCount
    PROVE  IInv'
<1> DEFINE s == slot[t]
           p == head[s]
<1> USE DEF IInv, Goto, lists, marks, counters, switches, event, holds, scratch, runs
<1>1. /\ pc[t] = "drain" /\ pc' = [pc EXCEPT ![t] = "abort"]
      /\ rest' = [rest EXCEPT ![t] = p] /\ head' = [head EXCEPT ![s] = Null]
      /\ Own(p, InRest(t)) /\ slot' = [slot EXCEPT ![t] = NextSlot(s)]
      /\ UNCHANGED <<next, marks, counters, switches, event, link, hand, want, from, bound, runs>>
    BY DEF CloseDrain
<1>2. rest[t] = Null /\ runningToken = 0
    BY <1>1 DEF TypeOK, HeldOK, Held, Pointers, Pushing, Detached, Dispatching, Taking, OfCloser, CloseDrain
<1>3. s \in Slots /\ p \in Pointers /\ NextSlot(s) \in (0 .. ThreadCount) \X (1 .. Dup)
    BY <1>1 DEF TypeOK, Slots, NextSlot
<1>4. owner' \in [Tasks -> Owners]
    BY <1>1, <1>2, <1>3 DEF TypeOK, Own, OwnBoth, Owners
<1>5. TypeOK' /\ OthersSame(t)
    BY <1>1, <1>2, <1>3, <1>4 DEF TypeOK, OthersSame, Pointers, Slots, Labels, Dispatching, Polling, Taking
<1>6. Held(t)'
    BY <1>1, <1>2, <1>3 DEF TypeOK, HeldOK, Held, Pushing, Detached, Dispatching, Taking
<1>7. Role(t)' /\ Counted(t)
    BY <1>1, <1>2, <1>3 DEF TypeOK, HeldOK, Held, Role, Counted, Claims, OfCloser, Dispatching, Taking
<1>8. SingleOwner'
  <2> SUFFICES ASSUME NEW x \in Tasks
               PROVE  (HeadOwner(x) /\ NextOwner(x) /\ HoldOwner(x) /\ MarkOwner(x))'
    BY DEF SingleOwner
  <2>1. HeadOwner(x)'
    BY <1>1, <1>2, <1>3, OwnersDistinct DEF TypeOK, SingleOwner, HeadOwner, NextOwner, HoldOwner, MarkOwner, Own, OwnBoth
  <2>2. NextOwner(x)'
    BY <1>1, <1>2, <1>3, OwnersDistinct DEF TypeOK, SingleOwner, HeadOwner, NextOwner, HoldOwner, MarkOwner, Own, OwnBoth
  <2>3. HoldOwner(x)'
    BY <1>1, <1>2, <1>3, OwnersDistinct DEF TypeOK, SingleOwner, HeadOwner, NextOwner, HoldOwner, MarkOwner, Own, OwnBoth
  <2>4. MarkOwner(x)'
    BY <1>1, <1>2, <1>3, OwnersDistinct DEF TypeOK, SingleOwner, HeadOwner, NextOwner, HoldOwner, MarkOwner, Own, OwnBoth
  <2> QED
    BY <2>1, <2>2, <2>3, <2>4
<1>9. \A x \in Tasks : owner'[x] = Free => next'[x] = Null
    BY <1>1, <1>2, <1>3, OwnersDistinct DEF TypeOK, HeldOK, Own, OwnBoth
<1> QED
    BY <1>1, <1>2, <1>3, <1>5, <1>6, <1>7, <1>8, <1>9, HeldStep

(* Uninitialize aborts the first task of a detached list. *)
LEMMA CloseAbortFirst ==
    ASSUME IInv, NEW t \in Threads, t = Closer, CloseAbort, rest[t] # Null
    PROVE  IInv'
<1> DEFINE q == rest[t]
           n == next[q]
<1> USE DEF IInv, Goto, lists, marks, counters, switches, event, holds, scratch, runs
<1>1. /\ pc[t] = "abort" /\ rest' = [rest EXCEPT ![t] = n] /\ next' = [next EXCEPT ![q] = Null]
      /\ OwnBoth(q, Free, n, InRest(t)) /\ settled' = [settled EXCEPT ![q] = @ + 1]
      /\ UNCHANGED <<pc, head, marks, counters, switches, event, link, hand, scratch, exec>>
    BY DEF CloseAbort
<1>2. q \in Tasks /\ q # Null /\ n \in Pointers /\ runningToken = 0
    BY <1>1 DEF TypeOK, HeldOK, Held, Pointers, Pushing, Detached, Dispatching, Taking, OfCloser, CloseAbort
<1>3. owner[q] = InRest(t) /\ (n # Null => owner[n] = Behind(q)) /\ q # n
    BY <1>1, <1>2, OwnersDistinct DEF TypeOK, SingleOwner, HoldOwner, NextOwner, Pointers
<1>4. settled' \in [Tasks -> Nat]
    BY <1>1, <1>2 DEF TypeOK
<1>5. owner' \in [Tasks -> Owners]
    BY <1>1, <1>2, <1>3, <1>4 DEF TypeOK, Own, OwnBoth, Owners
<1>6. TypeOK' /\ OthersSame(t)
    BY <1>1, <1>2, <1>3, <1>4, <1>5 DEF TypeOK, OthersSame, Pointers, Slots, Labels, Dispatching, Polling, Taking
<1>7. Held(t)'
    BY <1>1, <1>2, <1>3, <1>4 DEF TypeOK, HeldOK, Held, Pushing, Detached, Dispatching, Taking
<1>8. Role(t)' /\ Counted(t)
    BY <1>1, <1>2, <1>3, <1>4 DEF TypeOK, HeldOK, Held, Role, Counted, Claims, OfCloser, Dispatching, Taking
<1>9. SingleOwner'
  <2> SUFFICES ASSUME NEW x \in Tasks
               PROVE  (HeadOwner(x) /\ NextOwner(x) /\ HoldOwner(x) /\ MarkOwner(x))'
    BY DEF SingleOwner
  <2>1. HeadOwner(x)'
    BY <1>1, <1>2, <1>3, <1>4, OwnersDistinct DEF TypeOK, SingleOwner, HeadOwner, NextOwner, HoldOwner, MarkOwner, Own, OwnBoth
  <2>2. NextOwner(x)'
    BY <1>1, <1>2, <1>3, <1>4, OwnersDistinct DEF TypeOK, SingleOwner, HeadOwner, NextOwner, HoldOwner, MarkOwner, Own, OwnBoth
  <2>3. HoldOwner(x)'
    BY <1>1, <1>2, <1>3, <1>4, OwnersDistinct DEF TypeOK, SingleOwner, HeadOwner, NextOwner, HoldOwner, MarkOwner, Own, OwnBoth
  <2>4. MarkOwner(x)'
    BY <1>1, <1>2, <1>3, <1>4, OwnersDistinct DEF TypeOK, SingleOwner, HeadOwner, NextOwner, HoldOwner, MarkOwner, Own, OwnBoth
  <2> QED
    BY <2>1, <2>2, <2>3, <2>4
<1>10. \A x \in Tasks : owner'[x] = Free => next'[x] = Null
    BY <1>1, <1>2, <1>3, <1>4, OwnersDistinct DEF TypeOK, HeldOK, Own, OwnBoth
<1>11. \A u \in Threads \ {t} :
         /\ pc[u] \in Detached => next'[hand[u]] = next[hand[u]]
         /\ pc[u] \in {"dcount", "dtry", "dload"} => next'[link[u]] = next[link[u]]
    BY <1>1, <1>2, <1>3, <1>4, OwnersDistinct DEF TypeOK, HeldOK, Held, SingleOwner, HoldOwner, Own, OwnBoth, Pushing, Detached
<1> QED
    BY <1>1, <1>2, <1>3, <1>4, <1>6, <1>7, <1>8, <1>9, <1>10, <1>11, HeldStep

(* Uninitialize drains the lists.                                            *)
LEMMA CloseListInv ==
    ASSUME IInv, NEW t \in Threads, t = Closer, CloseDrain \/ CloseAbort
    PROVE  IInv'
<1> USE DEF IInv, Goto, lists, marks, counters, switches, event, holds, scratch, runs
<1>1. CASE CloseDrain /\ slot[t][1] < ThreadCount
    BY <1>1, CloseDrainNext
<1>2. CASE CloseAbort /\ rest[t] # Null
    BY <1>2, CloseAbortFirst
<1>3. CASE \/ CloseDrain /\ ~(slot[t][1] < ThreadCount)
           \/ CloseAbort /\ rest[t] = Null
  <2>1. /\ pc[t] \in {"drain", "abort"} /\ rest[t] = Null
        /\ pc' = [pc EXCEPT ![t] = pc'[t]] /\ pc'[t] \in {"drain", "done"}
        /\ UNCHANGED <<lists, marks, counters, switches, event, holds, scratch, runs>>
    BY <1>3 DEF CloseDrain, CloseAbort, TypeOK, HeldOK, Held
  <2>2. TypeOK' /\ OthersSame(t)
    BY <2>1 DEF TypeOK, OthersSame, Labels
  <2>3. Held(t)'
    BY <2>1 DEF TypeOK, HeldOK, Held, Pointers, Slots, Pushing, Detached, Dispatching, Taking
  <2>4. Role(t)' /\ Counted(t)
    BY <2>1 DEF TypeOK, HeldOK, Held, Role, Counted, Claims, OfCloser, Dispatching, Taking
  <2> QED
    BY <2>1, <2>2, <2>3, <2>4, QuietStep DEF Quiet
<1> QED
    BY <1>1, <1>2, <1>3

-----------------------------------------------------------------------------
(* Every step of the pool preserves the invariant.                           *)
LEMMA StepInv == IInv /\ [Next]_vars => IInv'
<1> SUFFICES ASSUME IInv, [Next]_vars PROVE IInv'
    OBVIOUS
<1>1. ASSUME NEW t \in Threads, DispatchStep(t) PROVE IInv'
    BY <1>1, DispatchQuiet, DispatchMarkInv, DispatchTryInv, PushInv DEF DispatchStep
<1>2. ASSUME NEW t \in Threads, PollStep(t) PROVE IInv'
    BY <1>2, PollQuiet, PollTakeInv, PollSplitInv, PollGiveBackInv, PollRechainInv, PushInv,
       PollUnmarkInv DEF PollStep
<1>3. ASSUME NEW t \in Workers, WorkerStep(t) PROVE IInv'
  <2>1. t \in Threads /\ t # Closer
    BY DEF Threads
  <2> QED
    BY <1>1, <1>2, <1>3, <2>1, RunQuiet DEF WorkerStep
<1>4. ASSUME NEW t \in Clients, ClientStep(t) PROVE IInv'
  <2>1. t \in Threads
    BY DEF Threads
  <2> QED
    BY <1>1, <1>2, <1>4, <2>1, RunQuiet, ClientQuiet DEF ClientStep
<1>5. ASSUME NEW t \in Threads, WakeUp(t) PROVE IInv'
    BY <1>5, RunQuiet
<1>6. CASE CloserStep
  <2>1. Closer \in Threads
    BY DEF Threads
  <2> QED
    BY <1>6, <2>1, RunQuiet, CloseQuiet, CloseListInv DEF CloserStep
<1>7. CASE Stopped \/ UNCHANGED vars
  <2>1. UNCHANGED vars
    BY <1>7 DEF Stopped
  <2>2. TypeOK' /\ SingleOwner'
    BY <2>1 DEF IInv, TypeOK, SingleOwner, HeadOwner, NextOwner, HoldOwner, MarkOwner, vars,
       lists, marks, counters, switches, event, holds, scratch, runs
  <2>3. HeldOK'
    BY <2>1 DEF IInv, HeldOK, Held, Claiming, Claims, vars,
       lists, marks, counters, switches, event, holds, scratch, runs
  <2> QED
    BY <2>2, <2>3 DEF IInv
<1> QED
    BY <1>3, <1>4, <1>5, <1>6, <1>7 DEF Next

(* What a thread holds is what its program counter says, and every task      *)
(* hangs where its owner says.                                               *)
THEOREM Invariance == Spec => []IInv
<1> QED
    BY InitInv, StepInv, PTL DEF Spec

(* Every variable keeps its type, and every thread is at a label of the code *)
(* it runs.                                                                  *)
THEOREM TypeCorrect == Spec => []TypeOK
<1>1. IInv => TypeOK
    BY DEF IInv
<1> QED
    BY <1>1, Invariance, PTL

(* For any number of threads, tasks, heads and priorities, a task hangs on   *)
(* one pointer at most (a list head, the next field of a task, a pointer     *)
(* local to Dispatch, Poll or Uninitialize), and a task that is marked as    *)
(* queued hangs on one while the pool runs.                                  *)
THEOREM OneOwner == Spec => []SingleOwner
<1>1. IInv => SingleOwner
    BY DEF IInv
<1> QED
    BY <1>1, Invariance, PTL

(* The assertions in the bodies of Dispatch and Poll hold.                   *)
THEOREM AssertionsHold == Spec => []CodeAssertions
<1>1. ASSUME IInv PROVE CodeAssertions
  <2> SUFFICES ASSUME NEW t \in Threads
               PROVE  /\ pc[t] \in {"dcount", "dtry", "dload"} => next[link[t]] = Null
                      /\ pc[t] = "dload" => head[slot[t]] # link[t]
                      /\ pc[t] = "rechain" => queued[rest[t]] = 1
                      /\ pc[t] \in {"uncount", "unmark"} => next[hand[t]] = Null
    BY DEF CodeAssertions
  <2>1. Held(t) /\ link[t] \in Pointers /\ rest[t] \in Pointers
    BY <1>1 DEF IInv, TypeOK, HeldOK
  <2>2. pc[t] \in {"dcount", "dtry", "dload"} => next[link[t]] = Null
    BY <2>1 DEF Held
  <2>3. ASSUME pc[t] = "dload" PROVE head[slot[t]] # link[t]
    <3>1. link[t] \in Tasks /\ slot[t] \in Slots
      BY <2>1, <2>3 DEF Held, Pushing, Dispatching, Pointers
    <3>2. owner[link[t]] = InLink(t)
      BY <1>1, <3>1 DEF IInv, SingleOwner, HoldOwner
    <3> QED
      BY <1>1, <3>1, <3>2, OwnersDistinct DEF IInv, SingleOwner, HeadOwner
  <2>4. ASSUME pc[t] = "rechain" PROVE queued[rest[t]] = 1
    <3>1. rest[t] \in Tasks
      BY <2>1, <2>4 DEF Held, Pointers
    <3>2. owner[rest[t]] # Free
      BY <1>1, <3>1, OwnersDistinct DEF IInv, SingleOwner, HoldOwner
    <3> QED
      BY <1>1, <3>1, <3>2 DEF IInv, TypeOK, SingleOwner, MarkOwner
  <2>5. pc[t] \in {"uncount", "unmark"} => next[hand[t]] = Null
    BY <2>1 DEF Held, Detached
  <2> QED
    BY <2>2, <2>3, <2>4, <2>5
<1> QED
    BY <1>1, Invariance, PTL

-----------------------------------------------------------------------------
(* The reserve of threads for smaller indices                                *)

(* The threads that PriorityReserve counts.                                  *)
Takes(t) == pc[t] \in Taking \/ exec[t] # Null
Takers(i) == {t \in Threads : Takes(t) /\ from[t][1] >= i}

(* No thread begins to hold a task.                                          *)
NoneTakes == \A t \in Threads : Takes(t)' => Takes(t) /\ from'[t] = from[t]

(* PriorityReserve in these words.                                           *)
LEMMA ReserveTakers ==
    PriorityReserve <=> \A i \in 0 .. ThreadCount - 1 : Cardinality(Takers(i)) <= ThreadCount - i
BY DEF PriorityReserve, Takers, Takes

(* Then the reserve is kept.                                                 *)
LEMMA NoneTakesReserve ==
    ASSUME PriorityReserve, NoneTakes
    PROVE  PriorityReserve'
<1> SUFFICES ASSUME NEW i \in 0 .. ThreadCount - 1
             PROVE  Cardinality(Takers(i)') <= ThreadCount - i
    BY DEF PriorityReserve, Takers, Takes
<1>1. Takers(i)' \subseteq Takers(i) /\ IsFiniteSet(Takers(i))
    BY ThreadsFinite, FS_Subset DEF Takers, NoneTakes
<1>2. /\ Cardinality(Takers(i)') <= Cardinality(Takers(i))
      /\ Cardinality(Takers(i)) \in Nat /\ Cardinality(Takers(i)') \in Nat
    BY <1>1, FS_Subset, FS_CardinalityType
<1>3. Cardinality(Takers(i)) <= ThreadCount - i
    BY ReserveTakers
<1> QED
    BY <1>2, <1>3

(* A step of t that does not begin to hold a task.                           *)
LEMMA OneMoves ==
    ASSUME TypeOK, NEW t \in Threads, NEW to, pc' = [pc EXCEPT ![t] = to],
           to \notin Taking \/ Takes(t),
           exec' = exec \/ exec' = [exec EXCEPT ![t] = Null], from' = from
    PROVE  NoneTakes
BY DEF TypeOK, NoneTakes, Takes

(* The step that does: fewer than threadCount - i threads are inside Poll.   *)
LEMMA ClaimReserve ==
    ASSUME IInv, PriorityReserve, NEW t \in Threads, PollClaim(t)
    PROVE  PriorityReserve'
<1> DEFINE j == from[t][1]
<1>1. /\ pc[t] = "claim" /\ exec' = exec /\ from' = from /\ exec[t] = Null
      /\ pc' = [pc EXCEPT ![t] = IF j + runningCount < ThreadCount THEN "take" ELSE "unclaim"]
    BY DEF PollClaim, Goto, scratch, runs, IInv, HeldOK, Held, Dispatching
<1>2. j \in 0 .. ThreadCount - 1
    BY <1>1 DEF IInv, HeldOK, Held, Slots
<1>3. CASE j + runningCount < ThreadCount
  <2>1. pc'[t] = "take" /\ \A u \in Threads \ {t} : pc'[u] = pc[u]
    BY <1>1, <1>3 DEF IInv, TypeOK
  <2>2. IsFiniteSet(Claiming) /\ Cardinality(Claiming) = runningCount /\ t \notin Claiming
    BY <1>1, ThreadsFinite, FS_Subset DEF IInv, HeldOK, Claiming, Claims, Taking
  <2>3. Cardinality(Claiming \cup {t}) = runningCount + 1 /\ IsFiniteSet(Claiming \cup {t})
    BY <2>2, FS_AddElement
  <2> SUFFICES ASSUME NEW i \in 0 .. ThreadCount - 1
               PROVE  Cardinality(Takers(i)') <= ThreadCount - i
    BY DEF PriorityReserve, Takers, Takes
  <2>4. CASE i <= j
    <3>1. Takers(i)' \subseteq Claiming \cup {t}
      BY <1>1, <2>1 DEF Takers, Takes, Claiming, Claims
    <3>2. Cardinality(Takers(i)') <= runningCount + 1 /\ Cardinality(Takers(i)') \in Nat
      BY <2>3, <3>1, FS_Subset, FS_CardinalityType
    <3> QED
      BY <1>2, <1>3, <2>2, <2>4, <3>2, FS_CardinalityType
  <2>5. CASE i > j
    <3>1. Takers(i)' = Takers(i)
      BY <1>1, <1>2, <2>1, <2>5 DEF Takers, Takes
    <3> QED
      BY <3>1, ReserveTakers
  <2> QED
    BY <1>2, <2>4, <2>5
<1>4. CASE ~(j + runningCount < ThreadCount)
  <2>1. NoneTakes
    BY <1>1, <1>4, OneMoves DEF IInv, Taking
  <2> QED
    BY <2>1, NoneTakesReserve
<1> QED
    BY <1>3, <1>4

(* A Dispatch returns to where it was called from.                           *)
LEMMA CallerKeeps ==
    ASSUME NEW t
    PROVE  Caller(t) \notin Taking \/ Takes(t)
BY DEF Caller, Takes, Taking

(* No other step takes.                                                      *)
LEMMA DispatchTakesNone ==
    ASSUME IInv, NEW t \in Threads, DispatchStep(t)
    PROVE  NoneTakes
<1> USE CallerKeeps DEF Goto, scratch, runs
<1>1. ASSUME NEW x \in Tasks, NEW priority \in Priorities, Dispatch(t, x, priority)
      PROVE  NoneTakes
    BY <1>1, OneMoves DEF Dispatch, IInv, Taking
<1>2. CASE DispatchMark(t)
    BY <1>2, OneMoves DEF DispatchMark, IInv, Taking
<1>3. CASE DispatchCount(t)
    BY <1>3, OneMoves DEF DispatchCount, IInv, Taking
<1>4. CASE DispatchTry(t)
    BY <1>4, OneMoves DEF DispatchTry, IInv, Taking, NoneTakes, Takes
<1>5. CASE DispatchLoad(t)
    BY <1>5, OneMoves DEF DispatchLoad, IInv, Taking
<1>6. CASE DispatchPush(t)
    BY <1>6, OneMoves DEF DispatchPush, PushHead, IInv, Taking, NoneTakes, Takes
<1>7. CASE DispatchCheck(t)
    BY <1>7, OneMoves DEF DispatchCheck, CheckSignal, IInv, Taking
<1>8. CASE DispatchSignal(t)
    BY <1>8, OneMoves DEF DispatchSignal, SendSignal, IInv, Taking
<1> QED
    BY <1>1, <1>2, <1>3, <1>4, <1>5, <1>6, <1>7, <1>8 DEF DispatchStep

(* In Poll the scan, before it takes, and the way from the head to the end.  *)
LEMMA PollTakesNone ==
    ASSUME IInv, NEW t \in Threads, PollStep(t), ~PollClaim(t)
    PROVE  NoneTakes
<1> USE DEF Goto, scratch, runs, IInv
<1>1. CASE PollBegin(t) \/ PollFetch(t)
  <2>1. exec[t] = Null /\ pc[t] \in {"poll", "fetch"}
    BY <1>1 DEF PollBegin, PollFetch, HeldOK, Held, Dispatching
  <2>2. /\ exec' = exec /\ pc'[t] \notin Taking
        /\ \A u \in Threads \ {t} : pc'[u] = pc[u] /\ from'[u] = from[u]
    BY <1>1 DEF PollBegin, PollFetch, TypeOK, Taking
  <2> QED
    BY <2>1, <2>2 DEF NoneTakes, Takes
<1>2. CASE PollTake(t)
    BY <1>2, OneMoves DEF PollTake, Taking, Takes
<1>3. CASE PollSplit(t)
    BY <1>3, OneMoves DEF PollSplit, Taking, Takes
<1>4. CASE PollGiveBack(t)
    BY <1>4, OneMoves DEF PollGiveBack, Taking, Takes
<1>5. CASE PollRechain(t)
    BY <1>5, OneMoves DEF PollRechain, Taking, Takes
<1>6. CASE PollRepush(t)
    BY <1>6, OneMoves DEF PollRepush, PushHead, Taking, Takes, NoneTakes
<1>7. CASE PollCheck(t)
    BY <1>7, OneMoves DEF PollCheck, CheckSignal, Taking, Takes
<1>8. CASE PollSignal(t)
    BY <1>8, OneMoves DEF PollSignal, SendSignal, Taking, Takes
<1>9. CASE PollUncount(t)
    BY <1>9, OneMoves DEF PollUncount, Taking, Takes
<1>10. CASE PollUnmark(t)
    BY <1>10 DEF PollUnmark, Taking, Takes, NoneTakes, TypeOK
<1>11. CASE PollRun(t)
    BY <1>11, OneMoves DEF PollRun, Taking, Takes
<1>12. CASE PollFinish(t)
    BY <1>12, OneMoves DEF PollFinish, Taking, Takes
<1>13. CASE PollLeave(t)
    BY <1>13, OneMoves DEF PollLeave, Taking, Takes
<1> QED
    BY <1>1, <1>2, <1>3, <1>4, <1>5, <1>6, <1>7, <1>8, <1>9, <1>10, <1>11, <1>12, <1>13 DEF PollStep

(* Nor do the steps outside Poll and Dispatch.                               *)
LEMMA RunTakesNone ==
    ASSUME IInv, NEW t \in Threads,
           \/ RunEnter(t) \/ RunTest(t) \/ RunPolled(t) \/ RunMissed(t) \/ RunExit(t)
           \/ WaitEnter(t) \/ WakeUp(t)
           \/ \E to \in {"loop", "idle", "relock"} : WaitLeave(t, to)
    PROVE  NoneTakes
<1> USE DEF Goto, Move, scratch, runs, IInv
<1>1. CASE RunEnter(t)
    BY <1>1, OneMoves DEF RunEnter, Taking
<1>2. CASE RunTest(t)
    BY <1>2, OneMoves DEF RunTest, Taking
<1>3. CASE RunPolled(t)
    BY <1>3, OneMoves DEF RunPolled, Taking
<1>4. CASE RunMissed(t)
    BY <1>4, OneMoves DEF RunMissed, Taking
<1>5. CASE RunExit(t)
    BY <1>5, OneMoves DEF RunExit, Taking
<1>6. CASE WaitEnter(t)
    BY <1>6, OneMoves DEF WaitEnter, Taking
<1>7. CASE WakeUp(t)
    BY <1>7 DEF WakeUp, NoneTakes, Takes
<1>8. ASSUME NEW to \in {"loop", "idle", "relock"}, WaitLeave(t, to)
      PROVE  NoneTakes
    BY <1>8, OneMoves DEF WaitLeave, Taking
<1> QED
    BY <1>1, <1>2, <1>3, <1>4, <1>5, <1>6, <1>7, <1>8

(* Those of an external thread.                                              *)
LEMMA ClientTakesNone ==
    ASSUME IInv, NEW t \in Clients,
           \/ PollDelay(t) \/ PollDelayed(t) \/ PollDelayMissed(t)
           \/ BalanceUp(t) \/ BalanceDown(t)
    PROVE  NoneTakes
<1> USE DEF Goto, Move, scratch, runs, IInv
<1>1. t \in Threads
    BY DEF Threads
<1>2. CASE PollDelay(t)
    BY <1>1, <1>2, OneMoves DEF PollDelay, Taking
<1>3. CASE PollDelayed(t)
    BY <1>1, <1>3, OneMoves DEF PollDelayed, Taking
<1>4. CASE PollDelayMissed(t)
    BY <1>1, <1>4, OneMoves DEF PollDelayMissed, Taking
<1>5. CASE BalanceUp(t) \/ BalanceDown(t)
    BY <1>5 DEF BalanceUp, BalanceDown, NoneTakes, Takes
<1> QED
    BY <1>2, <1>3, <1>4, <1>5

(* Those of Uninitialize.                                                    *)
LEMMA CloserTakesNone ==
    ASSUME IInv, CloserStep
    PROVE  NoneTakes
<1> USE DEF Goto, Move, scratch, runs, IInv
<1>1. Closer \in Threads
    BY DEF Threads
<1>2. CASE Uninitialize
    BY <1>1, <1>2, OneMoves DEF Uninitialize, Taking
<1>3. CASE CloseCount
    BY <1>1, <1>3, OneMoves DEF CloseCount, Taking
<1>4. CASE CloseSignal
    BY <1>1, <1>4, OneMoves DEF CloseSignal, Taking, NoneTakes, Takes
<1>5. CASE CloseRelock
    BY <1>1, <1>5, OneMoves DEF CloseRelock, Taking
<1>6. CASE CloseDrain
    BY <1>1, <1>6, OneMoves DEF CloseDrain, Taking
<1>7. CASE CloseAbort
    BY <1>1, <1>7, OneMoves DEF CloseAbort, Taking, NoneTakes, Takes
<1>8. CASE WaitEnter(Closer) \/ WaitLeave(Closer, "relock")
    BY <1>1, <1>8, RunTakesNone
<1> QED
    BY <1>2, <1>3, <1>4, <1>5, <1>6, <1>7, <1>8 DEF CloserStep

(* At first nobody holds a task.                                             *)
LEMMA InitReserve == Init => PriorityReserve
<1> SUFFICES ASSUME Init, NEW i \in 0 .. ThreadCount - 1
             PROVE  Cardinality(Takers(i)) <= ThreadCount - i
    BY ReserveTakers
<1>1. Takers(i) = {}
    BY DEF Init, Takers, Takes, Taking, Threads
<1> QED
    BY <1>1, FS_EmptySet

(* Every step keeps the reserve.                                             *)
LEMMA StepReserve == IInv /\ PriorityReserve /\ [Next]_vars => PriorityReserve'
<1> SUFFICES ASSUME IInv, PriorityReserve, [Next]_vars PROVE PriorityReserve'
    OBVIOUS
<1>1. ASSUME NEW t \in Threads, PollStep(t) \/ DispatchStep(t) PROVE PriorityReserve'
    BY <1>1, ClaimReserve, PollTakesNone, DispatchTakesNone, NoneTakesReserve
<1>2. ASSUME NEW t \in Workers, WorkerStep(t) PROVE PriorityReserve'
  <2>1. t \in Threads
    BY DEF Threads
  <2> QED
    BY <1>1, <1>2, <2>1, RunTakesNone, NoneTakesReserve DEF WorkerStep
<1>3. ASSUME NEW t \in Clients, ClientStep(t) PROVE PriorityReserve'
  <2>1. t \in Threads
    BY DEF Threads
  <2> QED
    BY <1>1, <1>3, <2>1, RunTakesNone, ClientTakesNone, NoneTakesReserve DEF ClientStep
<1>4. ASSUME NEW t \in Threads, WakeUp(t) PROVE PriorityReserve'
    BY <1>4, RunTakesNone, NoneTakesReserve
<1>5. CASE CloserStep
    BY <1>5, CloserTakesNone, NoneTakesReserve
<1>6. CASE Stopped \/ UNCHANGED vars
  <2>1. NoneTakes
    BY <1>6 DEF Stopped, NoneTakes, Takes, vars, scratch, runs
  <2> QED
    BY <2>1, NoneTakesReserve
<1> QED
    BY <1>2, <1>3, <1>4, <1>5, <1>6 DEF Next

(* Of the threads inside Poll, at most threadCount - i hold a task of index  *)
(* i or more, however many threads and priorities there are: Poll's test of  *)
(* runningCount keeps i threads for the tasks of smaller indices.            *)
THEOREM Reserve == Spec => []PriorityReserve
<1> QED
    BY InitReserve, StepReserve, Invariance, PTL DEF Spec

-----------------------------------------------------------------------------
(* The counters                                                              *)

DCount == NumberAt({"dcount"})
Unmark == NumberAt({"unmark"})
Asleep == NumberAt({"asleep"})
Queued == {x \in Tasks : queued[x] = 1}
Alive == {t \in Workers : pc[t] \notin {"start", "done"}}

(* Every counter but runningCount (see HeldOK) counts a finite set.          *)
Counts ==
    /\ IsFiniteSet(Queued)
    /\ taskCount = Cardinality(Queued) - DCount - Unmark
    /\ waitEventCounter = Asleep
    /\ liveThreadCount = Cardinality(Alive)

Is(label, other) == IF label = other THEN 1 ELSE 0
Lives(label) == IF label \in {"start", "done"} THEN 0 ELSE 1

(* The counters follow t from its label to the next.  Dispatch marks a task  *)
(* before it counts it, and Poll unmarks it after.                           *)
Tallied(t, to) ==
    /\ pc' = [pc EXCEPT ![t] = to]
    /\ waitEventCounter' = waitEventCounter + Is(to, "asleep") - Is(pc[t], "asleep")
    /\ liveThreadCount' = liveThreadCount +
          IF t \in Workers THEN Lives(to) - Lives(pc[t])
                           ELSE 0
    /\ \/ /\ queued' = queued
          /\ taskCount' = taskCount + Is(pc[t], "dcount") + Is(pc[t], "unmark")
                                    - Is(to, "dcount") - Is(to, "unmark")
       \/ /\ pc[t] \notin {"dcount", "unmark"} /\ to = "dcount" /\ taskCount' = taskCount
          /\ \E x \in Tasks : /\ queued[x] = 0 /\ queued'[x] = 1
                             /\ \A y \in Tasks \ {x} : queued'[y] = queued[y]
       \/ /\ pc[t] = "unmark" /\ to \notin {"dcount", "unmark"} /\ taskCount' = taskCount
          /\ \E x \in Tasks : /\ queued[x] = 1 /\ queued'[x] = 0
                             /\ \A y \in Tasks \ {x} : queued'[y] = queued[y]

(* The threads at a label, before and after a step.                          *)
AtLabel(label) == {u \in Threads : pc[u] = label}
ToLabel(label) == {u \in Threads : pc'[u] = label}

(* How their number changes when t leaves its label for another.             *)
LEMMA AtLabelMoves ==
    ASSUME TypeOK, NEW t \in Threads, NEW to, pc' = [pc EXCEPT ![t] = to]
    PROVE  \A label : /\ Cardinality(AtLabel(label)) \in Nat
                      /\ Cardinality(ToLabel(label)) =
                            Cardinality(AtLabel(label)) + Is(to, label) - Is(pc[t], label)
<1> TAKE label
<1>1. IsFiniteSet(AtLabel(label)) /\ Cardinality(AtLabel(label)) \in Nat
    BY ThreadsFinite, FS_Subset, FS_CardinalityType DEF AtLabel
<1>2. pc'[t] = to /\ \A u \in Threads \ {t} : pc'[u] = pc[u]
    BY DEF TypeOK
<1>3. CASE (to = label) <=> (pc[t] = label)
  <2>1. ToLabel(label) = AtLabel(label)
    BY <1>2, <1>3 DEF AtLabel, ToLabel
  <2>2. Cardinality(ToLabel(label)) = Cardinality(AtLabel(label))
    BY <2>1
  <2>3. Is(to, label) - Is(pc[t], label) = 0 /\ Is(to, label) \in Nat /\ Is(pc[t], label) \in Nat
    BY <1>3 DEF Is
  <2> QED
    BY <1>1, <2>2, <2>3
<1>4. CASE to = label /\ pc[t] # label
  <2>1. ToLabel(label) = AtLabel(label) \cup {t} /\ t \notin AtLabel(label)
    BY <1>2, <1>4 DEF AtLabel, ToLabel
  <2>2. Cardinality(ToLabel(label)) = Cardinality(AtLabel(label)) + 1
    BY <1>1, <2>1, FS_AddElement
  <2> QED
    BY <1>1, <1>4, <2>2 DEF Is
<1>5. CASE to # label /\ pc[t] = label
  <2>1. ToLabel(label) = AtLabel(label) \ {t} /\ t \in AtLabel(label)
    BY <1>2, <1>5 DEF AtLabel, ToLabel
  <2>2. Cardinality(ToLabel(label)) = Cardinality(AtLabel(label)) - 1
    BY ZenonT(60), <1>1, <2>1, FS_RemoveElement
  <2> QED
    BY <1>1, <1>5, <2>2 DEF Is
<1> QED
    BY <1>3, <1>4, <1>5

(* A step of t from one label to another, as each label sees it.             *)
LEMMA NumberMoves ==
    ASSUME TypeOK, NEW t \in Threads, NEW to, pc' = [pc EXCEPT ![t] = to]
    PROVE  /\ DCount \in Nat /\ Unmark \in Nat /\ Asleep \in Nat
           /\ DCount' = DCount + Is(to, "dcount") - Is(pc[t], "dcount")
           /\ Unmark' = Unmark + Is(to, "unmark") - Is(pc[t], "unmark")
           /\ Asleep' = Asleep + Is(to, "asleep") - Is(pc[t], "asleep")
<1>1. /\ DCount = Cardinality(AtLabel("dcount"))
      /\ Unmark = Cardinality(AtLabel("unmark"))
      /\ Asleep = Cardinality(AtLabel("asleep"))
  <2>1. \A l : {u \in Threads : pc[u] \in {l}} = AtLabel(l)
    BY DEF AtLabel
  <2> QED
    BY <2>1 DEF DCount, Unmark, Asleep, NumberAt
<1>2. /\ DCount' = Cardinality(ToLabel("dcount"))
      /\ Unmark' = Cardinality(ToLabel("unmark"))
      /\ Asleep' = Cardinality(ToLabel("asleep"))
  <2>1. \A l : {u \in Threads : pc'[u] \in {l}} = ToLabel(l)
    BY DEF ToLabel
  <2> QED
    BY <2>1 DEF DCount, Unmark, Asleep, NumberAt
<1> QED
    BY <1>1, <1>2, AtLabelMoves

(* A step that is tallied keeps liveThreadCount right,                       *)
LEMMA AliveMoves ==
    ASSUME TypeOK, Counts, NEW t \in Threads, NEW to, Tallied(t, to)
    PROVE  liveThreadCount' = Cardinality(Alive')
<1>1. IsFiniteSet(Alive) /\ Cardinality(Alive) \in Nat
    BY FS_Subset, FS_CardinalityType DEF Alive
<1>2. pc'[t] = to /\ \A u \in Threads \ {t} : pc'[u] = pc[u]
    BY DEF TypeOK, Tallied
<1>3. CASE t \in Workers /\ to \notin {"start", "done"} /\ pc[t] \in {"start", "done"}
  <2>1. Alive' = Alive \cup {t} /\ t \notin Alive
    BY <1>2, <1>3 DEF Alive, Threads
  <2>2. Cardinality(Alive') = Cardinality(Alive) + 1
    BY <1>1, <2>1, FS_AddElement
  <2> QED
    BY <1>1, <1>3, <2>2 DEF Counts, Tallied, Lives
<1>4. CASE t \in Workers /\ to \in {"start", "done"} /\ pc[t] \notin {"start", "done"}
  <2>1. Alive' = Alive \ {t} /\ t \in Alive
    BY <1>2, <1>4 DEF Alive, Threads
  <2>2. Cardinality(Alive') = Cardinality(Alive) - 1
    BY <1>1, <2>1, FS_RemoveElement
  <2> QED
    BY <1>1, <1>4, <2>2 DEF Counts, Tallied, Lives
<1>5. CASE t \notin Workers \/ (to \in {"start", "done"} <=> pc[t] \in {"start", "done"})
  <2>1. Alive' = Alive
    BY <1>2, <1>5 DEF Alive, Threads
  <2> QED
    BY <1>1, <1>5, <2>1 DEF Counts, Tallied, Lives
<1> QED
    BY <1>3, <1>4, <1>5

(* and taskCount,                                                            *)
LEMMA QueuedMoves ==
    ASSUME TypeOK, Counts, NEW t \in Threads, NEW to, Tallied(t, to)
    PROVE  /\ IsFiniteSet(Queued')
           /\ taskCount' = Cardinality(Queued') - DCount' - Unmark'
<1>1. /\ DCount \in Nat /\ Unmark \in Nat
      /\ DCount' = DCount + Is(to, "dcount") - Is(pc[t], "dcount")
      /\ Unmark' = Unmark + Is(to, "unmark") - Is(pc[t], "unmark")
    BY NumberMoves DEF Tallied
<1>2. /\ IsFiniteSet(Queued) /\ Cardinality(Queued) \in Nat
      /\ taskCount = Cardinality(Queued) - DCount - Unmark
    BY FS_CardinalityType DEF Counts
<1>3. CASE /\ queued' = queued
           /\ taskCount' = taskCount + Is(pc[t], "dcount") + Is(pc[t], "unmark")
                                     - Is(to, "dcount") - Is(to, "unmark")
  <2>1. Queued' = Queued
    BY <1>3 DEF Queued
  <2> QED
    BY <1>1, <1>2, <1>3, <2>1 DEF Is
<1>4. ASSUME pc[t] \notin {"dcount", "unmark"}, to = "dcount", taskCount' = taskCount,
             NEW x \in Tasks, queued[x] = 0, queued'[x] = 1,
             \A y \in Tasks \ {x} : queued'[y] = queued[y]
      PROVE  /\ IsFiniteSet(Queued')
             /\ taskCount' = Cardinality(Queued') - DCount' - Unmark'
  <2>1. Queued' = Queued \cup {x} /\ x \notin Queued
    BY <1>4 DEF Queued, TypeOK
  <2>2. IsFiniteSet(Queued') /\ Cardinality(Queued') = Cardinality(Queued) + 1
    BY <1>2, <2>1, FS_AddElement
  <2> QED
    BY <1>1, <1>2, <1>4, <2>2 DEF Is
<1>5. ASSUME pc[t] = "unmark", to \notin {"dcount", "unmark"}, taskCount' = taskCount,
             NEW x \in Tasks, queued[x] = 1, queued'[x] = 0,
             \A y \in Tasks \ {x} : queued'[y] = queued[y]
      PROVE  /\ IsFiniteSet(Queued')
             /\ taskCount' = Cardinality(Queued') - DCount' - Unmark'
  <2>1. Queued' = Queued \ {x} /\ x \in Queued
    BY <1>5 DEF Queued, TypeOK
  <2>2. IsFiniteSet(Queued') /\ Cardinality(Queued') = Cardinality(Queued) - 1
    BY <1>2, <2>1, FS_RemoveElement
  <2> QED
    BY <1>1, <1>2, <1>5, <2>2 DEF Is
<1> QED
    BY <1>3, <1>4, <1>5 DEF Tallied

(* and so every counter.                                                     *)
LEMMA TalliedCounts ==
    ASSUME TypeOK, Counts, NEW t \in Threads, NEW to, Tallied(t, to)
    PROVE  Counts'
<1>1. Asleep' = Asleep + Is(to, "asleep") - Is(pc[t], "asleep")
    BY NumberMoves DEF Tallied
<1>2. waitEventCounter' = Asleep'
    BY <1>1 DEF Counts, Tallied
<1> QED
    BY <1>2, AliveMoves, QueuedMoves DEF Counts

(* Most steps pass between labels that no counter is about.                  *)
Plain == Labels \ {"asleep", "dcount", "unmark", "start", "done"}

(* A step between them that leaves the counters alone.                       *)
LEMMA PlainCounts ==
    ASSUME TypeOK, Counts, NEW t \in Threads, pc[t] \in Plain, NEW to \in Plain,
           pc' = [pc EXCEPT ![t] = to], queued' = queued, taskCount' = taskCount,
           liveThreadCount' = liveThreadCount, waitEventCounter' = waitEventCounter
    PROVE  Counts'
<1>1. liveThreadCount \in Int /\ taskCount \in Int /\ waitEventCounter \in Int
    BY DEF TypeOK
<1>2. Tallied(t, to)
    BY <1>1 DEF Tallied, Is, Lives, Plain
<1> QED
    BY <1>2, TalliedCounts

(* A step that moves nobody changes no count.                                *)
LEMMA SameCounts ==
    ASSUME Counts, pc' = pc, queued' = queued, taskCount' = taskCount,
           liveThreadCount' = liveThreadCount, waitEventCounter' = waitEventCounter
    PROVE  Counts'
BY DEF Counts, Queued, Alive, DCount, Unmark, Asleep, NumberAt

(* Dispatch returns to such a label.                                         *)
LEMMA CallerPlain ==
    ASSUME NEW t
    PROVE  Caller(t) \in Plain
BY DEF Caller, Plain, Labels, Polling, Taking

(* The steps of Dispatch: the mark, the count, and the plain ones.           *)
LEMMA DispatchCounts ==
    ASSUME IInv, Counts, NEW t \in Threads, DispatchStep(t)
    PROVE  Counts'
<1> USE CallerPlain DEF Goto, marks, counters, event, IInv
<1> USE DEF Labels, Dispatching
<1>1. ASSUME NEW x \in Tasks, NEW priority \in Priorities, Dispatch(t, x, priority)
      PROVE  Counts'
    BY <1>1, PlainCounts DEF Dispatch, Plain
<1>2. CASE DispatchMark(t)
  <2>1. pc[t] = "dmark" /\ want[t] \in Tasks
    BY <1>2 DEF DispatchMark, HeldOK, Held, TypeOK, Pointers
  <2>2. CASE queued[want[t]] = 1
    BY <1>2, <2>1, <2>2, PlainCounts DEF DispatchMark, Plain
  <2>3. CASE queued[want[t]] # 1
    <3>1. Tallied(t, "dcount")
      BY <1>2, <2>1, <2>3 DEF DispatchMark, Tallied, Is, Lives, TypeOK
    <3> QED
      BY <3>1, TalliedCounts
  <2> QED
    BY <2>2, <2>3
<1>3. CASE DispatchCount(t)
  <2>1. Tallied(t, "dtry")
    BY <1>3 DEF DispatchCount, Tallied, Is, Lives, TypeOK
  <2> QED
    BY <2>1, TalliedCounts
<1>4. CASE DispatchTry(t)
    BY <1>4, PlainCounts, SameCounts DEF DispatchTry, Plain
<1>5. CASE DispatchLoad(t)
    BY <1>5, PlainCounts DEF DispatchLoad, Plain
<1>6. CASE DispatchPush(t)
    BY <1>6, PlainCounts, SameCounts DEF DispatchPush, PushHead, Plain
<1>7. CASE DispatchCheck(t)
    BY <1>7, PlainCounts DEF DispatchCheck, CheckSignal, Plain
<1>8. CASE DispatchSignal(t)
    BY <1>8, PlainCounts DEF DispatchSignal, SendSignal, Plain
<1> QED
    BY <1>1, <1>2, <1>3, <1>4, <1>5, <1>6, <1>7, <1>8 DEF DispatchStep

(* The steps of Poll: the uncount, the unmark, and the plain ones.           *)
LEMMA PollCounts ==
    ASSUME IInv, Counts, NEW t \in Threads, PollStep(t)
    PROVE  Counts'
<1> USE DEF Goto, marks, counters, event, IInv
<1> USE DEF Labels, Polling, Taking
<1>1. CASE PollBegin(t)
    BY <1>1, PlainCounts DEF PollBegin, Plain
<1>2. CASE PollFetch(t)
    BY <1>2, PlainCounts, SameCounts DEF PollFetch, Plain
<1>3. CASE PollClaim(t)
    BY <1>3, PlainCounts DEF PollClaim, Plain
<1>4. CASE PollTake(t)
    BY <1>4, PlainCounts DEF PollTake, Plain
<1>5. CASE PollSplit(t)
    BY <1>5, PlainCounts DEF PollSplit, Plain
<1>6. CASE PollGiveBack(t)
    BY <1>6, PlainCounts DEF PollGiveBack, Plain
<1>7. CASE PollRechain(t)
    BY <1>7, PlainCounts DEF PollRechain, Plain
<1>8. CASE PollRepush(t)
    BY <1>8, PlainCounts, SameCounts DEF PollRepush, PushHead, Plain
<1>9. CASE PollCheck(t)
    BY <1>9, PlainCounts DEF PollCheck, CheckSignal, Plain
<1>10. CASE PollSignal(t)
    BY <1>10, PlainCounts DEF PollSignal, SendSignal, Plain
<1>11. CASE PollUncount(t)
  <2>1. Tallied(t, "unmark")
    BY <1>11 DEF PollUncount, Tallied, Is, Lives, TypeOK
  <2> QED
    BY <2>1, TalliedCounts
<1>12. CASE PollUnmark(t)
  <2>1. hand[t] \in Tasks /\ pc[t] = "unmark"
    BY <1>12 DEF PollUnmark, HeldOK, Held, Detached, TypeOK, Pointers
  <2>2. owner[hand[t]] # Free
    BY <2>1, OwnersDistinct DEF SingleOwner, HoldOwner
  <2>3. queued[hand[t]] = 1
    BY <2>1, <2>2 DEF SingleOwner, MarkOwner, TypeOK
  <2>4. /\ pc' = [pc EXCEPT ![t] = "run"] /\ queued' = [queued EXCEPT ![hand[t]] = 0]
        /\ waitEventCounter' = waitEventCounter /\ liveThreadCount' = liveThreadCount
        /\ taskCount' = taskCount /\ waitEventCounter \in Int /\ liveThreadCount \in Int
    BY <1>12 DEF PollUnmark, TypeOK
  <2>5. queued'[hand[t]] = 0 /\ \A y \in Tasks \ {hand[t]} : queued'[y] = queued[y]
    BY <2>1, <2>4 DEF TypeOK
  <2>6. Tallied(t, "run")
    BY <2>1, <2>3, <2>4, <2>5 DEF Tallied, Is, Lives
  <2> QED
    BY <2>6, TalliedCounts
<1>13. CASE PollRun(t)
    BY <1>13, PlainCounts DEF PollRun, Plain
<1>14. CASE PollFinish(t)
    BY <1>14, PlainCounts DEF PollFinish, Plain
<1>15. CASE PollLeave(t)
    BY <1>15, PlainCounts DEF PollLeave, Plain
<1> QED
    BY <1>1, <1>2, <1>3, <1>4, <1>5, <1>6, <1>7, <1>8, <1>9, <1>10, <1>11, <1>12, <1>13,
       <1>14, <1>15 DEF PollStep

(* Only workers enter and leave Run; every thread may wait.                  *)
LEMMA RunCounts ==
    ASSUME IInv, Counts, NEW t \in Threads,
           \/ t \in Workers /\ (RunEnter(t) \/ RunExit(t))
           \/ RunTest(t) \/ RunPolled(t) \/ RunMissed(t)
           \/ WaitEnter(t) \/ WakeUp(t)
           \/ \E to \in {"loop", "idle", "relock"} : WaitLeave(t, to)
    PROVE  Counts'
<1> USE DEF Goto, Move, marks, counters, event, IInv
<1> USE DEF Labels, Polling, Waiting
<1>1. CASE t \in Workers /\ RunEnter(t)
  <2>1. Tallied(t, "loop")
    BY <1>1 DEF RunEnter, Tallied, Is, Lives, TypeOK
  <2> QED
    BY <2>1, TalliedCounts
<1>2. CASE RunTest(t)
    BY <1>2, PlainCounts DEF RunTest, Plain
<1>3. CASE RunPolled(t)
    BY <1>3, PlainCounts DEF RunPolled, Plain
<1>4. CASE RunMissed(t)
    BY <1>4, PlainCounts DEF RunMissed, Plain
<1>5. CASE t \in Workers /\ RunExit(t)
  <2>1. Tallied(t, "done")
    BY <1>5 DEF RunExit, Tallied, Is, Lives, TypeOK
  <2> QED
    BY <2>1, TalliedCounts
<1>6. CASE WaitEnter(t)
  <2>1. Tallied(t, "asleep")
    BY <1>6 DEF WaitEnter, Tallied, Is, Lives, TypeOK
  <2> QED
    BY <2>1, TalliedCounts
<1>7. CASE WakeUp(t)
    BY <1>7, SameCounts DEF WakeUp
<1>8. ASSUME NEW to \in {"loop", "idle", "relock"}, WaitLeave(t, to)
      PROVE  Counts'
  <2>1. Tallied(t, to)
    BY <1>8 DEF WaitLeave, Tallied, Is, Lives, TypeOK
  <2> QED
    BY <2>1, TalliedCounts
<1> QED
    BY <1>1, <1>2, <1>3, <1>4, <1>5, <1>6, <1>7, <1>8

(* An external thread enters and leaves Poll, or balances.                   *)
LEMMA ClientCounts ==
    ASSUME IInv, Counts, NEW t \in Clients,
           \/ PollDelay(t) \/ PollDelayed(t) \/ PollDelayMissed(t)
           \/ BalanceUp(t) \/ BalanceDown(t)
    PROVE  Counts'
<1> USE DEF Goto, Move, marks, counters, event, IInv
<1> USE DEF Labels, Polling, Waiting
<1>1. t \in Threads
    BY DEF Threads
<1>2. CASE PollDelay(t)
    BY <1>1, <1>2, PlainCounts DEF PollDelay, Plain
<1>3. CASE PollDelayed(t)
    BY <1>1, <1>3, PlainCounts DEF PollDelayed, Plain
<1>4. CASE PollDelayMissed(t)
    BY <1>1, <1>4, PlainCounts DEF PollDelayMissed, Plain
<1>5. CASE BalanceUp(t) \/ BalanceDown(t)
    BY <1>5, SameCounts DEF BalanceUp, BalanceDown
<1> QED
    BY <1>2, <1>3, <1>4, <1>5

(* The steps of Uninitialize.                                                *)
LEMMA CloserCounts ==
    ASSUME IInv, Counts, CloserStep
    PROVE  Counts'
<1> USE DEF Goto, Move, marks, counters, event, IInv
<1> USE DEF Labels, Waiting
<1>1. Closer \in Threads /\ Closer \notin Workers
    BY DEF Threads
<1>2. CASE Uninitialize
    BY <1>1, <1>2, PlainCounts DEF Uninitialize, Plain
<1>3. CASE CloseCount
    BY <1>1, <1>3, PlainCounts DEF CloseCount, Plain
<1>4. CASE CloseSignal
    BY <1>1, <1>4, PlainCounts, SameCounts DEF CloseSignal, Plain
<1>5. CASE CloseRelock
    BY <1>1, <1>5, PlainCounts DEF CloseRelock, Plain
<1>6. CASE CloseDrain
  <2>1. CASE slot[Closer][1] < ThreadCount
    BY <1>1, <1>6, <2>1, PlainCounts DEF CloseDrain, Plain
  <2>2. CASE ~(slot[Closer][1] < ThreadCount)
    <3>1. Tallied(Closer, "done")
      BY <1>1, <1>6, <2>2 DEF CloseDrain, Tallied, Is, Lives, TypeOK
    <3> QED
      BY <1>1, <3>1, TalliedCounts
  <2> QED
    BY <2>1, <2>2
<1>7. CASE CloseAbort
    BY <1>1, <1>7, PlainCounts, SameCounts DEF CloseAbort, Plain
<1>8. CASE WaitEnter(Closer) \/ WaitLeave(Closer, "relock")
    BY <1>1, <1>8, RunCounts
<1> QED
    BY <1>2, <1>3, <1>4, <1>5, <1>6, <1>7, <1>8 DEF CloserStep

(* At first nothing is counted.                                              *)
LEMMA InitCounts == Init => Counts
<1> SUFFICES ASSUME Init PROVE Counts
    OBVIOUS
<1>1. /\ Queued = {} /\ Alive = {}
      /\ \A l \in {"dcount", "unmark", "asleep"} : {t \in Threads : pc[t] \in {l}} = {}
    BY DEF Init, Queued, Alive, Threads
<1>2. /\ DCount = 0 /\ Unmark = 0 /\ Asleep = 0
      /\ Cardinality(Queued) = 0 /\ Cardinality(Alive) = 0 /\ IsFiniteSet(Queued)
    BY <1>1, FS_EmptySet DEF DCount, Unmark, Asleep, NumberAt
<1> QED
    BY <1>2 DEF Counts, Init

(* Every step keeps the counts.                                              *)
LEMMA StepCounts == IInv /\ Counts /\ [Next]_vars => Counts'
<1> SUFFICES ASSUME IInv, Counts, [Next]_vars PROVE Counts'
    OBVIOUS
<1>1. Workers \subseteq Threads /\ Clients \subseteq Threads
    BY DEF Threads
<1>2. ASSUME NEW t \in Workers, WorkerStep(t) PROVE Counts'
    BY <1>1, <1>2, RunCounts, PollCounts, DispatchCounts DEF WorkerStep
<1>3. ASSUME NEW t \in Clients, ClientStep(t) PROVE Counts'
    BY <1>1, <1>3, RunCounts, ClientCounts, PollCounts, DispatchCounts DEF ClientStep
<1>4. ASSUME NEW t \in Threads, WakeUp(t) PROVE Counts'
    BY <1>4, RunCounts
<1>5. CASE CloserStep
    BY <1>5, CloserCounts
<1>6. CASE Stopped \/ UNCHANGED vars
    BY <1>6, SameCounts DEF Stopped, vars, marks, counters, event
<1> QED
    BY <1>2, <1>3, <1>4, <1>5, <1>6 DEF Next

(* taskCount is the number of tasks that are marked, less those whose        *)
(* Dispatch or Poll is between the mark and the count; waitEventCounter is   *)
(* the number of threads in Wait, and liveThreadCount that of the workers in *)
(* Run.                                                                      *)
THEOREM Counters == Spec => []CountersExact
<1>1. Counts => CountersExact
    BY DEF Counts, CountersExact, Queued, Alive, DCount, Unmark, Asleep
<1> QED
    BY <1>1, InitCounts, StepCounts, Invariance, PTL DEF Spec

-----------------------------------------------------------------------------
(* Dispatches and executions                                                 *)

(* The threads that have taken x off the lists and not run it yet.           *)
Runners(x) == {t \in Threads : pc[t] = "run" /\ exec[t] = x}
Hangs(x) == IF owner[x] = Free THEN 0 ELSE 1
Settles(x) == accepted[x] = settled[x] + Hangs(x) + Cardinality(Runners(x))

(* SettledOnce in these words.                                               *)
LEMMA SettledTasks == SettledOnce <=> \A x \in Tasks : Settles(x)
BY DEF SettledOnce, Settles, Hangs, Runners

(* There are finitely many of them.                                          *)
LEMMA RunnersFinite == \A x : IsFiniteSet(Runners(x)) /\ Cardinality(Runners(x)) \in Nat
BY ThreadsFinite, FS_Subset, FS_CardinalityType DEF Runners

(* A task that some pointer leads to is not free.                            *)
LEMMA LedTo ==
    ASSUME IInv
    PROVE  /\ \A s \in Slots : head[s] \in Tasks => owner[head[s]] # Free
           /\ \A t \in Threads :
                 /\ link[t] \in Tasks => owner[link[t]] # Free
                 /\ hand[t] \in Tasks => owner[hand[t]] # Free
                 /\ rest[t] \in Tasks => owner[rest[t]] # Free
                 /\ hand[t] \in Tasks /\ next[hand[t]] \in Tasks => owner[next[hand[t]]] # Free
                 /\ rest[t] \in Tasks /\ next[rest[t]] \in Tasks => owner[next[rest[t]]] # Free
<1> USE OwnersDistinct DEF IInv, SingleOwner
<1>1. \A s \in Slots : head[s] \in Tasks => owner[head[s]] # Free
    BY DEF HeadOwner
<1>2. ASSUME NEW t \in Threads
      PROVE  /\ link[t] \in Tasks => owner[link[t]] = InLink(t)
             /\ hand[t] \in Tasks => owner[hand[t]] = InHand(t)
             /\ rest[t] \in Tasks => owner[rest[t]] = InRest(t)
    BY DEF HoldOwner
<1>3. ASSUME NEW y \in Tasks, next[y] \in Tasks, \A u \in Threads : owner[y] # InLink(u)
      PROVE  owner[next[y]] # Free
  <2>1. \A u \in Threads : link[u] # y
    BY <1>2, <1>3
  <2> QED
    BY <1>3, <2>1 DEF NextOwner
<1>4. ASSUME NEW t \in Threads, hand[t] \in Tasks, next[hand[t]] \in Tasks
      PROVE  owner[next[hand[t]]] # Free
    BY <1>2, <1>3, <1>4
<1>5. ASSUME NEW t \in Threads, rest[t] \in Tasks, next[rest[t]] \in Tasks
      PROVE  owner[next[rest[t]]] # Free
    BY <1>2, <1>3, <1>5
<1> QED
    BY <1>1, <1>2, <1>4, <1>5

(* A task that moves from pointer to pointer stays off the free ones.        *)
FreeSame == \A x \in Tasks : owner'[x] = Free <=> owner[x] = Free

(* One task that moves from pointer to pointer,                              *)
LEMMA OwnKeepsFree ==
    ASSUME NEW p, NEW o, Own(p, o), o # Free, p \in Tasks => owner[p] # Free
    PROVE  FreeSame
BY DEF Own, FreeSame

(* or two.                                                                   *)
LEMMA OwnBothKeepsFree ==
    ASSUME NEW p, NEW o, NEW q, NEW r, OwnBoth(p, o, q, r), o # Free, r # Free,
           p \in Tasks => owner[p] # Free, q \in Tasks => owner[q] # Free
    PROVE  FreeSame
BY DEF OwnBoth, FreeSame

(* A step that accepts, frees, takes and runs nothing.                       *)
LEMMA SettledSame ==
    ASSUME SettledOnce, accepted' = accepted, settled' = settled, FreeSame,
           \A t \in Threads : pc'[t] = "run" \/ pc[t] = "run" =>
               pc'[t] = pc[t] /\ exec'[t] = exec[t]
    PROVE  SettledOnce'
<1>1. ASSUME NEW x \in Tasks PROVE Settles(x)'
  <2>1. Runners(x)' = Runners(x)
    BY DEF Runners
  <2>2. Hangs(x)' = Hangs(x)
    BY DEF FreeSame, Hangs, Free
  <2> QED
    BY <2>1, <2>2, SettledTasks DEF Settles
<1> QED
    BY <1>1, SettledTasks DEF SettledOnce, Settles, Hangs, Runners

(* The case of nearly every step.                                            *)
LEMMA SettledMove ==
    ASSUME TypeOK, SettledOnce, NEW t \in Threads, NEW to, pc' = [pc EXCEPT ![t] = to],
           pc[t] # "run", to # "run", exec' = exec \/ exec' = [exec EXCEPT ![t] = Null],
           accepted' = accepted, settled' = settled, FreeSame
    PROVE  SettledOnce'
<1>1. \A u \in Threads : pc'[u] = "run" \/ pc[u] = "run" =>
         pc'[u] = pc[u] /\ exec'[u] = exec[u]
    BY DEF TypeOK
<1> QED
    BY <1>1, SettledSame

(* Dispatch accepts a task that is free, and pushes it.                      *)
LEMMA DispatchSettles ==
    ASSUME IInv, SettledOnce, NEW t \in Threads, DispatchStep(t)
    PROVE  SettledOnce'
<1> USE DEF Goto, lists, marks, scratch, runs, IInv
<1>1. ASSUME NEW x \in Tasks, NEW priority \in Priorities, Dispatch(t, x, priority)
      PROVE  SettledOnce'
    BY <1>1, SettledMove DEF Dispatch, Caller, FreeSame
<1>2. CASE DispatchMark(t)
  <2>1. pc[t] = "dmark" /\ want[t] \in Tasks
    BY <1>2 DEF DispatchMark, HeldOK, Held, TypeOK, Pointers
  <2>2. CASE queued[want[t]] = 1
    BY <1>2, <2>1, <2>2, SettledMove DEF DispatchMark, Caller, FreeSame
  <2>3. CASE queued[want[t]] # 1
    <3>1. owner[want[t]] = Free
      BY <2>1, <2>3 DEF SingleOwner, MarkOwner, TypeOK
    <3>2. /\ pc' = [pc EXCEPT ![t] = "dcount"] /\ exec' = exec /\ settled' = settled
          /\ accepted' = [accepted EXCEPT ![want[t]] = @ + 1] /\ Own(want[t], InLink(t))
      BY <1>2, <2>3 DEF DispatchMark
    <3>3. ASSUME NEW x \in Tasks PROVE Settles(x)'
      <4>1. Runners(x)' = Runners(x)
        BY <2>1, <3>2 DEF Runners, TypeOK
      <4>2. /\ Settles(x) /\ Cardinality(Runners(x)) \in Nat
            /\ accepted[x] \in Nat /\ settled[x] \in Nat
        BY SettledTasks, RunnersFinite DEF TypeOK
      <4>3. CASE x = want[t]
        <5>1. Hangs(x) = 0 /\ Hangs(x)' = 1 /\ accepted'[x] = accepted[x] + 1
          BY <3>1, <3>2, <4>3, OwnersDistinct DEF Hangs, Own, TypeOK
        <5> QED
          BY <3>2, <4>1, <4>2, <5>1 DEF Settles
      <4>4. CASE x # want[t]
        <5>1. Hangs(x)' = Hangs(x) /\ accepted'[x] = accepted[x]
          BY <3>2, <4>4 DEF Hangs, Own, TypeOK, Free
        <5> QED
          BY <3>2, <4>1, <4>2, <5>1 DEF Settles
      <4> QED
        BY <4>3, <4>4
    <3> QED
      BY <3>3, SettledTasks DEF SettledOnce, Settles, Hangs, Runners
  <2> QED
    BY <2>2, <2>3
<1>3. CASE DispatchCount(t)
    BY <1>3, SettledMove DEF DispatchCount, FreeSame
<1>4. CASE DispatchTry(t)
  <2>1. link[t] \in Tasks => owner[link[t]] # Free
    BY LedTo
  <2>2. FreeSame
    <3>1. owner' = owner \/ Own(link[t], OnHead(slot[t]))
      BY <1>4 DEF DispatchTry
    <3> QED
      BY <2>1, <3>1, OwnKeepsFree, OwnersDistinct DEF FreeSame
  <2>3. PICK to \in {"dtry", "dsignal", "dload"} : pc' = [pc EXCEPT ![t] = to]
    BY <1>4 DEF DispatchTry, TypeOK
  <2>4. pc[t] = "dtry" /\ exec' = exec /\ accepted' = accepted /\ settled' = settled
    BY <1>4 DEF DispatchTry
  <2> QED
    BY <2>2, <2>3, <2>4, SettledMove
<1>5. CASE DispatchLoad(t)
    BY <1>5, SettledMove DEF DispatchLoad, FreeSame
<1>6. CASE DispatchPush(t)
  <2>1. slot[t] \in Slots
    BY <1>6 DEF DispatchPush, PushHead, HeldOK, Held, Dispatching
  <2>2. FreeSame
    <3>1. \/ owner' = owner
          \/ want[t] = head[slot[t]] /\ OwnBoth(link[t], OnHead(slot[t]), want[t], Behind(link[t]))
      BY <1>6 DEF DispatchPush, PushHead
    <3> QED
      BY <2>1, <3>1, LedTo, OwnBothKeepsFree, OwnersDistinct DEF FreeSame
  <2>3. PICK to \in {"dpush", "dsignal"} : pc' = [pc EXCEPT ![t] = to]
    BY <1>6 DEF DispatchPush, PushHead, TypeOK
  <2>4. pc[t] = "dpush" /\ exec' = exec /\ accepted' = accepted /\ settled' = settled
    BY <1>6 DEF DispatchPush, PushHead
  <2> QED
    BY <2>2, <2>3, <2>4, SettledMove
<1>7. CASE DispatchCheck(t)
    BY <1>7, SettledMove DEF DispatchCheck, CheckSignal, Caller, FreeSame
<1>8. CASE DispatchSignal(t)
    BY <1>8, SettledMove DEF DispatchSignal, SendSignal, Caller, FreeSame
<1> QED
    BY <1>1, <1>2, <1>3, <1>4, <1>5, <1>6, <1>7, <1>8 DEF DispatchStep

(* Poll moves tasks from list to list until it unmarks one.                  *)
LEMMA PollSettles ==
    ASSUME IInv, SettledOnce, NEW t \in Threads, PollStep(t), ~PollUnmark(t), ~PollRun(t)
    PROVE  SettledOnce'
<1> USE DEF Goto, lists, marks, scratch, runs, IInv
<1>1. CASE PollBegin(t)
    BY <1>1, SettledMove DEF PollBegin, FreeSame
<1>2. CASE PollFetch(t)
    BY <1>2, SettledMove, SettledSame DEF PollFetch, FreeSame
<1>3. CASE PollClaim(t)
    BY <1>3, SettledMove DEF PollClaim, FreeSame
<1>4. CASE PollTake(t)
  <2>1. from[t] \in Slots
    BY <1>4 DEF PollTake, HeldOK, Held, Taking
  <2>2. FreeSame
    BY <1>4, <2>1, LedTo, OwnKeepsFree, OwnersDistinct DEF PollTake
  <2> QED
    BY <1>4, <2>2, SettledMove DEF PollTake
<1>5. CASE PollSplit(t)
  <2>1. hand[t] \in Tasks
    BY <1>5 DEF PollSplit, HeldOK, Held, TypeOK, Pointers
  <2>2. FreeSame
    BY <1>5, <2>1, LedTo, OwnKeepsFree, OwnersDistinct DEF PollSplit
  <2> QED
    BY <1>5, <2>2, SettledMove DEF PollSplit
<1>6. CASE PollGiveBack(t)
  <2>1. from[t] \in Slots
    BY <1>6 DEF PollGiveBack, HeldOK, Held, Taking
  <2>2. FreeSame
    BY <1>6, <2>1, LedTo, OwnBothKeepsFree, OwnersDistinct DEF PollGiveBack
  <2> QED
    BY <1>6, <2>2, SettledMove DEF PollGiveBack
<1>7. CASE PollRechain(t)
  <2>1. rest[t] \in Tasks
    BY <1>7 DEF PollRechain, HeldOK, Held, TypeOK, Pointers
  <2>2. FreeSame
    BY <1>7, <2>1, LedTo, OwnBothKeepsFree, OwnersDistinct DEF PollRechain
  <2> QED
    BY <1>7, <2>2, SettledMove DEF PollRechain
<1>8. CASE PollRepush(t)
  <2>1. from[t] \in Slots
    BY <1>8 DEF PollRepush, PushHead, HeldOK, Held, Taking
  <2>2. FreeSame
    <3>1. \/ owner' = owner
          \/ want[t] = head[from[t]] /\ OwnBoth(link[t], OnHead(from[t]), want[t], Behind(link[t]))
      BY <1>8 DEF PollRepush, PushHead
    <3> QED
      BY <2>1, <3>1, LedTo, OwnBothKeepsFree, OwnersDistinct DEF FreeSame
  <2>3. PICK to \in {"repush", "rsignal", "rechain"} : pc' = [pc EXCEPT ![t] = to]
    BY <1>8 DEF PollRepush, PushHead, TypeOK
  <2>4. pc[t] = "repush" /\ exec' = exec /\ accepted' = accepted /\ settled' = settled
    BY <1>8 DEF PollRepush, PushHead
  <2> QED
    BY <2>2, <2>3, <2>4, SettledMove
<1>9. CASE PollCheck(t)
    BY <1>9, SettledMove DEF PollCheck, CheckSignal, FreeSame
<1>10. CASE PollSignal(t)
    BY <1>10, SettledMove DEF PollSignal, SendSignal, FreeSame
<1>11. CASE PollUncount(t)
    BY <1>11, SettledMove DEF PollUncount, FreeSame
<1>12. CASE PollFinish(t)
    BY <1>12, SettledMove DEF PollFinish, FreeSame
<1>13. CASE PollLeave(t)
    BY <1>13, SettledMove DEF PollLeave, FreeSame
<1> QED
    BY <1>1, <1>2, <1>3, <1>4, <1>5, <1>6, <1>7, <1>8, <1>9, <1>10, <1>11, <1>12, <1>13
    DEF PollStep

(* The task leaves the lists for the hands of t.                             *)
LEMMA UnmarkSettles ==
    ASSUME IInv, SettledOnce, NEW t \in Threads, PollUnmark(t)
    PROVE  SettledOnce'
<1> USE DEF IInv
<1>1. /\ pc[t] = "unmark" /\ pc' = [pc EXCEPT ![t] = "run"] /\ exec' = [exec EXCEPT ![t] = hand[t]]
      /\ accepted' = accepted /\ settled' = settled /\ Own(hand[t], Free)
    BY DEF PollUnmark, Goto, marks
<1>2. hand[t] \in Tasks /\ owner[hand[t]] # Free
    BY <1>1, LedTo DEF HeldOK, Held, Detached, TypeOK, Pointers
<1>3. pc'[t] = "run" /\ exec'[t] = hand[t]
      /\ \A u \in Threads \ {t} : pc'[u] = pc[u] /\ exec'[u] = exec[u]
    BY <1>1 DEF TypeOK
<1>4. ASSUME NEW x \in Tasks PROVE Settles(x)'
  <2>1. Settles(x) /\ accepted[x] \in Nat /\ settled[x] \in Nat
    BY SettledTasks DEF TypeOK
  <2>2. IsFiniteSet(Runners(x)) /\ Cardinality(Runners(x)) \in Nat
    BY RunnersFinite
  <2>3. CASE x = hand[t]
    <3>1. Runners(x)' = Runners(x) \cup {t} /\ t \notin Runners(x)
      BY <1>1, <1>3, <2>3 DEF Runners
    <3>2. Cardinality(Runners(x)') = Cardinality(Runners(x)) + 1
      BY <2>2, <3>1, FS_AddElement
    <3>3. Hangs(x) = 1 /\ Hangs(x)' = 0
      BY <1>1, <1>2, <2>3 DEF Hangs, Own, Free
    <3> QED
      BY <1>1, <2>1, <2>2, <3>2, <3>3 DEF Settles
  <2>4. CASE x # hand[t]
    <3>1. Runners(x)' = Runners(x)
      BY <1>1, <1>3, <2>4 DEF Runners
    <3>2. Hangs(x)' = Hangs(x)
      BY <1>1, <2>4 DEF Hangs, Own, Free
    <3> QED
      BY <1>1, <2>1, <3>1, <3>2 DEF Settles
  <2> QED
    BY <2>3, <2>4
<1> QED
    BY <1>4, SettledTasks DEF SettledOnce, Settles, Hangs, Runners

(* And is run or aborted.                                                    *)
LEMMA RunSettles ==
    ASSUME IInv, SettledOnce, NEW t \in Threads, PollRun(t)
    PROVE  SettledOnce'
<1> USE DEF IInv
<1>1. /\ pc[t] = "run" /\ settled' = [settled EXCEPT ![exec[t]] = @ + 1]
      /\ accepted' = accepted /\ owner' = owner
      /\ \A u \in Threads \ {t} : exec'[u] = exec[u]
    BY DEF PollRun, Goto, lists, marks, TypeOK
<1>2. pc'[t] # "run" /\ \A u \in Threads \ {t} : pc'[u] = pc[u]
    BY DEF PollRun, Goto, TypeOK
<1>3. exec[t] \in Tasks
    BY <1>1 DEF HeldOK, Held, TypeOK, Pointers
<1>4. ASSUME NEW x \in Tasks PROVE Settles(x)'
  <2>1. Settles(x) /\ accepted[x] \in Nat /\ settled[x] \in Nat /\ Hangs(x) \in Nat
    BY SettledTasks DEF TypeOK, Hangs
  <2>2. IsFiniteSet(Runners(x)) /\ Cardinality(Runners(x)) \in Nat
    BY RunnersFinite
  <2>3. Hangs(x)' = Hangs(x)
    BY <1>1 DEF Hangs, Free
  <2>4. CASE x = exec[t]
    <3>1. Runners(x)' = Runners(x) \ {t} /\ t \in Runners(x)
      BY <1>1, <1>2, <2>4 DEF Runners
    <3>2. Cardinality(Runners(x)') = Cardinality(Runners(x)) - 1
      BY ZenonT(60), <2>2, <3>1, FS_RemoveElement
    <3>3. settled'[x] = settled[x] + 1
      BY <1>1, <2>4 DEF TypeOK
    <3> QED
      BY <1>1, <2>1, <2>2, <2>3, <3>2, <3>3 DEF Settles
  <2>5. CASE x # exec[t]
    <3>1. Runners(x)' = Runners(x)
      BY <1>1, <1>2, <2>5 DEF Runners
    <3>2. settled'[x] = settled[x]
      BY <1>1, <2>5 DEF TypeOK
    <3> QED
      BY <1>1, <2>1, <2>3, <3>1, <3>2 DEF Settles
  <2> QED
    BY <2>4, <2>5
<1> QED
    BY <1>4, SettledTasks DEF SettledOnce, Settles, Hangs, Runners

(* Uninitialize takes a task off the lists and aborts it in one step.        *)
LEMMA AbortSettles ==
    ASSUME IInv, SettledOnce, CloseAbort
    PROVE  SettledOnce'
<1> USE DEF IInv
<1> DEFINE q == rest[Closer]
<1>1. Closer \in Threads /\ pc[Closer] = "abort" /\ exec' = exec /\ accepted' = accepted
    BY DEF Threads, CloseAbort, marks
<1>2. CASE q = Null
    BY <1>1, <1>2, SettledMove DEF CloseAbort, Goto, FreeSame
<1>3. CASE q # Null
  <2>1. /\ pc' = pc /\ OwnBoth(q, Free, next[q], InRest(Closer))
        /\ settled' = [settled EXCEPT ![q] = @ + 1]
    BY <1>3 DEF CloseAbort
  <2>2. q \in Tasks
    BY <1>1, <1>3 DEF TypeOK, Pointers
  <2>3. owner[q] # Free /\ (next[q] \in Tasks => owner[next[q]] # Free)
    BY <1>1, <2>2, LedTo
  <2>4. ASSUME NEW x \in Tasks PROVE Settles(x)'
    <3>1. Settles(x) /\ accepted[x] \in Nat /\ settled[x] \in Nat
      BY SettledTasks DEF TypeOK
    <3>2. Runners(x)' = Runners(x) /\ Cardinality(Runners(x)) \in Nat
      BY <1>1, <2>1, RunnersFinite DEF Runners
    <3>3. CASE x = q
      <4>1. settled'[x] = settled[x] + 1 /\ Hangs(x) = 1 /\ Hangs(x)' = 0
        BY <2>1, <2>2, <2>3, <3>3 DEF TypeOK, Hangs, OwnBoth, Free
      <4> QED
        BY <1>1, <3>1, <3>2, <4>1 DEF Settles
    <3>4. CASE x # q
      <4>1. settled'[x] = settled[x] /\ Hangs(x)' = Hangs(x)
        BY <2>1, <2>2, <2>3, <3>4, OwnersDistinct DEF TypeOK, Hangs, OwnBoth, Free, InRest
      <4> QED
        BY <1>1, <3>1, <3>2, <4>1 DEF Settles
    <3> QED
      BY <3>3, <3>4
  <2> QED
    BY <2>4, SettledTasks DEF SettledOnce, Settles, Hangs, Runners
<1> QED
    BY <1>2, <1>3

(* Steps outside Poll and Dispatch.                                          *)
LEMMA OtherSettles ==
    ASSUME IInv, SettledOnce, NEW t \in Threads,
           \/ RunEnter(t) \/ RunTest(t) \/ RunPolled(t) \/ RunMissed(t) \/ RunExit(t)
           \/ WaitEnter(t) \/ WakeUp(t)
           \/ \E to \in {"loop", "idle", "relock"} : WaitLeave(t, to)
           \/ PollDelay(t) \/ PollDelayed(t) \/ PollDelayMissed(t)
           \/ BalanceUp(t) \/ BalanceDown(t)
    PROVE  SettledOnce'
<1> USE DEF Goto, Move, lists, marks, scratch, runs, IInv, FreeSame
<1>1. CASE RunEnter(t)
    BY <1>1, SettledMove DEF RunEnter
<1>2. CASE RunTest(t) \/ RunPolled(t) \/ RunMissed(t)
  <2>1. PICK to \in {"poll", "exit", "loop", "wait"} : pc' = [pc EXCEPT ![t] = to]
    BY <1>2 DEF RunTest, RunPolled, RunMissed
  <2> QED
    BY <1>2, <2>1, SettledMove DEF RunTest, RunPolled, RunMissed
<1>3. CASE RunExit(t)
    BY <1>3, SettledMove DEF RunExit
<1>4. CASE WaitEnter(t)
    BY <1>4, SettledMove DEF WaitEnter
<1>5. CASE WakeUp(t)
    BY <1>5, SettledSame DEF WakeUp
<1>6. ASSUME NEW to \in {"loop", "idle", "relock"}, WaitLeave(t, to)
      PROVE  SettledOnce'
    BY <1>6, SettledMove DEF WaitLeave
<1>7. CASE PollDelay(t)
    BY <1>7, SettledMove DEF PollDelay
<1>8. CASE PollDelayed(t)
    BY <1>8, SettledMove DEF PollDelayed
<1>9. CASE PollDelayMissed(t)
    BY <1>9, SettledMove DEF PollDelayMissed
<1>10. CASE BalanceUp(t) \/ BalanceDown(t)
    BY <1>10, SettledSame DEF BalanceUp, BalanceDown
<1> QED
    BY <1>1, <1>2, <1>3, <1>4, <1>5, <1>6, <1>7, <1>8, <1>9, <1>10

(* Uninitialize detaches lists and aborts what hangs on them.                *)
LEMMA CloserSettles ==
    ASSUME IInv, SettledOnce, CloserStep
    PROVE  SettledOnce'
<1> USE DEF Goto, Move, lists, marks, scratch, runs, IInv
<1>1. Closer \in Threads
    BY DEF Threads
<1>2. CASE Uninitialize
  <2>1. pc[Closer] = "idle"
    BY <1>2 DEF Uninitialize
  <2> QED
    BY <1>1, <1>2, <2>1, SettledMove DEF Uninitialize, FreeSame
<1>3. CASE CloseCount
    BY <1>1, <1>3, SettledMove DEF CloseCount, FreeSame
<1>4. CASE CloseSignal
    BY <1>1, <1>4, SettledMove, SettledSame DEF CloseSignal, FreeSame
<1>5. CASE CloseRelock
    BY <1>1, <1>5, SettledMove DEF CloseRelock, FreeSame
<1>6. CASE CloseDrain
  <2>1. FreeSame
    <3>1. \/ owner' = owner
          \/ slot[Closer][1] < ThreadCount /\ Own(head[slot[Closer]], InRest(Closer))
      BY <1>6 DEF CloseDrain
    <3>2. slot[Closer][1] < ThreadCount => slot[Closer] \in Slots
      BY <1>1 DEF TypeOK, Slots
    <3> QED
      BY <3>1, <3>2, LedTo, OwnKeepsFree, OwnersDistinct DEF FreeSame
  <2>2. PICK to \in {"abort", "done"} : pc' = [pc EXCEPT ![Closer] = to]
    BY <1>6 DEF CloseDrain
  <2> QED
    BY <1>1, <1>6, <2>1, <2>2, SettledMove DEF CloseDrain
<1>7. CASE CloseAbort
    BY <1>7, AbortSettles
<1>8. CASE WaitEnter(Closer) \/ WaitLeave(Closer, "relock")
    BY <1>1, <1>8, OtherSettles
<1> QED
    BY <1>2, <1>3, <1>4, <1>5, <1>6, <1>7, <1>8 DEF CloserStep

(* At first nothing is accepted.                                             *)
LEMMA InitSettles == Init => SettledOnce
<1> SUFFICES ASSUME Init, NEW x \in Tasks PROVE Settles(x)
    BY SettledTasks
<1>1. Runners(x) = {}
    BY DEF Init, Runners, Threads
<1> QED
    BY <1>1, FS_EmptySet DEF Init, Settles, Hangs

(* Every step keeps the balance.                                             *)
LEMMA StepSettles == IInv /\ SettledOnce /\ [Next]_vars => SettledOnce'
<1> SUFFICES ASSUME IInv, SettledOnce, [Next]_vars PROVE SettledOnce'
    OBVIOUS
<1>1. Workers \subseteq Threads /\ Clients \subseteq Threads
    BY DEF Threads
<1>2. ASSUME NEW t \in Threads, PollStep(t) \/ DispatchStep(t) PROVE SettledOnce'
    BY <1>2, PollSettles, UnmarkSettles, RunSettles, DispatchSettles
<1>3. ASSUME NEW t \in Workers, WorkerStep(t) PROVE SettledOnce'
    BY <1>1, <1>2, <1>3, OtherSettles DEF WorkerStep
<1>4. ASSUME NEW t \in Clients, ClientStep(t) PROVE SettledOnce'
    BY <1>1, <1>2, <1>4, OtherSettles DEF ClientStep
<1>5. ASSUME NEW t \in Threads, WakeUp(t) PROVE SettledOnce'
    BY <1>5, OtherSettles
<1>6. CASE CloserStep
    BY <1>6, CloserSettles
<1>7. CASE Stopped \/ UNCHANGED vars
    BY <1>7, SettledSame DEF Stopped, vars, lists, marks, runs, FreeSame
<1> QED
    BY <1>3, <1>4, <1>5, <1>6, <1>7 DEF Next

(* Every dispatch that was accepted is run or aborted once and not twice: it *)
(* is settled, or it hangs on a list, or one thread holds it and is about to *)
(* run it, whatever the interleaving of pushes, polls and Uninitialize.      *)
THEOREM Settlement == Spec => []SettledOnce
<1> QED
    BY InitSettles, StepSettles, Invariance, PTL DEF Spec

-----------------------------------------------------------------------------
(* The chains are not cyclic                                                 *)

(* The next field of a task that is being pushed is scratch.                 *)
Scratch(y) == \E t \in Threads : link[t] = y
Ordered(rank) ==
    \A y \in Tasks : next[y] \in Tasks /\ ~Scratch(y) => rank[y] < rank[next[y]]
Chained == \E rank \in [Tasks -> Nat] : Ordered(rank)

(* A step that adds nothing to a chain.                                      *)
NoLonger ==
    \A y \in Tasks :
        next'[y] \in Tasks /\ ~Scratch(y)' => next'[y] = next[y] /\ ~Scratch(y)

(* It keeps the ranks.                                                       *)
LEMMA ChainedSame ==
    ASSUME Chained, NoLonger
    PROVE  Chained'
<1>1. PICK rank \in [Tasks -> Nat] : Ordered(rank)
    BY DEF Chained
<1>2. ASSUME NEW y \in Tasks, next'[y] \in Tasks, ~Scratch(y)'
      PROVE  rank[y] < rank[next'[y]]
    BY <1>1, <1>2 DEF Ordered, NoLonger
<1>3. Ordered(rank)'
    BY <1>2 DEF Ordered
<1> QED
    BY <1>3 DEF Chained

(* A push puts the task before all others.                                   *)
LEMMA ChainedPush ==
    ASSUME IInv, Chained, NEW t \in Threads, NEW s \in Slots, NEW at, NEW after,
           at \in {"dpush", "repush"}, PushHead(t, at, s, after)
    PROVE  Chained'
<1> USE DEF IInv
<1> DEFINE l == link[t]
<1>1. pc[t] = at /\ l \in Tasks /\ next' = [next EXCEPT ![l] = want[t]]
    BY DEF PushHead, HeldOK, Held, Pushing, TypeOK, Pointers
<1>2. owner[l] = InLink(t)
    BY <1>1 DEF SingleOwner, HoldOwner
<1>3. CASE head[s] # want[t]
  <2>1. link' = link
    BY <1>3 DEF PushHead
  <2>2. NoLonger
    BY <1>1, <2>1 DEF NoLonger, Scratch, TypeOK
  <2> QED
    BY <2>2, ChainedSame
<1>4. CASE head[s] = want[t]
  <2>1. link' = [link EXCEPT ![t] = Null]
    BY <1>4 DEF PushHead
  <2>2. want[t] # l
    BY <1>1, <1>2, <1>4, OwnersDistinct DEF SingleOwner, HeadOwner
  <2>3. PICK rank \in [Tasks -> Nat] : Ordered(rank)
    BY DEF Chained
  <2>4. PICK higher \in [Tasks -> Nat] :
           \A y \in Tasks : higher[y] = IF y = l THEN 0 ELSE rank[y] + 1
    <3>1. [y \in Tasks |-> IF y = l THEN 0 ELSE rank[y] + 1] \in [Tasks -> Nat]
      OBVIOUS
    <3> QED
      BY <3>1
  <2>5. ASSUME NEW y \in Tasks, next'[y] \in Tasks, ~Scratch(y)'
        PROVE  higher[y] < higher[next'[y]]
    <3>1. CASE y = l
      <4>1. next'[y] = want[t]
        BY <1>1, <3>1 DEF TypeOK
      <4> QED
        BY <1>1, <2>2, <2>3, <2>4, <2>5, <3>1, <4>1
    <3>2. CASE y # l
      <4>1. next'[y] = next[y]
        BY <1>1, <3>2 DEF TypeOK
      <4>2. ~Scratch(y)
        BY <2>1, <2>5, <3>2 DEF Scratch, TypeOK
      <4>3. next[y] # l
        BY <1>1, <1>2, <4>2, OwnersDistinct DEF Scratch, SingleOwner, NextOwner
      <4>4. rank[y] < rank[next[y]]
        BY <2>3, <2>5, <4>1, <4>2 DEF Ordered
      <4> QED
        BY <2>3, <2>4, <2>5, <3>2, <4>1, <4>3, <4>4
    <3> QED
      BY <3>1, <3>2
  <2>6. Ordered(higher)'
    BY <2>5 DEF Ordered
  <2> QED
    BY <2>6 DEF Chained
<1> QED
    BY <1>3, <1>4

(* A set of ranks has a smallest one.                                        *)
LEMMA SmallestRank ==
    ASSUME NEW T \in SUBSET Nat, T # {}
    PROVE  \E m \in T : \A n \in T : ~(n < m)
<1>1. \E m \in T : \A n \in T : ~(<<n, m>> \in OpToRel(<, Nat))
    BY NatLessThanWellFounded, WFMin, Zenon
<1> QED
    BY <1>1, Zenon DEF OpToRel

(* No other step makes a chain longer.                                       *)
LEMMA DispatchChains ==
    ASSUME IInv, Chained, NEW t \in Threads, DispatchStep(t)
    PROVE  Chained'
<1> USE DEF lists, holds, NoLonger, Scratch
<1>1. ASSUME NEW x \in Tasks, NEW priority \in Priorities, Dispatch(t, x, priority)
      PROVE  Chained'
    BY <1>1, ChainedSame DEF Dispatch
<1>2. CASE DispatchMark(t)
  <2>1. link[t] = Null
    BY <1>2 DEF DispatchMark, IInv, HeldOK, Held, Pushing
  <2>2. next' = next /\ (link' = link \/ link' = [link EXCEPT ![t] = want[t]])
    BY <1>2 DEF DispatchMark
  <2>3. NoLonger
    BY <2>1, <2>2 DEF IInv, TypeOK
  <2> QED
    BY <2>3, ChainedSame
<1>3. CASE DispatchTry(t)
  <2>1. next[link[t]] = Null
    BY <1>3 DEF DispatchTry, IInv, HeldOK, Held
  <2>2. next' = next /\ (link' = link \/ link' = [link EXCEPT ![t] = Null])
    BY <1>3 DEF DispatchTry
  <2>3. NoLonger
    BY <2>1, <2>2 DEF IInv, TypeOK
  <2> QED
    BY <2>3, ChainedSame
<1>4. CASE DispatchPush(t)
  <2>1. slot[t] \in Slots
    BY <1>4 DEF DispatchPush, PushHead, IInv, HeldOK, Held, Dispatching
  <2> QED
    BY <1>4, <2>1, ChainedPush DEF DispatchPush
<1>5. CASE DispatchCount(t) \/ DispatchLoad(t) \/ DispatchCheck(t) \/ DispatchSignal(t)
    BY <1>5, ChainedSame
    DEF DispatchCount, DispatchLoad, DispatchCheck, CheckSignal, DispatchSignal, SendSignal
<1> QED
    BY <1>1, <1>2, <1>3, <1>4, <1>5 DEF DispatchStep

(* Poll cuts the chain it has taken and pushes the tasks that came meanwhile. *)
LEMMA PollChains ==
    ASSUME IInv, Chained, NEW t \in Threads, PollStep(t)
    PROVE  Chained'
<1> USE DEF lists, holds, NoLonger, Scratch
<1>1. CASE PollSplit(t)
  <2>1. link' = link /\ next' = [next EXCEPT ![hand[t]] = Null]
    BY <1>1 DEF PollSplit
  <2>2. NoLonger
    BY <2>1 DEF IInv, TypeOK
  <2> QED
    BY <2>2, ChainedSame
<1>2. CASE PollRechain(t)
  <2>1. link[t] = Null
    BY <1>2 DEF PollRechain, IInv, HeldOK, Held, Pushing
  <2>2. next' = next /\ link' = [link EXCEPT ![t] = rest[t]]
    BY <1>2 DEF PollRechain
  <2>3. NoLonger
    BY <2>1, <2>2 DEF IInv, TypeOK
  <2> QED
    BY <2>3, ChainedSame
<1>3. CASE PollRepush(t)
  <2>1. from[t] \in Slots
    BY <1>3 DEF PollRepush, PushHead, IInv, HeldOK, Held, Taking
  <2> QED
    BY <1>3, <2>1, ChainedPush DEF PollRepush
<1>4. CASE \/ PollBegin(t) \/ PollFetch(t) \/ PollClaim(t) \/ PollTake(t) \/ PollGiveBack(t)
           \/ PollCheck(t) \/ PollSignal(t) \/ PollUncount(t) \/ PollUnmark(t)
           \/ PollRun(t) \/ PollFinish(t) \/ PollLeave(t)
  <2>1. next' = next /\ link' = link
    BY <1>4
    DEF PollBegin, PollFetch, PollClaim, PollTake, PollGiveBack, PollCheck, CheckSignal,
        PollSignal, SendSignal, PollUncount, PollUnmark, PollRun, PollFinish, PollLeave
  <2> QED
    BY <2>1, ChainedSame
<1> QED
    BY <1>1, <1>2, <1>3, <1>4 DEF PollStep

(* Outside Dispatch and Poll no thread touches a chain,                      *)
LEMMA OtherChains ==
    ASSUME IInv, Chained, NEW t \in Threads,
           \/ RunEnter(t) \/ RunTest(t) \/ RunPolled(t) \/ RunMissed(t) \/ RunExit(t)
           \/ WaitEnter(t) \/ WakeUp(t)
           \/ \E to \in {"loop", "idle", "relock"} : WaitLeave(t, to)
           \/ PollDelay(t) \/ PollDelayed(t) \/ PollDelayMissed(t)
           \/ BalanceUp(t) \/ BalanceDown(t)
    PROVE  Chained'
<1>1. next' = next /\ link' = link
    BY DEF RunEnter, RunTest, RunPolled, RunMissed, RunExit, WaitEnter, WakeUp, WaitLeave,
           PollDelay, PollDelayed, PollDelayMissed, BalanceUp, BalanceDown, Move, lists, holds
<1> QED
    BY <1>1, ChainedSame DEF NoLonger, Scratch

(* and Uninitialize only cuts.                                               *)
LEMMA CloserChains ==
    ASSUME IInv, Chained, CloserStep
    PROVE  Chained'
<1> USE DEF lists, holds, NoLonger, Scratch
<1>1. CASE CloseAbort
  <2>1. link' = link /\ (next' = next \/ next' = [next EXCEPT ![rest[Closer]] = Null])
    BY <1>1 DEF CloseAbort
  <2>2. NoLonger
    BY <2>1 DEF IInv, TypeOK
  <2> QED
    BY <2>2, ChainedSame
<1>2. CASE Uninitialize \/ CloseCount \/ CloseSignal \/ CloseRelock \/ CloseDrain
    BY <1>2, ChainedSame DEF Uninitialize, CloseCount, CloseSignal, CloseRelock, CloseDrain, Move
<1>3. CASE WaitEnter(Closer) \/ WaitLeave(Closer, "relock")
    BY <1>3, OtherChains DEF Threads
<1> QED
    BY <1>1, <1>2, <1>3 DEF CloserStep

(* At first there is no chain.                                               *)
LEMMA InitChained == Init => Chained
<1> SUFFICES ASSUME Init PROVE Chained
    OBVIOUS
<1>1. [y \in Tasks |-> 0] \in [Tasks -> Nat]
    OBVIOUS
<1>2. Ordered([y \in Tasks |-> 0])
    BY DEF Init, Ordered
<1> QED
    BY <1>1, <1>2 DEF Chained

(* Every step keeps the chains acyclic.                                      *)
LEMMA StepChained == IInv /\ Chained /\ [Next]_vars => Chained'
<1> SUFFICES ASSUME IInv, Chained, [Next]_vars PROVE Chained'
    OBVIOUS
<1>1. Workers \subseteq Threads /\ Clients \subseteq Threads
    BY DEF Threads
<1>2. ASSUME NEW t \in Workers, WorkerStep(t) PROVE Chained'
    BY <1>1, <1>2, OtherChains, PollChains, DispatchChains DEF WorkerStep
<1>3. ASSUME NEW t \in Clients, ClientStep(t) PROVE Chained'
    BY <1>1, <1>3, OtherChains, PollChains, DispatchChains DEF ClientStep
<1>4. ASSUME NEW t \in Threads, WakeUp(t) PROVE Chained'
    BY <1>4, OtherChains
<1>5. CASE CloserStep
    BY <1>5, CloserChains
<1>6. CASE Stopped \/ UNCHANGED vars
  <2>1. next' = next /\ link' = link
    BY <1>6 DEF Stopped, vars, lists, holds
  <2> QED
    BY <2>1, ChainedSame DEF NoLonger, Scratch
<1> QED
    BY <1>2, <1>3, <1>4, <1>5, <1>6 DEF Next

-----------------------------------------------------------------------------
(* Uninitialize is alone                                                     *)

(* Uninitialize has gone past the loop over the heads up to r.               *)
Before(s, r) == s[1] < r[1] \/ (s[1] = r[1] /\ s[2] < r[2])
Draining == pc[Closer] \in {"drain", "abort"}
Outside == {"start", "loop", "exit", "done"}

Alone ==
    /\ pc[Closer] # "idle" => \A t \in Clients \ {Closer} : pc[t] = "idle"
    /\ Draining \/ Cleared => \A t \in Workers : pc[t] \in Outside
    /\ Draining => \A s \in Slots : Before(s, slot[Closer]) => head[s] = Null
    /\ Cleared => \A s \in Slots : head[s] = Null

(* At first the pool is open.                                                *)
LEMMA InitAlone == Init => Alone
BY DEF Init, Alone, Draining, Cleared, Threads

(* A step of another thread: a client is idle, and a worker keeps out.       *)
LEMMA OtherAlone ==
    ASSUME IInv, Alone, NEW t \in Threads \ {Closer},
           pc'[Closer] = pc[Closer], slot'[Closer] = slot[Closer],
           \A u \in Threads \ {t} : pc'[u] = pc[u],
           pc[Closer] # "idle" /\ t \in Clients => pc'[t] = pc[t],
           (Draining \/ Cleared) /\ t \in Workers => pc'[t] \in Outside,
           Draining \/ Cleared => head' = head
    PROVE  Alone'
<1>1. Workers \subseteq Threads /\ Clients \subseteq Threads
    BY DEF Threads
<1> QED
    BY <1>1 DEF Alone, Draining, Cleared, Outside

Local(t) == \A u \in Threads \ {t} : pc'[u] = pc[u] /\ slot'[u] = slot[u]

(* A step of Dispatch moves no other thread,                                 *)
LEMMA DispatchLocal ==
    ASSUME TypeOK, NEW t \in Threads, DispatchStep(t)
    PROVE  Local(t)
<1> USE DEF Local, Goto, scratch, TypeOK
<1>1. ASSUME NEW x \in Tasks, NEW priority \in Priorities, Dispatch(t, x, priority)
      PROVE  Local(t)
    BY <1>1 DEF Dispatch
<1>2. CASE DispatchMark(t)
    BY <1>2 DEF DispatchMark
<1>3. CASE DispatchCount(t)
    BY <1>3 DEF DispatchCount
<1>4. CASE DispatchTry(t)
    BY <1>4 DEF DispatchTry
<1>5. CASE DispatchLoad(t)
    BY <1>5 DEF DispatchLoad
<1>6. CASE DispatchPush(t)
    BY <1>6 DEF DispatchPush, PushHead
<1>7. CASE DispatchCheck(t)
    BY <1>7 DEF DispatchCheck, CheckSignal
<1>8. CASE DispatchSignal(t)
    BY <1>8 DEF DispatchSignal, SendSignal
<1> QED
    BY <1>1, <1>2, <1>3, <1>4, <1>5, <1>6, <1>7, <1>8 DEF DispatchStep

(* nor does one of Poll,                                                     *)
LEMMA PollLocal ==
    ASSUME TypeOK, NEW t \in Threads, PollStep(t)
    PROVE  Local(t)
<1> USE DEF Local, Goto, scratch, TypeOK
<1>1. CASE PollBegin(t) \/ PollFetch(t) \/ PollClaim(t)
    BY <1>1 DEF PollBegin, PollFetch, PollClaim
<1>2. CASE PollTake(t) \/ PollSplit(t) \/ PollGiveBack(t)
    BY <1>2 DEF PollTake, PollSplit, PollGiveBack
<1>3. CASE PollRechain(t) \/ PollRepush(t)
    BY <1>3 DEF PollRechain, PollRepush, PushHead
<1>4. CASE PollCheck(t) \/ PollSignal(t)
    BY <1>4 DEF PollCheck, CheckSignal, PollSignal, SendSignal
<1>5. CASE PollUncount(t) \/ PollUnmark(t)
    BY <1>5 DEF PollUncount, PollUnmark
<1>6. CASE PollRun(t) \/ PollFinish(t) \/ PollLeave(t)
    BY <1>6 DEF PollRun, PollFinish, PollLeave
<1> QED
    BY <1>1, <1>2, <1>3, <1>4, <1>5, <1>6 DEF PollStep

(* nor any other step of a worker or a client.                               *)
LEMMA OtherLocal ==
    ASSUME TypeOK, NEW t \in Threads,
           \/ RunEnter(t) \/ RunTest(t) \/ RunPolled(t) \/ RunMissed(t) \/ RunExit(t)
           \/ WaitEnter(t) \/ WakeUp(t)
           \/ \E to \in {"loop", "idle", "relock"} : WaitLeave(t, to)
           \/ PollDelay(t) \/ PollDelayed(t) \/ PollDelayMissed(t)
           \/ BalanceUp(t) \/ BalanceDown(t)
    PROVE  Local(t) /\ head' = head
<1> USE DEF Local, Goto, Move, scratch, lists, TypeOK
<1>1. CASE RunEnter(t) \/ RunTest(t) \/ RunPolled(t) \/ RunMissed(t) \/ RunExit(t)
    BY <1>1 DEF RunEnter, RunTest, RunPolled, RunMissed, RunExit
<1>2. CASE WaitEnter(t) \/ WakeUp(t) \/ \E to \in {"loop", "idle", "relock"} : WaitLeave(t, to)
    BY <1>2 DEF WaitEnter, WakeUp, WaitLeave
<1>3. CASE PollDelay(t) \/ PollDelayed(t) \/ PollDelayMissed(t)
    BY <1>3 DEF PollDelay, PollDelayed, PollDelayMissed
<1>4. CASE BalanceUp(t) \/ BalanceDown(t)
    BY <1>4 DEF BalanceUp, BalanceDown
<1> QED
    BY <1>1, <1>2, <1>3, <1>4

(* Whom Uninitialize has shut out.                                           *)
ShutOut(t) ==
    \/ t \in Clients /\ pc[Closer] # "idle"
    \/ t \in Workers /\ (Draining \/ Cleared)

(* They cannot enter Dispatch or Poll any more.                              *)
LEMMA ShutOutThreads ==
    ASSUME IInv, Alone, NEW t \in Threads \ {Closer}, ShutOut(t)
    PROVE  /\ runningToken = 0
           /\ t \in Clients => pc[t] = "idle"
           /\ t \in Workers => pc[t] \in Outside
           /\ ~DispatchStep(t) /\ ~PollStep(t)
<1>1. runningToken = 0
    BY DEF ShutOut, Draining, Cleared, IInv, HeldOK
<1>2. /\ t \in Clients => pc[t] = "idle"
      /\ t \in Workers => pc[t] \in Outside
    BY DEF ShutOut, Alone
<1>3. pc[t] \in Outside \cup {"idle"}
    BY <1>2 DEF Threads
<1>4. ~DispatchStep(t)
    BY <1>1, <1>3
    DEF DispatchStep, Dispatch, DispatchMark, DispatchCount, DispatchTry, DispatchLoad,
        DispatchPush, PushHead, DispatchCheck, CheckSignal, DispatchSignal, SendSignal, Outside
<1>5. ~PollStep(t)
    BY <1>3
    DEF PollStep, PollBegin, PollFetch, PollClaim, PollTake, PollSplit, PollGiveBack, PollRechain,
        PollRepush, PushHead, PollCheck, CheckSignal, PollSignal, SendSignal, PollUncount,
        PollUnmark, PollRun, PollFinish, PollLeave, Outside
<1> QED
    BY <1>1, <1>2, <1>4, <1>5

(* Nothing is promised of a thread that is not shut out.                     *)
LEMMA NotShutOut ==
    ASSUME IInv, Alone, NEW t \in Threads \ {Closer}, ~ShutOut(t), Local(t)
    PROVE  Alone'
<1>1. Closer \in Threads \ {t}
    BY DEF Threads
<1>2. ~Draining /\ ~Cleared /\ (t \in Clients => pc[Closer] = "idle")
    BY DEF ShutOut, Threads, Draining, Cleared
<1> QED
    BY <1>1, <1>2, OtherAlone DEF Local

(* A worker that is shut out starts, sees that the pool stops, and ends.     *)
LEMMA WorkerAlone ==
    ASSUME IInv, Alone, NEW t \in Workers, WorkerStep(t)
    PROVE  Alone'
<1>1. t \in Threads \ {Closer} /\ Closer \in Threads \ {t} /\ t \notin Clients
    BY DEF Threads
<1>2. Local(t)
    BY <1>1, DispatchLocal, PollLocal, OtherLocal DEF WorkerStep, IInv
<1>3. CASE ShutOut(t)
  <2>1. runningToken = 0 /\ pc[t] \in Outside /\ ~DispatchStep(t) /\ ~PollStep(t)
    BY <1>1, <1>3, ShutOutThreads
  <2>2. RunEnter(t) \/ RunTest(t) \/ RunExit(t)
    BY <2>1 DEF WorkerStep, RunPolled, RunMissed, Move, WaitEnter, WaitLeave, Outside
  <2>3. pc'[t] \in Outside /\ head' = head
    BY <1>1, <2>1, <2>2, OtherLocal
    DEF RunEnter, RunTest, RunExit, Move, Goto, Outside, IInv, TypeOK
  <2> QED
    BY <1>1, <1>2, <2>3, OtherAlone DEF Local
<1>4. CASE ~ShutOut(t)
    BY <1>1, <1>2, <1>4, NotShutOut
<1> QED
    BY <1>3, <1>4

(* A client that is shut out can only balance.                               *)
LEMMA ClientAlone ==
    ASSUME IInv, Alone, NEW t \in Clients \ {Closer}, ClientStep(t)
    PROVE  Alone'
<1>1. t \in Threads \ {Closer} /\ Closer \in Threads \ {t} /\ t \notin Workers
    BY DEF Threads
<1>2. Local(t)
    BY <1>1, DispatchLocal, PollLocal, OtherLocal DEF ClientStep, IInv
<1>3. CASE ShutOut(t)
  <2>1. runningToken = 0 /\ pc[t] = "idle" /\ ~DispatchStep(t) /\ ~PollStep(t)
    BY <1>1, <1>3, ShutOutThreads
  <2>2. BalanceUp(t) \/ BalanceDown(t)
    BY <1>1, <1>3, <2>1
    DEF ClientStep, ShutOut, PollDelay, InUse, PollDelayed, PollDelayMissed, Move, WaitEnter,
        WaitLeave
  <2>3. pc' = pc /\ head' = head
    BY <2>2 DEF BalanceUp, BalanceDown, lists
  <2> QED
    BY <1>1, <1>2, <2>3, OtherAlone DEF Local
<1>4. CASE ~ShutOut(t)
    BY <1>1, <1>2, <1>4, NotShutOut
<1> QED
    BY <1>3, <1>4

(* A step that moves no program counter and no head.                         *)
LEMMA SameAlone ==
    ASSUME Alone, pc' = pc, slot' = slot, head' = head
    PROVE  Alone'
BY DEF Alone, Draining, Cleared, Before

(* A step of Uninitialize: nobody else moves.                                *)
LEMMA CloserMoves ==
    ASSUME IInv, Alone, pc[Closer] # "idle", NEW to, pc' = [pc EXCEPT ![Closer] = to],
           to \notin {"drain", "abort", "done"}
    PROVE  Alone'
<1>1. \A t \in Threads \ {Closer} : pc'[t] = pc[t]
    BY DEF IInv, TypeOK
<1>2. pc'[Closer] = to /\ Clients \subseteq Threads
    BY DEF IInv, TypeOK, Threads
<1> QED
    BY <1>1, <1>2 DEF Alone, Draining, Cleared

(* The next head after s is the first that is not before it or s itself.     *)
LEMMA BeforeNext ==
    ASSUME NEW s \in (0 .. ThreadCount) \X (1 .. Dup), NEW r \in Slots, Before(r, NextSlot(s))
    PROVE  Before(r, s) \/ r = s
<1>1. /\ r[1] \in Nat /\ r[2] \in 1 .. Dup /\ r = <<r[1], r[2]>>
      /\ s[1] \in Nat /\ s[2] \in 1 .. Dup /\ s = <<s[1], s[2]>>
    BY DEF Slots
<1>2. CASE s[2] < Dup
    BY <1>1, <1>2 DEF Before, NextSlot
<1>3. CASE ~(s[2] < Dup)
    BY <1>1, <1>3 DEF Before, NextSlot
<1> QED
    BY <1>2, <1>3

(* No worker is in Run when liveThreadCount is zero.                         *)
LEMMA CloseCountAlone ==
    ASSUME IInv, Counts, Alone, CloseCount
    PROVE  Alone'
<1> USE DEF IInv, TypeOK
<1>1. /\ Closer \in Threads /\ Closer \notin Workers
      /\ Workers \subseteq Threads /\ Clients \subseteq Threads
    BY DEF Threads
<1>2. CASE liveThreadCount = 0
  <2>1. IsFiniteSet(Alive) /\ Cardinality(Alive) = 0
    BY <1>2, FS_Subset DEF Counts, Alive
  <2>2. Alive = {}
    BY <2>1, FS_EmptySet
  <2>3. \A t \in Workers : pc'[t] \in Outside
    BY <1>1, <2>2 DEF CloseCount, Goto, Alive, Outside
  <2>4. \A t \in Clients \ {Closer} : pc'[t] = "idle"
    BY <1>1 DEF CloseCount, Goto, Alone
  <2>5. pc'[Closer] = "drain" /\ slot'[Closer] = <<0, 1>>
    BY <1>1, <1>2 DEF CloseCount, Goto
  <2>6. \A s \in Slots : ~Before(s, <<0, 1>>)
    BY DEF Slots, Before
  <2> QED
    BY <2>3, <2>4, <2>5, <2>6 DEF Alone, Draining, Cleared
<1>3. CASE liveThreadCount # 0
    BY <1>3, CloserMoves DEF CloseCount, Goto
<1> QED
    BY <1>2, <1>3

(* The loop over the heads empties the next one.                             *)
LEMMA CloseDrainAlone ==
    ASSUME IInv, Alone, CloseDrain
    PROVE  Alone'
<1> USE DEF IInv, TypeOK
<1> DEFINE s == slot[Closer]
<1>1. /\ Closer \in Threads /\ Closer \notin Workers /\ Workers \subseteq Threads
      /\ Clients \subseteq Threads /\ s \in (0 .. ThreadCount) \X (1 .. Dup)
    BY DEF Threads
<1>2. pc[Closer] = "drain"
    BY DEF CloseDrain
<1>3. /\ \A t \in Clients \ {Closer} : pc[t] = "idle"
      /\ \A t \in Workers : pc[t] \in Outside
      /\ \A r \in Slots : Before(r, s) => head[r] = Null
    BY <1>2 DEF Alone, Draining
<1>4. CASE s[1] < ThreadCount
  <2>1. s \in Slots
    BY <1>1, <1>4 DEF Slots
  <2>2. /\ head' = [head EXCEPT ![s] = Null] /\ slot' = [slot EXCEPT ![Closer] = NextSlot(s)]
        /\ pc' = [pc EXCEPT ![Closer] = "abort"]
    BY <1>4 DEF CloseDrain, Goto
  <2>3. slot'[Closer] = NextSlot(s)
    BY <1>1, <2>2
  <2>4. ASSUME NEW r \in Slots, Before(r, NextSlot(s)) PROVE head'[r] = Null
    <3>1. Before(r, s) \/ r = s
      BY <1>1, <2>4, BeforeNext
    <3> QED
      BY <1>3, <2>1, <2>2, <3>1
  <2>5. /\ \A t \in Clients \ {Closer} : pc'[t] = "idle"
        /\ \A t \in Workers : pc'[t] \in Outside
        /\ pc'[Closer] = "abort"
    BY <1>1, <1>3, <2>2
  <2> QED
    BY <2>3, <2>4, <2>5 DEF Alone, Draining, Cleared
<1>5. CASE ~(s[1] < ThreadCount)
  <2>1. pc' = [pc EXCEPT ![Closer] = "done"] /\ head' = head
    BY <1>5 DEF CloseDrain, Goto
  <2>2. \A r \in Slots : Before(r, s)
    BY <1>1, <1>5 DEF Slots, Before
  <2>3. /\ \A t \in Clients \ {Closer} : pc'[t] = "idle"
        /\ \A t \in Workers : pc'[t] \in Outside
        /\ pc'[Closer] = "done"
    BY <1>1, <1>3, <2>1
  <2> QED
    BY <1>3, <2>1, <2>2, <2>3 DEF Alone, Draining, Cleared
<1> QED
    BY <1>4, <1>5

(* The steps of Uninitialize.                                                *)
LEMMA CloserAlone ==
    ASSUME IInv, Counts, Alone, CloserStep
    PROVE  Alone'
<1> USE DEF IInv, TypeOK, Goto, Move, lists, scratch
<1>1. /\ Closer \in Threads /\ Closer \notin Workers
      /\ Workers \subseteq Threads /\ Clients \subseteq Threads
    BY DEF Threads
<1>2. CASE Uninitialize
  <2>1. /\ pc'[Closer] = "count" /\ \A t \in Clients \ {Closer} : pc'[t] = "idle"
    BY <1>1, <1>2 DEF Uninitialize
  <2> QED
    BY <2>1 DEF Alone, Draining, Cleared
<1>3. CASE CloseCount
    BY <1>3, CloseCountAlone
<1>4. CASE CloseSignal
    BY <1>4, CloserMoves, SameAlone DEF CloseSignal
<1>5. CASE CloseRelock
    BY <1>5, CloserMoves DEF CloseRelock
<1>6. CASE CloseDrain
    BY <1>6, CloseDrainAlone
<1>7. CASE CloseAbort
  <2>1. CASE rest[Closer] # Null
    BY <1>7, <2>1, SameAlone DEF CloseAbort
  <2>2. CASE rest[Closer] = Null
    <3>1. /\ pc[Closer] = "abort" /\ pc' = [pc EXCEPT ![Closer] = "drain"]
          /\ slot' = slot /\ head' = head
      BY <1>7, <2>2 DEF CloseAbort
    <3>2. pc'[Closer] = "drain" /\ \A t \in Threads \ {Closer} : pc'[t] = pc[t]
      BY <1>1, <3>1
    <3> QED
      BY <1>1, <3>1, <3>2 DEF Alone, Draining, Cleared, Before
  <2> QED
    BY <2>1, <2>2
<1>8. CASE WaitEnter(Closer) \/ WaitLeave(Closer, "relock")
    BY <1>8, CloserMoves DEF WaitEnter, WaitLeave
<1> QED
    BY <1>2, <1>3, <1>4, <1>5, <1>6, <1>7, <1>8 DEF CloserStep

(* The thread that closes the pool has no other step that matters.           *)
LEMMA CloserIdles ==
    ASSUME IInv, Alone, ClientStep(Closer)
    PROVE  Alone'
<1>1. pc[Closer] \in OfCloser \cup {"idle", "wait", "asleep", "done"} /\ exec[Closer] = Null
    BY DEF IInv, HeldOK
<1>2. ~DispatchStep(Closer)
    BY <1>1
    DEF DispatchStep, Dispatch, DispatchMark, DispatchCount, DispatchTry, DispatchLoad,
        DispatchPush, PushHead, DispatchCheck, CheckSignal, DispatchSignal, SendSignal, OfCloser
<1>3. ~PollStep(Closer)
    BY <1>1
    DEF PollStep, PollBegin, PollFetch, PollClaim, PollTake, PollSplit, PollGiveBack, PollRechain,
        PollRepush, PushHead, PollCheck, CheckSignal, PollSignal, SendSignal, PollUncount,
        PollUnmark, PollRun, PollFinish, PollLeave, OfCloser
<1>4. BalanceUp(Closer) \/ BalanceDown(Closer)
    BY <1>2, <1>3 DEF ClientStep, PollDelay, PollDelayed, PollDelayMissed
<1>5. pc' = pc /\ slot' = slot /\ head' = head
    BY <1>4 DEF BalanceUp, BalanceDown, lists, scratch
<1> QED
    BY <1>5, SameAlone

(* Every step keeps the others out.                                          *)
LEMMA StepAlone == IInv /\ Counts /\ Alone /\ [Next]_vars => Alone'
<1> SUFFICES ASSUME IInv, Counts, Alone, [Next]_vars PROVE Alone'
    OBVIOUS
<1>1. ASSUME NEW t \in Workers, WorkerStep(t) PROVE Alone'
    BY <1>1, WorkerAlone
<1>2. ASSUME NEW t \in Clients, ClientStep(t) PROVE Alone'
    BY <1>2, ClientAlone, CloserIdles
<1>3. ASSUME NEW t \in Threads, WakeUp(t) PROVE Alone'
    BY <1>3, SameAlone DEF WakeUp, lists, scratch
<1>4. CASE CloserStep
    BY <1>4, CloserAlone
<1>5. CASE Stopped \/ UNCHANGED vars
    BY <1>5, SameAlone DEF Stopped, vars, lists, scratch
<1> QED
    BY <1>1, <1>2, <1>3, <1>4, <1>5 DEF Next

-----------------------------------------------------------------------------
(* When Uninitialize has cleared threadInfos, a task that still hung on      *)
(* something would hang behind a task that does, and that behind another of  *)
(* smaller rank, without end.                                                *)
LEMMA ClearedFree ==
    ASSUME IInv, Chained, Alone, Cleared
    PROVE  /\ \A t \in Threads : pc[t] \notin Polling \cup Dispatching
           /\ \A x \in Tasks : owner[x] = Free
<1> USE DEF IInv
<1>1. \A t \in Threads : pc[t] \in Outside \cup {"idle"}
    BY DEF Alone, Cleared, Outside, Threads
<1>2. \A t \in Threads : pc[t] \notin Polling \cup Dispatching
    BY <1>1 DEF Outside, Polling, Taking, Dispatching
<1>3. \A t \in Threads : link[t] = Null /\ hand[t] = Null /\ rest[t] = Null
    BY <1>1 DEF Outside, HeldOK, Held, Pushing, Detached
<1>4. \A s \in Slots : head[s] = Null
    BY DEF Alone
<1>5. PICK rank \in [Tasks -> Nat] : Ordered(rank)
    BY DEF Chained
<1> DEFINE Left == {x \in Tasks : owner[x] # Free}
<1>6. ASSUME NEW x \in Left PROVE \E y \in Left : rank[y] < rank[x]
  <2>1. PICK y \in Tasks : owner[x] = Behind(y)
    BY SMTT(30), <1>3, <1>4, <1>6 DEF TypeOK, Owners, SingleOwner, HeadOwner, HoldOwner
  <2>2. next[y] = x
    BY <1>6, <2>1 DEF SingleOwner, NextOwner
  <2>3. owner[y] # Free
    BY <1>6, <2>2 DEF HeldOK
  <2>4. ~Scratch(y)
    BY <1>3 DEF Scratch
  <2>5. rank[y] < rank[x]
    BY <1>5, <1>6, <2>2, <2>4 DEF Ordered
  <2> QED
    BY <2>3, <2>5
<1>7. Left = {}
  <2> SUFFICES ASSUME Left # {} PROVE FALSE
    OBVIOUS
  <2> DEFINE Ranks == {rank[x] : x \in Left}
  <2>1. Ranks \in SUBSET Nat /\ Ranks # {}
    BY <1>5
  <2>2. PICK m \in Ranks : \A n \in Ranks : ~(n < m)
    BY <2>1, SmallestRank
  <2>3. PICK x \in Left : rank[x] = m
    BY <2>2
  <2>4. PICK y \in Left : rank[y] < rank[x]
    BY <1>6, <2>3
  <2> QED
    BY <2>2, <2>3, <2>4
<1> QED
    BY <1>2, <1>7

(* Once Uninitialize has returned no thread is inside Poll or Dispatch, no   *)
(* list holds a task, and every dispatch that was accepted has been settled: *)
(* no interleaving of the draining with polls that were under way loses one. *)
THEOREM NothingLeft == Spec => []ClosedClean
<1>1. ASSUME IInv, Chained, Alone, SettledOnce PROVE ClosedClean
  <2> SUFFICES ASSUME Cleared, NEW x \in Tasks
               PROVE  owner[x] = Free /\ accepted[x] = settled[x]
    BY <1>1, ClearedFree DEF ClosedClean
  <2>1. owner[x] = Free /\ \A t \in Threads : pc[t] # "run"
    BY <1>1, ClearedFree DEF Polling, Taking
  <2>2. Runners(x) = {} /\ Hangs(x) = 0
    BY <2>1 DEF Runners, Hangs
  <2>3. Settles(x) /\ Cardinality(Runners(x)) = 0
    BY <1>1, <2>2, SettledTasks, FS_EmptySet
  <2> QED
    BY <1>1, <2>1, <2>2, <2>3 DEF Settles, IInv, TypeOK
<1>2. Spec => []Counts
    BY InitCounts, StepCounts, Invariance, PTL DEF Spec
<1>3. Spec => []Chained
    BY InitChained, StepChained, Invariance, PTL DEF Spec
<1>4. Spec => []Alone
    BY <1>2, InitAlone, StepAlone, Invariance, PTL DEF Spec
<1> QED
    BY <1>1, <1>3, <1>4, Invariance, Settlement, PTL

-----------------------------------------------------------------------------
(* No task is out of reach                                                   *)

(* What the code can follow at once, and from what it has reached.           *)
Roots == ({head[s] : s \in Slots} \cup UNION {{link[t], hand[t], rest[t]} : t \in Threads}) \ {Null}
Further(R) == R \cup ({next[y] : y \in R \cap Tasks} \ {Null})
Reaches(f) == f = [n \in Nat |-> IF n = 0 THEN Roots ELSE Further(f[n - 1])]

(* Reaching further keeps what was reached, and depends on nothing else.     *)
LEMMA FurtherGrows ==
    ASSUME NEW R, NEW S, R \subseteq S
    PROVE  R \subseteq Further(R) /\ Further(R) \subseteq Further(S)
BY DEF Further

(* The function that NothingLost speaks of exists: of all functions that     *)
(* reach at least as far it is the smallest.                                 *)
LEMMA SomeReaches == \E f : Reaches(f)
<1> DEFINE P == Roots \cup {next[y] : y \in Tasks}
           Closed(g) == Roots \subseteq g[0] /\ \A n \in Nat : Further(g[n]) \subseteq g[n + 1]
           Gs == {g \in [Nat -> SUBSET P] : Closed(g)}
           f == [n \in Nat |-> {x \in P : \A g \in Gs : x \in g[n]}]
           Step(n) == IF n = 0 THEN Roots ELSE Further(f[n - 1])
<1>1. \A R \in SUBSET P : Further(R) \in SUBSET P
    BY DEF Further
<1>2. f \in [Nat -> SUBSET P]
    OBVIOUS
<1>3. \A n \in Nat, g \in Gs : f[n] \subseteq g[n]
    OBVIOUS
<1>4. \A n \in Nat, x \in P : (\A g \in Gs : x \in g[n]) => x \in f[n]
    OBVIOUS
<1>5. \A g \in Gs : g \in [Nat -> SUBSET P] /\ Closed(g)
    OBVIOUS
<1>6. \A g \in [Nat -> SUBSET P] : Closed(g) => g \in Gs
    OBVIOUS
<1> HIDE DEF f, Gs, P
<1>7. \A n \in Nat : Step(n) \in SUBSET P
    BY <1>1, <1>2 DEF P
<1>8. ASSUME NEW n \in Nat
      PROVE  Step(n) \subseteq f[n]
  <2>1. ASSUME NEW g \in Gs
        PROVE  Step(n) \subseteq g[n]
    <3>1. CASE n = 0
        BY <1>5, <3>1
    <3>2. CASE n # 0
      <4>1. n - 1 \in Nat /\ n = n - 1 + 1
          BY <3>2
      <4>2. Further(f[n - 1]) \subseteq Further(g[n - 1])
          BY <1>3, <4>1, FurtherGrows
      <4>3. Further(g[n - 1]) \subseteq g[n]
          BY <1>5, <4>1
      <4> QED
          BY <3>2, <4>2, <4>3
    <3> QED
        BY <3>1, <3>2
  <2> QED
      BY <1>4, <1>7, <2>1
<1>9. ASSUME NEW n \in Nat
      PROVE  f[n] \subseteq Step(n)
  <2> DEFINE g == [f EXCEPT ![n] = Step(n)]
  <2>1. g[n] = Step(n) /\ (\A m \in Nat : m # n => g[m] = f[m]) /\ g \in [Nat -> SUBSET P]
      BY <1>2, <1>7
  <2> HIDE DEF g
  <2>2. \A m \in Nat : g[m] \subseteq f[m]
      BY <1>8, <2>1
  <2>3. Roots \subseteq g[0]
      BY <1>8, <2>1
  <2>4. ASSUME NEW m \in Nat
        PROVE  Further(g[m]) \subseteq g[m + 1]
    <3>1. Further(g[m]) \subseteq Further(f[m]) /\ m + 1 \in Nat /\ m + 1 # 0 /\ m + 1 - 1 = m
        BY <2>2, FurtherGrows
    <3>2. Step(m + 1) = Further(f[m])
        BY <3>1
    <3>3. CASE m + 1 = n
        BY <2>1, <3>1, <3>2, <3>3
    <3>4. CASE m + 1 # n
      <4>1. Step(m + 1) \subseteq f[m + 1] /\ g[m + 1] = f[m + 1]
          BY <1>8, <2>1, <3>1, <3>4
      <4> QED
          BY <3>1, <3>2, <4>1
    <3> QED
        BY <3>3, <3>4
  <2>5. g \in Gs
      BY <1>6, <2>1, <2>3, <2>4
  <2> QED
      BY <1>3, <2>1, <2>5
<1>10. \A n \in Nat : f[n] = Step(n)
    BY <1>8, <1>9
<1>11. f = [n \in Nat |-> Step(n)]
  <2>1. f = [n \in Nat |-> f[n]]
      BY <1>2
  <2> QED
      BY <1>10, <2>1
<1> QED
    BY <1>11 DEF Reaches

(* It is the function of NothingLost.                                        *)
LEMMA LostReaches ==
    ASSUME \A f : Reaches(f) => {x \in Tasks : owner[x] # Free} \subseteq f[Cardinality(Tasks)]
    PROVE  NothingLost
<1>1. Reaches(CHOOSE f : Reaches(f))
    BY SomeReaches
<1>2. {x \in Tasks : owner[x] # Free} \subseteq (CHOOSE f : Reaches(f))[Cardinality(Tasks)]
    BY <1>1
<1> QED
    BY <1>2, Zenon DEF NothingLost, Reaches, Roots, Further

(* What has been reached stays so.                                           *)
LEMMA ReachesGrows ==
    ASSUME NEW f, Reaches(f), NEW m \in Nat, NEW n \in Nat, m <= n
    PROVE  f[m] \subseteq f[n]
<1> SUFFICES ASSUME NEW x \in f[m], x \notin f[n] PROVE FALSE
    OBVIOUS
<1> DEFINE T == {k \in Nat : m <= k /\ x \notin f[k]}
<1>1. T \in SUBSET Nat /\ n \in T
    OBVIOUS
<1> HIDE DEF T
<1>2. PICK k \in T : \A j \in T : ~(j < k)
    BY <1>1, SmallestRank
<1>3. k \in Nat /\ m <= k /\ x \notin f[k] /\ k # m
    BY <1>2 DEF T
<1>4. k - 1 \in Nat /\ m <= k - 1 /\ k # 0
    BY <1>3
<1>5. x \in f[k - 1]
    BY <1>2, <1>4 DEF T
<1>6. f[k] = Further(f[k - 1])
    BY <1>3, <1>4 DEF Reaches
<1> QED
    BY <1>3, <1>5, <1>6 DEF Further

(* A task that hangs behind another is reached one step after it; and there  *)
(* are no more steps to take than there are tasks of a smaller rank.         *)
LEMMA NoneLost ==
    ASSUME IInv, Chained
    PROVE  NothingLost
<1> USE DEF IInv
<1> SUFFICES ASSUME NEW f, Reaches(f), NEW lost \in Tasks, owner[lost] # Free,
                    lost \notin f[Cardinality(Tasks)]
             PROVE  FALSE
    BY LostReaches
<1>1. PICK rank \in [Tasks -> Nat] : Ordered(rank)
    BY DEF Chained
<1> DEFINE Lower(x) == {z \in Tasks : rank[z] < rank[x]}
           n(x) == Cardinality(Lower(x))
           Lost == {x \in Tasks : owner[x] # Free /\ x \notin f[n(x)]}
<1>2. ASSUME NEW x \in Tasks
      PROVE  IsFiniteSet(Lower(x)) /\ n(x) \in Nat /\ n(x) <= Cardinality(Tasks)
  <2>1. Lower(x) \subseteq Tasks
      OBVIOUS
  <2> QED
      BY <2>1, TasksAssumption, FS_Subset, FS_CardinalityType
<1>3. Cardinality(Tasks) \in Nat
    BY TasksAssumption, FS_CardinalityType
<1>4. lost \in Lost
    BY <1>2, <1>3, ReachesGrows
<1>5. ASSUME NEW x \in Lost
      PROVE  \E y \in Lost : rank[y] < rank[x]
  <2>1. x \in Tasks /\ owner[x] # Free /\ x \notin f[n(x)] /\ x # Null
      BY DataAssumption
  <2>2. x \notin Roots
    <3>1. PICK k \in Nat : k = n(x)
        BY <1>2, <2>1
    <3>2. f[0] = Roots
        BY DEF Reaches
    <3>3. f[0] \subseteq f[k]
        BY ReachesGrows
    <3> QED
        BY <2>1, <3>1, <3>2, <3>3
  <2>3. PICK y \in Tasks : owner[x] = Behind(y)
    <3>1. \A s \in Slots : owner[x] # OnHead(s)
        BY <2>1, <2>2 DEF Roots, SingleOwner, HeadOwner
    <3>2. \A t \in Threads : owner[x] # InLink(t) /\ owner[x] # InHand(t) /\ owner[x] # InRest(t)
        BY <2>1, <2>2 DEF Roots, SingleOwner, HoldOwner
    <3> QED
        BY SMTT(30), <2>1, <3>1, <3>2 DEF TypeOK, Owners
  <2>4. next[y] = x /\ ~Scratch(y)
      BY <2>1, <2>3 DEF SingleOwner, NextOwner, Scratch
  <2>5. owner[y] # Free
      BY <2>1, <2>4 DEF HeldOK
  <2>6. rank[y] < rank[x]
      BY <1>1, <2>1, <2>4 DEF Ordered
  <2>7. n(y) + 1 <= n(x)
    <3>1. y \in Lower(x) /\ y \notin Lower(y) /\ Lower(y) \subseteq Lower(x)
        BY <1>1, <2>1, <2>6
    <3>2. Lower(y) \cup {y} \subseteq Lower(x)
        BY <3>1
    <3>3. Cardinality(Lower(y) \cup {y}) = n(y) + 1
        BY <1>2, <3>1, FS_AddElement
    <3> HIDE DEF Lower
    <3> QED
        BY <1>2, <2>1, <3>2, <3>3, FS_Subset
  <2>8. y \notin f[n(y)]
    <3> SUFFICES ASSUME y \in f[n(y)] PROVE FALSE
        OBVIOUS
    <3>1. PICK k \in Nat : k = n(y) /\ k + 1 <= n(x)
        BY <1>2, <2>7
    <3> DEFINE j == k + 1
    <3>0. j \in Nat /\ j # 0 /\ j - 1 = k /\ j <= n(x)
        BY <3>1
    <3> HIDE DEF j
    <3>2. f[j] = Further(f[k])
        BY <3>0 DEF Reaches
    <3>3. x \in f[j]
        BY <2>1, <2>4, <3>1, <3>2 DEF Further
    <3>4. PICK l \in Nat : l = n(x) /\ j <= l
        BY <1>2, <2>1, <3>0
    <3>5. f[j] \subseteq f[l]
        BY <3>0, <3>4, ReachesGrows
    <3> QED
        BY <2>1, <3>3, <3>4, <3>5
  <2> QED
      BY <2>5, <2>6, <2>8
<1>6. Lost \in SUBSET Tasks
    OBVIOUS
<1> HIDE DEF Lost
<1> DEFINE Ranks == {rank[x] : x \in Lost}
<1>7. Ranks \in SUBSET Nat /\ Ranks # {}
    BY <1>1, <1>4, <1>6
<1>8. PICK m \in Ranks : \A k \in Ranks : ~(k < m)
    BY <1>7, SmallestRank
<1> QED
    BY <1>5, <1>8

(* No interleaving of pushes, exchanges and the rechaining of Poll leaves a  *)
(* task in a chain that nothing leads to: following next from the heads of   *)
(* the lists and from what the threads hold reaches every task that hangs.   *)
THEOREM Reachable == Spec => []NothingLost
<1>1. Spec => []Chained
    BY InitChained, StepChained, Invariance, PTL DEF Spec
<1> QED
    BY <1>1, NoneLost, Invariance, PTL

=============================================================================
