-------------------------- MODULE SharedLockProofs --------------------------
(***************************************************************************)
(* SharedLock is a readers-writers lock for any finite set of threads and  *)
(* any number of calls.  The invariant says that the flag and the counter  *)
(* count the threads that are past their increment and not yet past their  *)
(* decrement.                                                              *)
(***************************************************************************)
EXTENDS MCLockAndList, FiniteSetTheorems, TLAPS

Counted == {t \in Threads : pc[t] \in {"write", "read"}}

IInv == TypeOK /\ FlagAgrees /\ CountAgrees

(* Where a thread that goes to l is counted.                                 *)
LEMMA Moves ==
    ASSUME TypeOK, NEW t \in Threads, NEW l \in Labels, Goto(t, l)
    PROVE  /\ pc' \in [Threads -> Labels] /\ pc'[t] = l
           /\ Writing' = IF l \in {"lock", "enter", "write", "unflag"}
                         THEN Writing \cup {t} ELSE Writing \ {t}
           /\ Reading' = IF l \in {"count", "read", "drop"}
                         THEN Reading \cup {t} ELSE Reading \ {t}
           /\ Counted' = IF l \in {"write", "read"}
                         THEN Counted \cup {t} ELSE Counted \ {t}
  BY DEF TypeOK, Goto, Writing, Reading, Counted

(* The sets that are counted are finite.                                     *)
LEMMA Counting ==
    ASSUME NEW S \in SUBSET Threads, NEW t \in Threads
    PROVE  /\ Cardinality(S) \in Nat /\ Cardinality(S) < FLAG_WRITER
           /\ Cardinality(S) = 0 <=> S = {}
           /\ Cardinality(S \cup {t}) = IF t \in S THEN Cardinality(S) ELSE Cardinality(S) + 1
           /\ Cardinality(S \ {t}) = IF t \in S THEN Cardinality(S) - 1 ELSE Cardinality(S)
  <1>1. IsFiniteSet(Threads) /\ FLAG_WRITER > Cardinality(Threads) /\ FLAG_WRITER \in Nat
    BY SharedLockAssumption
  <1>2. IsFiniteSet(S) /\ Cardinality(S) <= Cardinality(Threads)
    BY <1>1, FS_Subset
  <1>3. Cardinality(S) \in Nat /\ Cardinality(Threads) \in Nat
    BY <1>1, <1>2, FS_CardinalityType
  <1>4. Cardinality(S) = 0 <=> S = {}
    BY <1>2, FS_EmptySet
  <1>5. Cardinality(S \cup {t}) = IF t \in S THEN Cardinality(S) ELSE Cardinality(S) + 1
    BY <1>2, FS_AddElement
  <1>6. Cardinality(S \ {t}) = IF t \in S THEN Cardinality(S) - 1 ELSE Cardinality(S)
    BY <1>2, FS_RemoveElement
  <1> QED
    BY <1>1, <1>2, <1>3, <1>4, <1>5, <1>6

(* A step that moves nobody into the lock or out of it.                      *)
LEMMA Quiet ==
    ASSUME IInv, UNCHANGED <<flag, lockCount>>,
           Writing' = Writing, Reading' = Reading, Counted' = Counted
    PROVE  FlagAgrees' /\ CountAgrees'
  BY DEF IInv, FlagAgrees, CountAgrees, Counted

(* Who notifies and who is notified are outside.                             *)
LEMMA Notifies ==
    ASSUME TypeOK, NEW t \in Threads, NEW l \in {"unlock", "idle"},
           pc[t] \in {"notify", "last"}, NotifyOne(t, l)
    PROVE  /\ pc' \in [Threads -> Labels] /\ missed' \in BOOLEAN
           /\ Writing' = Writing /\ Reading' = Reading /\ Counted' = Counted
  <1>1. CASE {u \in Threads : At(u, "waiting")} = {}
    <2>1. Goto(t, l) /\ l \in Labels
      BY <1>1 DEF NotifyOne, Labels
    <2> QED
      BY <1>1, <2>1, Moves DEF NotifyOne, Writing, Reading, Counted, TypeOK
  <1>2. CASE {u \in Threads : At(u, "waiting")} # {}
    <2>1. PICK u \in Threads : At(u, "waiting") /\ pc' = [pc EXCEPT ![t] = l, ![u] = "notified"]
      BY <1>2 DEF NotifyOne
    <2>2. pc' \in [Threads -> Labels] /\ missed' \in BOOLEAN
      BY <1>2, <2>1 DEF NotifyOne, TypeOK, Labels
    <2>3. \A v \in Threads : \/ pc'[v] = pc[v]
                              \/ /\ pc'[v] \in {"unlock", "idle", "notified"}
                                 /\ pc[v] \in {"notify", "last", "waiting"}
      BY <2>1 DEF At, TypeOK
    <2> QED
      BY <2>2, <2>3 DEF Writing, Reading, Counted
  <1> QED
    BY <1>1, <1>2

(* The two counts and the flag, opened for a thread's step.                  *)
LEMMA Opened ==
    ASSUME IInv, NEW t \in Threads
    PROVE  /\ t \in Writing <=> pc[t] \in {"lock", "enter", "write", "unflag"}
           /\ t \in Reading <=> pc[t] \in {"count", "read", "drop"}
           /\ t \in Counted <=> pc[t] \in {"write", "read"}
           /\ Counted \subseteq Writing \cup Reading
           /\ flag < FLAG_WRITER => Writing = {} /\ flag = Cardinality(Reading)
           /\ t \in Writing => Writing = {t} /\ Reading = {} /\ flag = FLAG_WRITER
           /\ t \in Reading => Writing = {}
           /\ lockCount = Cardinality(Counted)
  BY SharedLockAssumption DEF IInv, FlagAgrees, CountAgrees, Writing, Reading, Counted

(* The flag goes up with who enters the lock.                                *)
LEMMA Enters ==
    ASSUME IInv, NEW t \in Threads, UNCHANGED lockCount, Counted' = Counted, t \notin Reading,
           \/ flag = 0 /\ flag' = FLAG_WRITER /\ Writing' = {t} /\ Reading' = Reading
           \/ /\ flag < FLAG_WRITER /\ flag' = flag + 1
              /\ Writing' = Writing /\ Reading' = Reading \cup {t}
    PROVE  FlagAgrees' /\ CountAgrees'
  <1>1. flag \in Nat /\ flag < FLAG_WRITER => Writing = {} /\ flag = Cardinality(Reading)
    BY Opened DEF IInv, TypeOK
  <1>2. Reading \in SUBSET Threads
    BY DEF Reading
  <1>3. /\ Cardinality(Reading) \in Nat /\ Cardinality(Reading) < FLAG_WRITER
        /\ Cardinality(Reading) = 0 <=> Reading = {}
        /\ Cardinality(Reading \cup {t}) = Cardinality(Reading) + 1
    BY <1>2, Counting
  <1>4. FLAG_WRITER \in Nat /\ FLAG_WRITER > 0
    BY <1>3, SharedLockAssumption
  <1>5. flag = 0 => Reading = {}
    BY <1>1, <1>3, <1>4
  <1> QED
    BY <1>1, <1>3, <1>4, <1>5 DEF IInv, FlagAgrees, CountAgrees, Counted

(* And down with who leaves it.                                              *)
LEMMA Leaves ==
    ASSUME IInv, NEW t \in Threads, UNCHANGED lockCount, Counted' = Counted,
           \/ flag' = 0 /\ t \in Writing /\ Writing' = {} /\ Reading' = Reading
           \/ flag' = flag - 1 /\ t \in Reading /\ Writing' = Writing /\ Reading' = Reading \ {t}
    PROVE  flag' \in Nat /\ FlagAgrees' /\ CountAgrees'
  <1>1. Reading \in SUBSET Threads /\ flag \in Nat
    BY DEF Reading, IInv, TypeOK
  <1>2. Cardinality(Reading) \in Nat /\ (Cardinality(Reading) = 0 <=> Reading = {})
    BY <1>1, Counting
  <1>3. t \in Reading => Cardinality(Reading \ {t}) = Cardinality(Reading) - 1 /\ Writing = {} /\ flag = Cardinality(Reading)
    BY <1>1, Counting DEF IInv, FlagAgrees
  <1>4. t \in Writing => Reading = {}
    BY DEF IInv, FlagAgrees
  <1> QED
    BY <1>1, <1>2, <1>3, <1>4 DEF IInv, FlagAgrees, CountAgrees, Counted

(* lockCount follows who is counted.                                         *)
LEMMA Counts ==
    ASSUME IInv, NEW t \in Threads, UNCHANGED flag, Writing' = Writing, Reading' = Reading,
           \/ t \notin Counted /\ Counted' = Counted \cup {t} /\ lockCount' = lockCount + 1
           \/ t \in Counted /\ Counted' = Counted \ {t} /\ lockCount' = lockCount - 1
    PROVE  lockCount' \in Int /\ FlagAgrees' /\ CountAgrees'
  <1>1. Counted \in SUBSET Threads /\ lockCount = Cardinality(Counted)
    BY DEF Counted, IInv, CountAgrees
  <1>2. /\ Cardinality(Counted) \in Nat
        /\ t \notin Counted => Cardinality(Counted \cup {t}) = Cardinality(Counted) + 1
        /\ t \in Counted => Cardinality(Counted \ {t}) = Cardinality(Counted) - 1
    BY <1>1, Counting
  <1>3. CASE t \notin Counted
    BY <1>1, <1>2, <1>3 DEF IInv, FlagAgrees, CountAgrees, Counted
  <1>4. CASE t \in Counted
    BY <1>1, <1>2, <1>4 DEF IInv, FlagAgrees, CountAgrees, Counted
  <1> QED
    BY <1>3, <1>4 DEF IInv, FlagAgrees, CountAgrees, Counted

(* A thread that goes to l, and is in the same sets there.                   *)
LEMMA Stays ==
    ASSUME IInv, NEW t \in Threads, NEW l \in Labels, Goto(t, l), UNCHANGED <<flag, lockCount>>,
           \/ /\ pc[t] \in {"idle", "wait", "notified", "unlock", "try?"}
              /\ l \in {"idle", "wait", "waiting", "read?", "try?"}
           \/ pc[t] = "lock" /\ l = "enter"
    PROVE  pc' \in [Threads -> Labels] /\ FlagAgrees' /\ CountAgrees'
  <1>1. TypeOK
    BY DEF IInv
  <1>2. Writing' = Writing /\ Reading' = Reading /\ Counted' = Counted
    BY SMTT(30), <1>1, Moves, Opened
  <1> QED
    BY <1>1, <1>2, Moves, Quiet

(* The writer's bit is taken by at most one.                                 *)
LEMMA Takes ==
    ASSUME IInv, NEW t \in Threads, NEW l \in {"lock", "enter"}, NEW m \in {"idle", "wait"},
           pc[t] \in {"idle", "notified"}, TakeFlag(t, l, m), UNCHANGED lockCount
    PROVE  flag' \in Nat /\ pc' \in [Threads -> Labels] /\ FlagAgrees' /\ CountAgrees'
  <1>1. TypeOK /\ l \in Labels /\ m \in Labels /\ FLAG_WRITER \in Nat
    BY SharedLockAssumption DEF IInv, Labels
  <1>2. CASE flag = 0
    <2>1. Goto(t, l) /\ flag' = FLAG_WRITER
      BY <1>2 DEF TakeFlag
    <2>2. Cardinality({}) \in Nat /\ Cardinality({}) < FLAG_WRITER
      BY Counting
    <2>3. Writing = {} /\ t \notin Reading /\ t \notin Counted
      BY <1>1, <1>2, <2>2, Opened
    <2>4. Writing' = {t} /\ Reading' = Reading /\ Counted' = Counted /\ pc' \in [Threads -> Labels]
      BY <1>1, <2>1, <2>3, Moves
    <2> QED
      BY <1>1, <1>2, <2>1, <2>3, <2>4, Enters
  <1>3. CASE flag # 0
    <2>1. Goto(t, m) /\ flag' = flag
      BY <1>3 DEF TakeFlag
    <2> QED
      BY <1>1, <2>1, Stays DEF TypeOK
  <1> QED
    BY <1>2, <1>3

(* A call keeps the invariant: only the flag may be taken at once.           *)
LEMMA CallKeeps ==
    ASSUME IInv, NEW t \in Threads, Call(t)
    PROVE  IInv'
  <1>1. TypeOK /\ "idle" \in Labels /\ "read?" \in Labels /\ "try?" \in Labels
    BY DEF IInv, Labels
  <1>2. CASE DoLockWriter(t)
    <2>1. flag' \in Nat /\ pc' \in [Threads -> Labels] /\ FlagAgrees' /\ CountAgrees'
      BY <1>2, Takes DEF DoLockWriter, At
    <2> QED
      BY <1>1, <1>2, <2>1, SharedLockAssumption DEF IInv, TypeOK, DoLockWriter
  <1>3. CASE TryLockWriter(t)
    <2>1. flag' \in Nat /\ pc' \in [Threads -> Labels] /\ FlagAgrees' /\ CountAgrees'
      BY <1>3, Takes DEF TryLockWriter, At
    <2> QED
      BY <1>1, <1>3, <2>1, SharedLockAssumption DEF IInv, TypeOK, TryLockWriter
  <1>4. ASSUME NEW l \in {"read?", "try?"}, BeginRead(t, l)
        PROVE  IInv'
    <2>1. pc' \in [Threads -> Labels] /\ FlagAgrees' /\ CountAgrees'
      BY <1>1, <1>4, Stays DEF BeginRead, At
    <2>2. value' \in [Threads -> Nat] /\ calls' \in 0 .. MaxCalls
      BY <1>1, <1>4, SharedLockAssumption DEF TypeOK, BeginRead
    <2>3. UNCHANGED <<flag, cs, lockCount, missed>>
      BY <1>4 DEF BeginRead
    <2> QED
      BY <1>1, <2>1, <2>2, <2>3 DEF IInv, TypeOK
  <1> QED
    BY <1>2, <1>3, <1>4 DEF Call, DoLockReader, TryLockReader

(* Every step of a writer keeps the invariant.                               *)
LEMMA WriterKeeps ==
    ASSUME IInv, NEW t \in Threads, WriterStep(t)
    PROVE  IInv'
  <1>1. TypeOK /\ \A l \in {"enter", "waiting", "write", "unflag", "notify", "idle"} : l \in Labels
    BY DEF IInv, Labels
  <1>2. CASE WriterLock(t)
    <2>1. pc' \in [Threads -> Labels] /\ FlagAgrees' /\ CountAgrees'
      BY <1>1, <1>2, Stays DEF WriterLock, At
    <2> QED
      BY <1>1, <1>2, <2>1 DEF IInv, TypeOK, WriterLock
  <1>3. CASE WriterWait(t)
    <2>1. pc' \in [Threads -> Labels] /\ FlagAgrees' /\ CountAgrees'
      BY <1>1, <1>3, Stays DEF WriterWait, At
    <2> QED
      BY <1>1, <1>3, <2>1 DEF IInv, TypeOK, WriterWait
  <1>4. CASE WriterRetry(t)
    <2>1. flag' \in Nat /\ pc' \in [Threads -> Labels] /\ FlagAgrees' /\ CountAgrees'
      BY <1>4, Takes DEF WriterRetry, At
    <2>2. cs' \in Threads \cup {NoThread}
      BY <1>4 DEF WriterRetry
    <2> QED
      BY <1>1, <1>4, <2>1, <2>2 DEF IInv, TypeOK, WriterRetry
  <1>5. CASE WriterEnter(t)
    <2>1. pc[t] = "enter" /\ Goto(t, "write") /\ lockCount' = lockCount + 1 /\ flag' = flag
      BY <1>5 DEF WriterEnter, At
    <2>2. /\ t \notin Counted /\ Counted' = Counted \cup {t}
          /\ Writing' = Writing /\ Reading' = Reading /\ pc' \in [Threads -> Labels]
      BY SMTT(30), <1>1, <2>1, Moves, Opened
    <2>3. lockCount' \in Int /\ FlagAgrees' /\ CountAgrees'
      BY <2>1, <2>2, Counts
    <2> QED
      BY <1>1, <1>5, <2>2, <2>3 DEF IInv, TypeOK, WriterEnter
  <1>6. CASE UnLockWriter(t)
    <2>1. pc[t] = "write" /\ Goto(t, "unflag") /\ lockCount' = lockCount - 1 /\ flag' = flag
      BY <1>6 DEF UnLockWriter, At
    <2>2. /\ t \in Counted /\ Counted' = Counted \ {t}
          /\ Writing' = Writing /\ Reading' = Reading /\ pc' \in [Threads -> Labels]
      BY <1>1, <2>1, Moves, Opened
    <2>3. lockCount' \in Int /\ FlagAgrees' /\ CountAgrees'
      BY <2>1, <2>2, Counts
    <2> QED
      BY <1>1, <1>6, <2>2, <2>3 DEF IInv, TypeOK, UnLockWriter
  <1>7. CASE WriterUnflag(t)
    <2>1. pc[t] = "unflag" /\ Goto(t, "notify") /\ lockCount' = lockCount /\ flag' = 0
      BY <1>7 DEF WriterUnflag, At
    <2>2. /\ t \in Writing /\ Writing' = {} /\ Counted' = Counted
          /\ Reading' = Reading /\ pc' \in [Threads -> Labels]
      BY <1>1, <2>1, Moves, Opened
    <2>3. flag' \in Nat /\ FlagAgrees' /\ CountAgrees'
      BY <2>1, <2>2, Leaves
    <2> QED
      BY <1>1, <1>7, <2>2, <2>3 DEF IInv, TypeOK, WriterUnflag
  <1>8. CASE WriterNotify(t)
    <2>1. /\ pc' \in [Threads -> Labels] /\ missed' \in BOOLEAN
          /\ Writing' = Writing /\ Reading' = Reading /\ Counted' = Counted
      BY <1>1, <1>8, Notifies DEF WriterNotify, At
    <2>2. UNCHANGED <<flag, cs, lockCount, value, calls>>
      BY <1>8 DEF WriterNotify
    <2>3. FlagAgrees' /\ CountAgrees'
      BY <2>1, <2>2, Quiet
    <2> QED
      BY <1>1, <2>1, <2>2, <2>3 DEF IInv, TypeOK
  <1>9. CASE WriterUnlock(t)
    <2>1. pc' \in [Threads -> Labels] /\ FlagAgrees' /\ CountAgrees'
      BY <1>1, <1>9, Stays DEF WriterUnlock, At
    <2> QED
      BY <1>1, <1>9, <2>1 DEF IInv, TypeOK, WriterUnlock
  <1> QED
    BY <1>2, <1>3, <1>4, <1>5, <1>6, <1>7, <1>8, <1>9 DEF WriterStep

(* Every step of a reader keeps the invariant.                               *)
LEMMA ReaderKeeps ==
    ASSUME IInv, NEW t \in Threads, ReaderStep(t)
    PROVE  IInv'
  <1>1. TypeOK /\ \A l \in {"count", "idle", "read", "drop", "last"} : l \in Labels
    BY DEF IInv, Labels
  <1>2. CASE ReaderTry(t)
    <2>1. pc[t] \in {"read?", "try?"} /\ value[t] < FLAG_WRITER /\ UNCHANGED <<cs, lockCount, calls, missed>>
      BY <1>2 DEF ReaderTry
    <2>2. CASE flag = value[t]
      <3>1. flag < FLAG_WRITER /\ flag' = flag + 1 /\ Goto(t, "count") /\ value' = value
        BY <1>2, <2>1, <2>2 DEF ReaderTry
      <3>2. /\ t \notin Reading /\ Reading' = Reading \cup {t} /\ Counted' = Counted
            /\ Writing' = Writing /\ pc' \in [Threads -> Labels]
        BY <1>1, <2>1, <3>1, Moves, Opened
      <3>3. FlagAgrees' /\ CountAgrees'
        BY <2>1, <3>1, <3>2, Enters
      <3> QED
        BY <1>1, <2>1, <3>1, <3>2, <3>3 DEF IInv, TypeOK
    <2>3. CASE flag # value[t]
      <3>1. value' = [value EXCEPT ![t] = flag] /\ UNCHANGED <<flag, pc>>
        BY <1>2, <2>3 DEF ReaderTry
      <3>2. Writing' = Writing /\ Reading' = Reading /\ Counted' = Counted
        BY <3>1 DEF Writing, Reading, Counted
      <3>3. FlagAgrees' /\ CountAgrees'
        BY <2>1, <3>1, <3>2, Quiet
      <3> QED
        BY <1>1, <2>1, <3>1, <3>3 DEF IInv, TypeOK
    <2> QED
      BY <2>2, <2>3
  <1>3. CASE ReaderGiveUp(t)
    <2>1. pc' \in [Threads -> Labels] /\ FlagAgrees' /\ CountAgrees'
      BY <1>1, <1>3, Stays DEF ReaderGiveUp, At
    <2> QED
      BY <1>1, <1>3, <2>1 DEF IInv, TypeOK, ReaderGiveUp
  <1>4. CASE ReaderWait(t)
    <2>1. value' = [value EXCEPT ![t] = flag] /\ UNCHANGED <<flag, cs, lockCount, pc, calls, missed>>
      BY <1>4 DEF ReaderWait
    <2>2. Writing' = Writing /\ Reading' = Reading /\ Counted' = Counted
      BY <2>1 DEF Writing, Reading, Counted
    <2>3. FlagAgrees' /\ CountAgrees'
      BY <2>1, <2>2, Quiet
    <2> QED
      BY <1>1, <2>1, <2>3 DEF IInv, TypeOK
  <1>5. CASE ReaderEnter(t)
    <2>1. pc[t] = "count" /\ Goto(t, "read") /\ lockCount' = lockCount + 1 /\ flag' = flag
      BY <1>5 DEF ReaderEnter, At
    <2>2. /\ t \notin Counted /\ Counted' = Counted \cup {t}
          /\ Writing' = Writing /\ Reading' = Reading /\ pc' \in [Threads -> Labels]
      BY <1>1, <2>1, Moves, Opened
    <2>3. lockCount' \in Int /\ FlagAgrees' /\ CountAgrees'
      BY <2>1, <2>2, Counts
    <2> QED
      BY <1>1, <1>5, <2>2, <2>3 DEF IInv, TypeOK, ReaderEnter
  <1>6. CASE UnLockReader(t)
    <2>1. pc[t] = "read" /\ Goto(t, "drop") /\ lockCount' = lockCount - 1 /\ flag' = flag
      BY <1>6 DEF UnLockReader, At
    <2>2. /\ t \in Counted /\ Counted' = Counted \ {t}
          /\ Writing' = Writing /\ Reading' = Reading /\ pc' \in [Threads -> Labels]
      BY <1>1, <2>1, Moves, Opened
    <2>3. lockCount' \in Int /\ FlagAgrees' /\ CountAgrees'
      BY <2>1, <2>2, Counts
    <2> QED
      BY <1>1, <1>6, <2>2, <2>3 DEF IInv, TypeOK, UnLockReader
  <1>7. CASE ReaderDrop(t)
    <2>1. /\ pc[t] = "drop" /\ flag' = flag - 1 /\ UNCHANGED <<cs, lockCount, value, calls, missed>>
          /\ \E l \in {"last", "idle"} : Goto(t, l)
      BY <1>7 DEF ReaderDrop, At
    <2>2. PICK l \in {"last", "idle"} : Goto(t, l)
      BY <2>1
    <2>3. /\ t \in Reading /\ Reading' = Reading \ {t} /\ Counted' = Counted
          /\ Writing' = Writing /\ pc' \in [Threads -> Labels]
      BY <1>1, <2>1, <2>2, Moves, Opened
    <2>4. flag' \in Nat /\ FlagAgrees' /\ CountAgrees'
      BY <2>1, <2>3, Leaves
    <2> QED
      BY <1>1, <2>1, <2>3, <2>4 DEF IInv, TypeOK
  <1>8. CASE ReaderNotify(t)
    <2>1. /\ pc' \in [Threads -> Labels] /\ missed' \in BOOLEAN
          /\ Writing' = Writing /\ Reading' = Reading /\ Counted' = Counted
      BY <1>1, <1>8, Notifies DEF ReaderNotify, At
    <2>2. UNCHANGED <<flag, cs, lockCount, value, calls>>
      BY <1>8 DEF ReaderNotify
    <2>3. FlagAgrees' /\ CountAgrees'
      BY <2>1, <2>2, Quiet
    <2> QED
      BY <1>1, <2>1, <2>2, <2>3 DEF IInv, TypeOK
  <1> QED
    BY <1>2, <1>3, <1>4, <1>5, <1>6, <1>7, <1>8 DEF ReaderStep

(* Nobody is in the lock at the start.                                       *)
LEMMA InitHolds == Init => IInv
  <1> SUFFICES ASSUME Init PROVE IInv
    OBVIOUS
  <1>1. TypeOK
    <2>1. pc \in [Threads -> Labels] /\ value \in [Threads -> Nat]
      BY DEF Init, Labels
    <2>2. calls \in 0 .. MaxCalls /\ flag \in Nat /\ lockCount \in Int /\ cs \in Threads \cup {NoThread}
      BY SharedLockAssumption DEF Init
    <2>3. missed \in BOOLEAN
      BY DEF Init
    <2> QED
      BY <2>1, <2>2, <2>3 DEF TypeOK
  <1>2. Writing = {} /\ Reading = {} /\ Counted = {}
    BY DEF Init, Writing, Reading, Counted
  <1>3. Cardinality({}) = 0
    BY FS_EmptySet
  <1> QED
    BY <1>1, <1>2, <1>3 DEF Init, IInv, FlagAgrees, CountAgrees, Counted

(* The invariant is inductive.                                               *)
LEMMA NextKeeps == IInv /\ [Next]_vars => IInv'
  <1>1. ASSUME IInv, Next PROVE IInv'
    BY <1>1, CallKeeps, WriterKeeps, ReaderKeeps DEF Next, Step
  <1>2. ASSUME IInv, UNCHANGED vars PROVE IInv'
    BY <1>2 DEF vars, IInv, TypeOK, FlagAgrees, CountAgrees, Writing, Reading
  <1> QED
    BY <1>1, <1>2

(* The flag and the counter never disagree with who is in the lock.          *)
THEOREM Invariance == Spec => []IInv
  BY InitHolds, NextKeeps, PTL DEF Spec

(* What the sources assert follows from the invariant.                       *)
LEMMA Asserted == IInv => CodeAssertions
  <1> SUFFICES ASSUME IInv, NEW t \in Threads
               PROVE  /\ TypeOK
                      /\ At(t, "enter") => lockCount = 0
                      /\ At(t, "unflag") => flag = FLAG_WRITER
                      /\ At(t, "drop") => lockCount >= 0 /\ flag \in 1 .. FLAG_WRITER - 1
    BY DEF CodeAssertions, IInv
  <1>1. TypeOK /\ Counted \in SUBSET Threads /\ Reading \in SUBSET Threads /\ FLAG_WRITER \in Nat
    BY SharedLockAssumption DEF IInv, Counted, Reading
  <1>2. /\ Cardinality(Counted) \in Nat /\ (Cardinality(Counted) = 0 <=> Counted = {})
        /\ Cardinality(Reading) \in Nat /\ (Cardinality(Reading) = 0 <=> Reading = {})
        /\ Cardinality(Reading) < FLAG_WRITER
    BY <1>1, Counting
  <1>3. lockCount = Cardinality(Counted)
    BY DEF IInv, CountAgrees, Counted
  <1>4. ASSUME At(t, "enter") PROVE lockCount = 0
    <2>1. Writing = {t} /\ Reading = {} /\ t \notin Counted /\ Counted \subseteq Writing \cup Reading
      BY <1>4, Opened DEF At
    <2>2. Counted = {}
      BY <2>1
    <2> QED
      BY <1>2, <1>3, <2>2
  <1>5. ASSUME At(t, "unflag") PROVE flag = FLAG_WRITER
    BY <1>5, Opened DEF At
  <1>6. ASSUME At(t, "drop") PROVE lockCount >= 0 /\ flag \in 1 .. FLAG_WRITER - 1
    <2>1. t \in Reading /\ Writing = {}
      BY <1>6, Opened DEF At
    <2>2. flag = Cardinality(Reading) /\ Reading # {}
      BY <2>1 DEF IInv, FlagAgrees
    <2> QED
      BY <1>1, <1>2, <1>3, <2>2
  <1> QED
    BY <1>1, <1>4, <1>5, <1>6

(* The assertions of the lock hold in every execution.                       *)
THEOREM AssertionsHold == Spec => []CodeAssertions
  BY Invariance, Asserted, PTL

-----------------------------------------------------------------------------
(* The refinement                                                            *)

(* The flag is free only if nobody is in the lock.                           *)
LEMMA FreeFlag ==
    ASSUME IInv, flag = 0
    PROVE  Writing = {} /\ Reading = {}
  <1>1. Reading \in SUBSET Threads /\ FLAG_WRITER \in Nat
    BY SharedLockAssumption DEF Reading
  <1>2. CASE Threads = {}
    BY <1>2 DEF Writing, Reading
  <1>3. CASE Threads # {}
    <2>1. PICK t \in Threads : TRUE
      BY <1>3
    <2>2. /\ Cardinality(Reading) \in Nat /\ Cardinality(Reading) < FLAG_WRITER
          /\ Cardinality(Reading) = 0 <=> Reading = {}
      BY <1>1, Counting, <2>1
    <2>3. flag < FLAG_WRITER
      BY <1>1, <2>2
    <2> QED
      BY <2>1, <2>2, <2>3, Opened
  <1> QED
    BY <1>2, <1>3

(* Whoever takes the flag enters as a writer, who fails does nothing.        *)
LEMMA TakeRefines ==
    ASSUME IInv, NEW t \in Threads, NEW l \in {"lock", "enter"}, NEW m \in {"idle", "wait"},
           pc[t] \in {"idle", "notified"}, TakeFlag(t, l, m)
    PROVE  [Lock!Next]_(Lock!vars)
  <1>1. TypeOK /\ l \in Labels /\ m \in Labels
    BY DEF IInv, Labels
  <1>2. CASE flag = 0
    <2>1. Writing = {} /\ Reading = {} /\ Goto(t, l)
      BY <1>2, FreeFlag DEF TakeFlag
    <2>2. Writing' = {t} /\ Reading' = Reading
      BY <1>1, <2>1, Moves
    <2> QED
      BY <2>1, <2>2 DEF Lock!Next, Lock!AcquireWriter
  <1>3. CASE flag # 0
    <2>1. Goto(t, m)
      BY <1>3 DEF TakeFlag
    <2>2. Writing' = Writing /\ Reading' = Reading
      BY SMTT(30), <1>1, <2>1, Moves, Opened
    <2> QED
      BY <2>2 DEF Lock!vars
  <1> QED
    BY <1>2, <1>3

(* Every step that is not the flag's leaves the holders alone.               *)
LEMMA StepRefines ==
    ASSUME IInv, NEW t \in Threads, Call(t) \/ Step(t)
    PROVE  [Lock!Next]_(Lock!vars)
  <1>1. TypeOK /\ \A l \in {"enter", "waiting", "write", "unflag", "notify", "idle", "count",
                            "read", "drop", "last", "read?", "try?"} : l \in Labels
    BY DEF IInv, Labels
  <1>2. CASE DoLockWriter(t) \/ TryLockWriter(t) \/ WriterRetry(t)
    BY <1>2, TakeRefines DEF DoLockWriter, TryLockWriter, WriterRetry, At
  <1>3. ASSUME NEW l \in Labels, Goto(t, l),
               \/ /\ pc[t] \in {"idle", "wait", "unlock", "read?", "try?"}
                  /\ l \in {"idle", "waiting", "read?", "try?"}
               \/ pc[t] = "lock" /\ l = "enter"
               \/ pc[t] = "enter" /\ l = "write"
               \/ pc[t] = "write" /\ l = "unflag"
               \/ pc[t] = "count" /\ l = "read"
               \/ pc[t] = "read" /\ l = "drop"
        PROVE  UNCHANGED Lock!vars
    <2>1. t \in Writing <=> l \in {"lock", "enter", "write", "unflag"}
      BY <1>3, Opened
    <2>2. t \in Reading <=> l \in {"count", "read", "drop"}
      BY <1>3, Opened
    <2>3. Writing' = Writing /\ Reading' = Reading
      BY <1>1, <1>3, <2>1, <2>2, Moves
    <2> QED
      BY <2>3 DEF Lock!vars
  <1>4. CASE DoLockReader(t) \/ TryLockReader(t)
    BY <1>1, <1>3, <1>4 DEF DoLockReader, TryLockReader, BeginRead, At
  <1>5. CASE WriterLock(t) \/ WriterWait(t) \/ WriterEnter(t) \/ UnLockWriter(t) \/ WriterUnlock(t)
    BY <1>1, <1>3, <1>5 DEF WriterLock, WriterWait, WriterEnter, UnLockWriter, WriterUnlock, At
  <1>6. CASE ReaderGiveUp(t) \/ ReaderEnter(t) \/ UnLockReader(t)
    BY <1>1, <1>3, <1>6 DEF ReaderGiveUp, ReaderEnter, UnLockReader, At
  <1>7. CASE WriterNotify(t) \/ ReaderNotify(t)
    <2>1. Writing' = Writing /\ Reading' = Reading
      BY <1>1, <1>7, Notifies DEF WriterNotify, ReaderNotify, At
    <2> QED
      BY <2>1 DEF Lock!vars
  <1>8. CASE WriterUnflag(t)
    <2>1. pc[t] = "unflag" /\ Goto(t, "notify")
      BY <1>8 DEF WriterUnflag, At
    <2>2. t \in Writing /\ Writing' = Writing \ {t} /\ Reading' = Reading
      BY <1>1, <2>1, Moves, Opened
    <2> QED
      BY <2>2 DEF Lock!Next, Lock!ReleaseWriter
  <1>9. CASE ReaderDrop(t)
    <2>1. pc[t] = "drop" /\ \E l \in {"last", "idle"} : Goto(t, l)
      BY <1>9 DEF ReaderDrop, At
    <2>2. t \in Reading /\ Reading' = Reading \ {t} /\ Writing' = Writing
      BY SMTT(30), <1>1, <2>1, Moves, Opened
    <2> QED
      BY <2>2 DEF Lock!Next, Lock!ReleaseReader
  <1>10. CASE ReaderWait(t)
    <2>1. UNCHANGED pc
      BY <1>10 DEF ReaderWait
    <2> QED
      BY <2>1 DEF Lock!vars, Writing, Reading
  <1>11. CASE ReaderTry(t)
    <2>1. CASE flag = value[t]
      <3>1. pc[t] \in {"read?", "try?"} /\ flag < FLAG_WRITER /\ Goto(t, "count")
        BY <1>11, <2>1 DEF ReaderTry
      <3>2. Writing = {} /\ t \notin Reading /\ Reading' = Reading \cup {t} /\ Writing' = Writing
        BY <1>1, <3>1, Moves, Opened
      <3> QED
        BY <3>2 DEF Lock!Next, Lock!AcquireReader
    <2>2. CASE flag # value[t]
      BY <1>11, <2>2 DEF ReaderTry, Lock!vars, Writing, Reading
    <2> QED
      BY <2>1, <2>2
  <1> QED
    BY <1>2, <1>4, <1>5, <1>6, <1>7, <1>8, <1>9, <1>10, <1>11
       DEF Call, Step, WriterStep, ReaderStep

(* The shared lock is a readers-writers lock, for any threads and calls.     *)
THEOREM Refinement == Spec => ImplementsRWLock
  <1>1. Init => Lock!Init
    BY DEF Init, Lock!Init, Writing, Reading
  <1>2. IInv /\ [Next]_vars => [Lock!Next]_(Lock!vars)
    <2>1. ASSUME IInv, Next PROVE [Lock!Next]_(Lock!vars)
      BY <2>1, StepRefines DEF Next
    <2>2. ASSUME UNCHANGED vars PROVE UNCHANGED Lock!vars
      BY <2>2 DEF vars, Lock!vars, Writing, Reading
    <2> QED
      BY <2>1, <2>2
  <1> QED
    BY <1>1, <1>2, Invariance, PTL DEF Spec, ImplementsRWLock, Lock!Spec

-----------------------------------------------------------------------------
(* The list, that moves beside the lock in the runs                          *)

ListProofs == INSTANCE TQueueListProofs

(* A run of the two is a run of the list.                                    *)
LEMMA ListMovesAlone ==
    LockAndListSpec => ListProofs!Spec
  <1>1. LockAndListInit => ListProofs!Init
    BY DEF LockAndListInit, List!Init, ListProofs!Init, List!Pages, ListProofs!Pages
  <1>2. [LockAndListNext]_allVars => [ListProofs!Next]_ListProofs!vars
    <2> USE DEF List!Pages, ListProofs!Pages, List!shared, ListProofs!shared, List!writer,
                ListProofs!writer
    <2>0. \A S : List!Min(S) = ListProofs!Min(S)
      BY DEF List!Min, ListProofs!Min
    <2>1. \A n : (List!MayWrite(n) <=> ListProofs!MayWrite(n)) /\ List!Numbered(n) = ListProofs!Numbered(n)
      BY <2>0 DEF List!MayWrite, ListProofs!MayWrite, List!Free, ListProofs!Free, List!Numbered,
             ListProofs!Numbered
    <2>2. (List!BeginPush => ListProofs!BeginPush) /\ (List!BeginRange => ListProofs!BeginRange)
      BY <2>1 DEF List!BeginPush, ListProofs!BeginPush, List!BeginRange, ListProofs!BeginRange,
                  List!Free, ListProofs!Free
    <2>3. (List!Push => ListProofs!Push) /\ (List!FillPage => ListProofs!FillPage)
      BY <2>1 DEF List!Push, ListProofs!Push, List!FillPage, ListProofs!FillPage
    <2>4. /\ List!Chain => ListProofs!Chain
          /\ List!ChainFilled => ListProofs!ChainFilled
      BY <2>0, <2>1 DEF List!Chain, ListProofs!Chain, List!ChainFilled, ListProofs!ChainFilled
    <2>5. /\ List!Advance => ListProofs!Advance
          /\ List!AdvanceFilled => ListProofs!AdvanceFilled
      BY <2>0 DEF List!Advance, ListProofs!Advance, List!AdvanceFilled, ListProofs!AdvanceFilled
    <2>6. List!Reader => ListProofs!Reader
      BY DEF List!Reader, ListProofs!Reader, List!EmptyPage, ListProofs!EmptyPage, List!EmptyMore,
             ListProofs!EmptyMore, List!EmptyLast, ListProofs!EmptyLast, List!TopCleanup,
             ListProofs!TopCleanup, List!PopCleanup, ListProofs!PopCleanup, List!Cleanup,
             ListProofs!Cleanup, List!Pop, ListProofs!Pop, List!ReaderGoes, ListProofs!ReaderGoes
    <2>7. List!Next => ListProofs!Next
      BY <2>2, <2>3, <2>4, <2>5, <2>6 DEF List!Next, ListProofs!Next, List!Writer, ListProofs!Writer
    <2> QED
      BY <2>7 DEF LockAndListNext, allVars, listVars, ListProofs!vars
  <1> QED
    BY <1>1, <1>2, PTL DEF LockAndListSpec, ListProofs!Spec

(* Top of a TQueueList finds an element (TopFinds of TQueueListProofs).      *)
THEOREM TopFinds == LockAndListSpec => []TopAssertion
  <1>1. ListProofs!Assumption
    BY ListAssumption DEF List!Assumption, ListProofs!Assumption
  <1>2. ListProofs!Spec => []ListProofs!TopAssertion
    BY <1>1, ListProofs!TopFinds
  <1>3. ListProofs!TopAssertion => TopAssertion
    BY DEF TopAssertion, List!TopAssertion, ListProofs!TopAssertion, List!TypeOK, ListProofs!TypeOK,
           List!Pages, ListProofs!Pages
  <1> QED
    BY <1>2, <1>3, ListMovesAlone, PTL

(* What is popped of a TQueueList is what has been stored, once and in order *)
(* (Implements of TQueueListProofs).                                         *)
THEOREM ListIsChannel == LockAndListSpec => ImplementsChannel
  <1>1. ListProofs!Assumption
    BY ListAssumption DEF List!Assumption, ListProofs!Assumption
  <1>2. ListProofs!Spec => ListProofs!ImplementsChannel
    BY <1>1, ListProofs!Implements
  <1>3. ListProofs!Contents = List!Contents /\ ListProofs!Contents' = List!Contents'
    <2>1. \A seqs : ListProofs!FlattenSeq(seqs) = List!FlattenSeq(seqs)
      BY DEF ListProofs!FlattenSeq, List!FlattenSeq
    <2> QED
      BY <2>1 DEF ListProofs!Contents, List!Contents
  <1>4. ListProofs!Abstract!Init => List!Abstract!Init
    BY <1>3 DEF ListProofs!Abstract!Init, List!Abstract!Init
  <1>5. [ListProofs!Abstract!Next \/ pageLost']_(ListProofs!Abstract!vars)
          => [List!Abstract!Next \/ pageLost']_(List!Abstract!vars)
    <2>1. \A n : ListProofs!Abstract!Send(n) => List!Abstract!Send(n)
      BY <1>3 DEF ListProofs!Abstract!Send, List!Abstract!Send
    <2>2. ListProofs!Abstract!Receive => List!Abstract!Receive
      BY <1>3 DEF ListProofs!Abstract!Receive, List!Abstract!Receive
    <2>3. UNCHANGED (ListProofs!Abstract!vars) => UNCHANGED (List!Abstract!vars)
      BY <1>3 DEF ListProofs!Abstract!vars, List!Abstract!vars
    <2> QED
      BY <2>1, <2>2, <2>3 DEF ListProofs!Abstract!Next, List!Abstract!Next
  <1> QED
    BY <1>2, <1>4, <1>5, ListMovesAlone, PTL
       DEF ImplementsChannel, List!ImplementsChannel, ListProofs!ImplementsChannel

=============================================================================
