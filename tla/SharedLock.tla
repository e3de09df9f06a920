----------------------------- MODULE SharedLock -----------------------------
(***************************************************************************)
(* The shared lock of ZThreadPthread.cpp as the build makes it (C++11, so  *)
(* without std::shared_mutex): `flag` counts the readers and has one bit   *)
(* for the writer, who also owns the mutex `cs`; a writer that finds the   *)
(* lock taken waits on the condition variable `cv`, a reader on `cs`.      *)
(*                                                                         *)
(* A step is one access to shared state.  A compare_exchange_weak fails    *)
(* only if the value differs, and a wait on cv ends only by notify_one.    *)
(***************************************************************************)
EXTENDS Integers, FiniteSets

CONSTANTS
    Threads,
    NoThread,
    FLAG_WRITER,    \* the writer's bit, above any number of readers
    MaxCalls        \* bound: acquisitions begun

ASSUME SharedLockAssumption ==
    /\ IsFiniteSet(Threads) /\ NoThread \notin Threads
    /\ FLAG_WRITER \in Nat /\ FLAG_WRITER > Cardinality(Threads)
    /\ MaxCalls \in Nat

VARIABLES
    flag, cs, lockCount,
    pc,         \* of each thread: the next step
    value,      \* of each thread: flag, as DoLockReader has read it last
    calls,      \* acquisitions begun
    missed      \* history: a release found nobody on cv while a writer had
                \* found the lock taken and was about to wait

vars == <<flag, cs, lockCount, pc, value, calls, missed>>

Init ==
    /\ flag = 0 /\ cs = NoThread /\ lockCount = 0
    /\ pc = [t \in Threads |-> "idle"]
    /\ value = [t \in Threads |-> 0]
    /\ calls = 0 /\ missed = FALSE

At(t, l) == pc[t] = l

Goto(t, l) == pc' = [pc EXCEPT ![t] = l]

-----------------------------------------------------------------------------
(* The writer                                                                *)

(* Whether t gets the writer's bit.                                          *)
TakeFlag(t, success, failure) ==
    IF flag = 0 THEN flag' = FLAG_WRITER /\ Goto(t, success)
                ELSE UNCHANGED flag /\ Goto(t, failure)

DoLockWriter(t) ==
    /\ At(t, "idle") /\ calls < MaxCalls
    /\ calls' = calls + 1
    /\ TakeFlag(t, "lock", "wait")
    /\ UNCHANGED <<cs, lockCount, value, missed>>

TryLockWriter(t) ==
    /\ At(t, "idle") /\ calls < MaxCalls
    /\ calls' = calls + 1
    /\ TakeFlag(t, "lock", "idle")
    /\ UNCHANGED <<cs, lockCount, value, missed>>

WriterLock(t) ==
    /\ At(t, "lock") /\ cs = NoThread
    /\ cs' = t /\ Goto(t, "enter")
    /\ UNCHANGED <<flag, lockCount, value, calls, missed>>

(* Takes cs and gives it back by waiting on cv.                              *)
WriterWait(t) ==
    /\ At(t, "wait") /\ cs = NoThread
    /\ Goto(t, "waiting")
    /\ UNCHANGED <<flag, cs, lockCount, value, calls, missed>>

(* Mutant: who has been notified takes the flag to be free.                  *)
WriterRetryUntested(t) ==
    /\ At(t, "notified") /\ cs = NoThread
    /\ cs' = t /\ flag' = FLAG_WRITER /\ Goto(t, "enter")
    /\ UNCHANGED <<lockCount, value, calls, missed>>

(* Notified, with cs again: keeps it if the flag can be had, else goes round.*)
WriterRetry(t) ==
    /\ At(t, "notified") /\ cs = NoThread
    /\ cs' = IF flag = 0 THEN t ELSE NoThread
    /\ TakeFlag(t, "enter", "wait")
    /\ UNCHANGED <<lockCount, value, calls, missed>>

WriterEnter(t) ==
    /\ At(t, "enter")
    /\ lockCount' = lockCount + 1 /\ Goto(t, "write")
    /\ UNCHANGED <<flag, cs, value, calls, missed>>

(* notify_one: t goes on at l, and one thread waiting on cv is woken.        *)
NotifyOne(t, l) ==
    LET waiting == {u \in Threads : At(u, "waiting")}
    IN  /\ IF waiting = {}
           THEN Goto(t, l)
           ELSE \E u \in waiting : pc' = [pc EXCEPT ![t] = l, ![u] = "notified"]
        /\ missed' = (missed \/ (waiting = {} /\ \E u \in Threads : At(u, "wait")))

UnLockWriter(t) ==
    /\ At(t, "write")
    /\ lockCount' = lockCount - 1 /\ Goto(t, "unflag")
    /\ UNCHANGED <<flag, cs, value, calls, missed>>

WriterUnflag(t) ==
    /\ At(t, "unflag")
    /\ flag' = 0 /\ Goto(t, "notify")
    /\ UNCHANGED <<cs, lockCount, value, calls, missed>>

WriterNotify(t) ==
    /\ At(t, "notify")
    /\ NotifyOne(t, "unlock")
    /\ UNCHANGED <<flag, cs, lockCount, value, calls>>

WriterUnlock(t) ==
    /\ At(t, "unlock")
    /\ cs' = NoThread /\ Goto(t, "idle")
    /\ UNCHANGED <<flag, lockCount, value, calls, missed>>

-----------------------------------------------------------------------------
(* The readers                                                               *)

(* Loads the flag.                                                           *)
BeginRead(t, l) ==
    /\ At(t, "idle") /\ calls < MaxCalls
    /\ calls' = calls + 1
    /\ value' = [value EXCEPT ![t] = flag] /\ Goto(t, l)
    /\ UNCHANGED <<flag, cs, lockCount, missed>>

DoLockReader(t) == BeginRead(t, "read?")

TryLockReader(t) == BeginRead(t, "try?")

(* Mutant: a reader adds itself to the flag whatever it has become.          *)
ReaderTryAdds(t) ==
    /\ pc[t] \in {"read?", "try?"} /\ value[t] < FLAG_WRITER
    /\ flag' = flag + 1 /\ Goto(t, "count")
    /\ UNCHANGED <<cs, lockCount, value, calls, missed>>

(* No writer seen: one more reader, if the flag has not changed.             *)
ReaderTry(t) ==
    /\ pc[t] \in {"read?", "try?"} /\ value[t] < FLAG_WRITER
    /\ IF flag = value[t]
       THEN flag' = flag + 1 /\ Goto(t, "count") /\ UNCHANGED value
       ELSE value' = [value EXCEPT ![t] = flag] /\ UNCHANGED <<flag, pc>>
    /\ UNCHANGED <<cs, lockCount, calls, missed>>

ReaderGiveUp(t) ==
    /\ At(t, "try?") /\ value[t] >= FLAG_WRITER
    /\ Goto(t, "idle")
    /\ UNCHANGED <<flag, cs, lockCount, value, calls, missed>>

(* Waits for cs, which the writer holds, and loads the flag again.           *)
ReaderWait(t) ==
    /\ At(t, "read?") /\ value[t] >= FLAG_WRITER /\ cs = NoThread
    /\ value' = [value EXCEPT ![t] = flag]
    /\ UNCHANGED <<flag, cs, lockCount, pc, calls, missed>>

ReaderEnter(t) ==
    /\ At(t, "count")
    /\ lockCount' = lockCount + 1 /\ Goto(t, "read")
    /\ UNCHANGED <<flag, cs, value, calls, missed>>

UnLockReader(t) ==
    /\ At(t, "read")
    /\ lockCount' = lockCount - 1 /\ Goto(t, "drop")
    /\ UNCHANGED <<flag, cs, value, calls, missed>>

(* Mutant: the last reader tells nobody.                                     *)
ReaderDropSilent(t) ==
    /\ At(t, "drop")
    /\ flag' = flag - 1 /\ Goto(t, "idle")
    /\ UNCHANGED <<cs, lockCount, value, calls, missed>>

(* The last reader notifies.                                                 *)
ReaderDrop(t) ==
    /\ At(t, "drop")
    /\ flag' = flag - 1 /\ Goto(t, IF flag = 1 THEN "last" ELSE "idle")
    /\ UNCHANGED <<cs, lockCount, value, calls, missed>>

ReaderNotify(t) ==
    /\ At(t, "last")
    /\ NotifyOne(t, "idle")
    /\ UNCHANGED <<flag, cs, lockCount, value, calls>>

-----------------------------------------------------------------------------
WriterStep(t) ==
    \/ WriterLock(t) \/ WriterWait(t) \/ WriterRetry(t) \/ WriterEnter(t)
    \/ UnLockWriter(t) \/ WriterUnflag(t) \/ WriterNotify(t) \/ WriterUnlock(t)

ReaderStep(t) ==
    \/ ReaderTry(t) \/ ReaderGiveUp(t) \/ ReaderWait(t) \/ ReaderEnter(t)
    \/ UnLockReader(t) \/ ReaderDrop(t) \/ ReaderNotify(t)

Step(t) == WriterStep(t) \/ ReaderStep(t)

Call(t) == DoLockWriter(t) \/ TryLockWriter(t) \/ DoLockReader(t) \/ TryLockReader(t)

Next == \E t \in Threads : Call(t) \/ Step(t)

Spec == Init /\ [][Next]_vars

(* A thread in the lock leaves it, and the scheduler runs everybody.         *)
FairSpec == Spec /\ \A t \in Threads : WF_vars(Step(t))

-----------------------------------------------------------------------------
Writing == {t \in Threads : pc[t] \in {"lock", "enter", "write", "unflag"}}

Reading == {t \in Threads : pc[t] \in {"count", "read", "drop"}}

Labels == {"idle", "lock", "wait", "waiting", "notified", "enter", "write", "unflag",
           "notify", "unlock", "read?", "try?", "count", "read", "drop", "last"}

TypeOK ==
    /\ flag \in Nat /\ lockCount \in Int
    /\ cs \in Threads \cup {NoThread}
    /\ pc \in [Threads -> Labels] /\ value \in [Threads -> Nat]
    /\ calls \in 0 .. MaxCalls /\ missed \in BOOLEAN

(* What the flag says is who is in the lock (ZThreadPthread.cpp:66).         *)
FlagAgrees ==
    IF Writing = {}
    THEN flag = Cardinality(Reading)
    ELSE /\ flag = FLAG_WRITER /\ Reading = {}
         /\ \A t, u \in Writing : t = u

(* What lockCount says is who holds the lock and has neither to count itself *)
(* yet nor uncounted itself.                                                 *)
CountAgrees == lockCount = Cardinality({t \in Threads : pc[t] \in {"write", "read"}})

(* The assertions at ZThreadPthread.cpp:486 (nobody else in the lock when a  *)
(* writer enters it), 557, 577 and 588 (who leaves finds the flag as he left *)
(* it): the counter and the flag follow the same threads although they are   *)
(* changed one after the other.                                              *)
CodeAssertions ==
    /\ TypeOK
    /\ \A t \in Threads :
        /\ At(t, "enter") => lockCount = 0
        /\ At(t, "unflag") => flag = FLAG_WRITER
        /\ At(t, "drop") => lockCount >= 0 /\ flag \in 1 .. FLAG_WRITER - 1

(* The lock is a readers-writers lock: from the moment the flag says so      *)
(* until it no longer does, a writer is alone (IThread.h:38-46).             *)
Lock == INSTANCE RWLock WITH writing <- Writing, reading <- Reading

ImplementsRWLock == Lock!Spec

(* Who wants the lock gets in or gives up, a writer that waits on cv unless  *)
(* a release fell between its look at the flag and its wait: notify_one goes *)
(* to one writer only, another can take the flag before it, and whoever does *)
(* must pass it on (ZThreadPthread.cpp:450-464, 559, 589).                   *)
EverybodyGetsIn ==
    \A t \in Threads :
        /\ pc[t] \in {"lock", "read?", "try?"} ~> pc[t] \in {"write", "read", "idle"}
        /\ At(t, "wait") ~> (At(t, "write") \/ missed)

=============================================================================
