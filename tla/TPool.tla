-------------------------------- MODULE TPool --------------------------------
(***************************************************************************)
(* TPool of Core/Template/TPool.h, the pool of script requests: AcquireSafe*)
(* and ReleaseSafe on any thread, Clear on one of them at any time         *)
(* (CrossScriptModule::RequestCleanup, BridgeSunset::Reset).  An item that *)
(* is not in use hangs in a chain from one of the heads.                   *)
(*                                                                         *)
(* A step is one access to a head or a counter.  A push is one step: the   *)
(* field next is nobody else's until the exchange that publishes it        *)
(* succeeds with the head it was read from.                                *)
(***************************************************************************)
EXTENDS Integers, Sequences, FiniteSets, SequencesExt

CONSTANTS
    Users,          \* threads
    Items, NoItem,
    Heads,          \* the template parameter N
    Limit,          \* maxCount as constructed
    CounterSize,    \* 2^32, a multiple of Heads
    MaxAcquires, MaxClears  \* bounds

(* What the constants have to satisfy. *)
Assumption ==
    /\ IsFiniteSet(Users) /\ Users # {} /\ IsFiniteSet(Items) /\ NoItem \notin Items
    /\ Heads \in Nat \ {0} /\ Limit \in Nat
    /\ CounterSize \in Nat /\ CounterSize >= Limit + Cardinality(Users)

VARIABLES
    chains,         \* of each head: the items that hang from it
    currentCount, maxCount,
    at,             \* of each thread: label
    index, cur,     \* of each thread: index and the count it started from
    hand,           \* of each thread: the item it acquires or releases
    taken,           \* of each thread: the items taken with it
    owned,          \* the items clients have
    alive,          \* the items constructed and not destroyed
    loop,           \* of Clear: something has been found in this pass
    acquires, clears

local == <<index, cur, hand, taken>>
vars == <<chains, currentCount, maxCount, at, local, owned, alive, loop, acquires, clears>>

Init ==
    /\ chains = [h \in 0 .. Heads - 1 |-> <<>>]
    /\ currentCount = 0 /\ maxCount = Limit
    /\ at = [t \in Users |-> "idle"]
    /\ index = [t \in Users |-> 0] /\ cur = [t \in Users |-> 0]
    /\ hand = [t \in Users |-> NoItem] /\ taken = [t \in Users |-> <<>>]
    /\ owned = {} /\ alive = {}
    /\ loop = FALSE /\ acquires = 0 /\ clears = 0

-----------------------------------------------------------------------------
Goes(t, from, to) == at[t] = from /\ at' = [at EXCEPT ![t] = to]

With(f, t, e) == [f EXCEPT ![t] = e]

(* heads[(i + cur) % N]                                                      *)
Index(t) == (index[t] + cur[t]) % Heads

Forget(t) == index' = With(index, t, 0) /\ cur' = With(cur, t, 0) /\ hand' = With(hand, t, NoItem)

CountBy(k) == currentCount' = (currentCount + k) % CounterSize

-----------------------------------------------------------------------------
AcquireSafe(t) ==
    /\ acquires < MaxAcquires
    /\ Goes(t, "idle", "take")
    /\ cur' = With(cur, t, currentCount)
    /\ acquires' = acquires + 1
    /\ UNCHANGED <<chains, currentCount, maxCount, index, hand, taken, owned, alive, loop, clears>>

(* The whole chain comes with the item.                                      *)
TakeChain(t) ==
    LET chain == chains[Index(t)]
    IN  /\ Goes(t, "take", IF Len(chain) > 1 THEN "reinstall" ELSE IF chain # <<>> THEN "uncount"
                           ELSE IF index[t] < Heads - 1 THEN "take" ELSE "construct")
        /\ chains' = With(chains, Index(t), <<>>)
        /\ IF chain = <<>>
           THEN index' = With(index, t, index[t] + 1) /\ UNCHANGED <<hand, taken>>
           ELSE hand' = With(hand, t, chain[1]) /\ taken' = With(taken, t, Tail(chain)) /\ UNCHANGED index
        /\ UNCHANGED <<currentCount, maxCount, cur, owned, alive, loop, acquires, clears>>

(* Mutant: what has been released meanwhile is dropped.                      *)
ReinstallDrops(t) ==
    /\ Goes(t, "reinstall", "uncount")
    /\ chains' = With(chains, Index(t), taken[t]) /\ taken' = With(taken, t, <<>>)
    /\ UNCHANGED <<currentCount, maxCount, index, cur, hand, owned, alive, loop, acquires, clears>>

(* The rest goes back, in exchange for what has been released meanwhile ...  *)
Reinstall(t) ==
    /\ Goes(t, "reinstall", IF chains[Index(t)] = <<>> THEN "uncount" ELSE "pushRest")
    /\ chains' = With(chains, Index(t), taken[t]) /\ taken' = With(taken, t, chains[Index(t)])
    /\ UNCHANGED <<currentCount, maxCount, index, cur, hand, owned, alive, loop, acquires, clears>>

(* ... which goes back item by item.                                         *)
PushRest(t) ==
    /\ Goes(t, "pushRest", IF Len(taken[t]) = 1 THEN "uncount" ELSE "pushRest")
    /\ chains' = With(chains, Index(t), <<taken[t][1]>> \o chains[Index(t)]) /\ taken' = With(taken, t, Tail(taken[t]))
    /\ UNCHANGED <<currentCount, maxCount, index, cur, hand, owned, alive, loop, acquires, clears>>

Uncount(t) ==
    /\ Goes(t, "uncount", "idle")
    /\ CountBy(-1)
    /\ owned' = owned \cup {hand[t]}
    /\ Forget(t) /\ taken' = With(taken, t, <<>>)
    /\ UNCHANGED <<chains, maxCount, alive, loop, acquires, clears>>

(* Bound: there are no more items than Items.                                *)
Construct(t) ==
    /\ Goes(t, "construct", "idle")
    /\ alive # Items
    /\ LET o == CHOOSE o \in Items : o \notin alive
       IN  alive' = alive \cup {o} /\ owned' = owned \cup {o}
    /\ Forget(t)
    /\ UNCHANGED <<chains, currentCount, maxCount, taken, loop, acquires, clears>>

-----------------------------------------------------------------------------
(* ReleaseSafe reads currentCount once for the test and once more.           *)
ReleaseSafe(t) ==
    /\ \E o \in owned :
        /\ owned' = owned \ {o}
        /\ IF currentCount < maxCount
           THEN Goes(t, "idle", "start") /\ hand' = With(hand, t, o) /\ UNCHANGED alive
           ELSE alive' = alive \ {o} /\ at[t] = "idle" /\ UNCHANGED <<at, hand>>
    /\ UNCHANGED <<chains, currentCount, maxCount, index, cur, taken, loop, acquires, clears>>

Start(t) ==
    /\ Goes(t, "start", "put")
    /\ cur' = With(cur, t, currentCount)
    /\ UNCHANGED <<chains, currentCount, maxCount, index, hand, taken, owned, alive, loop, acquires, clears>>

Put(t) ==
    /\ chains[Index(t)] = <<>>
    /\ Goes(t, "put", "count")
    /\ chains' = With(chains, Index(t), <<hand[t]>>)
    /\ UNCHANGED <<currentCount, maxCount, local, owned, alive, loop, acquires, clears>>

(* The head is taken, or the weak exchange fails.                            *)
PutFails(t) ==
    /\ Goes(t, "put", IF index[t] < Heads - 1 THEN "put" ELSE "choose")
    /\ index' = With(index, t, index[t] + 1)
    /\ UNCHANGED <<chains, currentCount, maxCount, cur, hand, taken, owned, alive, loop, acquires, clears>>

Choose(t) ==
    /\ Goes(t, "choose", "push")
    /\ cur' = With(cur, t, currentCount) /\ index' = With(index, t, 0)
    /\ UNCHANGED <<chains, currentCount, maxCount, hand, taken, owned, alive, loop, acquires, clears>>

Push(t) ==
    /\ Goes(t, "push", "count")
    /\ chains' = With(chains, Index(t), <<hand[t]>> \o chains[Index(t)])
    /\ UNCHANGED <<currentCount, maxCount, local, owned, alive, loop, acquires, clears>>

Count(t) ==
    /\ Goes(t, "count", "idle")
    /\ CountBy(1)
    /\ Forget(t)
    /\ UNCHANGED <<chains, maxCount, taken, owned, alive, loop, acquires, clears>>

-----------------------------------------------------------------------------
(* Clear is not called while it runs.                                        *)
Clear(t) ==
    /\ clears < MaxClears /\ \A u \in Users : at[u] # "clear"
    /\ Goes(t, "idle", "clear")
    /\ maxCount' = 0
    /\ loop' = FALSE
    /\ clears' = clears + 1
    /\ UNCHANGED <<chains, currentCount, local, owned, alive, acquires>>

ClearHead(t) ==
    /\ at[t] = "clear" /\ index[t] < Heads
    /\ alive' = alive \ ToSet(chains[index[t]])
    /\ loop' = (loop \/ chains[index[t]] # <<>>)
    /\ chains' = With(chains, index[t], <<>>)
    /\ index' = With(index, t, index[t] + 1)
    /\ UNCHANGED <<currentCount, maxCount, at, cur, hand, taken, owned, acquires, clears>>

ClearAgain(t) ==
    /\ at[t] = "clear" /\ index[t] = Heads /\ loop
    /\ loop' = FALSE
    /\ index' = With(index, t, 0)
    /\ UNCHANGED <<chains, currentCount, maxCount, at, cur, hand, taken, owned, alive, acquires, clears>>

(* newMaxCount is 0 in all calls: maxCount stays.                            *)
ClearEnds(t) ==
    /\ at[t] = "clear" /\ index[t] = Heads /\ ~loop
    /\ at' = [at EXCEPT ![t] = "idle"]
    /\ currentCount' = 0
    /\ Forget(t)
    /\ UNCHANGED <<chains, maxCount, taken, owned, alive, loop, acquires, clears>>

Next ==
    \E t \in Users :
        \/ AcquireSafe(t) \/ TakeChain(t) \/ Reinstall(t) \/ PushRest(t) \/ Uncount(t) \/ Construct(t)
        \/ ReleaseSafe(t) \/ Start(t) \/ Put(t) \/ PutFails(t) \/ Choose(t) \/ Push(t) \/ Count(t)
        \/ Clear(t) \/ ClearHead(t) \/ ClearAgain(t) \/ ClearEnds(t)

-----------------------------------------------------------------------------
(* Every item alive is in one place: with a client, in the hands of a thread *)
(* that acquires or releases it, in what such a thread still has to give     *)
(* back, or once in a chain; and what is in one of them is alive             *)
(* (TPool.h:50-85, 111-175).                                                 *)
Places(o) ==
    Cardinality({h \in DOMAIN chains : o \in ToSet(chains[h])})
      + Cardinality({t \in Users : o \in ToSet(taken[t])})
      + Cardinality({t \in Users : hand[t] = o /\ at[t] # "count"})
      + (IF o \in owned THEN 1 ELSE 0)

ItemsConserved ==
    /\ \A o \in Items : Places(o) = IF o \in alive THEN 1 ELSE 0
    /\ \A h \in DOMAIN chains : IsInjective(chains[h])

(* Between calls, and until Clear has been called, currentCount is the number*)
(* of items in the pool, although it passes below zero on the way.  They are *)
(* more than maxCount by no more than the threads that read currentCount     *)
(* before another one counted its item.                                      *)
CountHolds ==
    (clears = 0 /\ \A t \in Users : at[t] = "idle") =>
        /\ currentCount = Cardinality(alive \ owned)
        /\ currentCount <= Limit + Cardinality(Users) - 1

ItemsAccounted == ItemsConserved /\ CountHolds
=============================================================================
