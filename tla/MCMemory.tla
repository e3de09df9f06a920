------------------------------ MODULE MCMemory ------------------------------
(* TAllocator and TPool, side by side: `part` is the one that moves. *)
EXTENDS TAllocator, TLC

CONSTANTS Items, NoItem, Heads, Limit, CounterSize, MaxAcquires, MaxClears

VARIABLES
    chains, currentCount, maxCount, at, index, cur, hand, taken, owned, alive, loop,
    acquires, clears,
    part

poolVars == <<chains, currentCount, maxCount, at, index, cur, hand, taken, owned, alive, loop,
              acquires, clears>>

Pool == INSTANCE TPool WITH Users <- Threads

ASSUME PoolAssumption == Pool!Assumption

MemoryInit == Init /\ Pool!Init /\ part \in {"allocator", "pool"}

MemoryNext ==
    \/ part = "allocator" /\ Next /\ UNCHANGED <<poolVars, part>>
    \/ part = "pool" /\ Pool!Next /\ UNCHANGED <<vars, part>>

MemorySpec == MemoryInit /\ [][MemoryNext]_<<vars, poolVars, part>>

Symmetric == Permutations(Threads) \cup Permutations(Blocks)

(* TPool: every item alive is in one place, and between calls currentCount is*)
(* the number of those in the pool.                                          *)
ItemsAccounted == Pool!ItemsAccounted
=============================================================================
