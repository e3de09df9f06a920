----------------------------- MODULE TAllocator -----------------------------
(***************************************************************************)
(* TAllocator of Core/Template/TAllocator.h: blocks of slots, without a    *)
(* lock.  A block is found in controlBlocks or in the list recycleHead     *)
(* (it is managed then) or got from the root allocator; its refCount       *)
(* counts its used slots, the list it is in and the threads that search    *)
(* it.                                                                     *)
(*                                                                         *)
(* A step is one access to memory that threads share.  A push on the list  *)
(* is one step: the field next is nobody else's until the exchange that    *)
(* publishes it succeeds with the head it was read from.                   *)
(***************************************************************************)
EXTENDS Integers, FiniteSets

CONSTANTS
    Threads, Blocks, NoBlock,
    W,              \* controlBlocks
    R,              \* blocks in the list, roughly
    Slots,          \* N - OFFSET, the slots of a block
    Bits,           \* the bits of its bitmap
    MaxCalls        \* bound: calls of Allocate

ASSUME TAllocatorAssumption ==
    /\ IsFiniteSet(Threads) /\ IsFiniteSet(Blocks) /\ NoBlock \notin Blocks
    /\ W \in Nat \ {0} /\ R \in Nat /\ MaxCalls \in Nat
    /\ Slots \in Nat \ {0} /\ Bits \in Nat /\ Bits >= Slots

VARIABLES
    controlBlocks, recycleHead, recycleCount,
    referCount,     \* of the allocator: the owner and the used slots
    next, refCount, managed, bitmap,    \* of each block
    atRoot,         \* the blocks the root allocator has
    pc, p, n, rest, bit, \* of each thread: label, block, index, rest of the list, bit
    after,          \* of each thread: where it goes from Recycle or TryFree
    owners,         \* of each slot: how many clients own it
    owner,          \* whether the owner has a reference to the allocator
    calls

block == <<next, refCount, managed, bitmap>>
lists == <<controlBlocks, recycleHead, recycleCount>>
local == <<p, n, rest, bit, after>>
vars == <<lists, referCount, block, atRoot, pc, local, owners, owner, calls>>

Init ==
    /\ controlBlocks = [i \in 1 .. W |-> NoBlock] /\ recycleHead = NoBlock /\ recycleCount = 0
    /\ referCount = 1
    /\ next = [b \in Blocks |-> NoBlock] /\ refCount = [b \in Blocks |-> 0]
    /\ managed = [b \in Blocks |-> 0] /\ bitmap = [b \in Blocks |-> {}]
    /\ atRoot = Blocks
    /\ pc = [t \in Threads |-> "idle"] /\ p = [t \in Threads |-> NoBlock]
    /\ n = [t \in Threads |-> 1] /\ rest = [t \in Threads |-> NoBlock]
    /\ bit = [t \in Threads |-> 1] /\ after = [t \in Threads |-> "idle"]
    /\ owners = [s \in Blocks \X (1 .. Slots) |-> 0] /\ owner = TRUE /\ calls = 0

-----------------------------------------------------------------------------
Goes(t, from, to) == pc[t] = from /\ pc' = [pc EXCEPT ![t] = to]

Set(v, t, e) == v' = [v EXCEPT ![t] = e]

(* Allocate or Deallocate has done with its block.                           *)
Done(t) ==
    /\ pc' = [pc EXCEPT ![t] = after[t]]
    /\ Set(p, t, NoBlock) /\ Set(n, t, 1) /\ Set(bit, t, 1)
    /\ UNCHANGED <<rest, after>>

Allocate(t) ==
    /\ calls < MaxCalls /\ owner
    /\ Goes(t, "idle", "heads")
    /\ Set(after, t, "heads")
    /\ calls' = calls + 1
    /\ UNCHANGED <<lists, referCount, block, atRoot, p, n, rest, bit, owners, owner>>

TakeHead(t) ==
    /\ LET found == controlBlocks[n[t]]
       IN  /\ Goes(t, "heads", IF found # NoBlock THEN "unmanage"
                               ELSE IF n[t] < W THEN "heads" ELSE "recycled")
           /\ Set(p, t, found)
    /\ Set(controlBlocks, n[t], NoBlock)
    /\ Set(n, t, IF n[t] < W THEN n[t] + 1 ELSE 1)
    /\ UNCHANGED <<recycleHead, recycleCount, referCount, block, atRoot, rest, bit, after, owners, owner, calls>>

TakeRecycled(t) ==
    /\ Goes(t, "recycled", IF recycleHead = NoBlock THEN "root" ELSE "reinstall")
    /\ Set(p, t, recycleHead)
    /\ Set(rest, t, IF recycleHead = NoBlock THEN NoBlock ELSE next[recycleHead])
    /\ recycleHead' = NoBlock
    /\ UNCHANGED <<controlBlocks, recycleCount, referCount, block, atRoot, n, bit, after, owners, owner, calls>>

(* Mutant: the rest of the list is lost if another block has come meanwhile. *)
ReinstallLoses(t) ==
    /\ Goes(t, "reinstall", "popped")
    /\ recycleHead' = IF recycleHead = NoBlock THEN rest[t] ELSE recycleHead
    /\ UNCHANGED <<controlBlocks, recycleCount, referCount, block, atRoot, local, owners, owner, calls>>

(* The rest of the list goes back at once, if no other has come meanwhile ... *)
Reinstall(t) ==
    /\ Goes(t, "reinstall", IF recycleHead = NoBlock \/ rest[t] = NoBlock THEN "popped" ELSE "rest")
    /\ recycleHead' = IF recycleHead = NoBlock THEN rest[t] ELSE recycleHead
    /\ UNCHANGED <<controlBlocks, recycleCount, referCount, block, atRoot, local, owners, owner, calls>>

(* ... or else block by block.                                               *)
PushRest(t) ==
    /\ Goes(t, "rest", IF next[rest[t]] = NoBlock THEN "popped" ELSE "rest")
    /\ Set(next, rest[t], recycleHead) /\ recycleHead' = rest[t]
    /\ Set(rest, t, next[rest[t]])
    /\ UNCHANGED <<controlBlocks, recycleCount, referCount, refCount, managed, bitmap, atRoot,
                   p, n, bit, after, owners, owner, calls>>

(* Mutant: the block keeps its successor.                                    *)
PoppedLinked(t) ==
    /\ Goes(t, "popped", "unmanage")
    /\ recycleCount' = recycleCount - 1
    /\ UNCHANGED <<controlBlocks, recycleHead, referCount, block, atRoot, local, owners, owner, calls>>

Popped(t) ==
    /\ Goes(t, "popped", "unmanage")
    /\ Set(next, p[t], NoBlock)
    /\ recycleCount' = recycleCount - 1
    /\ UNCHANGED <<controlBlocks, recycleHead, referCount, refCount, managed, bitmap, atRoot,
                   local, owners, owner, calls>>

Unmanage(t) ==
    /\ Goes(t, "unmanage", "search")
    /\ Set(managed, p[t], 0)
    /\ UNCHANGED <<lists, referCount, next, refCount, bitmap, atRoot, local, owners, owner, calls>>

RootAllocate(t) ==
    /\ Goes(t, "root", "search")
    /\ \E b \in atRoot :
        /\ Set(p, t, b) /\ atRoot' = atRoot \ {b}
        /\ Set(next, b, NoBlock) /\ Set(managed, b, 0) /\ Set(bitmap, b, {}) /\ Set(refCount, b, 1)
    /\ UNCHANGED <<lists, referCount, n, rest, bit, after, owners, owner, calls>>

Clear(b) == 1 .. Bits \ bitmap[b]

(* The lowest bit that is clear ...                                          *)
Search(t) ==
    /\ Goes(t, "search", IF Clear(p[t]) = {} THEN "free" ELSE "claim")
    /\ Set(bit, t, IF Clear(p[t]) = {} THEN 1
                   ELSE CHOOSE i \in Clear(p[t]) : \A j \in Clear(p[t]) : i <= j)
    /\ UNCHANGED <<lists, referCount, block, atRoot, p, n, rest, after, owners, owner, calls>>

(* Mutant: what fetch_or returns is not looked at.                           *)
ClaimUntested(t) ==
    LET mine == bit[t] <= Slots
    IN  /\ Goes(t, "claim", IF mine THEN "count" ELSE "free")
        /\ Set(bitmap, p[t], bitmap[p[t]] \cup {bit[t]})
        /\ IF mine THEN Set(owners, <<p[t], bit[t]>>, owners[<<p[t], bit[t]>>] + 1) ELSE UNCHANGED owners
        /\ UNCHANGED <<lists, referCount, next, refCount, managed, atRoot, local, owner, calls>>

(* ... is set, if nobody else has set it, and stands for a slot, unless it   *)
(* is beyond the last of them.                                               *)
Claim(t) ==
    LET mine == bit[t] \notin bitmap[p[t]] /\ bit[t] <= Slots
    IN  /\ Goes(t, "claim", IF mine THEN "count" ELSE "free")
        /\ Set(bitmap, p[t], bitmap[p[t]] \cup {bit[t]})
        /\ IF mine THEN Set(owners, <<p[t], bit[t]>>, owners[<<p[t], bit[t]>>] + 1) ELSE UNCHANGED owners
        /\ UNCHANGED <<lists, referCount, next, refCount, managed, atRoot, local, owner, calls>>

Count(t) ==
    /\ Goes(t, "count", "recycle")
    /\ Set(refCount, p[t], refCount[p[t]] + 1) /\ referCount' = referCount + 1
    /\ Set(after, t, "idle")
    /\ UNCHANGED <<lists, next, managed, bitmap, atRoot, p, n, rest, bit, owners, owner, calls>>

(* Allocate has found the slot and not returned it yet.                      *)
Pending(s) == \E t \in Threads : <<p[t], bit[t]>> = s /\ (pc[t] = "count" \/ after[t] = "idle")

(* A client gives back a slot.                                               *)
Deallocate(t) ==
    /\ Goes(t, "idle", "recycle")
    /\ \E s \in DOMAIN owners :
        /\ owners[s] > 0 /\ ~Pending(s)
        /\ Set(owners, s, owners[s] - 1)
        /\ Set(p, t, s[1]) /\ Set(bitmap, s[1], bitmap[s[1]] \ {s[2]})
    /\ Set(after, t, "release")
    /\ UNCHANGED <<lists, referCount, next, refCount, managed, atRoot, n, rest, bit, owner, calls>>

-----------------------------------------------------------------------------
(* Recycle: the block is listed, unless it is already or there are enough.   *)
Recycle(t) ==
    /\ Goes(t, "recycle", IF managed[p[t]] = 0 /\ recycleCount < R THEN "manage" ELSE "free")
    /\ UNCHANGED <<lists, referCount, block, atRoot, local, owners, owner, calls>>

Manage(t) ==
    /\ Goes(t, "manage", IF managed[p[t]] = 0 THEN "list" ELSE "free")
    /\ Set(managed, p[t], 1)
    /\ Set(n, t, 1)
    /\ UNCHANGED <<lists, referCount, next, refCount, bitmap, atRoot, p, rest, bit, after, owners, owner, calls>>

List(t) ==
    /\ pc[t] = "list" /\ controlBlocks[n[t]] = NoBlock
    /\ Set(controlBlocks, n[t], p[t])
    /\ Done(t)
    /\ UNCHANGED <<recycleHead, recycleCount, referCount, block, atRoot, owners, owner, calls>>

(* The place is taken, or the weak exchange fails.                           *)
ListFails(t) ==
    /\ Goes(t, "list", IF n[t] < W THEN "list" ELSE "countRecycled")
    /\ Set(n, t, IF n[t] < W THEN n[t] + 1 ELSE 1)
    /\ UNCHANGED <<lists, referCount, block, atRoot, p, rest, bit, after, owners, owner, calls>>

CountRecycled(t) ==
    /\ Goes(t, "countRecycled", "push")
    /\ recycleCount' = recycleCount + 1
    /\ UNCHANGED <<controlBlocks, recycleHead, referCount, block, atRoot, local, owners, owner, calls>>

Push(t) ==
    /\ pc[t] = "push"
    /\ Set(next, p[t], recycleHead) /\ recycleHead' = p[t]
    /\ Done(t)
    /\ UNCHANGED <<controlBlocks, recycleCount, referCount, refCount, managed, bitmap, atRoot,
                   owners, owner, calls>>

TryFree(t) ==
    /\ pc[t] = "free"
    /\ Set(refCount, p[t], refCount[p[t]] - 1)
    /\ IF refCount[p[t]] = 1 THEN Goes(t, "free", "rootFree") /\ UNCHANGED local ELSE Done(t)
    /\ UNCHANGED <<lists, referCount, next, managed, bitmap, atRoot, owners, owner, calls>>

RootDeallocate(t) ==
    /\ pc[t] = "rootFree"
    /\ atRoot' = atRoot \cup {p[t]}
    /\ Done(t)
    /\ UNCHANGED <<lists, referCount, block, owners, owner, calls>>

-----------------------------------------------------------------------------
(* The blocks from b on in the list: b, and after each of them its next.     *)
Chain(b) ==
    {c \in Blocks : \A S \in SUBSET Blocks :
        (b # NoBlock => b \in S) /\ (\A d \in S : next[d] # NoBlock => next[d] \in S) => c \in S}

Listed == ({controlBlocks[i] : i \in 1 .. W} \ {NoBlock}) \cup Chain(recycleHead)

(* ReleaseObject; with the last reference ~TAllocator gives back the listed  *)
(* blocks.                                                                   *)
ReleaseObject ==
    /\ referCount' = referCount - 1
    /\ IF referCount = 1
       THEN /\ atRoot' = atRoot \cup Listed
            /\ controlBlocks' = [i \in 1 .. W |-> NoBlock] /\ recycleHead' = NoBlock
       ELSE UNCHANGED <<atRoot, controlBlocks, recycleHead>>
    /\ UNCHANGED <<recycleCount, block, local, owners, calls>>

Release(t) == Goes(t, "release", "idle") /\ ReleaseObject /\ UNCHANGED owner

(* The owner lets the allocator go when nobody is in Allocate.               *)
OwnerRelease ==
    /\ owner /\ \A t \in Threads : pc[t] = "idle" \/ after[t] = "release"
    /\ owner' = FALSE
    /\ ReleaseObject
    /\ UNCHANGED pc

Step(t) ==
    \/ Allocate(t) \/ TakeHead(t) \/ TakeRecycled(t) \/ Reinstall(t) \/ PushRest(t) \/ Popped(t)
    \/ Unmanage(t) \/ RootAllocate(t) \/ Search(t) \/ Claim(t) \/ Count(t) \/ Deallocate(t)
    \/ Recycle(t) \/ Manage(t) \/ List(t) \/ ListFails(t) \/ CountRecycled(t) \/ Push(t)
    \/ TryFree(t) \/ RootDeallocate(t) \/ Release(t)

Next == OwnerRelease \/ \E t \in Threads : Step(t)

Spec == Init /\ [][Next]_vars

-----------------------------------------------------------------------------
TypeOK ==
    /\ controlBlocks \in [1 .. W -> Blocks \cup {NoBlock}] /\ recycleHead \in Blocks \cup {NoBlock}
    /\ recycleCount \in Nat /\ referCount \in Nat
    /\ next \in [Blocks -> Blocks \cup {NoBlock}] /\ refCount \in [Blocks -> Nat]
    /\ managed \in [Blocks -> {0, 1}] /\ bitmap \in [Blocks -> SUBSET (1 .. Bits)]
    /\ atRoot \subseteq Blocks /\ owners \in [Blocks \X (1 .. Slots) -> Nat]

(* The assertions of the sources: a block taken from the list has a          *)
(* reference and is managed (TAllocator.h:222, 224), there is a reference to *)
(* give up (269, 280), a block that goes back is not listed (272), and one   *)
(* that is put on the list has no successor (293).                           *)
CodeAssertions ==
    /\ TypeOK
    /\ \A t \in Threads :
        /\ pc[t] = "popped" => refCount[p[t]] >= 1 /\ managed[p[t]] = 1
        /\ pc[t] \in {"recycle", "free"} => refCount[p[t]] # 0
        /\ pc[t] = "rootFree" => p[t] \notin Listed
        /\ pc[t] = "push" => next[p[t]] = NoBlock

(* Between calls a block is counted for what it is: one reference for each   *)
(* slot in use and one for being listed, which is what managed says; it is   *)
(* with the root allocator if there are none, and all are there once the     *)
(* allocator has gone (TAllocator.h:170-187; the assertion at 19).           *)
BlocksAccounted ==
    (\A t \in Threads : pc[t] = "idle") =>
        /\ \A b \in Blocks \ atRoot :
            /\ managed[b] = 1 <=> b \in Listed
            /\ refCount[b] = managed[b] + Cardinality({i \in 1 .. Slots : owners[<<b, i>>] > 0})
            /\ refCount[b] > 0
        /\ recycleCount = Cardinality(Chain(recycleHead)) \/ referCount = 0
        /\ referCount = 0 => atRoot = Blocks

(* No slot is given to two clients, and no block goes back under one.        *)
AbstractHeap == INSTANCE Heap WITH Places <- 1 .. Slots, reserved <- Blocks \ atRoot

ImplementsHeap == AbstractHeap!Spec

=============================================================================
