---------------------------- MODULE MemoryProofs ----------------------------
(***************************************************************************)
(* Proofs about TAllocator and TPool for any number of threads, blocks,    *)
(* slots, items, heads and calls.                                          *)
(*                                                                         *)
(* That no slot is given twice needs little more than the bitmap; that no  *)
(* block goes back under a client needs to be known what refCount counts   *)
(* at every moment, and so where each block is: in the lists once, or out  *)
(* of them with one thread, which has its reference.  The pool's count is  *)
(* the items it has less those that hang in it and are not counted yet.    *)
(***************************************************************************)
EXTENDS MCMemory, FiniteSetTheorems, SequenceTheorems, WellFoundedInduction, TLAPS

-----------------------------------------------------------------------------
(* Where a block is                                                          *)

(* Labels at which a thread has a reference to its block, ...                *)
Holding ==
    {"reinstall", "rest", "popped", "unmanage", "search", "claim", "count", "recycle", "manage",
     "list", "countRecycled", "push", "free"}

(* ... at which it has taken the rest of the list with it, ...               *)
Carrying == {"reinstall", "rest"}

(* ... at which the successor its block still names is its successor no more *)
(* and is in rest, or where rest has gone, ...                               *)
Popping == {"reinstall", "rest", "popped"}

(* ... and at which it has the block out of the lists, or not in them yet.   *)
Listing == Popping \cup {"unmanage", "list", "countRecycled", "push"}

Labels == {"idle", "heads", "recycled", "root", "rootFree", "release"} \cup Holding

Stale(c) == \E t \in Threads : p[t] = c /\ pc[t] \in Popping

(* Block b hangs in recycleHead, in what a thread carries, or behind another.*)
InChain(b) ==
    \/ recycleHead = b
    \/ \E t \in Threads : pc[t] \in Carrying /\ rest[t] = b
    \/ \E c \in Blocks : next[c] = b /\ ~Stale(c)

Linked(b) == InChain(b) \/ \E i \in 1 .. W : controlBlocks[i] = b

-----------------------------------------------------------------------------
(* The invariant                                                             *)

Typed ==
    /\ TypeOK
    /\ pc \in [Threads -> Labels] /\ p \in [Threads -> Blocks \cup {NoBlock}]
    /\ n \in [Threads -> 1 .. W] /\ rest \in [Threads -> Blocks \cup {NoBlock}]
    /\ bit \in [Threads -> Nat] /\ after \in [Threads -> {"idle", "heads", "release"}]
    /\ owners \in [Blocks \X (1 .. Slots) -> {0, 1}]
    /\ owner \in BOOLEAN

(* What a thread has at each label.                                          *)
LocalOf(t) ==
    /\ p[t] = NoBlock <=> pc[t] \in {"idle", "heads", "recycled", "root", "release"}
    /\ pc[t] = "rest" => rest[t] # NoBlock
    /\ pc[t] \in {"heads", "recycled", "reinstall", "rest", "popped", "unmanage", "root",
                  "search", "claim", "count"} => after[t] = "heads"
    /\ pc[t] \in {"recycle", "manage", "list", "countRecycled", "push"} => after[t] # "heads"
    /\ pc[t] = "release" => after[t] = "release"
    /\ pc[t] # "idle" /\ after[t] # "release" => owner
    /\ pc[t] = "claim" => bit[t] \in 1 .. Bits
    /\ pc[t] = "count" => bit[t] \in 1 .. Slots

Local == \A t \in Threads : LocalOf(t)

(* The slots of a block that have been claimed and counted.                  *)
Counting(s) == \E t \in Threads : pc[t] = "count" /\ <<p[t], bit[t]>> = s

InUse == {s \in Blocks \X (1 .. Slots) : owners[s] = 1 /\ ~Counting(s)}

InUseOf(b) == {i \in 1 .. Slots : <<b, i>> \in InUse}

(* A slot has an owner if its bit is set; a thread that is about to count it *)
(* is alone with it.                                                         *)
Claimed ==
    /\ \A b \in Blocks, i \in 1 .. Slots : owners[<<b, i>>] = 1 <=> i \in bitmap[b]
    /\ \A t \in Threads : pc[t] = "count" => owners[<<p[t], bit[t]>>] = 1
    /\ \A t, u \in Threads :
          pc[t] = "count" /\ pc[u] = "count" /\ p[t] = p[u] /\ bit[t] = bit[u] => t = u

(* A block is in one place: pointed at once, or in the hands of one thread.  *)
OnePlace ==
    /\ \A i, j \in 1 .. W : controlBlocks[i] # NoBlock /\ controlBlocks[i] = controlBlocks[j] => i = j
    /\ \A i \in 1 .. W : controlBlocks[i] # NoBlock => ~InChain(controlBlocks[i])
    /\ \A t \in Threads : pc[t] \in Carrying /\ rest[t] # NoBlock => rest[t] # recycleHead
    /\ \A c \in Blocks : ~Stale(c) /\ next[c] # NoBlock => next[c] # recycleHead
    /\ \A t, u \in Threads :
          pc[t] \in Carrying /\ pc[u] \in Carrying /\ rest[t] # NoBlock /\ rest[t] = rest[u] => t = u
    /\ \A t \in Threads, c \in Blocks :
          pc[t] \in Carrying /\ ~Stale(c) /\ next[c] # NoBlock => next[c] # rest[t]
    /\ \A c, d \in Blocks : ~Stale(c) /\ ~Stale(d) /\ next[c] # NoBlock /\ next[c] = next[d] => c = d
    /\ \A t \in Threads : pc[t] \in Listing => ~Linked(p[t])
    /\ \A t, u \in Threads : pc[t] \in Listing /\ pc[u] \in Listing /\ p[t] = p[u] => t = u

(* Only a block in a chain has a successor, ...                              *)
Successors == \A c \in Blocks : next[c] # NoBlock => InChain(c) \/ Stale(c)

(* ... and no chain is closed.                                               *)
Ordered(rank) ==
    \A c \in Blocks : ~Stale(c) /\ next[c] # NoBlock => rank[c] < rank[next[c]]

Acyclic == \E rank \in [Blocks -> Int] : Ordered(rank)

Managed ==
    \A b \in Blocks :
        managed[b] = 1 <=> Linked(b) \/ \E t \in Threads : p[t] = b /\ pc[t] \in Listing

Holders(b) == {t \in Threads : p[t] = b /\ pc[t] \in Holding}

One(condition) == IF condition THEN 1 ELSE 0

(* What refCount counts, ...                                                 *)
References ==
    \A b \in Blocks :
        refCount[b] = One(Linked(b)) + Cardinality(InUseOf(b)) + Cardinality(Holders(b))

(* ... referCount, ...                                                       *)
Releasing == {t \in Threads : pc[t] # "idle" /\ after[t] = "release"}

Refers == referCount = One(owner) + Cardinality(InUse) + Cardinality(Releasing)

(* ... and recycleCount.                                                     *)
Recycled ==
    {b \in Blocks : \/ InChain(b)
                    \/ \E t \in Threads : p[t] = b /\ pc[t] \in Popping \cup {"push"}}

RecycledCounted == recycleCount = Cardinality(Recycled)

(* A block without a reference is with the root allocator, or on its way.    *)
AtRoot ==
    /\ \A b \in atRoot : refCount[b] = 0
    /\ \A b \in Blocks \ atRoot :
          refCount[b] = 0 => \E t \in Threads : p[t] = b /\ pc[t] = "rootFree"
    /\ \A t \in Threads : pc[t] = "rootFree" => refCount[p[t]] = 0 /\ p[t] \notin atRoot
    /\ \A t, u \in Threads : pc[t] = "rootFree" /\ pc[u] = "rootFree" /\ p[t] = p[u] => t = u

InService ==
    /\ Local /\ Claimed /\ OnePlace /\ Successors /\ Acyclic /\ Managed
    /\ References /\ Refers /\ RecycledCounted /\ AtRoot

Busy == Typed /\ referCount # 0 /\ InService

(* The last reference to the allocator has gone.                             *)
Over ==
    /\ referCount = 0 /\ ~owner /\ atRoot = Blocks
    /\ \A t \in Threads : pc[t] = "idle"
    /\ \A s \in Blocks \X (1 .. Slots) : owners[s] = 0

IInv == Busy \/ (Typed /\ Over)

-----------------------------------------------------------------------------
(* Counting                                                                  *)

(* By how much the size of a set changes if one element moves.               *)
LEMMA SetMoves ==
    ASSUME NEW S, NEW T, NEW x, IsFiniteSet(S), \A y : y # x => (y \in S <=> y \in T)
    PROVE  /\ IsFiniteSet(T) /\ Cardinality(S) \in Nat /\ Cardinality(T) \in Nat
           /\ (x \in S <=> x \in T) => Cardinality(T) = Cardinality(S)
           /\ x \in S /\ x \notin T => Cardinality(T) = Cardinality(S) - 1
           /\ x \notin S /\ x \in T => Cardinality(T) = Cardinality(S) + 1
  <1>1. CASE x \in S <=> x \in T
    <2>1. S = T
      BY <1>1
    <2> QED
      BY <1>1, <2>1, FS_CardinalityType
  <1>2. CASE x \in S /\ x \notin T
    <2>1. T = S \ {x}
      BY <1>2
    <2> QED
      BY <1>2, <2>1, FS_RemoveElement, FS_CardinalityType
  <1>3. CASE x \notin S /\ x \in T
    <2>1. T = S \cup {x}
      BY <1>3
    <2> QED
      BY <1>3, <2>1, FS_AddElement, FS_CardinalityType
  <1> QED
    BY <1>1, <1>2, <1>3

(* The state of no thread but t changes.                                     *)
Others(t) ==
    \A u \in Threads \ {t} :
        /\ pc'[u] = pc[u] /\ p'[u] = p[u] /\ n'[u] = n[u]
        /\ rest'[u] = rest[u] /\ bit'[u] = bit[u] /\ after'[u] = after[u]

LEMMA HoldersMove ==
    ASSUME NEW t \in Threads, Others(t), NEW b
    PROVE  /\ IsFiniteSet(Holders(b)) /\ IsFiniteSet(Holders(b)')
           /\ Cardinality(Holders(b)) \in Nat /\ Cardinality(Holders(b)') \in Nat
           /\ (t \in Holders(b) <=> t \in Holders(b)')
                 => Cardinality(Holders(b)') = Cardinality(Holders(b))
           /\ t \in Holders(b) /\ t \notin Holders(b)'
                 => Cardinality(Holders(b)') = Cardinality(Holders(b)) - 1
           /\ t \notin Holders(b) /\ t \in Holders(b)'
                 => Cardinality(Holders(b)') = Cardinality(Holders(b)) + 1
  <1>1. IsFiniteSet(Holders(b))
    BY TAllocatorAssumption, FS_Subset DEF Holders
  <1>2. \A y : y # t => (y \in Holders(b) <=> y \in Holders(b)')
    BY DEF Others, Holders
  <1> QED
    BY <1>1, <1>2, SetMoves

LEMMA ReleasingMoves ==
    ASSUME NEW t \in Threads, Others(t)
    PROVE  /\ IsFiniteSet(Releasing)
           /\ Cardinality(Releasing) \in Nat /\ Cardinality(Releasing') \in Nat
           /\ (t \in Releasing <=> t \in Releasing')
                 => Cardinality(Releasing') = Cardinality(Releasing)
           /\ t \in Releasing /\ t \notin Releasing'
                 => Cardinality(Releasing') = Cardinality(Releasing) - 1
           /\ t \notin Releasing /\ t \in Releasing'
                 => Cardinality(Releasing') = Cardinality(Releasing) + 1
  <1>1. IsFiniteSet(Releasing)
    BY TAllocatorAssumption, FS_Subset DEF Releasing
  <1>2. \A y : y # t => (y \in Releasing <=> y \in Releasing')
    BY DEF Others, Releasing
  <1> QED
    BY <1>1, <1>2, SetMoves

LEMMA RecycledMoves ==
    ASSUME NEW b, \A c \in Blocks \ {b} : c \in Recycled <=> c \in Recycled'
    PROVE  /\ IsFiniteSet(Recycled)
           /\ Cardinality(Recycled) \in Nat /\ Cardinality(Recycled') \in Nat
           /\ (b \in Recycled <=> b \in Recycled')
                 => Cardinality(Recycled') = Cardinality(Recycled)
           /\ b \in Recycled /\ b \notin Recycled'
                 => Cardinality(Recycled') = Cardinality(Recycled) - 1
           /\ b \notin Recycled /\ b \in Recycled'
                 => Cardinality(Recycled') = Cardinality(Recycled) + 1
  <1>1. IsFiniteSet(Recycled)
    BY TAllocatorAssumption, FS_Subset DEF Recycled
  <1>2. \A y : y # b => (y \in Recycled <=> y \in Recycled')
    BY DEF Recycled
  <1> QED
    BY <1>1, <1>2, SetMoves

(* The slots in use, all of them and those of a block, if only s changes.    *)
LEMMA SlotsFinite == IsFiniteSet(Blocks \X (1 .. Slots)) /\ IsFiniteSet(1 .. Slots)
  <1>1. IsFiniteSet(1 .. Slots)
    BY TAllocatorAssumption, FS_Interval
  <1> QED
    BY <1>1, TAllocatorAssumption, FS_Product

LEMMA InUseMoves ==
    ASSUME NEW b \in Blocks, NEW i \in 1 .. Slots,
           \A c \in Blocks, j \in 1 .. Slots :
              c # b \/ j # i => (<<c, j>> \in InUse <=> <<c, j>> \in InUse')
    PROVE  /\ Cardinality(InUse) \in Nat /\ Cardinality(InUse') \in Nat
           /\ Cardinality(InUseOf(b)) \in Nat /\ Cardinality(InUseOf(b)') \in Nat
           /\ \A c \in Blocks \ {b} : Cardinality(InUseOf(c)') = Cardinality(InUseOf(c))
           /\ (<<b, i>> \in InUse <=> <<b, i>> \in InUse')
                 => /\ Cardinality(InUse') = Cardinality(InUse)
                    /\ Cardinality(InUseOf(b)') = Cardinality(InUseOf(b))
           /\ <<b, i>> \in InUse /\ <<b, i>> \notin InUse'
                 => /\ Cardinality(InUse') = Cardinality(InUse) - 1
                    /\ Cardinality(InUseOf(b)') = Cardinality(InUseOf(b)) - 1
           /\ <<b, i>> \notin InUse /\ <<b, i>> \in InUse'
                 => /\ Cardinality(InUse') = Cardinality(InUse) + 1
                    /\ Cardinality(InUseOf(b)') = Cardinality(InUseOf(b)) + 1
  <1>1. IsFiniteSet(InUse) /\ IsFiniteSet(InUseOf(b))
    BY SlotsFinite, FS_Subset DEF InUse, InUseOf
  <1>2. \A y : y # <<b, i>> => (y \in InUse <=> y \in InUse')
    BY DEF InUse
  <1>3. \A j : j # i => (j \in InUseOf(b) <=> j \in InUseOf(b)')
    BY DEF InUseOf
  <1>4. ASSUME NEW c \in Blocks \ {b} PROVE InUseOf(c)' = InUseOf(c)
    BY DEF InUseOf
  <1>5. (i \in InUseOf(b) <=> <<b, i>> \in InUse) /\ (i \in InUseOf(b)' <=> <<b, i>> \in InUse')
    BY DEF InUseOf
  <1>6. /\ Cardinality(InUse) \in Nat /\ Cardinality(InUse') \in Nat
        /\ (<<b, i>> \in InUse <=> <<b, i>> \in InUse') => Cardinality(InUse') = Cardinality(InUse)
        /\ <<b, i>> \in InUse /\ <<b, i>> \notin InUse'
              => Cardinality(InUse') = Cardinality(InUse) - 1
        /\ <<b, i>> \notin InUse /\ <<b, i>> \in InUse'
              => Cardinality(InUse') = Cardinality(InUse) + 1
    BY <1>1, <1>2, SetMoves
  <1>7. /\ Cardinality(InUseOf(b)) \in Nat /\ Cardinality(InUseOf(b)') \in Nat
        /\ (i \in InUseOf(b) <=> i \in InUseOf(b)')
              => Cardinality(InUseOf(b)') = Cardinality(InUseOf(b))
        /\ i \in InUseOf(b) /\ i \notin InUseOf(b)'
              => Cardinality(InUseOf(b)') = Cardinality(InUseOf(b)) - 1
        /\ i \notin InUseOf(b) /\ i \in InUseOf(b)'
              => Cardinality(InUseOf(b)') = Cardinality(InUseOf(b)) + 1
    BY <1>1, <1>3, SetMoves
  <1> QED
    BY <1>4, <1>5, <1>6, <1>7

(* A block without references is nowhere.                                    *)
LEMMA Unreferenced ==
    ASSUME Typed, References, NEW b \in Blocks
    PROVE  /\ Cardinality(InUseOf(b)) \in Nat /\ Cardinality(Holders(b)) \in Nat
           /\ refCount[b] = 0 => ~Linked(b) /\ InUseOf(b) = {} /\ Holders(b) = {}
           /\ Holders(b) # {} => refCount[b] >= 1
           /\ \A t : refCount[b] = 1 /\ t \in Holders(b) =>
                 ~Linked(b) /\ InUseOf(b) = {} /\ Holders(b) = {t}
  <1>1. IsFiniteSet(InUseOf(b)) /\ IsFiniteSet(Holders(b))
    BY SlotsFinite, TAllocatorAssumption, FS_Subset DEF InUseOf, Holders
  <1>2. /\ Cardinality(InUseOf(b)) \in Nat /\ Cardinality(Holders(b)) \in Nat
        /\ Cardinality(InUseOf(b)) = 0 <=> InUseOf(b) = {}
        /\ Cardinality(Holders(b)) = 0 <=> Holders(b) = {}
    BY <1>1, FS_CardinalityType, FS_EmptySet
  <1>3. refCount[b] = One(Linked(b)) + Cardinality(InUseOf(b)) + Cardinality(Holders(b))
    BY DEF References
  <1>4. One(Linked(b)) \in {0, 1} /\ (One(Linked(b)) = 0 <=> ~Linked(b))
    BY DEF One
  <1>5. ASSUME NEW t, refCount[b] = 1, t \in Holders(b)
        PROVE  ~Linked(b) /\ InUseOf(b) = {} /\ Holders(b) = {t}
    <2>1. Cardinality(Holders(b)) = 1 /\ One(Linked(b)) = 0 /\ Cardinality(InUseOf(b)) = 0
      BY <1>2, <1>3, <1>4, <1>5
    <2>2. PICK x : Holders(b) = {x}
      BY <1>1, <2>1, FS_Singleton
    <2> QED
      BY <1>2, <1>4, <1>5, <2>1, <2>2
  <1> QED
    BY <1>2, <1>3, <1>4, <1>5

-----------------------------------------------------------------------------
(* Steps that leave the lists alone                                          *)

LEMMA ChainsStay ==
    ASSUME NEW t \in Threads, Others(t), pc[t] \notin Popping, pc'[t] \notin Popping,
           recycleHead' = recycleHead, next' = next
    PROVE  /\ \A b : Stale(b)' <=> Stale(b)
           /\ \A b : InChain(b)' <=> InChain(b)
  <1>1. \A b : Stale(b)' <=> Stale(b)
    BY DEF Others, Stale
  <1>2. \A u \in Threads : /\ pc'[u] \in Carrying <=> pc[u] \in Carrying
                           /\ pc[u] \in Carrying => rest'[u] = rest[u]
    BY DEF Others, Popping, Carrying
  <1>3. \A b : InChain(b)' <=> InChain(b)
    BY <1>1, <1>2 DEF InChain
  <1> QED
    BY <1>1, <1>3

LEMMA PlacesStay ==
    ASSUME NEW t \in Threads, Others(t), pc[t] \notin Popping, pc'[t] \notin Popping,
           controlBlocks' = controlBlocks, recycleHead' = recycleHead, next' = next
    PROVE  /\ \A b : Stale(b)' <=> Stale(b)
           /\ \A b : InChain(b)' <=> InChain(b)
           /\ \A b : Linked(b)' <=> Linked(b)
  BY ChainsStay DEF Linked

(* A thread that comes to have the place of a block finds it in no list.     *)
LEMMA ListsKept ==
    ASSUME Busy, NEW t \in Threads, Others(t), pc[t] \notin Popping, pc'[t] \notin Popping,
           controlBlocks' = controlBlocks, recycleHead' = recycleHead, next' = next,
           pc'[t] \in Listing =>
              ~Linked(p'[t]) /\ \A u \in Threads \ {t} : ~(pc[u] \in Listing /\ p[u] = p'[t])
    PROVE  OnePlace' /\ Successors' /\ Acyclic'
  <1>1. /\ \A b : Stale(b)' <=> Stale(b)
        /\ \A b : InChain(b)' <=> InChain(b)
        /\ \A b : Linked(b)' <=> Linked(b)
    BY PlacesStay
  <1>2. \A u \in Threads : /\ pc'[u] \in Carrying <=> pc[u] \in Carrying
                           /\ pc[u] \in Carrying => rest'[u] = rest[u]
    BY DEF Others, Popping, Carrying
  <1>3. OnePlace /\ Successors /\ Acyclic
    BY DEF Busy, InService
  <1>4. \A u \in Threads : pc'[u] \in Listing => ~Linked(p[u])'
    <2> SUFFICES ASSUME NEW u \in Threads, pc'[u] \in Listing
                 PROVE  ~Linked(p[u])'
      OBVIOUS
    <2>1. ~Linked(p'[u])
      BY <1>3 DEF OnePlace, Others
    <2>2. \A b : b = p'[u] => ~Linked(b)'
      BY <1>1, <2>1
    <2> QED
      BY <2>2
  <1>5. \A u, v \in Threads : pc'[u] \in Listing /\ pc'[v] \in Listing /\ p'[u] = p'[v] => u = v
    BY <1>3 DEF OnePlace, Others
  <1>6. OnePlace'
    BY <1>1, <1>2, <1>3, <1>4, <1>5 DEF OnePlace
  <1>7. Successors'
    BY <1>1, <1>3 DEF Successors
  <1>8. Acyclic'
    BY <1>1, <1>3 DEF Acyclic, Ordered
  <1> QED
    BY <1>6, <1>7, <1>8

LEMMA LocalKept ==
    ASSUME Local, NEW t \in Threads, Others(t), owner' = owner, LocalOf(t)'
    PROVE  Local'
  <1>1. ASSUME NEW u \in Threads \ {t} PROVE LocalOf(u)'
    <2>1. LocalOf(u)
      BY DEF Local
    <2> QED
      BY <2>1 DEF LocalOf, Others
  <1> QED
    BY <1>1 DEF Local

(* The slots stay as they are if t neither comes to count one nor has.       *)
LEMMA ClaimedKept ==
    ASSUME Claimed, NEW t \in Threads, Others(t), pc[t] # "count", pc'[t] # "count",
           owners' = owners
    PROVE  /\ \A s : Counting(s)' <=> Counting(s)
           /\ InUse' = InUse /\ \A b : InUseOf(b)' = InUseOf(b)
           /\ bitmap' = bitmap => Claimed'
  <1>1. \A s : Counting(s)' <=> Counting(s)
    BY DEF Counting, Others
  <1>2. InUse' = InUse
    BY <1>1 DEF InUse
  <1>3. \A b : InUseOf(b)' = InUseOf(b)
    BY <1>2 DEF InUseOf
  <1>4. ASSUME bitmap' = bitmap PROVE Claimed'
    BY <1>4 DEF Claimed, Others
  <1> QED
    BY <1>1, <1>2, <1>3, <1>4

(* The same for what is counted and for the blocks of the root allocator.    *)
LEMMA ReferencesKept ==
    ASSUME References, NEW t \in Threads, Others(t), refCount' = refCount,
           \A b : InUseOf(b)' = InUseOf(b), \A b \in Blocks : Linked(b)' <=> Linked(b),
           \A b : t \in Holders(b) <=> t \in Holders(b)'
    PROVE  References'
  <1>1. \A b : Holders(b)' = Holders(b)
    BY DEF Holders, Others
  <1> QED
    BY <1>1 DEF References, One

LEMMA RefersKept ==
    ASSUME Refers, NEW t \in Threads, Others(t), referCount' = referCount, owner' = owner,
           InUse' = InUse, t \in Releasing <=> t \in Releasing'
    PROVE  Refers'
  <1>1. Releasing' = Releasing
    BY DEF Releasing, Others
  <1> QED
    BY <1>1 DEF Refers, One

LEMMA RecycledKept ==
    ASSUME RecycledCounted, NEW t \in Threads, Others(t), recycleCount' = recycleCount,
           \A b : InChain(b)' <=> InChain(b),
           pc[t] \notin Popping \cup {"push"}, pc'[t] \notin Popping \cup {"push"}
    PROVE  RecycledCounted'
  <1>1. Recycled' = Recycled
    BY DEF Recycled, Others
  <1> QED
    BY <1>1 DEF RecycledCounted

LEMMA AtRootKept ==
    ASSUME Typed, Local, AtRoot, NEW t \in Threads, Others(t), atRoot' = atRoot,
           \A c \in Blocks : refCount'[c] = 0 <=> refCount[c] = 0,
           pc[t] # "rootFree", pc'[t] # "rootFree"
    PROVE  AtRoot'
  <1>1. \A u \in Threads : /\ pc'[u] = "rootFree" <=> pc[u] = "rootFree"
                           /\ pc[u] = "rootFree" => p'[u] = p[u] /\ p[u] \in Blocks
    BY DEF Others, Typed, Local, LocalOf
  <1>2. \A b \in atRoot' : refCount'[b] = 0
    BY DEF AtRoot, Typed, TypeOK
  <1>3. \A b \in Blocks \ atRoot' :
           refCount'[b] = 0 => \E u \in Threads : p'[u] = b /\ pc'[u] = "rootFree"
    BY <1>1 DEF AtRoot
  <1>4. \A u \in Threads : pc'[u] = "rootFree" => refCount'[p'[u]] = 0 /\ p'[u] \notin atRoot'
    BY <1>1 DEF AtRoot
  <1>5. \A u, v \in Threads : pc'[u] = "rootFree" /\ pc'[v] = "rootFree" /\ p'[u] = p'[v] => u = v
    BY <1>1 DEF AtRoot
  <1> QED
    BY <1>2, <1>3, <1>4, <1>5 DEF AtRoot

(* A step that moves no block and no reference.                              *)
Quiet(t) ==
    /\ UNCHANGED <<lists, referCount, block, atRoot, owners, owner>>
    /\ Others(t) /\ p'[t] = p[t]
    /\ {pc[t], pc'[t]} \cap (Popping \cup {"count", "push", "rootFree"}) = {}
    /\ pc[t] \in Holding <=> pc'[t] \in Holding
    /\ pc[t] \in Listing <=> pc'[t] \in Listing
    /\ t \in Releasing <=> t \in Releasing'

LEMMA QuietKeeps ==
    ASSUME Busy, NEW t \in Threads, Quiet(t), Typed', LocalOf(t)'
    PROVE  Busy'
  <1>0. /\ Typed /\ Typed' /\ InService
        /\ controlBlocks' = controlBlocks /\ recycleHead' = recycleHead
        /\ recycleCount' = recycleCount /\ referCount' = referCount
        /\ next' = next /\ refCount' = refCount /\ managed' = managed /\ bitmap' = bitmap
        /\ atRoot' = atRoot /\ owners' = owners /\ owner' = owner /\ Others(t)
    BY DEF Busy, Quiet, lists, block
  <1>n. /\ pc[t] \notin Popping /\ pc[t] # "count" /\ pc[t] # "push" /\ pc[t] # "rootFree"
        /\ pc'[t] \notin Popping /\ pc'[t] # "count" /\ pc'[t] # "push" /\ pc'[t] # "rootFree"
        /\ pc[t] \in Holding <=> pc'[t] \in Holding
        /\ pc[t] \in Listing <=> pc'[t] \in Listing
        /\ p'[t] = p[t]
    BY DEF Quiet
  <1>q. p' = p
    <2>1. \A u \in Threads : p'[u] = p[u]
      BY <1>0, <1>n DEF Others
    <2>2. p \in [Threads -> Blocks \cup {NoBlock}] /\ p' \in [Threads -> Blocks \cup {NoBlock}]
      BY <1>0 DEF Typed
    <2> QED
      BY <2>1, <2>2
  <1>p. /\ \A b : Stale(b)' <=> Stale(b)
        /\ \A b : InChain(b)' <=> InChain(b)
        /\ \A b : Linked(b)' <=> Linked(b)
    BY <1>0, <1>n, PlacesStay
  <1>1. Local'
    BY <1>0, LocalKept DEF InService
  <1>2. Claimed' /\ InUse' = InUse /\ \A b : InUseOf(b)' = InUseOf(b)
    BY <1>0, <1>n, ClaimedKept DEF InService
  <1>3. OnePlace' /\ Successors' /\ Acyclic'
    <2>1. pc'[t] \in Listing =>
              ~Linked(p'[t]) /\ \A u \in Threads \ {t} : ~(pc[u] \in Listing /\ p[u] = p'[t])
      BY <1>0, <1>n DEF InService, OnePlace
    <2> QED
      BY <1>0, <1>n, <2>1, ListsKept
  <1>4. Managed'
    <2>1. \A u \in Threads : pc'[u] \in Listing <=> pc[u] \in Listing
      BY <1>0, <1>n DEF Others
    <2> QED
      BY <1>0, <1>p, <1>q, <2>1 DEF InService, Managed
  <1>5. References'
    <2>1. \A b : t \in Holders(b) <=> t \in Holders(b)'
      BY <1>n DEF Holders
    <2> QED
      BY <1>0, <1>p, <1>2, <2>1, ReferencesKept DEF InService
  <1>6. Refers'
    BY <1>0, <1>2, RefersKept DEF InService, Quiet
  <1>7. RecycledCounted'
    BY <1>0, <1>n, <1>p, RecycledKept DEF InService
  <1>8. AtRoot'
    BY <1>0, <1>n, AtRootKept DEF InService
  <1> QED
    BY <1>0, <1>1, <1>2, <1>3, <1>4, <1>5, <1>6, <1>7, <1>8 DEF Busy, InService

-----------------------------------------------------------------------------
(* Steps between the lists                                                   *)

(* A set of numbers has a smallest one.                                      *)
LEMMA Smallest ==
    ASSUME NEW T \in SUBSET Nat, T # {}
    PROVE  \E m \in T : \A k \in T : m <= k
  <1>1. \E m \in T : \A k \in T : ~(<<k, m>> \in OpToRel(<, Nat))
    BY NatLessThanWellFounded, WFMin, Zenon
  <1>2. PICK m \in T : \A k \in T : ~(k < m)
    BY <1>1, Zenon DEF OpToRel
  <1> QED
    BY <1>2

LEMMA AllocateKeeps ==
    ASSUME Busy, NEW t \in Threads, Allocate(t)
    PROVE  Busy'
  <1>1. /\ Typed /\ LocalOf(t)
        /\ pc[t] = "idle" /\ pc' = [pc EXCEPT ![t] = "heads"]
        /\ after' = [after EXCEPT ![t] = "heads"]
        /\ owner /\ UNCHANGED <<lists, referCount, block, atRoot, p, n, rest, bit, owners, owner>>
    BY DEF Busy, InService, Local, Allocate, Goes, Set
  <1>2. Typed'
    BY <1>1 DEF Typed, TypeOK, Labels, lists, block
  <1>3. LocalOf(t)'
    BY <1>1, <1>2 DEF LocalOf, Typed
  <1>4. Others(t)
    BY <1>1 DEF Typed, Others
  <1>5. Quiet(t)
    BY <1>1, <1>4 DEF Quiet, Typed, Popping, Holding, Listing, Releasing
  <1> QED
    BY <1>2, <1>3, <1>5, QuietKeeps

(* The place n[t] is empty.                                                  *)
LEMMA TakeNoHeadKeeps ==
    ASSUME Busy, NEW t \in Threads, TakeHead(t), controlBlocks[n[t]] = NoBlock
    PROVE  Busy'
  <1>0. Typed /\ LocalOf(t)
    BY DEF Busy, InService, Local
  <1>1. /\ pc[t] = "heads" /\ pc' = [pc EXCEPT ![t] = IF n[t] < W THEN "heads" ELSE "recycled"]
        /\ p' = [p EXCEPT ![t] = NoBlock]
        /\ controlBlocks' = [controlBlocks EXCEPT ![n[t]] = NoBlock]
        /\ n' = [n EXCEPT ![t] = IF n[t] < W THEN n[t] + 1 ELSE 1]
        /\ UNCHANGED <<recycleHead, recycleCount, referCount, block, atRoot, rest, bit, after, owners, owner>>
    BY DEF TakeHead, Goes, Set
  <1>2. n[t] \in 1 .. W /\ W \in Nat /\ controlBlocks \in [1 .. W -> Blocks \cup {NoBlock}]
    BY <1>0, TAllocatorAssumption DEF Typed, TypeOK
  <1>3. controlBlocks' = controlBlocks
    BY <1>1, <1>2
  <1>4. Typed'
    <2>1. n' \in [Threads -> 1 .. W]
      BY <1>0, <1>1, <1>2 DEF Typed
    <2>2. pc' \in [Threads -> Labels] /\ p' \in [Threads -> Blocks \cup {NoBlock}]
      BY <1>0, <1>1 DEF Typed, Labels
    <2> QED
      BY <1>0, <1>1, <1>3, <2>1, <2>2 DEF Typed, TypeOK, block
  <1>5. p[t] = NoBlock /\ p' = p
    BY <1>0, <1>1 DEF LocalOf, Typed
  <1>6. LocalOf(t)'
    BY <1>0, <1>1, <1>5 DEF LocalOf, Typed
  <1>7. Others(t)
    BY <1>0, <1>1 DEF Typed, Others
  <1>8. Quiet(t)
    BY <1>0, <1>1, <1>3, <1>5, <1>7
       DEF Quiet, Typed, Popping, Holding, Listing, Releasing, lists
  <1> QED
    BY <1>4, <1>6, <1>8, QuietKeeps

LEMMA TakeNoneRecycledKeeps ==
    ASSUME Busy, NEW t \in Threads, TakeRecycled(t), recycleHead = NoBlock
    PROVE  Busy'
  <1>0. Typed /\ LocalOf(t)
    BY DEF Busy, InService, Local
  <1>1. /\ pc[t] = "recycled" /\ pc' = [pc EXCEPT ![t] = "root"]
        /\ p' = [p EXCEPT ![t] = NoBlock] /\ rest' = [rest EXCEPT ![t] = NoBlock]
        /\ recycleHead' = recycleHead
        /\ UNCHANGED <<controlBlocks, recycleCount, referCount, block, atRoot, n, bit, after, owners, owner>>
    BY DEF TakeRecycled, Goes, Set
  <1>2. Typed'
    BY <1>0, <1>1 DEF Typed, TypeOK, Labels, block
  <1>3. p[t] = NoBlock /\ p' = p
    BY <1>0, <1>1 DEF LocalOf, Typed
  <1>4. LocalOf(t)'
    BY <1>0, <1>1, <1>3 DEF LocalOf, Typed
  <1>5. Others(t)
    BY <1>0, <1>1 DEF Typed, Others
  <1>6. Quiet(t)
    BY <1>0, <1>1, <1>3, <1>5 DEF Quiet, Typed, Popping, Holding, Listing, Releasing, lists
  <1> QED
    BY <1>2, <1>4, <1>6, QuietKeeps

LEMMA SearchKeeps ==
    ASSUME Busy, NEW t \in Threads, Search(t)
    PROVE  Busy'
  <1>0. Typed /\ LocalOf(t)
    BY DEF Busy, InService, Local
  <1>1. /\ pc[t] = "search"
        /\ UNCHANGED <<lists, referCount, block, atRoot, p, n, rest, after, owners, owner>>
    BY DEF Search, Goes
  <1>2. PICK label, i :
           /\ pc' = [pc EXCEPT ![t] = label] /\ bit' = [bit EXCEPT ![t] = i]
           /\ label \in {"claim", "free"} /\ i \in Nat
           /\ label = "claim" => i \in 1 .. Bits
    <2>1. CASE Clear(p[t]) = {}
      <3>1. pc' = [pc EXCEPT ![t] = "free"] /\ bit' = [bit EXCEPT ![t] = 1]
        BY <2>1 DEF Search, Goes, Set
      <3>2. "free" \in {"claim", "free"} /\ 1 \in Nat /\ "free" # "claim"
        OBVIOUS
      <3> QED
        BY <3>1, <3>2, Zenon
    <2>2. CASE Clear(p[t]) # {}
      <3> DEFINE i == CHOOSE i \in Clear(p[t]) : \A j \in Clear(p[t]) : i <= j
      <3>1. Clear(p[t]) \in SUBSET (1 .. Bits) /\ Clear(p[t]) \in SUBSET Nat
        BY TAllocatorAssumption DEF Clear
      <3>2. \E k \in Clear(p[t]) : \A j \in Clear(p[t]) : k <= j
        BY <2>2, <3>1, Smallest
      <3>3. i \in Clear(p[t])
        BY <3>2
      <3>4. pc' = [pc EXCEPT ![t] = "claim"] /\ bit' = [bit EXCEPT ![t] = i]
        BY <2>2 DEF Search, Goes, Set
      <3>5. i \in 1 .. Bits /\ i \in Nat
        BY <3>1, <3>3
      <3> HIDE DEF i
      <3> QED
        BY <3>4, <3>5
    <2> QED
      BY <2>1, <2>2
  <1>3. Typed'
    BY <1>0, <1>1, <1>2 DEF Typed, TypeOK, Labels, Holding, lists, block
  <1>4. LocalOf(t)'
    BY <1>0, <1>1, <1>2, <1>3 DEF LocalOf, Typed
  <1>5. Others(t)
    BY <1>0, <1>1, <1>2 DEF Typed, Others
  <1>6. Quiet(t)
    BY <1>0, <1>1, <1>2, <1>5 DEF Quiet, Typed, Popping, Holding, Listing, Releasing
  <1> QED
    BY <1>3, <1>4, <1>6, QuietKeeps

LEMMA RecycleKeeps ==
    ASSUME Busy, NEW t \in Threads, Recycle(t)
    PROVE  Busy'
  <1>0. Typed /\ LocalOf(t)
    BY DEF Busy, InService, Local
  <1>1. /\ pc[t] = "recycle"
        /\ pc' = [pc EXCEPT ![t] = "manage"] \/ pc' = [pc EXCEPT ![t] = "free"]
        /\ UNCHANGED <<lists, referCount, block, atRoot, p, n, rest, bit, after, owners, owner>>
    BY DEF Recycle, Goes, local
  <1>2. Typed'
    BY <1>0, <1>1 DEF Typed, TypeOK, Labels, Holding, lists, block
  <1>3. LocalOf(t)'
    BY <1>0, <1>1 DEF LocalOf, Typed
  <1>4. Others(t)
    BY <1>0, <1>1 DEF Typed, Others
  <1>5. Quiet(t)
    BY <1>0, <1>1, <1>4 DEF Quiet, Typed, Popping, Holding, Listing, Releasing
  <1> QED
    BY <1>2, <1>3, <1>5, QuietKeeps

LEMMA ListFailsKeeps ==
    ASSUME Busy, NEW t \in Threads, ListFails(t)
    PROVE  Busy'
  <1>0. Typed /\ LocalOf(t)
    BY DEF Busy, InService, Local
  <1>1. /\ pc[t] = "list"
        /\ pc' = [pc EXCEPT ![t] = IF n[t] < W THEN "list" ELSE "countRecycled"]
        /\ n' = [n EXCEPT ![t] = IF n[t] < W THEN n[t] + 1 ELSE 1]
        /\ UNCHANGED <<lists, referCount, block, atRoot, p, rest, bit, after, owners, owner>>
    BY DEF ListFails, Goes, Set
  <1>2. Typed'
    <2>1. n' \in [Threads -> 1 .. W]
      <3>1. n[t] \in 1 .. W /\ W \in Nat /\ n \in [Threads -> 1 .. W]
        BY <1>0, TAllocatorAssumption DEF Typed
      <3>2. (IF n[t] < W THEN n[t] + 1 ELSE 1) \in 1 .. W
        BY <3>1
      <3> QED
        BY <1>1, <3>1, <3>2
    <2>2. pc' \in [Threads -> Labels]
      BY <1>0, <1>1 DEF Typed, Labels, Holding
    <2> QED
      BY <1>0, <1>1, <2>1, <2>2 DEF Typed, TypeOK, lists, block
  <1>3. LocalOf(t)'
    BY <1>0, <1>1 DEF LocalOf, Typed
  <1>4. Others(t)
    BY <1>0, <1>1 DEF Typed, Others
  <1>5. Quiet(t)
    BY <1>0, <1>1, <1>4 DEF Quiet, Typed, Popping, Holding, Listing, Releasing
  <1> QED
    BY <1>2, <1>3, <1>5, QuietKeeps

(* The block is managed already.                                             *)
LEMMA ManageLateKeeps ==
    ASSUME Busy, NEW t \in Threads, Manage(t), managed[p[t]] # 0
    PROVE  Busy'
  <1>0. Typed /\ LocalOf(t)
    BY DEF Busy, InService, Local
  <1>1. /\ pc[t] = "manage" /\ pc' = [pc EXCEPT ![t] = "free"]
        /\ n' = [n EXCEPT ![t] = 1] /\ managed' = [managed EXCEPT ![p[t]] = 1]
        /\ UNCHANGED <<lists, referCount, next, refCount, bitmap, atRoot, p, rest, bit, after, owners, owner>>
    BY DEF Manage, Goes, Set
  <1>2. managed' = managed
    <2>1. p[t] \in Blocks /\ managed \in [Blocks -> {0, 1}]
      BY <1>0, <1>1 DEF LocalOf, Typed, TypeOK
    <2> QED
      BY <1>1, <2>1
  <1>3. Typed'
    <2>1. n' \in [Threads -> 1 .. W]
      BY <1>0, <1>1, TAllocatorAssumption DEF Typed
    <2> QED
      BY <1>0, <1>1, <1>2, <2>1 DEF Typed, TypeOK, Labels, Holding, lists
  <1>4. LocalOf(t)'
    BY <1>0, <1>1 DEF LocalOf, Typed
  <1>5. Others(t)
    BY <1>0, <1>1 DEF Typed, Others
  <1>6. Quiet(t)
    BY <1>0, <1>1, <1>2, <1>5 DEF Quiet, Typed, Popping, Holding, Listing, Releasing, block
  <1> QED
    BY <1>3, <1>4, <1>6, QuietKeeps

-----------------------------------------------------------------------------
(* Steps that move references and leave the lists alone                      *)

LEMMA UnmanageKeeps ==
    ASSUME Busy, NEW t \in Threads, Unmanage(t)
    PROVE  Busy'
  <1>0. Typed /\ InService /\ LocalOf(t) /\ referCount \in Nat /\ referCount # 0
    BY DEF Busy, InService, Local, Typed, TypeOK
  <1>c. /\ pc[t] = "unmanage" /\ pc' = [pc EXCEPT ![t] = "search"]
        /\ managed' = [managed EXCEPT ![p[t]] = 0]
    BY DEF Unmanage, Goes, Set
  <1>n. /\ controlBlocks' = controlBlocks /\ recycleHead' = recycleHead
        /\ recycleCount' = recycleCount /\ referCount' = referCount
        /\ next' = next /\ refCount' = refCount /\ bitmap' = bitmap /\ atRoot' = atRoot
        /\ p' = p /\ n' = n /\ rest' = rest /\ bit' = bit /\ after' = after
        /\ owners' = owners /\ owner' = owner
    BY DEF Unmanage, lists, local
  <1>1. Typed'
    BY <1>0, <1>c, <1>n DEF Typed, TypeOK, Labels, Holding
  <1>o. Others(t) /\ pc'[t] = "search"
    BY <1>0, <1>c, <1>n DEF Typed, Others
  <1>p. /\ \A b : Stale(b)' <=> Stale(b)
        /\ \A b : InChain(b)' <=> InChain(b)
        /\ \A b : Linked(b)' <=> Linked(b)
    BY <1>c, <1>n, <1>o, PlacesStay DEF Popping
  <1>2. Local'
    <2>1. LocalOf(t)'
      BY <1>0, <1>c, <1>n, <1>o DEF LocalOf
    <2> QED
      BY <1>0, <1>n, <1>o, <2>1, LocalKept DEF InService
  <1>3. Claimed' /\ InUse' = InUse /\ \A b : InUseOf(b)' = InUseOf(b)
    BY <1>0, <1>c, <1>n, <1>o, ClaimedKept DEF InService
  <1>4. OnePlace' /\ Successors' /\ Acyclic'
    BY <1>c, <1>n, <1>o, ListsKept DEF Popping, Listing
  <1>5. Managed'
    <2>1. p[t] \in Blocks /\ managed \in [Blocks -> {0, 1}]
      BY <1>0, <1>c DEF LocalOf, Typed, TypeOK
    <2>2. ~Linked(p[t]) /\ \A u \in Threads \ {t} : ~(pc[u] \in Listing /\ p[u] = p[t])
      BY <1>0, <1>c DEF InService, OnePlace, Listing
    <2>3. \A u \in Threads \ {t} : pc'[u] = pc[u]
      BY <1>o DEF Others
    <2>4. \A b \in Blocks \ {p[t]} : managed'[b] = managed[b]
      BY <1>c, <2>1
    <2>5. managed'[p[t]] = 0 /\ pc'[t] \notin Listing
      BY <1>c, <1>o, <2>1 DEF Listing, Popping
    <2>6. ASSUME NEW b \in Blocks
          PROVE  managed'[b] = 1 <=> Linked(b) \/ \E u \in Threads : p[u] = b /\ pc'[u] \in Listing
      BY <1>0, <2>2, <2>3, <2>4, <2>5 DEF InService, Managed
    <2> QED
      BY <1>n, <1>p, <2>6 DEF Managed
  <1>6. References'
    <2>1. \A b : t \in Holders(b) <=> t \in Holders(b)'
      BY <1>c, <1>n, <1>o DEF Holders, Holding
    <2> QED
      BY <1>0, <1>n, <1>o, <1>p, <1>3, <2>1, ReferencesKept DEF InService
  <1>7. Refers'
    <2>1. t \in Releasing <=> t \in Releasing'
      BY <1>c, <1>n, <1>o DEF Releasing
    <2> QED
      BY <1>0, <1>n, <1>o, <1>3, <2>1, RefersKept DEF InService
  <1>8. RecycledCounted'
    BY <1>0, <1>c, <1>n, <1>o, <1>p, RecycledKept DEF InService, Popping
  <1>9. AtRoot'
    BY <1>0, <1>c, <1>n, <1>o, AtRootKept DEF InService
  <1> QED
    BY <1>0, <1>n, <1>1, <1>2, <1>3, <1>4, <1>5, <1>6, <1>7, <1>8, <1>9 DEF Busy, InService

LEMMA ManageFirstKeeps ==
    ASSUME Busy, NEW t \in Threads, Manage(t), managed[p[t]] = 0
    PROVE  Busy'
  <1>0. Typed /\ InService /\ LocalOf(t) /\ referCount \in Nat /\ referCount # 0
    BY DEF Busy, InService, Local, Typed, TypeOK
  <1>c. /\ pc[t] = "manage" /\ pc' = [pc EXCEPT ![t] = "list"] /\ n' = [n EXCEPT ![t] = 1]
        /\ managed' = [managed EXCEPT ![p[t]] = 1]
    BY DEF Manage, Goes, Set
  <1>n. /\ controlBlocks' = controlBlocks /\ recycleHead' = recycleHead
        /\ recycleCount' = recycleCount /\ referCount' = referCount
        /\ next' = next /\ refCount' = refCount /\ bitmap' = bitmap /\ atRoot' = atRoot
        /\ p' = p /\ rest' = rest /\ bit' = bit /\ after' = after
        /\ owners' = owners /\ owner' = owner
    BY DEF Manage, lists
  <1>1. Typed'
    <2>1. n' \in [Threads -> 1 .. W]
      BY <1>0, <1>c, TAllocatorAssumption DEF Typed
    <2> QED
      BY <1>0, <1>c, <1>n, <2>1 DEF Typed, TypeOK, Labels, Holding
  <1>o. Others(t) /\ pc'[t] = "list"
    BY <1>0, <1>c, <1>n DEF Typed, Others
  <1>p. /\ \A b : Stale(b)' <=> Stale(b)
        /\ \A b : InChain(b)' <=> InChain(b)
        /\ \A b : Linked(b)' <=> Linked(b)
    BY <1>c, <1>n, <1>o, PlacesStay DEF Popping
  <1>2. Local'
    <2>1. LocalOf(t)'
      BY <1>0, <1>c, <1>n, <1>o DEF LocalOf
    <2> QED
      BY <1>0, <1>n, <1>o, <2>1, LocalKept DEF InService
  <1>3. Claimed' /\ InUse' = InUse /\ \A b : InUseOf(b)' = InUseOf(b)
    BY <1>0, <1>c, <1>n, <1>o, ClaimedKept DEF InService
  <1>b. p[t] \in Blocks /\ managed \in [Blocks -> {0, 1}]
    BY <1>0, <1>c DEF LocalOf, Typed, TypeOK
  <1>u. ~Linked(p[t]) /\ \A u \in Threads : ~(pc[u] \in Listing /\ p[u] = p[t])
    BY <1>0, <1>b DEF InService, Managed
  <1>4. OnePlace' /\ Successors' /\ Acyclic'
    BY <1>c, <1>n, <1>o, <1>u, ListsKept DEF Popping
  <1>5. Managed'
    <2>3. \A u \in Threads \ {t} : pc'[u] = pc[u]
      BY <1>o DEF Others
    <2>4. \A b \in Blocks \ {p[t]} : managed'[b] = managed[b]
      BY <1>c, <1>b
    <2>5. managed'[p[t]] = 1 /\ pc'[t] \in Listing /\ pc[t] \notin Listing
      BY <1>c, <1>o, <1>b DEF Listing, Popping
    <2>6. ASSUME NEW b \in Blocks
          PROVE  managed'[b] = 1 <=> Linked(b) \/ \E u \in Threads : p[u] = b /\ pc'[u] \in Listing
      BY <1>0, <1>u, <2>3, <2>4, <2>5 DEF InService, Managed
    <2> QED
      BY <1>n, <1>p, <2>6 DEF Managed
  <1>6. References'
    <2>1. \A b : t \in Holders(b) <=> t \in Holders(b)'
      BY <1>c, <1>n, <1>o DEF Holders, Holding
    <2> QED
      BY <1>0, <1>n, <1>o, <1>p, <1>3, <2>1, ReferencesKept DEF InService
  <1>7. Refers'
    <2>1. t \in Releasing <=> t \in Releasing'
      BY <1>c, <1>n, <1>o DEF Releasing
    <2> QED
      BY <1>0, <1>n, <1>o, <1>3, <2>1, RefersKept DEF InService
  <1>8. RecycledCounted'
    BY <1>0, <1>c, <1>n, <1>o, <1>p, RecycledKept DEF InService, Popping
  <1>9. AtRoot'
    BY <1>0, <1>c, <1>n, <1>o, AtRootKept DEF InService
  <1> QED
    BY <1>0, <1>n, <1>1, <1>2, <1>3, <1>4, <1>5, <1>6, <1>7, <1>8, <1>9 DEF Busy, InService

LEMMA CountRecycledKeeps ==
    ASSUME Busy, NEW t \in Threads, CountRecycled(t)
    PROVE  Busy'
  <1>0. Typed /\ InService /\ LocalOf(t) /\ referCount \in Nat /\ referCount # 0
    BY DEF Busy, InService, Local, Typed, TypeOK
  <1>c. /\ pc[t] = "countRecycled" /\ pc' = [pc EXCEPT ![t] = "push"]
        /\ recycleCount' = recycleCount + 1
    BY DEF CountRecycled, Goes
  <1>n. /\ controlBlocks' = controlBlocks /\ recycleHead' = recycleHead
        /\ managed' = managed /\ referCount' = referCount
        /\ next' = next /\ refCount' = refCount /\ bitmap' = bitmap /\ atRoot' = atRoot
        /\ p' = p /\ n' = n /\ rest' = rest /\ bit' = bit /\ after' = after
        /\ owners' = owners /\ owner' = owner
    BY DEF CountRecycled, local, block
  <1>1. Typed'
    <2>0. recycleCount \in Nat
      BY <1>0 DEF Typed, TypeOK
    <2>1. recycleCount' \in Nat
      BY <2>0, <1>c
    <2> QED
      BY <1>0, <1>c, <1>n, <2>1 DEF Typed, TypeOK, Labels, Holding
  <1>o. Others(t) /\ pc'[t] = "push"
    BY <1>0, <1>c, <1>n DEF Typed, Others
  <1>p. /\ \A b : Stale(b)' <=> Stale(b)
        /\ \A b : InChain(b)' <=> InChain(b)
        /\ \A b : Linked(b)' <=> Linked(b)
    BY <1>c, <1>n, <1>o, PlacesStay DEF Popping
  <1>2. Local'
    <2>1. LocalOf(t)'
      BY <1>0, <1>c, <1>n, <1>o DEF LocalOf
    <2> QED
      BY <1>0, <1>n, <1>o, <2>1, LocalKept DEF InService
  <1>3. Claimed' /\ InUse' = InUse /\ \A b : InUseOf(b)' = InUseOf(b)
    BY <1>0, <1>c, <1>n, <1>o, ClaimedKept DEF InService
  <1>u. ~Linked(p[t]) /\ \A u \in Threads \ {t} : ~(pc[u] \in Listing /\ p[u] = p[t])
    BY <1>0, <1>c DEF InService, OnePlace, Listing
  <1>4. OnePlace' /\ Successors' /\ Acyclic'
    BY <1>c, <1>n, <1>o, <1>u, ListsKept DEF Popping
  <1>5. Managed'
    <2>1. \A u \in Threads : pc'[u] \in Listing <=> pc[u] \in Listing
      BY <1>c, <1>o DEF Others, Listing
    <2> QED
      BY <1>0, <1>n, <1>p, <2>1 DEF InService, Managed
  <1>6. References'
    <2>1. \A b : t \in Holders(b) <=> t \in Holders(b)'
      BY <1>c, <1>n, <1>o DEF Holders, Holding
    <2> QED
      BY <1>0, <1>n, <1>o, <1>p, <1>3, <2>1, ReferencesKept DEF InService
  <1>7. Refers'
    <2>1. t \in Releasing <=> t \in Releasing'
      BY <1>c, <1>n, <1>o DEF Releasing
    <2> QED
      BY <1>0, <1>n, <1>o, <1>3, <2>1, RefersKept DEF InService
  <1>8. RecycledCounted'
    <2>1. p[t] \in Blocks
      BY <1>0, <1>c DEF LocalOf, Typed
    <2>2. p[t] \notin Recycled
      BY <1>c, <1>u DEF Recycled, Linked, Listing, Popping
    <2>3. p[t] \in Recycled'
      BY <1>n, <1>o, <2>1 DEF Recycled
    <2>4. \A c \in Blocks \ {p[t]} : c \in Recycled <=> c \in Recycled'
      BY <1>c, <1>n, <1>o, <1>p DEF Recycled, Others, Popping
    <2>5. Cardinality(Recycled') = Cardinality(Recycled) + 1
      BY <2>2, <2>3, <2>4, RecycledMoves
    <2> QED
      BY <1>0, <1>c, <2>5 DEF InService, RecycledCounted
  <1>9. AtRoot'
    BY <1>0, <1>c, <1>n, <1>o, AtRootKept DEF InService
  <1> QED
    BY <1>0, <1>n, <1>1, <1>2, <1>3, <1>4, <1>5, <1>6, <1>7, <1>8, <1>9 DEF Busy, InService

LEMMA RootAllocateKeeps ==
    ASSUME Busy, NEW t \in Threads, RootAllocate(t)
    PROVE  Busy'
  <1>0. Typed /\ InService /\ LocalOf(t) /\ referCount \in Nat /\ referCount # 0
    BY DEF Busy, InService, Local, Typed, TypeOK
  <1>b. PICK b \in atRoot :
           /\ p' = [p EXCEPT ![t] = b] /\ atRoot' = atRoot \ {b}
           /\ next' = [next EXCEPT ![b] = NoBlock] /\ managed' = [managed EXCEPT ![b] = 0]
           /\ bitmap' = [bitmap EXCEPT ![b] = {}] /\ refCount' = [refCount EXCEPT ![b] = 1]
    BY DEF RootAllocate, Set
  <1>c. pc[t] = "root" /\ pc' = [pc EXCEPT ![t] = "search"] /\ p[t] = NoBlock
    BY <1>0 DEF RootAllocate, Goes, LocalOf
  <1>f. /\ b \in Blocks /\ refCount[b] = 0 /\ ~Linked(b) /\ InUseOf(b) = {} /\ Holders(b) = {}
        /\ \A u \in Threads : p[u] # b
    <2>1. b \in Blocks /\ refCount[b] = 0
      BY <1>0 DEF Typed, TypeOK, InService, AtRoot
    <2>2. ~Linked(b) /\ InUseOf(b) = {} /\ Holders(b) = {}
      BY <1>0, <2>1, Unreferenced DEF InService
    <2>3. ASSUME NEW u \in Threads, p[u] = b PROVE FALSE
      <3>1. pc[u] \in Labels /\ p[u] # NoBlock /\ LocalOf(u) /\ (pc[u] = "rootFree" => p[u] \notin atRoot)
        BY <1>0, <2>1, <2>3, TAllocatorAssumption DEF Typed, InService, Local, AtRoot
      <3>2. pc[u] \in Holding
        BY <1>b, <2>3, <3>1 DEF Labels, LocalOf
      <3> QED
        BY <2>2, <2>3, <3>2 DEF Holders
    <2> QED
      BY <2>1, <2>2, <2>3
  <1>n. /\ controlBlocks' = controlBlocks /\ recycleHead' = recycleHead
        /\ recycleCount' = recycleCount /\ referCount' = referCount
        /\ n' = n /\ rest' = rest /\ bit' = bit /\ after' = after
        /\ owners' = owners /\ owner' = owner /\ next' = next /\ managed' = managed
    <2>1. next[b] = NoBlock
      BY <1>0, <1>f DEF InService, Successors, Linked, Stale
    <2>2. managed[b] = 0
      BY <1>0, <1>f DEF InService, Managed, Typed, TypeOK
    <2>3. next \in [Blocks -> Blocks \cup {NoBlock}] /\ managed \in [Blocks -> {0, 1}]
      BY <1>0 DEF Typed, TypeOK
    <2>4. next' = next /\ managed' = managed
      BY <1>b, <2>1, <2>2, <2>3
    <2> QED
      BY <2>4 DEF RootAllocate, lists
  <1>1. Typed'
    <2>1. /\ atRoot' \subseteq Blocks /\ p' \in [Threads -> Blocks \cup {NoBlock}]
          /\ bitmap' \in [Blocks -> SUBSET (1 .. Bits)] /\ refCount' \in [Blocks -> Nat]
      BY <1>0, <1>b, <1>f DEF Typed, TypeOK
    <2>2. pc' \in [Threads -> Labels]
      BY <1>0, <1>c DEF Typed, Labels, Holding
    <2> QED
      BY <1>0, <1>n, <2>1, <2>2 DEF Typed, TypeOK
  <1>o. Others(t) /\ pc'[t] = "search" /\ p'[t] = b /\ b # NoBlock
    BY <1>0, <1>b, <1>c, <1>n, <1>f, TAllocatorAssumption DEF Typed, Others
  <1>p. /\ \A c : Stale(c)' <=> Stale(c)
        /\ \A c : InChain(c)' <=> InChain(c)
        /\ \A c : Linked(c)' <=> Linked(c)
    BY <1>c, <1>n, <1>o, PlacesStay DEF Popping
  <1>2. Local'
    <2>1. LocalOf(t)'
      BY <1>0, <1>c, <1>n, <1>o DEF LocalOf
    <2> QED
      BY <1>0, <1>n, <1>o, <2>1, LocalKept DEF InService
  <1>3. Claimed' /\ InUse' = InUse /\ \A c : InUseOf(c)' = InUseOf(c)
    <2>1. InUse' = InUse /\ (\A c : InUseOf(c)' = InUseOf(c)) /\ \A s : Counting(s)' <=> Counting(s)
      BY <1>0, <1>c, <1>n, <1>o, ClaimedKept DEF InService
    <2>2. \A i \in 1 .. Slots : owners[<<b, i>>] # 1
      BY <1>f DEF InUseOf, InUse, Counting
    <2>3. \A c \in Blocks, i \in 1 .. Slots : owners[<<c, i>>] = 1 <=> i \in bitmap'[c]
      BY <1>0, <1>b, <2>2 DEF InService, Claimed, Typed, TypeOK
    <2>4. \A u \in Threads : pc'[u] = "count" => pc[u] = "count" /\ p'[u] = p[u] /\ bit'[u] = bit[u]
      BY <1>o DEF Others
    <2>5. \A u \in Threads : pc'[u] = "count" => owners[<<p'[u], bit'[u]>>] = 1
      BY <1>0, <2>4 DEF InService, Claimed
    <2>6. \A u, v \in Threads :
             pc'[u] = "count" /\ pc'[v] = "count" /\ p'[u] = p'[v] /\ bit'[u] = bit'[v] => u = v
      BY <1>0, <2>4 DEF InService, Claimed
    <2> QED
      BY <1>n, <2>1, <2>3, <2>5, <2>6 DEF Claimed
  <1>4. OnePlace' /\ Successors' /\ Acyclic'
    BY <1>c, <1>n, <1>o, ListsKept DEF Popping, Listing
  <1>5. Managed'
    <2>1. \A u \in Threads : /\ pc'[u] \in Listing <=> pc[u] \in Listing
                             /\ pc[u] \in Listing => p'[u] = p[u]
      BY <1>c, <1>n, <1>o DEF Others, Listing, Popping
    <2> QED
      BY <1>0, <1>n, <1>p, <2>1 DEF InService, Managed
  <1>6. References'
    <2>1. ASSUME NEW c \in Blocks \ {b} PROVE Holders(c)' = Holders(c) /\ refCount'[c] = refCount[c]
      <3>1. refCount'[c] = refCount[c]
        BY <1>0, <1>b, <2>1 DEF Typed, TypeOK
      <3>2. Holders(c)' = Holders(c)
        BY <1>c, <1>o, <2>1, TAllocatorAssumption DEF Holders, Others, Holding
      <3> QED
        BY <3>1, <3>2
    <2>2. refCount'[b] = 1
      BY <1>0, <1>b, <1>f DEF Typed, TypeOK
    <2>3. Cardinality(Holders(b)') = Cardinality(Holders(b)) + 1
      <3>1. t \notin Holders(b) /\ t \in Holders(b)'
        BY <1>f, <1>o DEF Holders, Holding
      <3> QED
        BY <1>o, <3>1, HoldersMove
    <2>4. Cardinality(Holders(b)') = 1 /\ Cardinality(InUseOf(b)') = 0
      BY <1>f, <1>3, <2>3, FS_EmptySet
    <2>5. One(Linked(b))' = 0
      BY <1>f, <1>p DEF One
    <2>6. ASSUME NEW c \in Blocks
          PROVE  refCount'[c] = One(Linked(c))' + Cardinality(InUseOf(c)') + Cardinality(Holders(c)')
      <3>1. CASE c = b
        BY <2>2, <2>4, <2>5, <3>1
      <3>2. CASE c # b
        BY <1>0, <1>p, <1>3, <2>1, <3>2 DEF InService, References, One
      <3> QED
        BY <3>1, <3>2
    <2> QED
      BY <2>6 DEF References
  <1>7. Refers'
    <2>1. t \in Releasing <=> t \in Releasing'
      BY <1>0, <1>c, <1>n, <1>o DEF Releasing, LocalOf
    <2> QED
      BY <1>0, <1>n, <1>o, <1>3, <2>1, RefersKept DEF InService
  <1>8. RecycledCounted'
    BY <1>0, <1>c, <1>n, <1>o, <1>p, RecycledKept DEF InService, Popping
  <1>9. AtRoot'
    <2>1. \A c \in Blocks : c # b => refCount'[c] = refCount[c]
      BY <1>0, <1>b DEF Typed, TypeOK
    <2>2. refCount'[b] = 1
      BY <1>0, <1>b, <1>f DEF Typed, TypeOK
    <2>3. \A u \in Threads : /\ pc'[u] = "rootFree" <=> pc[u] = "rootFree"
                             /\ pc[u] = "rootFree" => p'[u] = p[u] /\ p[u] # b /\ p[u] \in Blocks
      <3>1. \A u \in Threads : /\ pc'[u] = "rootFree" <=> pc[u] = "rootFree"
                               /\ pc[u] = "rootFree" => p'[u] = p[u]
        BY <1>c, <1>o DEF Others
      <3>2. \A u \in Threads : pc[u] = "rootFree" => p[u] \in Blocks
        BY <1>0 DEF InService, Local, LocalOf, Typed
      <3> QED
        BY <1>f, <3>1, <3>2
    <2>4. \A c \in atRoot' : refCount'[c] = 0
      BY <1>0, <1>b, <2>1 DEF InService, AtRoot, Typed, TypeOK
    <2>5. \A c \in Blocks \ atRoot' :
             refCount'[c] = 0 => \E u \in Threads : p'[u] = c /\ pc'[u] = "rootFree"
      BY <1>0, <1>b, <2>1, <2>2, <2>3 DEF InService, AtRoot
    <2>6. \A u \in Threads : pc'[u] = "rootFree" => refCount'[p'[u]] = 0 /\ p'[u] \notin atRoot'
      BY <1>0, <1>b, <2>1, <2>3 DEF InService, AtRoot
    <2>7. \A u, v \in Threads : pc'[u] = "rootFree" /\ pc'[v] = "rootFree" /\ p'[u] = p'[v] => u = v
      BY <1>0, <2>3 DEF InService, AtRoot
    <2> QED
      BY <2>4, <2>5, <2>6, <2>7 DEF AtRoot
  <1> QED
    BY <1>0, <1>n, <1>1, <1>2, <1>3, <1>4, <1>5, <1>6, <1>7, <1>8, <1>9 DEF Busy, InService

(* The bit is beyond the slots, or somebody else has set it.                 *)
LEMMA ClaimInVainKeeps ==
    ASSUME Busy, NEW t \in Threads, Claim(t), bit[t] \in bitmap[p[t]] \/ ~(bit[t] <= Slots)
    PROVE  Busy'
  <1>0. Typed /\ InService /\ LocalOf(t) /\ referCount \in Nat /\ referCount # 0
    BY DEF Busy, InService, Local, Typed, TypeOK
  <1>c. /\ pc[t] = "claim" /\ pc' = [pc EXCEPT ![t] = "free"]
        /\ bitmap' = [bitmap EXCEPT ![p[t]] = bitmap[p[t]] \cup {bit[t]}]
    BY DEF Claim, Goes, Set
  <1>n. /\ controlBlocks' = controlBlocks /\ recycleHead' = recycleHead
        /\ recycleCount' = recycleCount /\ referCount' = referCount
        /\ next' = next /\ refCount' = refCount /\ managed' = managed /\ atRoot' = atRoot
        /\ p' = p /\ n' = n /\ rest' = rest /\ bit' = bit /\ after' = after
        /\ owners' = owners /\ owner' = owner
    BY DEF Claim, lists, local
  <1>b. p[t] \in Blocks /\ bit[t] \in 1 .. Bits /\ bitmap \in [Blocks -> SUBSET (1 .. Bits)]
    BY <1>0, <1>c DEF LocalOf, Typed, TypeOK
  <1>1. Typed'
    <2>1. bitmap' \in [Blocks -> SUBSET (1 .. Bits)]
      BY <1>b, <1>c
    <2>2. pc' \in [Threads -> Labels]
      BY <1>0, <1>c DEF Typed, Labels, Holding
    <2> QED
      BY <1>0, <1>n, <2>1, <2>2 DEF Typed, TypeOK
  <1>o. Others(t) /\ pc'[t] = "free"
    BY <1>0, <1>c, <1>n DEF Typed, Others
  <1>p. /\ \A b : Stale(b)' <=> Stale(b)
        /\ \A b : InChain(b)' <=> InChain(b)
        /\ \A b : Linked(b)' <=> Linked(b)
    BY <1>c, <1>n, <1>o, PlacesStay DEF Popping
  <1>2. Local'
    <2>1. LocalOf(t)'
      BY <1>0, <1>c, <1>n, <1>o DEF LocalOf
    <2> QED
      BY <1>0, <1>n, <1>o, <2>1, LocalKept DEF InService
  <1>3. Claimed' /\ InUse' = InUse /\ \A c : InUseOf(c)' = InUseOf(c)
    <2>1. InUse' = InUse /\ \A c : InUseOf(c)' = InUseOf(c)
      BY <1>0, <1>c, <1>n, <1>o, ClaimedKept DEF InService
    <2>2. \A c \in Blocks : \A i \in 1 .. Slots : i \in bitmap'[c] <=> i \in bitmap[c]
      BY <1>b, <1>c, TAllocatorAssumption
    <2>3. \A u \in Threads : pc'[u] = "count" <=> pc[u] = "count"
      BY <1>c, <1>o DEF Others
    <2> QED
      BY <1>0, <1>n, <2>1, <2>2, <2>3 DEF InService, Claimed
  <1>4. OnePlace' /\ Successors' /\ Acyclic'
    BY <1>c, <1>n, <1>o, ListsKept DEF Popping, Listing
  <1>5. Managed'
    <2>1. \A u \in Threads : /\ pc'[u] \in Listing <=> pc[u] \in Listing
                             /\ pc[u] \in Listing => p'[u] = p[u]
      BY <1>c, <1>n, <1>o DEF Others, Listing, Popping
    <2> QED
      BY <1>0, <1>n, <1>p, <2>1 DEF InService, Managed
  <1>6. References'
    <2>1. \A b : t \in Holders(b) <=> t \in Holders(b)'
      BY <1>c, <1>n, <1>o DEF Holders, Holding
    <2> QED
      BY <1>0, <1>n, <1>o, <1>p, <1>3, <2>1, ReferencesKept DEF InService
  <1>7. Refers'
    <2>1. t \in Releasing <=> t \in Releasing'
      BY <1>0, <1>c, <1>n, <1>o DEF Releasing, LocalOf
    <2> QED
      BY <1>0, <1>n, <1>o, <1>3, <2>1, RefersKept DEF InService
  <1>8. RecycledCounted'
    BY <1>0, <1>c, <1>n, <1>o, <1>p, RecycledKept DEF InService, Popping
  <1>9. AtRoot'
    BY <1>0, <1>c, <1>n, <1>o, AtRootKept DEF InService
  <1> QED
    BY <1>0, <1>n, <1>1, <1>2, <1>3, <1>4, <1>5, <1>6, <1>7, <1>8, <1>9 DEF Busy, InService

(* The bit is set and stands for a slot.                                     *)
LEMMA ClaimSlotKeeps ==
    ASSUME Busy, NEW t \in Threads, Claim(t), bit[t] \notin bitmap[p[t]], bit[t] <= Slots
    PROVE  Busy'
  <1>0. Typed /\ InService /\ LocalOf(t) /\ referCount \in Nat /\ referCount # 0
    BY DEF Busy, InService, Local, Typed, TypeOK
  <1>b. /\ p[t] \in Blocks /\ bit[t] \in 1 .. Slots /\ bitmap \in [Blocks -> SUBSET (1 .. Bits)]
        /\ <<p[t], bit[t]>> \in Blocks \X (1 .. Slots) /\ owners[<<p[t], bit[t]>>] = 0
    <2>1. pc[t] = "claim" /\ p[t] \in Blocks /\ bit[t] \in 1 .. Slots
      BY <1>0, TAllocatorAssumption DEF Claim, Goes, LocalOf, Typed
    <2>2. owners[<<p[t], bit[t]>>] # 1
      BY <1>0, <2>1 DEF InService, Claimed
    <2>3. owners[<<p[t], bit[t]>>] \in {0, 1}
      BY <1>0, <2>1 DEF Typed
    <2> QED
      BY <1>0, <2>1, <2>2, <2>3 DEF Typed, TypeOK
  <1>c. /\ pc[t] = "claim" /\ pc' = [pc EXCEPT ![t] = "count"]
        /\ bitmap' = [bitmap EXCEPT ![p[t]] = bitmap[p[t]] \cup {bit[t]}]
        /\ owners' = [owners EXCEPT ![<<p[t], bit[t]>>] = 1]
    BY <1>b DEF Claim, Goes, Set
  <1>n. /\ controlBlocks' = controlBlocks /\ recycleHead' = recycleHead
        /\ recycleCount' = recycleCount /\ referCount' = referCount
        /\ next' = next /\ refCount' = refCount /\ managed' = managed /\ atRoot' = atRoot
        /\ p' = p /\ n' = n /\ rest' = rest /\ bit' = bit /\ after' = after
        /\ owner' = owner
    BY DEF Claim, lists, local
  <1>s. /\ owners'[<<p[t], bit[t]>>] = 1
        /\ \A s \in Blocks \X (1 .. Slots) : s # <<p[t], bit[t]>> => owners'[s] = owners[s]
        /\ owners' \in [Blocks \X (1 .. Slots) -> {0, 1}]
    BY <1>0, <1>b, <1>c DEF Typed
  <1>1. Typed'
    <2>1. bitmap' \in [Blocks -> SUBSET (1 .. Bits)]
      BY <1>b, <1>c, TAllocatorAssumption
    <2>2. pc' \in [Threads -> Labels]
      BY <1>0, <1>c DEF Typed, Labels, Holding
    <2>3. owners' \in [Blocks \X (1 .. Slots) -> Nat]
      BY <1>s
    <2> QED
      BY <1>0, <1>n, <1>s, <2>1, <2>2, <2>3 DEF Typed, TypeOK
  <1>o. Others(t) /\ pc'[t] = "count"
    BY <1>0, <1>c, <1>n DEF Typed, Others
  <1>p. /\ \A b : Stale(b)' <=> Stale(b)
        /\ \A b : InChain(b)' <=> InChain(b)
        /\ \A b : Linked(b)' <=> Linked(b)
    BY <1>c, <1>n, <1>o, PlacesStay DEF Popping
  <1>2. Local'
    <2>1. LocalOf(t)'
      BY <1>0, <1>b, <1>c, <1>n, <1>o DEF LocalOf
    <2> QED
      BY <1>0, <1>n, <1>o, <2>1, LocalKept DEF InService
  <1>3. Claimed' /\ InUse' = InUse /\ \A c : InUseOf(c)' = InUseOf(c)
    <2>1. \A u \in Threads \ {t} : pc'[u] = pc[u]
      BY <1>o DEF Others
    <2>2. \A s \in Blocks \X (1 .. Slots) : s # <<p[t], bit[t]>> => (Counting(s)' <=> Counting(s))
      BY <1>c, <1>n, <1>o, <2>1 DEF Counting
    <2>4. ASSUME NEW s \in Blocks \X (1 .. Slots)
          PROVE  s \in InUse' <=> s \in InUse
      <3>1. CASE s = <<p[t], bit[t]>>
        <4>1. Counting(s)'
          <5>1. \A x : x = <<p[t], bit[t]>> => Counting(x)'
            BY <1>n, <1>o DEF Counting
          <5> QED
            BY <3>1, <5>1
        <4> QED
          BY <1>b, <3>1, <4>1 DEF InUse
      <3>2. CASE s # <<p[t], bit[t]>>
        BY <1>s, <2>2, <3>2 DEF InUse
      <3> QED
        BY <3>1, <3>2
    <2>5. InUse' = InUse
      BY <2>4 DEF InUse
    <2>6. \A c : InUseOf(c)' = InUseOf(c)
      BY <2>5 DEF InUseOf
    <2>7. ASSUME NEW c \in Blocks, NEW i \in 1 .. Slots
          PROVE  owners'[<<c, i>>] = 1 <=> i \in bitmap'[c]
      <3>1. CASE c = p[t] /\ i = bit[t]
        BY <1>b, <1>c, <1>s, <3>1
      <3>2. CASE ~(c = p[t] /\ i = bit[t])
        <4>1. owners'[<<c, i>>] = owners[<<c, i>>]
          BY <1>s, <3>2
        <4>2. i \in bitmap'[c] <=> i \in bitmap[c]
          BY <1>b, <1>c, <3>2
        <4> QED
          BY <1>0, <4>1, <4>2 DEF InService, Claimed
      <3> QED
        BY <3>1, <3>2
    <2>8. \A u \in Threads \ {t} : pc[u] = "count" =>
             /\ owners[<<p[u], bit[u]>>] = 1
             /\ p[u] \in Blocks /\ bit[u] \in 1 .. Slots
      BY <1>0 DEF InService, Claimed, Local, LocalOf, Typed
    <2>9. \A u \in Threads : pc'[u] = "count" => owners'[<<p'[u], bit'[u]>>] = 1
      BY <1>n, <1>s, <2>1, <2>8
    <2>10. \A u \in Threads \ {t} : pc'[u] = "count" => ~(p[u] = p[t] /\ bit[u] = bit[t])
      BY <1>b, <2>1, <2>8
    <2>11. \A u, v \in Threads :
             pc'[u] = "count" /\ pc'[v] = "count" /\ p[u] = p[v] /\ bit[u] = bit[v] => u = v
      BY <1>0, <2>1, <2>10 DEF InService, Claimed
    <2> QED
      BY <1>n, <2>5, <2>6, <2>7, <2>9, <2>11 DEF Claimed
  <1>4. OnePlace' /\ Successors' /\ Acyclic'
    BY <1>c, <1>n, <1>o, ListsKept DEF Popping, Listing
  <1>5. Managed'
    <2>1. \A u \in Threads : /\ pc'[u] \in Listing <=> pc[u] \in Listing
                             /\ pc[u] \in Listing => p'[u] = p[u]
      BY <1>c, <1>n, <1>o DEF Others, Listing, Popping
    <2> QED
      BY <1>0, <1>n, <1>p, <2>1 DEF InService, Managed
  <1>6. References'
    <2>1. \A b : t \in Holders(b) <=> t \in Holders(b)'
      BY <1>c, <1>n, <1>o DEF Holders, Holding
    <2> QED
      BY <1>0, <1>n, <1>o, <1>p, <1>3, <2>1, ReferencesKept DEF InService
  <1>7. Refers'
    <2>1. t \in Releasing <=> t \in Releasing'
      BY <1>0, <1>c, <1>n, <1>o DEF Releasing, LocalOf
    <2> QED
      BY <1>0, <1>n, <1>o, <1>3, <2>1, RefersKept DEF InService
  <1>8. RecycledCounted'
    BY <1>0, <1>c, <1>n, <1>o, <1>p, RecycledKept DEF InService, Popping
  <1>9. AtRoot'
    BY <1>0, <1>c, <1>n, <1>o, AtRootKept DEF InService
  <1> QED
    BY <1>0, <1>n, <1>1, <1>2, <1>3, <1>4, <1>5, <1>6, <1>7, <1>8, <1>9 DEF Busy, InService

LEMMA CountKeeps ==
    ASSUME Busy, NEW t \in Threads, Count(t)
    PROVE  Busy'
  <1>0. Typed /\ InService /\ LocalOf(t) /\ referCount \in Nat /\ referCount # 0
    BY DEF Busy, InService, Local, Typed, TypeOK
  <1>c. /\ pc[t] = "count" /\ pc' = [pc EXCEPT ![t] = "recycle"]
        /\ refCount' = [refCount EXCEPT ![p[t]] = refCount[p[t]] + 1]
        /\ referCount' = referCount + 1 /\ after' = [after EXCEPT ![t] = "idle"]
    BY DEF Count, Goes, Set
  <1>n. /\ controlBlocks' = controlBlocks /\ recycleHead' = recycleHead
        /\ recycleCount' = recycleCount
        /\ next' = next /\ managed' = managed /\ bitmap' = bitmap /\ atRoot' = atRoot
        /\ p' = p /\ n' = n /\ rest' = rest /\ bit' = bit
        /\ owners' = owners /\ owner' = owner
    BY DEF Count, lists
  <1>b. /\ p[t] \in Blocks /\ bit[t] \in 1 .. Slots /\ refCount \in [Blocks -> Nat]
        /\ <<p[t], bit[t]>> \in Blocks \X (1 .. Slots) /\ owners[<<p[t], bit[t]>>] = 1
        /\ after[t] = "heads"
    BY <1>0, <1>c DEF LocalOf, Typed, TypeOK, InService, Claimed
  <1>1. Typed'
    <2>1. refCount' \in [Blocks -> Nat] /\ referCount' \in Nat
      BY <1>0, <1>b, <1>c
    <2>2. pc' \in [Threads -> Labels] /\ after' \in [Threads -> {"idle", "heads", "release"}]
      BY <1>0, <1>c DEF Typed, Labels, Holding
    <2> QED
      BY <1>0, <1>n, <2>1, <2>2 DEF Typed, TypeOK
  <1>o. Others(t) /\ pc'[t] = "recycle" /\ after'[t] = "idle"
    BY <1>0, <1>c, <1>n DEF Typed, Others
  <1>p. /\ \A b : Stale(b)' <=> Stale(b)
        /\ \A b : InChain(b)' <=> InChain(b)
        /\ \A b : Linked(b)' <=> Linked(b)
    BY <1>c, <1>n, <1>o, PlacesStay DEF Popping
  <1>2. Local'
    <2>1. LocalOf(t)'
      BY <1>0, <1>c, <1>n, <1>o DEF LocalOf
    <2> QED
      BY <1>0, <1>n, <1>o, <2>1, LocalKept DEF InService
  <1>s. /\ <<p[t], bit[t]>> \notin InUse /\ <<p[t], bit[t]>> \in InUse'
        /\ \A c \in Blocks, j \in 1 .. Slots :
              c # p[t] \/ j # bit[t] => (<<c, j>> \in InUse <=> <<c, j>> \in InUse')
    <2>1. \A u \in Threads \ {t} : pc'[u] = pc[u]
      BY <1>o DEF Others
    <2>2. <<p[t], bit[t]>> \notin InUse
      BY <1>c DEF InUse, Counting
    <2>3. \A u \in Threads : pc'[u] = "count" => <<p[u], bit[u]>> # <<p[t], bit[t]>>
      BY <1>0, <1>c, <1>o, <2>1 DEF InService, Claimed
    <2>4. ASSUME NEW s \in Blocks \X (1 .. Slots), s = <<p[t], bit[t]>> PROVE s \in InUse'
      BY <1>b, <1>n, <2>3, <2>4 DEF InUse, Counting
    <2>5. ASSUME NEW s \in Blocks \X (1 .. Slots), s # <<p[t], bit[t]>>
          PROVE  s \in InUse' <=> s \in InUse
      BY <1>n, <1>c, <1>o, <2>1, <2>5 DEF InUse, Counting
    <2> QED
      BY <1>b, <2>2, <2>4, <2>5
  <1>i. /\ Cardinality(InUse') = Cardinality(InUse) + 1 /\ Cardinality(InUse) \in Nat
        /\ Cardinality(InUseOf(p[t])') = Cardinality(InUseOf(p[t])) + 1
        /\ Cardinality(InUseOf(p[t])) \in Nat
        /\ \A c \in Blocks \ {p[t]} : Cardinality(InUseOf(c)') = Cardinality(InUseOf(c))
    <2>1. ASSUME NEW b \in Blocks, NEW k \in 1 .. Slots, b = p[t], k = bit[t]
          PROVE  /\ Cardinality(InUse') = Cardinality(InUse) + 1 /\ Cardinality(InUse) \in Nat
                 /\ Cardinality(InUseOf(b)') = Cardinality(InUseOf(b)) + 1
                 /\ Cardinality(InUseOf(b)) \in Nat
                 /\ \A c \in Blocks \ {b} : Cardinality(InUseOf(c)') = Cardinality(InUseOf(c))
      <3>1. /\ <<b, k>> \notin InUse /\ <<b, k>> \in InUse'
            /\ \A c \in Blocks, j \in 1 .. Slots :
                  c # b \/ j # k => (<<c, j>> \in InUse <=> <<c, j>> \in InUse')
        BY <1>s, <2>1
      <3> QED
        BY <3>1, InUseMoves
    <2> QED
      BY <1>b, <1>n, <2>1
  <1>3. Claimed'
    <2>1. \A u \in Threads : pc'[u] = "count" => pc[u] = "count"
      BY <1>o DEF Others
    <2> QED
      BY <1>0, <1>n, <2>1 DEF InService, Claimed
  <1>4. OnePlace' /\ Successors' /\ Acyclic'
    BY <1>c, <1>n, <1>o, ListsKept DEF Popping, Listing
  <1>5. Managed'
    <2>1. \A u \in Threads : /\ pc'[u] \in Listing <=> pc[u] \in Listing
                             /\ pc[u] \in Listing => p'[u] = p[u]
      BY <1>c, <1>n, <1>o DEF Others, Listing, Popping
    <2> QED
      BY <1>0, <1>n, <1>p, <2>1 DEF InService, Managed
  <1>6. References'
    <2>1. ASSUME NEW c \in Blocks PROVE Holders(c)' = Holders(c) /\ Cardinality(Holders(c)) \in Nat
      <3>1. \A y : y \in Holders(c) <=> y \in Holders(c)'
        BY <1>c, <1>n, <1>o DEF Holders, Others, Holding
      <3> QED
        BY <1>o, <3>1, HoldersMove
    <2>2. ASSUME NEW c \in Blocks
          PROVE  refCount'[c] = One(Linked(c))' + Cardinality(InUseOf(c)') + Cardinality(Holders(c)')
      <3>1. /\ refCount[c] = One(Linked(c)) + Cardinality(InUseOf(c)) + Cardinality(Holders(c))
            /\ One(Linked(c))' = One(Linked(c)) /\ One(Linked(c)) \in Nat
        BY <1>0, <1>p DEF InService, References, One
      <3>2. CASE c = p[t]
        <4>1. Cardinality(InUseOf(c)') = Cardinality(InUseOf(c)) + 1 /\ Cardinality(InUseOf(c)) \in Nat
          <5>1. \A b : b = p[t] => /\ Cardinality(InUseOf(b)') = Cardinality(InUseOf(b)) + 1
                                   /\ Cardinality(InUseOf(b)) \in Nat
            BY <1>i, <1>n
          <5> QED
            BY <3>2, <5>1
        <4>2. refCount'[c] = refCount[c] + 1
          BY <1>b, <1>c, <3>2
        <4> QED
          BY <2>1, <3>1, <4>1, <4>2
      <3>3. CASE c # p[t]
        <4>1. refCount'[c] = refCount[c]
          BY <1>b, <1>c, <3>3
        <4> QED
          BY <1>i, <2>1, <3>1, <3>3, <4>1
      <3> QED
        BY <3>2, <3>3
    <2> QED
      BY <2>2 DEF References
  <1>7. Refers'
    <2>1. t \notin Releasing /\ t \notin Releasing'
      BY <1>b, <1>o DEF Releasing
    <2>2. Cardinality(Releasing') = Cardinality(Releasing) /\ Cardinality(Releasing) \in Nat
      BY <1>o, <2>1, ReleasingMoves
    <2>3. referCount = One(owner) + Cardinality(InUse) + Cardinality(Releasing) /\ One(owner) \in Nat
      BY <1>0 DEF InService, Refers, One
    <2>4. One(owner)' = One(owner)
      BY <1>n DEF One
    <2>5. referCount' = One(owner)' + Cardinality(InUse') + Cardinality(Releasing')
      BY <1>c, <1>i, <2>2, <2>3, <2>4
    <2> QED
      BY <2>5 DEF Refers
  <1>8. RecycledCounted'
    BY <1>0, <1>c, <1>n, <1>o, <1>p, RecycledKept DEF InService, Popping
  <1>9. AtRoot'
    <2>1. t \in Holders(p[t])
      BY <1>c DEF Holders, Holding
    <2>2. refCount[p[t]] >= 1
      BY <1>0, <1>b, <2>1, Unreferenced DEF InService
    <2>3. \A c \in Blocks : refCount'[c] = 0 <=> refCount[c] = 0
      BY <1>b, <1>c, <2>2
    <2> QED
      BY <1>0, <1>c, <1>n, <1>o, <2>3, AtRootKept DEF InService
  <1> QED
    BY <1>0, <1>c, <1>n, <1>1, <1>2, <1>3, <1>4, <1>5, <1>6, <1>7, <1>8, <1>9 DEF Busy, InService

LEMMA DeallocateKeeps ==
    ASSUME Busy, NEW t \in Threads, Deallocate(t)
    PROVE  Busy'
  <1>0. Typed /\ InService /\ LocalOf(t) /\ referCount \in Nat /\ referCount # 0
    BY DEF Busy, InService, Local, Typed, TypeOK
  <1>s. PICK s \in Blocks \X (1 .. Slots) :
           /\ owners[s] > 0 /\ ~Pending(s)
           /\ owners' = [owners EXCEPT ![s] = owners[s] - 1]
           /\ p' = [p EXCEPT ![t] = s[1]]
           /\ bitmap' = [bitmap EXCEPT ![s[1]] = bitmap[s[1]] \ {s[2]}]
    BY <1>0 DEF Deallocate, Set, Typed, TypeOK
  <1> DEFINE b == s[1]
             i == s[2]
  <1>b. /\ b \in Blocks /\ i \in 1 .. Slots /\ s = <<b, i>>
        /\ owners[<<b, i>>] = 1 /\ owners' = [owners EXCEPT ![<<b, i>>] = 0]
        /\ p' = [p EXCEPT ![t] = b] /\ bitmap' = [bitmap EXCEPT ![b] = bitmap[b] \ {i}]
        /\ ~Pending(<<b, i>>)
    <2>1. b \in Blocks /\ i \in 1 .. Slots /\ s = <<b, i>>
      OBVIOUS
    <2>2. owners[s] = 1
      <3>1. owners[s] \in {0, 1}
        BY <1>0 DEF Typed
      <3> QED
        BY <1>s, <3>1
    <2>3. /\ owners' = [owners EXCEPT ![s] = 0] /\ p' = [p EXCEPT ![t] = b]
          /\ bitmap' = [bitmap EXCEPT ![b] = bitmap[b] \ {i}]
      BY <1>s, <2>2
    <2> HIDE DEF b, i
    <2> QED
      BY <1>s, <2>1, <2>2, <2>3
  <1> HIDE DEF b, i
  <1>c. /\ pc[t] = "idle" /\ pc' = [pc EXCEPT ![t] = "recycle"]
        /\ after' = [after EXCEPT ![t] = "release"] /\ p[t] = NoBlock
    BY <1>0 DEF Deallocate, Goes, Set, LocalOf
  <1>n. /\ controlBlocks' = controlBlocks /\ recycleHead' = recycleHead
        /\ recycleCount' = recycleCount /\ referCount' = referCount
        /\ next' = next /\ refCount' = refCount /\ managed' = managed /\ atRoot' = atRoot
        /\ n' = n /\ rest' = rest /\ bit' = bit
        /\ owner' = owner
    BY DEF Deallocate, lists
  <1>e. /\ \A c \in Blocks, j \in 1 .. Slots : c # b \/ j # i =>
              owners'[<<c, j>>] = owners[<<c, j>>] /\ (j \in bitmap'[c] <=> j \in bitmap[c])
        /\ owners'[<<b, i>>] = 0 /\ i \notin bitmap'[b]
        /\ owners' \in [Blocks \X (1 .. Slots) -> {0, 1}]
        /\ bitmap' \in [Blocks -> SUBSET (1 .. Bits)]
    BY <1>0, <1>b DEF Typed, TypeOK
  <1>1. Typed'
    <2>0. p' \in [Threads -> Blocks \cup {NoBlock}]
      BY <1>0, <1>b DEF Typed
    <2>1. owners' \in [Blocks \X (1 .. Slots) -> Nat]
      BY <1>e
    <2>2. pc' \in [Threads -> Labels] /\ after' \in [Threads -> {"idle", "heads", "release"}]
      BY <1>0, <1>c DEF Typed, Labels, Holding
    <2> QED
      BY <1>0, <1>n, <1>e, <2>0, <2>1, <2>2 DEF Typed, TypeOK
  <1>o. Others(t) /\ pc'[t] = "recycle" /\ after'[t] = "release" /\ p'[t] = b /\ b # NoBlock
    BY <1>0, <1>b, <1>c, <1>n, TAllocatorAssumption DEF Typed, Others
  <1>p. /\ \A c : Stale(c)' <=> Stale(c)
        /\ \A c : InChain(c)' <=> InChain(c)
        /\ \A c : Linked(c)' <=> Linked(c)
    BY <1>c, <1>n, <1>o, PlacesStay DEF Popping
  <1>2. Local'
    <2>1. LocalOf(t)'
      BY <1>0, <1>c, <1>n, <1>o DEF LocalOf
    <2> QED
      BY <1>0, <1>n, <1>o, <2>1, LocalKept DEF InService
  <1>i. /\ Cardinality(InUse') = Cardinality(InUse) - 1 /\ Cardinality(InUse) \in Nat
        /\ Cardinality(InUseOf(b)') = Cardinality(InUseOf(b)) - 1
        /\ Cardinality(InUseOf(b)) \in Nat
        /\ \A c \in Blocks \ {b} : Cardinality(InUseOf(c)') = Cardinality(InUseOf(c))
    <2>1. \A x : Counting(x)' <=> Counting(x)
      BY <1>c, <1>o, <1>n DEF Counting, Others
    <2>2. <<b, i>> \in InUse
      BY <1>b DEF InUse, Counting, Pending
    <2>3. <<b, i>> \notin InUse'
      BY <1>e DEF InUse
    <2>4. \A c \in Blocks, j \in 1 .. Slots :
             c # b \/ j # i => (<<c, j>> \in InUse <=> <<c, j>> \in InUse')
      BY <1>e, <2>1 DEF InUse
    <2> QED
      BY <1>b, <2>2, <2>3, <2>4, InUseMoves
  <1>3. Claimed'
    <2>1. \A u \in Threads : pc'[u] = "count" => pc[u] = "count" /\ p'[u] = p[u] /\ bit'[u] = bit[u]
      BY <1>o DEF Others
    <2>2. \A c \in Blocks, j \in 1 .. Slots : owners'[<<c, j>>] = 1 <=> j \in bitmap'[c]
      <3> SUFFICES ASSUME NEW c \in Blocks, NEW j \in 1 .. Slots
                   PROVE  owners'[<<c, j>>] = 1 <=> j \in bitmap'[c]
        OBVIOUS
      <3>1. CASE c = b /\ j = i
        BY <1>e, <3>1
      <3>2. CASE c # b \/ j # i
        BY <1>0, <1>e, <3>2 DEF InService, Claimed
      <3> QED
        BY <3>1, <3>2
    <2>3. \A u \in Threads : pc[u] = "count" =>
             /\ owners[<<p[u], bit[u]>>] = 1 /\ p[u] \in Blocks /\ bit[u] \in 1 .. Slots
             /\ p[u] # b \/ bit[u] # i
      BY <1>0, <1>b DEF InService, Claimed, Pending, Local, LocalOf, Typed
    <2>4. \A u \in Threads : pc'[u] = "count" => owners'[<<p'[u], bit'[u]>>] = 1
      BY <1>e, <2>1, <2>3
    <2>5. \A u, v \in Threads :
             pc'[u] = "count" /\ pc'[v] = "count" /\ p'[u] = p'[v] /\ bit'[u] = bit'[v] => u = v
      BY <1>0, <2>1 DEF InService, Claimed
    <2> QED
      BY <2>2, <2>4, <2>5 DEF Claimed
  <1>4. OnePlace' /\ Successors' /\ Acyclic'
    BY <1>c, <1>n, <1>o, ListsKept DEF Popping, Listing
  <1>5. Managed'
    <2>1. \A u \in Threads : /\ pc'[u] \in Listing <=> pc[u] \in Listing
                             /\ pc[u] \in Listing => p'[u] = p[u]
      BY <1>c, <1>n, <1>o DEF Others, Listing, Popping
    <2> QED
      BY <1>0, <1>n, <1>p, <2>1 DEF InService, Managed
  <1>6. References'
    <2>1. t \notin Holders(b) /\ t \in Holders(b)'
      BY <1>c, <1>o DEF Holders, Holding
    <2>2. Cardinality(Holders(b)') = Cardinality(Holders(b)) + 1 /\ Cardinality(Holders(b)) \in Nat
      BY <1>o, <2>1, HoldersMove
    <2>3. ASSUME NEW c \in Blocks, c # b PROVE Holders(c)' = Holders(c)
      BY <1>c, <1>o, <2>3 DEF Holders, Others, Holding
    <2>4. ASSUME NEW c \in Blocks
          PROVE  refCount'[c] = One(Linked(c))' + Cardinality(InUseOf(c)') + Cardinality(Holders(c)')
      <3>1. /\ refCount[c] = One(Linked(c)) + Cardinality(InUseOf(c)) + Cardinality(Holders(c))
            /\ One(Linked(c))' = One(Linked(c)) /\ One(Linked(c)) \in Nat
        BY <1>0, <1>p DEF InService, References, One
      <3>2. CASE c = b
        BY <1>i, <1>n, <2>2, <3>1, <3>2
      <3>3. CASE c # b
        BY <1>i, <1>n, <2>3, <3>1, <3>3
      <3> QED
        BY <3>2, <3>3
    <2> QED
      BY <2>4 DEF References
  <1>7. Refers'
    <2>1. t \notin Releasing /\ t \in Releasing'
      BY <1>c, <1>o DEF Releasing
    <2>2. Cardinality(Releasing') = Cardinality(Releasing) + 1 /\ Cardinality(Releasing) \in Nat
      BY <1>o, <2>1, ReleasingMoves
    <2>3. referCount = One(owner) + Cardinality(InUse) + Cardinality(Releasing) /\ One(owner) \in Nat
      BY <1>0 DEF InService, Refers, One
    <2>4. One(owner)' = One(owner)
      BY <1>n DEF One
    <2>5. referCount' = One(owner)' + Cardinality(InUse') + Cardinality(Releasing')
      BY <1>n, <1>i, <2>2, <2>3, <2>4
    <2> QED
      BY <2>5 DEF Refers
  <1>8. RecycledCounted'
    BY <1>0, <1>c, <1>n, <1>o, <1>p, RecycledKept DEF InService, Popping
  <1>9. AtRoot'
    BY <1>0, <1>c, <1>n, <1>o, AtRootKept DEF InService
  <1> QED
    BY <1>0, <1>n, <1>1, <1>2, <1>3, <1>4, <1>5, <1>6, <1>7, <1>8, <1>9 DEF Busy, InService

(* The block has other references.                                           *)
LEMMA TryFreeKeeps ==
    ASSUME Busy, NEW t \in Threads, TryFree(t), refCount[p[t]] # 1
    PROVE  Busy'
  <1>0. Typed /\ InService /\ LocalOf(t) /\ referCount \in Nat /\ referCount # 0
    BY DEF Busy, InService, Local, Typed, TypeOK
  <1>c. /\ pc[t] = "free"
        /\ pc' = [pc EXCEPT ![t] = after[t]] /\ p' = [p EXCEPT ![t] = NoBlock]
        /\ n' = [n EXCEPT ![t] = 1] /\ bit' = [bit EXCEPT ![t] = 1]
        /\ refCount' = [refCount EXCEPT ![p[t]] = refCount[p[t]] - 1]
    BY DEF TryFree, Done, Set
  <1>n. /\ controlBlocks' = controlBlocks /\ recycleHead' = recycleHead
        /\ recycleCount' = recycleCount /\ referCount' = referCount
        /\ next' = next /\ managed' = managed /\ bitmap' = bitmap /\ atRoot' = atRoot
        /\ rest' = rest /\ after' = after
        /\ owners' = owners /\ owner' = owner
    BY DEF TryFree, Done, Set, lists
  <1>b. /\ p[t] \in Blocks /\ refCount \in [Blocks -> Nat] /\ refCount[p[t]] >= 2
        /\ after[t] \in {"idle", "heads", "release"}
    <2>1. t \in Holders(p[t]) /\ p[t] \in Blocks
      BY <1>0, <1>c DEF Holders, Holding, LocalOf, Typed
    <2>2. refCount[p[t]] >= 1
      BY <1>0, <2>1, Unreferenced DEF InService
    <2>3. refCount \in [Blocks -> Nat] /\ after[t] \in {"idle", "heads", "release"}
      BY <1>0 DEF Typed, TypeOK
    <2> QED
      BY <2>1, <2>2, <2>3
  <1>1. Typed'
    <2>1. refCount' \in [Blocks -> Nat]
      BY <1>b, <1>c
    <2>2. n' \in [Threads -> 1 .. W] /\ bit' \in [Threads -> Nat]
      BY <1>0, <1>c, TAllocatorAssumption DEF Typed
    <2>3. pc' \in [Threads -> Labels] /\ p' \in [Threads -> Blocks \cup {NoBlock}]
      BY <1>0, <1>b, <1>c DEF Typed, Labels
    <2> QED
      BY <1>0, <1>n, <2>1, <2>2, <2>3 DEF Typed, TypeOK
  <1>o. /\ Others(t) /\ pc'[t] = after[t] /\ p'[t] = NoBlock
        /\ pc'[t] \in {"idle", "heads", "release"}
    BY <1>0, <1>b, <1>c, <1>n DEF Typed, Others
  <1>p. /\ \A b : Stale(b)' <=> Stale(b)
        /\ \A b : InChain(b)' <=> InChain(b)
        /\ \A b : Linked(b)' <=> Linked(b)
    BY <1>c, <1>n, <1>o, PlacesStay DEF Popping
  <1>2. Local'
    <2>1. LocalOf(t)'
      BY <1>0, <1>c, <1>n, <1>o DEF LocalOf
    <2> QED
      BY <1>0, <1>n, <1>o, <2>1, LocalKept DEF InService
  <1>3. Claimed' /\ InUse' = InUse /\ \A b : InUseOf(b)' = InUseOf(b)
    BY <1>0, <1>c, <1>n, <1>o, ClaimedKept DEF InService
  <1>4. OnePlace' /\ Successors' /\ Acyclic'
    BY <1>c, <1>n, <1>o, ListsKept DEF Popping, Listing
  <1>5. Managed'
    <2>1. \A u \in Threads : /\ pc'[u] \in Listing <=> pc[u] \in Listing
                             /\ pc[u] \in Listing => p'[u] = p[u]
      BY <1>c, <1>n, <1>o DEF Others, Listing, Popping
    <2> QED
      BY <1>0, <1>n, <1>p, <2>1 DEF InService, Managed
  <1>6. References'
    <2>1. ASSUME NEW c \in Blocks
          PROVE  refCount'[c] = One(Linked(c))' + Cardinality(InUseOf(c)') + Cardinality(Holders(c)')
      <3>1. /\ refCount[c] = One(Linked(c)) + Cardinality(InUseOf(c)) + Cardinality(Holders(c))
            /\ One(Linked(c))' = One(Linked(c)) /\ One(Linked(c)) \in Nat
        BY <1>0, <1>p DEF InService, References, One
      <3>2. Cardinality(InUseOf(c)') = Cardinality(InUseOf(c)) /\ Cardinality(InUseOf(c)) \in Nat
        BY <1>0, <1>3, Unreferenced DEF InService
      <3>3. CASE c = p[t]
        <4>1. t \in Holders(c) /\ t \notin Holders(c)'
          BY <1>b, <1>c, <1>o, <3>3, TAllocatorAssumption DEF Holders, Holding
        <4>2. Cardinality(Holders(c)') = Cardinality(Holders(c)) - 1 /\ Cardinality(Holders(c)) \in Nat
          BY <1>o, <4>1, HoldersMove
        <4>3. refCount'[c] = refCount[c] - 1
          BY <1>b, <1>c, <3>3
        <4> QED
          BY <3>1, <3>2, <4>2, <4>3
      <3>4. CASE c # p[t]
        <4>1. Holders(c)' = Holders(c)
          BY <1>o, <3>4, TAllocatorAssumption DEF Holders, Others
        <4>2. refCount'[c] = refCount[c]
          BY <1>b, <1>c, <3>4
        <4> QED
          BY <3>1, <3>2, <4>1, <4>2
      <3> QED
        BY <3>3, <3>4
    <2> QED
      BY <2>1 DEF References
  <1>7. Refers'
    <2>1. t \in Releasing <=> t \in Releasing'
      BY <1>0, <1>c, <1>n, <1>o DEF Releasing, LocalOf
    <2> QED
      BY <1>0, <1>n, <1>o, <1>3, <2>1, RefersKept DEF InService
  <1>8. RecycledCounted'
    BY <1>0, <1>c, <1>n, <1>o, <1>p, RecycledKept DEF InService, Popping
  <1>9. AtRoot'
    <2>1. \A c \in Blocks : refCount'[c] = 0 <=> refCount[c] = 0
      BY <1>b, <1>c
    <2> QED
      BY <1>0, <1>c, <1>n, <1>o, <2>1, AtRootKept DEF InService
  <1> QED
    BY <1>0, <1>n, <1>1, <1>2, <1>3, <1>4, <1>5, <1>6, <1>7, <1>8, <1>9 DEF Busy, InService

(* It was the last one.                                                      *)
LEMMA TryFreeLastKeeps ==
    ASSUME Busy, NEW t \in Threads, TryFree(t), refCount[p[t]] = 1
    PROVE  Busy'
  <1>0. Typed /\ InService /\ LocalOf(t) /\ referCount \in Nat /\ referCount # 0
    BY DEF Busy, InService, Local, Typed, TypeOK
  <1>c. /\ pc[t] = "free" /\ pc' = [pc EXCEPT ![t] = "rootFree"]
        /\ refCount' = [refCount EXCEPT ![p[t]] = refCount[p[t]] - 1]
    BY DEF TryFree, Goes, Set
  <1>n. /\ controlBlocks' = controlBlocks /\ recycleHead' = recycleHead
        /\ recycleCount' = recycleCount /\ referCount' = referCount
        /\ next' = next /\ managed' = managed /\ bitmap' = bitmap /\ atRoot' = atRoot
        /\ p' = p /\ n' = n /\ rest' = rest /\ bit' = bit /\ after' = after
        /\ owners' = owners /\ owner' = owner
    BY DEF TryFree, local, lists
  <1>b. /\ p[t] \in Blocks /\ refCount \in [Blocks -> Nat] /\ t \in Holders(p[t])
        /\ ~Linked(p[t]) /\ InUseOf(p[t]) = {} /\ Holders(p[t]) = {t}
    <2>1. t \in Holders(p[t]) /\ p[t] \in Blocks
      BY <1>0, <1>c DEF Holders, Holding, LocalOf, Typed
    <2>2. ~Linked(p[t]) /\ InUseOf(p[t]) = {} /\ Holders(p[t]) = {t}
      BY <1>0, <2>1, Unreferenced DEF InService
    <2> QED
      BY <1>0, <2>1, <2>2 DEF Typed, TypeOK
  <1>r. refCount'[p[t]] = 0 /\ \A c \in Blocks \ {p[t]} : refCount'[c] = refCount[c]
    BY <1>b, <1>c
  <1>1. Typed'
    <2>1. refCount' \in [Blocks -> Nat]
      BY <1>b, <1>r, <1>c
    <2>2. pc' \in [Threads -> Labels]
      BY <1>0, <1>c DEF Typed, Labels
    <2> QED
      BY <1>0, <1>n, <2>1, <2>2 DEF Typed, TypeOK
  <1>o. Others(t) /\ pc'[t] = "rootFree"
    BY <1>0, <1>c, <1>n DEF Typed, Others
  <1>p. /\ \A b : Stale(b)' <=> Stale(b)
        /\ \A b : InChain(b)' <=> InChain(b)
        /\ \A b : Linked(b)' <=> Linked(b)
    BY <1>c, <1>n, <1>o, PlacesStay DEF Popping
  <1>2. Local'
    <2>1. LocalOf(t)'
      BY <1>0, <1>c, <1>n, <1>o DEF LocalOf
    <2> QED
      BY <1>0, <1>n, <1>o, <2>1, LocalKept DEF InService
  <1>3. Claimed' /\ InUse' = InUse /\ \A b : InUseOf(b)' = InUseOf(b)
    BY <1>0, <1>c, <1>n, <1>o, ClaimedKept DEF InService
  <1>4. OnePlace' /\ Successors' /\ Acyclic'
    BY <1>c, <1>n, <1>o, ListsKept DEF Popping, Listing
  <1>5. Managed'
    <2>1. \A u \in Threads : /\ pc'[u] \in Listing <=> pc[u] \in Listing
                             /\ pc[u] \in Listing => p'[u] = p[u]
      BY <1>c, <1>n, <1>o DEF Others, Listing, Popping
    <2> QED
      BY <1>0, <1>n, <1>p, <2>1 DEF InService, Managed
  <1>6. References'
    <2>1. ASSUME NEW c \in Blocks
          PROVE  refCount'[c] = One(Linked(c))' + Cardinality(InUseOf(c)') + Cardinality(Holders(c)')
      <3>1. /\ refCount[c] = One(Linked(c)) + Cardinality(InUseOf(c)) + Cardinality(Holders(c))
            /\ One(Linked(c))' = One(Linked(c)) /\ One(Linked(c)) \in Nat
        BY <1>0, <1>p DEF InService, References, One
      <3>2. Cardinality(InUseOf(c)') = Cardinality(InUseOf(c)) /\ Cardinality(InUseOf(c)) \in Nat
        BY <1>0, <1>3, Unreferenced DEF InService
      <3>3. CASE c = p[t]
        <4>1. t \in Holders(c) /\ t \notin Holders(c)'
          BY <1>b, <1>o, <3>3 DEF Holders, Holding
        <4>2. Cardinality(Holders(c)') = Cardinality(Holders(c)) - 1 /\ Cardinality(Holders(c)) \in Nat
          BY <1>o, <4>1, HoldersMove
        <4>3. refCount'[c] = refCount[c] - 1
          BY <1>b, <1>c, <3>3
        <4> QED
          BY <3>1, <3>2, <4>2, <4>3
      <3>4. CASE c # p[t]
        <4>1. Holders(c)' = Holders(c)
          BY <1>n, <1>o, <3>4 DEF Holders, Others
        <4>2. refCount'[c] = refCount[c]
          BY <1>b, <1>c, <3>4
        <4> QED
          BY <3>1, <3>2, <4>1, <4>2
      <3> QED
        BY <3>3, <3>4
    <2> QED
      BY <2>1 DEF References
  <1>7. Refers'
    <2>1. t \in Releasing <=> t \in Releasing'
      BY <1>0, <1>c, <1>n, <1>o DEF Releasing, LocalOf
    <2> QED
      BY <1>0, <1>n, <1>o, <1>3, <2>1, RefersKept DEF InService
  <1>8. RecycledCounted'
    BY <1>0, <1>c, <1>n, <1>o, <1>p, RecycledKept DEF InService, Popping
  <1>9. AtRoot'
    <2>1. p[t] \notin atRoot
      BY <1>0 DEF InService, AtRoot
    <2>2. \A u \in Threads : pc[u] = "rootFree" => p[u] \in Blocks \ {p[t]}
      BY <1>0 DEF InService, Local, LocalOf, Typed, AtRoot
    <2>3. \A u \in Threads \ {t} : pc'[u] = pc[u]
      BY <1>o DEF Others
    <2>4. \A c \in atRoot' : refCount'[c] = 0
      BY <1>0, <1>n, <1>r, <2>1 DEF InService, AtRoot, Typed, TypeOK
    <2>5. \A c \in Blocks \ atRoot' :
             refCount'[c] = 0 => \E u \in Threads : p'[u] = c /\ pc'[u] = "rootFree"
      BY <1>0, <1>c, <1>n, <1>o, <1>r, <2>3 DEF InService, AtRoot
    <2>6. \A u \in Threads : pc'[u] = "rootFree" => refCount'[p'[u]] = 0 /\ p'[u] \notin atRoot'
      BY <1>0, <1>n, <1>r, <2>1, <2>2, <2>3 DEF InService, AtRoot
    <2>7. \A u, v \in Threads : pc'[u] = "rootFree" /\ pc'[v] = "rootFree" /\ p'[u] = p'[v] => u = v
      BY <1>0, <1>n, <2>2, <2>3 DEF InService, AtRoot
    <2> QED
      BY <2>4, <2>5, <2>6, <2>7 DEF AtRoot
  <1> QED
    BY <1>0, <1>n, <1>1, <1>2, <1>3, <1>4, <1>5, <1>6, <1>7, <1>8, <1>9 DEF Busy, InService

LEMMA RootDeallocateKeeps ==
    ASSUME Busy, NEW t \in Threads, RootDeallocate(t)
    PROVE  Busy'
  <1>0. Typed /\ InService /\ LocalOf(t) /\ referCount \in Nat /\ referCount # 0
    BY DEF Busy, InService, Local, Typed, TypeOK
  <1>c. /\ pc[t] = "rootFree"
        /\ pc' = [pc EXCEPT ![t] = after[t]] /\ p' = [p EXCEPT ![t] = NoBlock]
        /\ n' = [n EXCEPT ![t] = 1] /\ bit' = [bit EXCEPT ![t] = 1]
        /\ atRoot' = atRoot \cup {p[t]}
    BY DEF RootDeallocate, Done, Set
  <1>n. /\ controlBlocks' = controlBlocks /\ recycleHead' = recycleHead
        /\ recycleCount' = recycleCount /\ referCount' = referCount
        /\ next' = next /\ refCount' = refCount /\ managed' = managed /\ bitmap' = bitmap
        /\ rest' = rest /\ after' = after
        /\ owners' = owners /\ owner' = owner
    BY DEF RootDeallocate, Done, Set, lists, block
  <1>b. p[t] \in Blocks /\ after[t] \in {"idle", "heads", "release"} /\ refCount[p[t]] = 0
    BY <1>0, <1>c DEF LocalOf, Typed, InService, AtRoot
  <1>1. Typed'
    <2>1. atRoot' \subseteq Blocks
      BY <1>0, <1>b, <1>c DEF Typed, TypeOK
    <2>2. n' \in [Threads -> 1 .. W] /\ bit' \in [Threads -> Nat]
      BY <1>0, <1>c, TAllocatorAssumption DEF Typed
    <2>3. pc' \in [Threads -> Labels] /\ p' \in [Threads -> Blocks \cup {NoBlock}]
      BY <1>0, <1>b, <1>c DEF Typed, Labels
    <2> QED
      BY <1>0, <1>n, <2>1, <2>2, <2>3 DEF Typed, TypeOK
  <1>o. /\ Others(t) /\ pc'[t] = after[t] /\ p'[t] = NoBlock
        /\ pc'[t] \in {"idle", "heads", "release"}
    BY <1>0, <1>b, <1>c, <1>n DEF Typed, Others
  <1>p. /\ \A b : Stale(b)' <=> Stale(b)
        /\ \A b : InChain(b)' <=> InChain(b)
        /\ \A b : Linked(b)' <=> Linked(b)
    BY <1>c, <1>n, <1>o, PlacesStay DEF Popping
  <1>2. Local'
    <2>1. LocalOf(t)'
      BY <1>0, <1>c, <1>n, <1>o DEF LocalOf
    <2> QED
      BY <1>0, <1>n, <1>o, <2>1, LocalKept DEF InService
  <1>3. Claimed' /\ InUse' = InUse /\ \A b : InUseOf(b)' = InUseOf(b)
    BY <1>0, <1>c, <1>n, <1>o, ClaimedKept DEF InService
  <1>4. OnePlace' /\ Successors' /\ Acyclic'
    BY <1>c, <1>n, <1>o, ListsKept DEF Popping, Listing
  <1>5. Managed'
    <2>1. \A u \in Threads : /\ pc'[u] \in Listing <=> pc[u] \in Listing
                             /\ pc[u] \in Listing => p'[u] = p[u]
      BY <1>c, <1>n, <1>o DEF Others, Listing, Popping
    <2> QED
      BY <1>0, <1>n, <1>p, <2>1 DEF InService, Managed
  <1>6. References'
    <2>1. \A b : t \in Holders(b) <=> t \in Holders(b)'
      BY <1>c, <1>n, <1>o DEF Holders, Holding
    <2> QED
      BY <1>0, <1>n, <1>o, <1>p, <1>3, <2>1, ReferencesKept DEF InService
  <1>7. Refers'
    <2>1. t \in Releasing <=> t \in Releasing'
      BY <1>0, <1>c, <1>n, <1>o DEF Releasing, LocalOf
    <2> QED
      BY <1>0, <1>n, <1>o, <1>3, <2>1, RefersKept DEF InService
  <1>8. RecycledCounted'
    BY <1>0, <1>c, <1>n, <1>o, <1>p, RecycledKept DEF InService, Popping
  <1>9. AtRoot'
    <2>1. \A u \in Threads : pc'[u] = "rootFree" =>
             pc[u] = "rootFree" /\ p'[u] = p[u] /\ u # t
      BY <1>o DEF Others
    <2>2. \A u \in Threads : u # t /\ pc[u] = "rootFree" =>
             pc'[u] = "rootFree" /\ p'[u] = p[u] /\ p[u] # p[t]
      BY <1>0, <1>c, <1>o DEF Others, InService, AtRoot
    <2>4. \A c \in atRoot' : refCount'[c] = 0
      BY <1>0, <1>b, <1>c, <1>n DEF InService, AtRoot
    <2>5. \A c \in Blocks \ atRoot' :
             refCount'[c] = 0 => \E u \in Threads : p'[u] = c /\ pc'[u] = "rootFree"
      BY <1>0, <1>c, <1>n, <2>2 DEF InService, AtRoot
    <2>6. \A u \in Threads : pc'[u] = "rootFree" => refCount'[p'[u]] = 0 /\ p'[u] \notin atRoot'
      BY <1>0, <1>c, <1>n, <2>1, <2>2 DEF InService, AtRoot
    <2>7. \A u, v \in Threads : pc'[u] = "rootFree" /\ pc'[v] = "rootFree" /\ p'[u] = p'[v] => u = v
      BY <1>0, <2>1 DEF InService, AtRoot
    <2> QED
      BY <2>4, <2>5, <2>6, <2>7 DEF AtRoot
  <1> QED
    BY <1>0, <1>n, <1>1, <1>2, <1>3, <1>4, <1>5, <1>6, <1>7, <1>8, <1>9 DEF Busy, InService

-----------------------------------------------------------------------------
(* Steps that take a block from a list or put it there                       *)

(* The reference of the list goes to the thread that takes the block, or     *)
(* that of the thread to the list.                                           *)
LEMMA ReferencesHanded ==
    ASSUME References, NEW t \in Threads, Others(t), NEW b \in Blocks, refCount' = refCount,
           \A c : InUseOf(c)' = InUseOf(c),
           \A c \in Blocks \ {b} : /\ Linked(c)' <=> Linked(c)
                                   /\ t \in Holders(c) <=> t \in Holders(c)',
           t \in Holders(b) <=> ~Linked(b), t \in Holders(b)' <=> ~Linked(b)',
           Linked(b)' <=> ~Linked(b)
    PROVE  References'
  <1>1. ASSUME NEW c \in Blocks
        PROVE  refCount'[c] = One(Linked(c))' + Cardinality(InUseOf(c)') + Cardinality(Holders(c)')
    <2>1. /\ refCount[c] = One(Linked(c)) + Cardinality(InUseOf(c)) + Cardinality(Holders(c))
          /\ One(Linked(c)) = (IF Linked(c) THEN 1 ELSE 0)
          /\ One(Linked(c))' = (IF Linked(c)' THEN 1 ELSE 0)
      BY DEF References, One
    <2>2. Cardinality(InUseOf(c)') = Cardinality(InUseOf(c)) /\ Cardinality(InUseOf(c)) \in Nat
      <3>1. IsFiniteSet(InUseOf(c))
        BY SlotsFinite, FS_Subset DEF InUseOf
      <3> QED
        BY <3>1, FS_CardinalityType
    <2>3. CASE c = b
      <3>1. /\ Cardinality(Holders(c)) \in Nat /\ Cardinality(Holders(c)') \in Nat
            /\ t \in Holders(c) /\ t \notin Holders(c)'
                  => Cardinality(Holders(c)') = Cardinality(Holders(c)) - 1
            /\ t \notin Holders(c) /\ t \in Holders(c)'
                  => Cardinality(Holders(c)') = Cardinality(Holders(c)) + 1
        BY HoldersMove
      <3>2. CASE Linked(c)
        <4>1. /\ One(Linked(c)) = 1 /\ One(Linked(c))' = 0
              /\ Cardinality(Holders(c)') = Cardinality(Holders(c)) + 1
          BY <2>1, <2>3, <3>1, <3>2
        <4> QED
          BY <2>1, <2>2, <3>1, <4>1
      <3>3. CASE ~Linked(c)
        <4>1. /\ One(Linked(c)) = 0 /\ One(Linked(c))' = 1
              /\ Cardinality(Holders(c)') = Cardinality(Holders(c)) - 1
          BY <2>1, <2>3, <3>1, <3>3
        <4> QED
          BY <2>1, <2>2, <3>1, <4>1
      <3> QED
        BY <3>2, <3>3
    <2>4. CASE c # b
      <3>1. Cardinality(Holders(c)') = Cardinality(Holders(c))
        BY <2>4, HoldersMove
      <3>2. One(Linked(c))' = One(Linked(c))
        BY <2>1, <2>4
      <3> QED
        BY <2>1, <2>2, <3>1, <3>2
    <2> QED
      BY <2>3, <2>4
  <1> QED
    BY <1>1 DEF References

(* The block stays managed meanwhile.                                        *)
LEMMA ManagedHanded ==
    ASSUME Managed, NEW t \in Threads, Others(t), NEW b \in Blocks, managed' = managed,
           \A c \in Blocks \ {b} :
              /\ Linked(c)' <=> Linked(c)
              /\ p[t] = c /\ pc[t] \in Listing <=> p'[t] = c /\ pc'[t] \in Listing,
           ~Linked(b) => p[t] = b /\ pc[t] \in Listing,
           ~Linked(b)' => p'[t] = b /\ pc'[t] \in Listing
    PROVE  Managed'
  <1>1. \A c : \A u \in Threads \ {t} :
           p'[u] = c /\ pc'[u] \in Listing <=> p[u] = c /\ pc[u] \in Listing
    BY DEF Others
  <1>2. ASSUME NEW c \in Blocks
        PROVE  managed'[c] = 1 <=> (Linked(c)' \/ \E u \in Threads : p'[u] = c /\ pc'[u] \in Listing)
    BY <1>1 DEF Managed
  <1> QED
    BY <1>2 DEF Managed

LEMMA TakeHeadKeeps ==
    ASSUME Busy, NEW t \in Threads, TakeHead(t), controlBlocks[n[t]] # NoBlock
    PROVE  Busy'
  <1>0. Typed /\ InService /\ LocalOf(t) /\ referCount \in Nat /\ referCount # 0
    BY DEF Busy, InService, Local, Typed, TypeOK
  <1>d. PICK b : b = controlBlocks[n[t]] /\ b # NoBlock
    OBVIOUS
  <1>b. b \in Blocks /\ n[t] \in 1 .. W /\ W \in Nat /\ Linked(b) /\ ~InChain(b)
    BY <1>0, <1>d, TAllocatorAssumption DEF Typed, TypeOK, Linked, InService, OnePlace
  <1>c. /\ pc[t] = "heads" /\ pc' = [pc EXCEPT ![t] = "unmanage"] /\ p' = [p EXCEPT ![t] = b]
        /\ controlBlocks' = [controlBlocks EXCEPT ![n[t]] = NoBlock]
        /\ n' = [n EXCEPT ![t] = IF n[t] < W THEN n[t] + 1 ELSE 1] /\ p[t] = NoBlock
    BY <1>0, <1>d DEF TakeHead, Goes, Set, LocalOf
  <1>n. /\ recycleHead' = recycleHead /\ recycleCount' = recycleCount /\ referCount' = referCount
        /\ next' = next /\ refCount' = refCount /\ managed' = managed /\ bitmap' = bitmap
        /\ atRoot' = atRoot
        /\ rest' = rest /\ bit' = bit /\ after' = after
        /\ owners' = owners /\ owner' = owner
    BY DEF TakeHead, block
  <1>1. Typed'
    <2>1. (IF n[t] < W THEN n[t] + 1 ELSE 1) \in 1 .. W
      BY <1>b
    <2>2. n' \in [Threads -> 1 .. W]
      BY <1>0, <1>c, <2>1 DEF Typed
    <2>3. controlBlocks' \in [1 .. W -> Blocks \cup {NoBlock}]
      BY <1>0, <1>c DEF Typed, TypeOK
    <2>4. pc' \in [Threads -> Labels] /\ p' \in [Threads -> Blocks \cup {NoBlock}]
      BY <1>0, <1>b, <1>c DEF Typed, Labels, Holding
    <2> QED
      BY <1>0, <1>n, <2>2, <2>3, <2>4 DEF Typed, TypeOK
  <1>o. Others(t) /\ pc'[t] = "unmanage" /\ p'[t] = b /\ b # NoBlock
    BY <1>0, <1>b, <1>c, <1>n, TAllocatorAssumption DEF Typed, Others
  <1>p. /\ \A c : Stale(c)' <=> Stale(c)
        /\ \A c : InChain(c)' <=> InChain(c)
    BY <1>c, <1>n, <1>o, ChainsStay DEF Popping
  <1>h. \A i \in 1 .. W : controlBlocks'[i] = IF controlBlocks[i] = b THEN NoBlock ELSE controlBlocks[i]
    BY <1>0, <1>d, <1>b, <1>c DEF Typed, TypeOK, InService, OnePlace
  <1>l. \A c \in Blocks : Linked(c)' <=> Linked(c) /\ c # b
    BY <1>b, <1>h, <1>p, TAllocatorAssumption DEF Linked
  <1>2. Local'
    <2>1. LocalOf(t)'
      BY <1>0, <1>c, <1>n, <1>o DEF LocalOf
    <2> QED
      BY <1>0, <1>n, <1>o, <2>1, LocalKept DEF InService
  <1>3. Claimed' /\ InUse' = InUse /\ \A c : InUseOf(c)' = InUseOf(c)
    BY <1>0, <1>c, <1>n, <1>o, ClaimedKept DEF InService
  <1>4. OnePlace' /\ Successors' /\ Acyclic'
    <2>0. OnePlace /\ Successors /\ Acyclic
      BY <1>0 DEF InService
    <2>t. \A u \in Threads : /\ pc'[u] \in Carrying <=> pc[u] \in Carrying
                             /\ pc[u] \in Carrying => rest'[u] = rest[u]
      BY <1>c, <1>o DEF Others, Carrying
    <2>l. \A u \in Threads \ {t} : pc'[u] = pc[u] /\ p'[u] = p[u]
      BY <1>o DEF Others
    <2>1. \A i, j \in 1 .. W :
             controlBlocks'[i] # NoBlock /\ controlBlocks'[i] = controlBlocks'[j] => i = j
      BY <1>h, <2>0 DEF OnePlace
    <2>2. \A i \in 1 .. W : controlBlocks'[i] # NoBlock => ~InChain(controlBlocks[i])'
      <3> SUFFICES ASSUME NEW i \in 1 .. W, controlBlocks'[i] # NoBlock
                   PROVE  ~InChain(controlBlocks[i])'
        OBVIOUS
      <3>1. \A c : c = controlBlocks'[i] => ~InChain(c)'
        BY <1>h, <1>p, <2>0 DEF OnePlace
      <3> QED
        BY <3>1
    <2>8. \A u \in Threads : pc'[u] \in Listing => ~Linked(p[u])'
      <3> SUFFICES ASSUME NEW u \in Threads, pc'[u] \in Listing
                   PROVE  ~Linked(p[u])'
        OBVIOUS
      <3>1. p'[u] \in Blocks
        <4>1. pc'[u] \notin {"idle", "heads", "recycled", "root", "release"}
          BY DEF Listing, Popping
        <4> QED
          BY <1>1, <1>2, <4>1 DEF Local, LocalOf, Typed
      <3>2. u # t => ~Linked(p'[u])
        BY <2>0, <2>l DEF OnePlace
      <3>3. \A c : c = p'[u] => ~Linked(c)'
        BY <1>l, <1>o, <3>1, <3>2
      <3> QED
        BY <3>3
    <2>9. \A u, v \in Threads : pc'[u] \in Listing /\ pc'[v] \in Listing /\ p'[u] = p'[v] => u = v
      BY <1>b, <1>o, <2>0, <2>l DEF OnePlace
    <2>10. OnePlace'
      BY <1>n, <1>p, <2>0, <2>t, <2>1, <2>2, <2>8, <2>9 DEF OnePlace
    <2>11. Successors'
      BY <1>n, <1>p, <2>0 DEF Successors
    <2>12. Acyclic'
      BY <1>n, <1>p, <2>0 DEF Acyclic, Ordered
    <2> QED
      BY <2>10, <2>11, <2>12
  <1>5. Managed'
    <2>1. \A c \in Blocks \ {b} :
             p[t] = c /\ pc[t] \in Listing <=> p'[t] = c /\ pc'[t] \in Listing
      BY <1>c, <1>b, <1>o, TAllocatorAssumption DEF Listing, Popping
    <2>2. ~Linked(b) => p[t] = b /\ pc[t] \in Listing
      BY <1>b, <1>c, <1>l DEF Listing, Popping
    <2>3. ~Linked(b)' => p'[t] = b /\ pc'[t] \in Listing
      BY <1>b, <1>o, <1>l DEF Listing, Popping
    <2> QED
      BY <1>0, <1>b, <1>n, <1>o, <1>l, <2>1, <2>2, <2>3, ManagedHanded DEF InService
  <1>6. References'
    <2>1. \A c \in Blocks \ {b} : t \in Holders(c) <=> t \in Holders(c)'
      BY <1>c, <1>b, <1>o, TAllocatorAssumption DEF Holders, Holding
    <2>2. t \in Holders(b) <=> ~Linked(b)
      BY <1>b, <1>c, <1>l, TAllocatorAssumption DEF Holders, Holding
    <2>3. t \in Holders(b)' <=> ~Linked(b)'
      BY <1>b, <1>o, <1>l, TAllocatorAssumption DEF Holders, Holding
    <2>4. Linked(b)' <=> ~Linked(b)
      BY <1>b, <1>l
    <2> QED
      BY <1>0, <1>b, <1>n, <1>o, <1>l, <1>3, <2>1, <2>2, <2>3, <2>4, ReferencesHanded DEF InService
  <1>7. Refers'
    <2>1. t \in Releasing <=> t \in Releasing'
      BY <1>0, <1>c, <1>n, <1>o DEF Releasing, LocalOf
    <2> QED
      BY <1>0, <1>n, <1>o, <1>3, <2>1, RefersKept DEF InService
  <1>8. RecycledCounted'
    BY <1>0, <1>c, <1>n, <1>o, <1>p, RecycledKept DEF InService, Popping
  <1>9. AtRoot'
    BY <1>0, <1>c, <1>n, <1>o, AtRootKept DEF InService
  <1> QED
    BY <1>0, <1>c, <1>n, <1>1, <1>2, <1>3, <1>4, <1>5, <1>6, <1>7, <1>8, <1>9 DEF Busy, InService

LEMMA TakeRecycledKeeps ==
    ASSUME Busy, NEW t \in Threads, TakeRecycled(t), recycleHead # NoBlock
    PROVE  Busy'
  <1>0. Typed /\ InService /\ LocalOf(t) /\ referCount \in Nat /\ referCount # 0
    BY DEF Busy, InService, Local, Typed, TypeOK
  <1>d. PICK b : b = recycleHead /\ b # NoBlock
    OBVIOUS
  <1>b. /\ b \in Blocks /\ Linked(b) /\ InChain(b) /\ ~Stale(b)
        /\ \A u \in Threads : pc[u] \in Listing => p[u] # b
    <2>1. b \in Blocks /\ Linked(b) /\ InChain(b)
      BY <1>0, <1>d DEF Typed, TypeOK, Linked, InChain
    <2>2. \A u \in Threads : pc[u] \in Listing => p[u] # b
      BY <1>0, <2>1 DEF InService, OnePlace
    <2> QED
      BY <2>1, <2>2 DEF Stale, Listing
  <1>c. /\ pc[t] = "recycled" /\ pc' = [pc EXCEPT ![t] = "reinstall"] /\ p' = [p EXCEPT ![t] = b]
        /\ rest' = [rest EXCEPT ![t] = next[b]] /\ recycleHead' = NoBlock /\ p[t] = NoBlock
    BY <1>0, <1>d DEF TakeRecycled, Goes, Set, LocalOf
  <1>n. /\ controlBlocks' = controlBlocks /\ recycleCount' = recycleCount /\ referCount' = referCount
        /\ next' = next /\ refCount' = refCount /\ managed' = managed /\ bitmap' = bitmap
        /\ atRoot' = atRoot
        /\ n' = n /\ bit' = bit /\ after' = after
        /\ owners' = owners /\ owner' = owner
    BY DEF TakeRecycled, block
  <1>1. Typed'
    <2>1. next[b] \in Blocks \cup {NoBlock}
      BY <1>0, <1>b DEF Typed, TypeOK
    <2>2. rest' \in [Threads -> Blocks \cup {NoBlock}] /\ p' \in [Threads -> Blocks \cup {NoBlock}]
      BY <1>0, <1>b, <1>c, <2>1 DEF Typed
    <2>3. pc' \in [Threads -> Labels]
      BY <1>0, <1>c DEF Typed, Labels, Holding
    <2> QED
      BY <1>0, <1>c, <1>n, <2>2, <2>3 DEF Typed, TypeOK
  <1>o. Others(t) /\ pc'[t] = "reinstall" /\ p'[t] = b /\ b # NoBlock /\ rest'[t] = next[b]
    BY <1>0, <1>b, <1>c, <1>n, TAllocatorAssumption DEF Typed, Others
  <1>p. /\ \A c \in Blocks : Stale(c)' <=> Stale(c) \/ c = b
        /\ \A c \in Blocks : InChain(c)' <=> InChain(c) /\ c # b
    <2>0. OnePlace
      BY <1>0 DEF InService
    <2>l. \A u \in Threads \ {t} : pc'[u] = pc[u] /\ p'[u] = p[u] /\ rest'[u] = rest[u]
      BY <1>o DEF Others
    <2>1. \A c \in Blocks : Stale(c)' <=> Stale(c) \/ c = b
      BY <1>c, <1>o, <2>l DEF Stale, Popping
    <2>2. ASSUME NEW x \in Blocks, InChain(x)' PROVE InChain(x) /\ x # b
      <3>1. CASE \E u \in Threads : pc'[u] \in Carrying /\ rest'[u] = x
        <4>1. PICK u \in Threads : pc'[u] \in Carrying /\ rest'[u] = x
          BY <3>1
        <4>2. CASE u = t
          BY <1>b, <1>d, <1>o, <2>0, <4>1, <4>2, TAllocatorAssumption DEF InChain, OnePlace
        <4>3. CASE u # t
          BY <1>d, <2>0, <2>l, <4>1, <4>3, TAllocatorAssumption DEF InChain, OnePlace
        <4> QED
          BY <4>2, <4>3
      <3>2. CASE \E c \in Blocks : next'[c] = x /\ ~Stale(c)'
        BY <1>d, <1>n, <2>0, <2>1, <3>2, TAllocatorAssumption DEF InChain, OnePlace
      <3> QED
        BY <1>c, <2>2, <3>1, <3>2, TAllocatorAssumption DEF InChain
    <2>3. ASSUME NEW x \in Blocks, InChain(x), x # b PROVE InChain(x)'
      <3>1. CASE \E u \in Threads : pc[u] \in Carrying /\ rest[u] = x
        BY <1>c, <2>l, <3>1 DEF InChain, Carrying
      <3>2. CASE \E c \in Blocks : next[c] = x /\ ~Stale(c)
        BY <1>n, <1>o, <2>1, <3>2 DEF InChain, Carrying
      <3> QED
        BY <1>d, <2>3, <3>1, <3>2 DEF InChain
    <2> QED
      BY <2>1, <2>2, <2>3
  <1>l. \A c \in Blocks : Linked(c)' <=> Linked(c) /\ c # b
    BY <1>0, <1>b, <1>d, <1>n, <1>p, TAllocatorAssumption DEF Linked, InService, OnePlace
  <1>2. Local'
    <2>1. LocalOf(t)'
      BY <1>0, <1>c, <1>n, <1>o DEF LocalOf
    <2> QED
      BY <1>0, <1>n, <1>o, <2>1, LocalKept DEF InService
  <1>3. Claimed' /\ InUse' = InUse /\ \A c : InUseOf(c)' = InUseOf(c)
    BY <1>0, <1>c, <1>n, <1>o, ClaimedKept DEF InService
  <1>4. OnePlace' /\ Successors' /\ Acyclic'
    <2>0. OnePlace /\ Successors /\ Acyclic
      BY <1>0 DEF InService
    <2>l. \A u \in Threads \ {t} : pc'[u] = pc[u] /\ p'[u] = p[u] /\ rest'[u] = rest[u]
      BY <1>o DEF Others
    <2>1. \A i, j \in 1 .. W :
             controlBlocks'[i] # NoBlock /\ controlBlocks'[i] = controlBlocks'[j] => i = j
      BY <1>n, <2>0 DEF OnePlace
    <2>2. \A i \in 1 .. W : controlBlocks'[i] # NoBlock => ~InChain(controlBlocks[i])'
      <3> SUFFICES ASSUME NEW i \in 1 .. W, controlBlocks'[i] # NoBlock
                   PROVE  ~InChain(controlBlocks[i])'
        OBVIOUS
      <3>1. controlBlocks'[i] \in Blocks
        BY <1>1 DEF Typed, TypeOK
      <3>2. \A c : c = controlBlocks'[i] => ~InChain(c)'
        BY <1>n, <1>b, <1>l, <1>p, <2>0, <3>1 DEF OnePlace, Linked
      <3> QED
        BY <3>2
    <2>3. \A u \in Threads : pc'[u] \in Carrying /\ rest'[u] # NoBlock => rest'[u] # recycleHead'
      BY <1>b, <1>c, <1>n, <1>o, <1>p, <2>0, <2>l DEF OnePlace, Carrying
    <2>4. \A c \in Blocks : ~Stale(c)' /\ next'[c] # NoBlock => next'[c] # recycleHead'
      BY <1>b, <1>c, <1>n, <1>o, <1>p, <2>0, <2>l DEF OnePlace, Carrying
    <2>5. \A u, v \in Threads :
             pc'[u] \in Carrying /\ pc'[v] \in Carrying /\ rest'[u] # NoBlock /\ rest'[u] = rest'[v]
                => u = v
      BY <1>b, <1>c, <1>n, <1>o, <1>p, <2>0, <2>l DEF OnePlace, Carrying
    <2>6. \A u \in Threads, c \in Blocks :
             pc'[u] \in Carrying /\ ~Stale(c)' /\ next'[c] # NoBlock => next'[c] # rest'[u]
      BY <1>b, <1>c, <1>n, <1>o, <1>p, <2>0, <2>l DEF OnePlace, Carrying
    <2>7. \A c, d \in Blocks :
             ~Stale(c)' /\ ~Stale(d)' /\ next'[c] # NoBlock /\ next'[c] = next'[d] => c = d
      BY <1>b, <1>c, <1>n, <1>o, <1>p, <2>0, <2>l DEF OnePlace, Carrying
    <2>8. \A u \in Threads : pc'[u] \in Listing => ~Linked(p[u])'
      <3> SUFFICES ASSUME NEW u \in Threads, pc'[u] \in Listing
                   PROVE  ~Linked(p[u])'
        OBVIOUS
      <3>1. p'[u] \in Blocks
        <4>1. pc'[u] \notin {"idle", "heads", "recycled", "root", "release"}
          BY DEF Listing, Popping
        <4> QED
          BY <1>1, <1>2, <4>1 DEF Local, LocalOf, Typed
      <3>2. \A c : c = p'[u] => ~Linked(c)'
        BY <1>b, <1>c, <1>n, <1>l, <1>o, <2>0, <2>l, <3>1 DEF OnePlace, Listing, Popping
      <3> QED
        BY <3>2
    <2>9. \A u, v \in Threads : pc'[u] \in Listing /\ pc'[v] \in Listing /\ p'[u] = p'[v] => u = v
      BY <1>b, <1>c, <1>n, <1>o, <2>0, <2>l DEF OnePlace, Listing, Popping
    <2>10. OnePlace'
      BY <2>1, <2>2, <2>3, <2>4, <2>5, <2>6, <2>7, <2>8, <2>9 DEF OnePlace
    <2>11. Successors'
      BY <1>n, <1>p, <2>0 DEF Successors
    <2>12. Acyclic'
      BY <1>n, <1>p, <2>0 DEF Acyclic, Ordered
    <2> QED
      BY <2>10, <2>11, <2>12
  <1>5. Managed'
    <2>1. \A c \in Blocks \ {b} :
             p[t] = c /\ pc[t] \in Listing <=> p'[t] = c /\ pc'[t] \in Listing
      BY <1>c, <1>b, <1>o, TAllocatorAssumption DEF Listing, Popping
    <2>2. ~Linked(b) => p[t] = b /\ pc[t] \in Listing
      BY <1>b, <1>c, <1>l DEF Listing, Popping
    <2>3. ~Linked(b)' => p'[t] = b /\ pc'[t] \in Listing
      BY <1>b, <1>o, <1>l DEF Listing, Popping
    <2> QED
      BY <1>0, <1>b, <1>n, <1>o, <1>l, <2>1, <2>2, <2>3, ManagedHanded DEF InService
  <1>6. References'
    <2>1. \A c \in Blocks \ {b} : t \in Holders(c) <=> t \in Holders(c)'
      BY <1>c, <1>b, <1>o, TAllocatorAssumption DEF Holders, Holding
    <2>2. t \in Holders(b) <=> ~Linked(b)
      BY <1>b, <1>c, <1>l, TAllocatorAssumption DEF Holders, Holding
    <2>3. t \in Holders(b)' <=> ~Linked(b)'
      BY <1>b, <1>o, <1>l, TAllocatorAssumption DEF Holders, Holding
    <2>4. Linked(b)' <=> ~Linked(b)
      BY <1>b, <1>l
    <2> QED
      BY <1>0, <1>b, <1>n, <1>o, <1>l, <1>3, <2>1, <2>2, <2>3, <2>4, ReferencesHanded DEF InService
  <1>7. Refers'
    <2>1. t \in Releasing <=> t \in Releasing'
      BY <1>0, <1>c, <1>n, <1>o DEF Releasing, LocalOf
    <2> QED
      BY <1>0, <1>n, <1>o, <1>3, <2>1, RefersKept DEF InService
  <1>8. RecycledCounted'
    <2>l. \A u \in Threads \ {t} : pc'[u] = pc[u] /\ p'[u] = p[u]
      BY <1>o DEF Others
    <2>1. \A c \in Blocks : c \in Recycled' <=> c \in Recycled
      BY <1>b, <1>c, <1>o, <1>p, <2>l DEF Recycled, Popping
    <2>2. Recycled' = Recycled
      BY <2>1 DEF Recycled
    <2> QED
      BY <1>0, <1>n, <2>2 DEF InService, RecycledCounted
  <1>9. AtRoot'
    BY <1>0, <1>c, <1>n, <1>o, AtRootKept DEF InService
  <1> QED
    BY <1>0, <1>c, <1>n, <1>1, <1>2, <1>3, <1>4, <1>5, <1>6, <1>7, <1>8, <1>9 DEF Busy, InService

LEMMA ReinstallKeeps ==
    ASSUME Busy, NEW t \in Threads, Reinstall(t)
    PROVE  Busy'
  <1>0. Typed /\ InService /\ LocalOf(t) /\ referCount \in Nat /\ referCount # 0
    BY DEF Busy, InService, Local, Typed, TypeOK
  <1>b. p[t] \in Blocks
    BY <1>0 DEF LocalOf, Typed, Reinstall, Goes
  <1>c. /\ pc[t] = "reinstall"
        /\ pc' = [pc EXCEPT ![t] = IF recycleHead = NoBlock \/ rest[t] = NoBlock THEN "popped" ELSE "rest"]
        /\ recycleHead' = IF recycleHead = NoBlock THEN rest[t] ELSE recycleHead
    BY DEF Reinstall, Goes
  <1>n. /\ controlBlocks' = controlBlocks /\ recycleCount' = recycleCount /\ referCount' = referCount
        /\ next' = next /\ refCount' = refCount /\ managed' = managed /\ bitmap' = bitmap
        /\ atRoot' = atRoot
        /\ p' = p /\ n' = n /\ rest' = rest /\ bit' = bit /\ after' = after
        /\ owners' = owners /\ owner' = owner
    BY DEF Reinstall, block, local
  <1>1. Typed'
    <2>1. pc' \in [Threads -> Labels] /\ recycleHead' \in Blocks \cup {NoBlock}
      BY <1>0, <1>c DEF Typed, TypeOK, Labels, Holding
    <2> QED
      BY <1>0, <1>n, <2>1 DEF Typed, TypeOK
  <1>o. /\ Others(t) /\ pc'[t] \in {"popped", "rest"}
        /\ pc'[t] = "rest" <=> recycleHead # NoBlock /\ rest[t] # NoBlock
    BY <1>0, <1>c, <1>n DEF Typed, Others
  <1>p. /\ \A c \in Blocks : Stale(c)' <=> Stale(c)
        /\ \A c \in Blocks : InChain(c)' <=> InChain(c)
    <2>l. \A u \in Threads \ {t} : pc'[u] = pc[u] /\ p'[u] = p[u] /\ rest'[u] = rest[u]
      BY <1>o DEF Others
    <2>1. \A c \in Blocks : Stale(c)' <=> Stale(c)
      BY <1>c, <1>n, <1>o, <2>l DEF Stale, Popping
    <2>2. ASSUME NEW x \in Blocks, InChain(x)' PROVE InChain(x)
      <3>1. CASE \E u \in Threads : pc'[u] \in Carrying /\ rest'[u] = x
        BY <1>c, <1>n, <1>o, <2>l, <3>1 DEF InChain, Carrying
      <3>2. CASE \E c \in Blocks : next'[c] = x /\ ~Stale(c)'
        BY <1>n, <2>1, <3>2 DEF InChain
      <3>3. CASE recycleHead' = x
        BY <1>c, <3>3 DEF InChain, Carrying
      <3> QED
        BY <2>2, <3>1, <3>2, <3>3 DEF InChain
    <2>3. ASSUME NEW x \in Blocks, InChain(x) PROVE InChain(x)'
      <3>1. CASE \E u \in Threads : pc[u] \in Carrying /\ rest[u] = x
        <4>1. PICK u \in Threads : pc[u] \in Carrying /\ rest[u] = x
          BY <3>1
        <4>2. CASE u = t
          BY <1>c, <1>n, <1>o, <4>1, <4>2, TAllocatorAssumption DEF InChain, Carrying
        <4>3. CASE u # t
          BY <2>l, <4>1, <4>3 DEF InChain
        <4> QED
          BY <4>2, <4>3
      <3>2. CASE \E c \in Blocks : next[c] = x /\ ~Stale(c)
        BY <1>n, <2>1, <3>2 DEF InChain
      <3>3. CASE recycleHead = x
        BY <1>c, <3>3, TAllocatorAssumption DEF InChain
      <3> QED
        BY <2>3, <3>1, <3>2, <3>3 DEF InChain
    <2> QED
      BY <2>1, <2>2, <2>3
  <1>l. \A c \in Blocks : Linked(c)' <=> Linked(c)
    BY <1>n, <1>p DEF Linked
  <1>2. Local'
    <2>1. LocalOf(t)'
      BY <1>0, <1>c, <1>n, <1>o DEF LocalOf
    <2> QED
      BY <1>0, <1>n, <1>o, <2>1, LocalKept DEF InService
  <1>3. Claimed' /\ InUse' = InUse /\ \A c : InUseOf(c)' = InUseOf(c)
    BY <1>0, <1>c, <1>n, <1>o, ClaimedKept DEF InService
  <1>4. OnePlace' /\ Successors' /\ Acyclic'
    <2>0. OnePlace /\ Successors /\ Acyclic
      BY <1>0 DEF InService
    <2>l. \A u \in Threads \ {t} : pc'[u] = pc[u] /\ p'[u] = p[u] /\ rest'[u] = rest[u]
      BY <1>o DEF Others
    <2>1. \A i, j \in 1 .. W :
             controlBlocks'[i] # NoBlock /\ controlBlocks'[i] = controlBlocks'[j] => i = j
      BY <1>n, <2>0 DEF OnePlace
    <2>2. \A i \in 1 .. W : controlBlocks'[i] # NoBlock => ~InChain(controlBlocks[i])'
      <3> SUFFICES ASSUME NEW i \in 1 .. W, controlBlocks'[i] # NoBlock
                   PROVE  ~InChain(controlBlocks[i])'
        OBVIOUS
      <3>1. controlBlocks'[i] \in Blocks
        BY <1>1 DEF Typed, TypeOK
      <3>2. \A c : c = controlBlocks'[i] => ~InChain(c)'
        BY <1>n, <1>b, <1>l, <1>p, <2>0, <3>1 DEF OnePlace, Linked
      <3> QED
        BY <3>2
    <2>3. \A u \in Threads : pc'[u] \in Carrying /\ rest'[u] # NoBlock => rest'[u] # recycleHead'
      BY <1>b, <1>c, <1>n, <1>o, <1>p, <2>0, <2>l DEF OnePlace, Carrying
    <2>4. \A c \in Blocks : ~Stale(c)' /\ next'[c] # NoBlock => next'[c] # recycleHead'
      BY <1>b, <1>c, <1>n, <1>o, <1>p, <2>0, <2>l DEF OnePlace, Carrying
    <2>5. \A u, v \in Threads :
             pc'[u] \in Carrying /\ pc'[v] \in Carrying /\ rest'[u] # NoBlock /\ rest'[u] = rest'[v]
                => u = v
      BY <1>b, <1>c, <1>n, <1>o, <1>p, <2>0, <2>l DEF OnePlace, Carrying
    <2>6. \A u \in Threads, c \in Blocks :
             pc'[u] \in Carrying /\ ~Stale(c)' /\ next'[c] # NoBlock => next'[c] # rest'[u]
      BY <1>b, <1>c, <1>n, <1>o, <1>p, <2>0, <2>l DEF OnePlace, Carrying
    <2>7. \A c, d \in Blocks :
             ~Stale(c)' /\ ~Stale(d)' /\ next'[c] # NoBlock /\ next'[c] = next'[d] => c = d
      BY <1>b, <1>c, <1>n, <1>o, <1>p, <2>0, <2>l DEF OnePlace, Carrying
    <2>8. \A u \in Threads : pc'[u] \in Listing => ~Linked(p[u])'
      <3> SUFFICES ASSUME NEW u \in Threads, pc'[u] \in Listing
                   PROVE  ~Linked(p[u])'
        OBVIOUS
      <3>1. p'[u] \in Blocks
        <4>1. pc'[u] \notin {"idle", "heads", "recycled", "root", "release"}
          BY DEF Listing, Popping
        <4> QED
          BY <1>1, <1>2, <4>1 DEF Local, LocalOf, Typed
      <3>2. \A c : c = p'[u] => ~Linked(c)'
        BY <1>b, <1>c, <1>n, <1>l, <1>o, <2>0, <2>l, <3>1 DEF OnePlace, Listing, Popping
      <3> QED
        BY <3>2
    <2>9. \A u, v \in Threads : pc'[u] \in Listing /\ pc'[v] \in Listing /\ p'[u] = p'[v] => u = v
      BY <1>b, <1>c, <1>n, <1>o, <2>0, <2>l DEF OnePlace, Listing, Popping
    <2>10. OnePlace'
      BY <2>1, <2>2, <2>3, <2>4, <2>5, <2>6, <2>7, <2>8, <2>9 DEF OnePlace
    <2>11. Successors'
      BY <1>n, <1>p, <2>0 DEF Successors
    <2>12. Acyclic'
      BY <1>n, <1>p, <2>0 DEF Acyclic, Ordered
    <2> QED
      BY <2>10, <2>11, <2>12
  <1>5. Managed'
    <2>1. \A u \in Threads : /\ pc'[u] \in Listing <=> pc[u] \in Listing
                             /\ pc[u] \in Listing => p'[u] = p[u]
      BY <1>c, <1>n, <1>o DEF Others, Listing, Popping
    <2> QED
      BY <1>0, <1>n, <1>l, <2>1 DEF InService, Managed
  <1>6. References'
    <2>1. \A b : t \in Holders(b) <=> t \in Holders(b)'
      BY <1>c, <1>n, <1>o DEF Holders, Holding
    <2> QED
      BY <1>0, <1>n, <1>o, <1>l, <1>3, <2>1, ReferencesKept DEF InService
  <1>7. Refers'
    <2>1. t \in Releasing <=> t \in Releasing'
      BY <1>0, <1>c, <1>n, <1>o DEF Releasing, LocalOf
    <2> QED
      BY <1>0, <1>n, <1>o, <1>3, <2>1, RefersKept DEF InService
  <1>8. RecycledCounted'
    <2>l. \A u \in Threads \ {t} : pc'[u] = pc[u] /\ p'[u] = p[u]
      BY <1>o DEF Others
    <2>1. \A c \in Blocks : c \in Recycled' <=> c \in Recycled
      BY <1>c, <1>n, <1>o, <1>p, <2>l DEF Recycled, Popping
    <2>2. Recycled' = Recycled
      BY <2>1 DEF Recycled
    <2> QED
      BY <1>0, <1>n, <2>2 DEF InService, RecycledCounted
  <1>9. AtRoot'
    BY <1>0, <1>c, <1>n, <1>o, AtRootKept DEF InService
  <1> QED
    BY <1>0, <1>c, <1>n, <1>1, <1>2, <1>3, <1>4, <1>5, <1>6, <1>7, <1>8, <1>9 DEF Busy, InService

LEMMA PoppedKeeps ==
    ASSUME Busy, NEW t \in Threads, Popped(t)
    PROVE  Busy'
  <1>0. Typed /\ InService /\ LocalOf(t) /\ referCount \in Nat /\ referCount # 0
    BY DEF Busy, InService, Local, Typed, TypeOK
  <1>d. PICK b \in Blocks : b = p[t]
    BY <1>0 DEF LocalOf, Typed, Popped, Goes
  <1>b. /\ b \in Blocks /\ p[t] = b /\ ~Linked(b) /\ ~InChain(b)
        /\ \A u \in Threads \ {t} : pc[u] \in Listing => p[u] # b
    BY <1>0, <1>d DEF InService, OnePlace, Linked, Popped, Goes, Listing, Popping
  <1>c. /\ pc[t] = "popped" /\ pc' = [pc EXCEPT ![t] = "unmanage"]
        /\ next' = [next EXCEPT ![b] = NoBlock] /\ recycleCount' = recycleCount - 1
    BY <1>d DEF Popped, Goes, Set
  <1>n. /\ controlBlocks' = controlBlocks /\ recycleHead' = recycleHead /\ referCount' = referCount
        /\ refCount' = refCount /\ managed' = managed /\ bitmap' = bitmap /\ atRoot' = atRoot
        /\ p' = p /\ n' = n /\ rest' = rest /\ bit' = bit /\ after' = after
        /\ owners' = owners /\ owner' = owner
    BY DEF Popped, local
  <1>o. Others(t) /\ pc'[t] = "unmanage"
    BY <1>0, <1>c, <1>n DEF Typed, Others
  <1>e. next'[b] = NoBlock /\ \A c \in Blocks \ {b} : next'[c] = next[c]
    BY <1>0, <1>b, <1>c DEF Typed, TypeOK
  <1>p. /\ \A c \in Blocks : Stale(c)' <=> Stale(c) /\ c # b
        /\ \A c \in Blocks : InChain(c)' <=> InChain(c)
    <2>l. \A u \in Threads \ {t} : pc'[u] = pc[u] /\ p'[u] = p[u] /\ rest'[u] = rest[u]
      BY <1>o DEF Others
    <2>1. \A c \in Blocks : Stale(c)' <=> Stale(c) /\ c # b
      BY <1>b, <1>c, <1>n, <1>o, <2>l DEF Stale, Popping, Listing
    <2>2. Stale(b)
      BY <1>b, <1>c DEF Stale, Popping
    <2>3. \A x \in Blocks : \A c \in Blocks :
             next'[c] = x /\ ~Stale(c)' <=> next[c] = x /\ ~Stale(c)
      BY <1>e, <2>1, <2>2, TAllocatorAssumption
    <2>4. \A u \in Threads : /\ pc'[u] \in Carrying <=> pc[u] \in Carrying
                             /\ pc[u] \in Carrying => rest'[u] = rest[u]
      BY <1>c, <1>o, <2>l DEF Carrying
    <2>5. \A c \in Blocks : InChain(c)' <=> InChain(c)
      BY <1>n, <2>3, <2>4 DEF InChain
    <2> QED
      BY <2>1, <2>5
  <1>l. \A c \in Blocks : Linked(c)' <=> Linked(c)
    BY <1>n, <1>p DEF Linked
  <1>8. RecycledCounted' /\ recycleCount' \in Nat
    <2>l. \A u \in Threads \ {t} : pc'[u] = pc[u] /\ p'[u] = p[u] /\ rest'[u] = rest[u]
      BY <1>o DEF Others
    <2>1. b \in Recycled
      BY <1>b, <1>c DEF Recycled, Popping
    <2>2. b \notin Recycled'
      <3>1. ~InChain(b)'
        BY <1>b, <1>p
      <3>2. \A u \in Threads : p'[u] = b => pc'[u] \notin Popping \cup {"push"}
        BY <1>b, <1>o, <2>l DEF Popping, Listing
      <3> QED
        BY <3>1, <3>2 DEF Recycled
    <2>3. \A c \in Blocks \ {b} : c \in Recycled <=> c \in Recycled'
      BY <1>b, <1>o, <1>n, <1>p, <2>l DEF Recycled
    <2>4. Cardinality(Recycled') = Cardinality(Recycled) - 1 /\ Cardinality(Recycled') \in Nat
      BY <2>1, <2>2, <2>3, RecycledMoves
    <2> QED
      BY <1>0, <1>c, <2>4 DEF InService, RecycledCounted
  <1>1. Typed'
    <2>1. pc' \in [Threads -> Labels] /\ next' \in [Blocks -> Blocks \cup {NoBlock}]
      BY <1>0, <1>c DEF Typed, TypeOK, Labels, Holding
    <2> QED
      BY <1>0, <1>n, <1>8, <2>1 DEF Typed, TypeOK
  <1>2. Local'
    <2>1. LocalOf(t)'
      BY <1>0, <1>c, <1>n, <1>o DEF LocalOf
    <2> QED
      BY <1>0, <1>n, <1>o, <2>1, LocalKept DEF InService
  <1>3. Claimed' /\ InUse' = InUse /\ \A c : InUseOf(c)' = InUseOf(c)
    BY <1>0, <1>c, <1>n, <1>o, ClaimedKept DEF InService
  <1>4. OnePlace' /\ Successors' /\ Acyclic'
    <2>0. OnePlace /\ Successors /\ Acyclic
      BY <1>0 DEF InService
    <2>l. \A u \in Threads \ {t} : pc'[u] = pc[u] /\ p'[u] = p[u] /\ rest'[u] = rest[u]
      BY <1>o DEF Others
    <2>1. \A i, j \in 1 .. W :
             controlBlocks'[i] # NoBlock /\ controlBlocks'[i] = controlBlocks'[j] => i = j
      BY <1>n, <2>0 DEF OnePlace
    <2>2. \A i \in 1 .. W : controlBlocks'[i] # NoBlock => ~InChain(controlBlocks[i])'
      <3> SUFFICES ASSUME NEW i \in 1 .. W, controlBlocks'[i] # NoBlock
                   PROVE  ~InChain(controlBlocks[i])'
        OBVIOUS
      <3>1. controlBlocks'[i] \in Blocks
        BY <1>1 DEF Typed, TypeOK
      <3>2. \A c : c = controlBlocks'[i] => ~InChain(c)'
        BY <1>n, <1>b, <1>l, <1>p, <2>0, <3>1 DEF OnePlace, Linked
      <3> QED
        BY <3>2
    <2>3. \A u \in Threads : pc'[u] \in Carrying /\ rest'[u] # NoBlock => rest'[u] # recycleHead'
      BY <1>b, <1>c, <1>n, <1>e, <1>o, <1>p, <2>0, <2>l DEF OnePlace, Carrying
    <2>4. \A c \in Blocks : ~Stale(c)' /\ next'[c] # NoBlock => next'[c] # recycleHead'
      BY <1>b, <1>c, <1>n, <1>e, <1>o, <1>p, <2>0, <2>l DEF OnePlace, Carrying
    <2>5. \A u, v \in Threads :
             pc'[u] \in Carrying /\ pc'[v] \in Carrying /\ rest'[u] # NoBlock /\ rest'[u] = rest'[v]
                => u = v
      BY <1>b, <1>c, <1>n, <1>e, <1>o, <1>p, <2>0, <2>l DEF OnePlace, Carrying
    <2>6. \A u \in Threads, c \in Blocks :
             pc'[u] \in Carrying /\ ~Stale(c)' /\ next'[c] # NoBlock => next'[c] # rest'[u]
      BY <1>b, <1>c, <1>n, <1>e, <1>o, <1>p, <2>0, <2>l DEF OnePlace, Carrying
    <2>7. \A c, d \in Blocks :
             ~Stale(c)' /\ ~Stale(d)' /\ next'[c] # NoBlock /\ next'[c] = next'[d] => c = d
      BY <1>b, <1>c, <1>n, <1>e, <1>o, <1>p, <2>0, <2>l DEF OnePlace, Carrying
    <2>8. \A u \in Threads : pc'[u] \in Listing => ~Linked(p[u])'
      <3> SUFFICES ASSUME NEW u \in Threads, pc'[u] \in Listing
                   PROVE  ~Linked(p[u])'
        OBVIOUS
      <3>1. p'[u] \in Blocks
        <4>1. pc'[u] \notin {"idle", "heads", "recycled", "root", "release"}
          BY DEF Listing, Popping
        <4> QED
          BY <1>1, <1>2, <4>1 DEF Local, LocalOf, Typed
      <3>2. \A c : c = p'[u] => ~Linked(c)'
        BY <1>b, <1>c, <1>n, <1>l, <1>o, <2>0, <2>l, <3>1 DEF OnePlace, Listing, Popping
      <3> QED
        BY <3>2
    <2>9. \A u, v \in Threads : pc'[u] \in Listing /\ pc'[v] \in Listing /\ p'[u] = p'[v] => u = v
      BY <1>b, <1>c, <1>n, <1>o, <2>0, <2>l DEF OnePlace, Listing, Popping
    <2>10. OnePlace'
      BY <2>1, <2>2, <2>3, <2>4, <2>5, <2>6, <2>7, <2>8, <2>9 DEF OnePlace
    <2>11. Successors'
      BY <1>n, <1>e, <1>p, <2>0 DEF Successors
    <2>12. Acyclic'
      <3>1. PICK rank \in [Blocks -> Int] : Ordered(rank)
        BY <2>0 DEF Acyclic
      <3>2. Ordered(rank)'
        BY <3>1, <1>n, <1>e, <1>p DEF Ordered
      <3> QED
        BY <3>2 DEF Acyclic
    <2> QED
      BY <2>10, <2>11, <2>12
  <1>5. Managed'
    <2>1. \A u \in Threads : /\ pc'[u] \in Listing <=> pc[u] \in Listing
                             /\ pc[u] \in Listing => p'[u] = p[u]
      BY <1>c, <1>n, <1>o DEF Others, Listing, Popping
    <2> QED
      BY <1>0, <1>n, <1>l, <2>1 DEF InService, Managed
  <1>6. References'
    <2>1. \A c : t \in Holders(c) <=> t \in Holders(c)'
      BY <1>c, <1>n, <1>o DEF Holders, Holding
    <2> QED
      BY <1>0, <1>n, <1>o, <1>l, <1>3, <2>1, ReferencesKept DEF InService
  <1>7. Refers'
    <2>1. t \in Releasing <=> t \in Releasing'
      BY <1>0, <1>c, <1>n, <1>o DEF Releasing, LocalOf
    <2> QED
      BY <1>0, <1>n, <1>o, <1>3, <2>1, RefersKept DEF InService
  <1>9. AtRoot'
    BY <1>0, <1>c, <1>n, <1>o, AtRootKept DEF InService
  <1> QED
    BY <1>0, <1>c, <1>n, <1>1, <1>2, <1>3, <1>4, <1>5, <1>6, <1>7, <1>8, <1>9 DEF Busy, InService

LEMMA PushRestKeeps ==
    ASSUME Busy, NEW t \in Threads, PushRest(t)
    PROVE  Busy'
  <1>0. Typed /\ InService /\ LocalOf(t) /\ referCount \in Nat /\ referCount # 0
    BY DEF Busy, InService, Local, Typed, TypeOK
  <1>d. PICK b \in Blocks : b = rest[t] /\ pc[t] = "rest"
    BY <1>0 DEF LocalOf, Typed, PushRest, Goes
  <1>b. /\ b \in Blocks /\ rest[t] = b /\ p[t] \in Blocks /\ Linked(b) /\ InChain(b) /\ ~Stale(b)
        /\ b # NoBlock /\ b # recycleHead /\ next[b] # b
        /\ next[b] # NoBlock => next[b] # recycleHead
    <2>1. p[t] \in Blocks /\ b # NoBlock
      BY <1>0, <1>d, TAllocatorAssumption DEF LocalOf, Typed
    <2>2. Linked(b) /\ InChain(b)
      BY <1>d DEF Linked, InChain, Carrying
    <2>3. ~Stale(b)
      BY <1>0, <2>2 DEF InService, OnePlace, Stale, Listing
    <2>4. b # recycleHead /\ next[b] # b /\ (next[b] # NoBlock => next[b] # recycleHead)
      BY <1>0, <1>d, <2>1, <2>3 DEF InService, OnePlace, Carrying
    <2> QED
      BY <1>d, <2>1, <2>2, <2>3, <2>4
  <1>c. /\ pc[t] = "rest" /\ pc' = [pc EXCEPT ![t] = IF next[b] = NoBlock THEN "popped" ELSE "rest"]
        /\ next' = [next EXCEPT ![b] = recycleHead] /\ recycleHead' = b
        /\ rest' = [rest EXCEPT ![t] = next[b]]
    BY <1>d DEF PushRest, Goes, Set
  <1>n. /\ controlBlocks' = controlBlocks /\ recycleCount' = recycleCount /\ referCount' = referCount
        /\ refCount' = refCount /\ managed' = managed /\ bitmap' = bitmap /\ atRoot' = atRoot
        /\ p' = p /\ n' = n /\ bit' = bit /\ after' = after
        /\ owners' = owners /\ owner' = owner
    BY DEF PushRest
  <1>1. Typed'
    <2>1. next[b] \in Blocks \cup {NoBlock} /\ recycleHead \in Blocks \cup {NoBlock}
      BY <1>0, <1>b DEF Typed, TypeOK
    <2>2. /\ next' \in [Blocks -> Blocks \cup {NoBlock}] /\ recycleHead' \in Blocks \cup {NoBlock}
          /\ rest' \in [Threads -> Blocks \cup {NoBlock}]
      BY <1>0, <1>b, <1>c, <2>1 DEF Typed, TypeOK
    <2>3. pc' \in [Threads -> Labels]
      BY <1>0, <1>c DEF Typed, Labels, Holding
    <2> QED
      BY <1>0, <1>n, <2>2, <2>3 DEF Typed, TypeOK
  <1>o. /\ Others(t) /\ pc'[t] \in {"popped", "rest"} /\ rest'[t] = next[b]
        /\ pc'[t] = "rest" <=> next[b] # NoBlock
    BY <1>0, <1>c, <1>n DEF Typed, Others
  <1>e. next'[b] = recycleHead /\ \A c \in Blocks \ {b} : next'[c] = next[c]
    BY <1>0, <1>b, <1>c DEF Typed, TypeOK
  <1>p. /\ \A c \in Blocks : Stale(c)' <=> Stale(c)
        /\ \A c \in Blocks : InChain(c)' <=> InChain(c)
    <2>l. \A u \in Threads \ {t} : pc'[u] = pc[u] /\ p'[u] = p[u] /\ rest'[u] = rest[u]
      BY <1>o DEF Others
    <2>1. \A c \in Blocks : Stale(c)' <=> Stale(c)
      BY <1>c, <1>n, <1>o, <2>l DEF Stale, Popping
    <2>2. ASSUME NEW x \in Blocks, InChain(x)' PROVE InChain(x)
      <3>1. CASE \E u \in Threads : pc'[u] \in Carrying /\ rest'[u] = x
        <4>1. PICK u \in Threads : pc'[u] \in Carrying /\ rest'[u] = x
          BY <3>1
        <4>2. CASE u = t
          BY <1>b, <1>o, <4>1, <4>2 DEF InChain
        <4>3. CASE u # t
          BY <2>l, <4>1, <4>3 DEF InChain
        <4> QED
          BY <4>2, <4>3
      <3>2. CASE \E c \in Blocks : next'[c] = x /\ ~Stale(c)'
        <4>1. PICK c \in Blocks : next'[c] = x /\ ~Stale(c)'
          BY <3>2
        <4>2. CASE c = b
          BY <1>e, <4>1, <4>2 DEF InChain
        <4>3. CASE c # b
          BY <1>e, <2>1, <4>1, <4>3 DEF InChain
        <4> QED
          BY <4>2, <4>3
      <3>3. CASE recycleHead' = x
        BY <1>b, <1>c, <3>3
      <3> QED
        BY <2>2, <3>1, <3>2, <3>3 DEF InChain
    <2>3. ASSUME NEW x \in Blocks, InChain(x) PROVE InChain(x)'
      <3>1. CASE \E u \in Threads : pc[u] \in Carrying /\ rest[u] = x
        <4>1. PICK u \in Threads : pc[u] \in Carrying /\ rest[u] = x
          BY <3>1
        <4>2. CASE u = t
          BY <1>b, <1>c, <4>1, <4>2 DEF InChain
        <4>3. CASE u # t
          BY <2>l, <4>1, <4>3 DEF InChain
        <4> QED
          BY <4>2, <4>3
      <3>2. CASE \E c \in Blocks : next[c] = x /\ ~Stale(c)
        <4>1. PICK c \in Blocks : next[c] = x /\ ~Stale(c)
          BY <3>2
        <4>2. CASE c = b
          BY <1>o, <4>1, <4>2, TAllocatorAssumption DEF InChain, Carrying
        <4>3. CASE c # b
          BY <1>e, <2>1, <4>1, <4>3 DEF InChain
        <4> QED
          BY <4>2, <4>3
      <3>3. CASE recycleHead = x
        BY <1>b, <1>e, <2>1, <3>3 DEF InChain
      <3> QED
        BY <2>3, <3>1, <3>2, <3>3 DEF InChain
    <2> QED
      BY <2>1, <2>2, <2>3
  <1>l. \A c \in Blocks : Linked(c)' <=> Linked(c)
    BY <1>n, <1>p DEF Linked
  <1>2. Local'
    <2>1. LocalOf(t)'
      BY <1>0, <1>c, <1>n, <1>o DEF LocalOf
    <2> QED
      BY <1>0, <1>n, <1>o, <2>1, LocalKept DEF InService
  <1>3. Claimed' /\ InUse' = InUse /\ \A c : InUseOf(c)' = InUseOf(c)
    BY <1>0, <1>c, <1>n, <1>o, ClaimedKept DEF InService
  <1>4. OnePlace' /\ Successors' /\ Acyclic'
    <2>0. OnePlace /\ Successors /\ Acyclic
      BY <1>0 DEF InService
    <2>l. \A u \in Threads \ {t} : pc'[u] = pc[u] /\ p'[u] = p[u] /\ rest'[u] = rest[u]
      BY <1>o DEF Others
    <2>1. \A i, j \in 1 .. W :
             controlBlocks'[i] # NoBlock /\ controlBlocks'[i] = controlBlocks'[j] => i = j
      BY <1>n, <2>0 DEF OnePlace
    <2>2. \A i \in 1 .. W : controlBlocks'[i] # NoBlock => ~InChain(controlBlocks[i])'
      <3> SUFFICES ASSUME NEW i \in 1 .. W, controlBlocks'[i] # NoBlock
                   PROVE  ~InChain(controlBlocks[i])'
        OBVIOUS
      <3>1. controlBlocks'[i] \in Blocks
        BY <1>1 DEF Typed, TypeOK
      <3>2. \A c : c = controlBlocks'[i] => ~InChain(c)'
        BY <1>n, <1>b, <1>l, <1>p, <2>0, <3>1 DEF OnePlace, Linked
      <3> QED
        BY <3>2
    <2>3. \A u \in Threads : pc'[u] \in Carrying /\ rest'[u] # NoBlock => rest'[u] # recycleHead'
      BY <1>b, <1>c, <1>n, <1>e, <1>o, <1>p, <2>0, <2>l, TAllocatorAssumption DEF OnePlace, Carrying
    <2>4. \A c \in Blocks : ~Stale(c)' /\ next'[c] # NoBlock => next'[c] # recycleHead'
      BY <1>b, <1>c, <1>n, <1>e, <1>o, <1>p, <2>0, <2>l, TAllocatorAssumption DEF OnePlace, Carrying
    <2>5. \A u, v \in Threads :
             pc'[u] \in Carrying /\ pc'[v] \in Carrying /\ rest'[u] # NoBlock /\ rest'[u] = rest'[v]
                => u = v
      BY <1>b, <1>c, <1>n, <1>e, <1>o, <1>p, <2>0, <2>l, TAllocatorAssumption DEF OnePlace, Carrying
    <2>6. \A u \in Threads, c \in Blocks :
             pc'[u] \in Carrying /\ ~Stale(c)' /\ next'[c] # NoBlock => next'[c] # rest'[u]
      BY <1>b, <1>c, <1>n, <1>e, <1>o, <1>p, <2>0, <2>l, TAllocatorAssumption DEF OnePlace, Carrying
    <2>7. \A c, d \in Blocks :
             ~Stale(c)' /\ ~Stale(d)' /\ next'[c] # NoBlock /\ next'[c] = next'[d] => c = d
      BY <1>b, <1>c, <1>n, <1>e, <1>o, <1>p, <2>0, <2>l, TAllocatorAssumption DEF OnePlace, Carrying
    <2>8. \A u \in Threads : pc'[u] \in Listing => ~Linked(p[u])'
      <3> SUFFICES ASSUME NEW u \in Threads, pc'[u] \in Listing
                   PROVE  ~Linked(p[u])'
        OBVIOUS
      <3>1. p'[u] \in Blocks
        <4>1. pc'[u] \notin {"idle", "heads", "recycled", "root", "release"}
          BY DEF Listing, Popping
        <4> QED
          BY <1>1, <1>2, <4>1 DEF Local, LocalOf, Typed
      <3>2. \A c : c = p'[u] => ~Linked(c)'
        BY <1>b, <1>c, <1>n, <1>l, <1>o, <2>0, <2>l, <3>1 DEF OnePlace, Listing, Popping
      <3> QED
        BY <3>2
    <2>9. \A u, v \in Threads : pc'[u] \in Listing /\ pc'[v] \in Listing /\ p'[u] = p'[v] => u = v
      BY <1>b, <1>c, <1>n, <1>o, <2>0, <2>l DEF OnePlace, Listing, Popping
    <2>10. OnePlace'
      BY <2>1, <2>2, <2>3, <2>4, <2>5, <2>6, <2>7, <2>8, <2>9 DEF OnePlace
    <2>11. Successors'
      <3>1. InChain(b)'
        BY <1>b, <1>p
      <3>2. ASSUME NEW c \in Blocks, next'[c] # NoBlock PROVE InChain(c)' \/ Stale(c)'
        BY <1>e, <1>p, <2>0, <3>1, <3>2 DEF Successors
      <3> QED
        BY <3>2 DEF Successors
    <2>12. Acyclic'
      <3>1. PICK rank \in [Blocks -> Int] : Ordered(rank)
        BY <2>0 DEF Acyclic
      <3>2. PICK least \in Int : recycleHead # NoBlock => least < rank[recycleHead]
        <4>1. CASE recycleHead = NoBlock
          BY <4>1
        <4>2. CASE recycleHead # NoBlock
          <5>1. recycleHead \in Blocks
            BY <1>0, <4>2 DEF Typed, TypeOK
          <5>2. rank[recycleHead] - 1 \in Int /\ rank[recycleHead] - 1 < rank[recycleHead]
            BY <5>1
          <5> QED
            BY <5>2
        <4> QED
          BY <4>1, <4>2
      <3> DEFINE lower == [rank EXCEPT ![b] = least]
      <3>3. lower \in [Blocks -> Int] /\ lower[b] = least /\ \A c \in Blocks \ {b} : lower[c] = rank[c]
        BY <1>b
      <3> HIDE DEF lower
      <3>4. ASSUME NEW c \in Blocks, ~Stale(c)', next'[c] # NoBlock
            PROVE  lower[c] < lower[next'[c]]
        <4>1. next'[c] \in Blocks /\ next'[c] # b
          <5>1. next'[c] \in Blocks
            BY <1>1, <3>4 DEF Typed, TypeOK
          <5>2. c # b => next'[c] = next[c] /\ ~Stale(c)
            BY <1>e, <1>p, <3>4
          <5>3. c # b => next[c] # rest[t]
            BY <1>d, <2>0, <3>4, <5>2 DEF OnePlace, Carrying
          <5> QED
            BY <1>b, <1>e, <5>1, <5>2, <5>3
        <4>2. CASE c = b
          BY <1>e, <3>2, <3>3, <3>4, <4>1, <4>2
        <4>3. CASE c # b
          <5>1. rank[c] < rank[next[c]]
            BY <1>e, <1>p, <3>1, <3>4, <4>3 DEF Ordered
          <5> QED
            BY <1>e, <3>3, <4>1, <4>3, <5>1
        <4> QED
          BY <4>2, <4>3
      <3>5. Ordered(lower)'
        BY <3>4 DEF Ordered
      <3> QED
        BY <3>3, <3>5 DEF Acyclic
    <2> QED
      BY <2>10, <2>11, <2>12
  <1>5. Managed'
    <2>1. \A u \in Threads : /\ pc'[u] \in Listing <=> pc[u] \in Listing
                             /\ pc[u] \in Listing => p'[u] = p[u]
      BY <1>c, <1>n, <1>o DEF Others, Listing, Popping
    <2> QED
      BY <1>0, <1>n, <1>l, <2>1 DEF InService, Managed
  <1>6. References'
    <2>1. \A c : t \in Holders(c) <=> t \in Holders(c)'
      BY <1>c, <1>n, <1>o DEF Holders, Holding
    <2> QED
      BY <1>0, <1>n, <1>o, <1>l, <1>3, <2>1, ReferencesKept DEF InService
  <1>7. Refers'
    <2>1. t \in Releasing <=> t \in Releasing'
      BY <1>0, <1>c, <1>n, <1>o DEF Releasing, LocalOf
    <2> QED
      BY <1>0, <1>n, <1>o, <1>3, <2>1, RefersKept DEF InService
  <1>8. RecycledCounted'
    <2>l. \A u \in Threads \ {t} : pc'[u] = pc[u] /\ p'[u] = p[u]
      BY <1>o DEF Others
    <2>1. \A c \in Blocks : c \in Recycled' <=> c \in Recycled
      BY <1>c, <1>n, <1>o, <1>p, <2>l DEF Recycled, Popping
    <2>2. Recycled' = Recycled
      BY <2>1 DEF Recycled
    <2> QED
      BY <1>0, <1>n, <2>2 DEF InService, RecycledCounted
  <1>9. AtRoot'
    BY <1>0, <1>c, <1>n, <1>o, AtRootKept DEF InService
  <1> QED
    BY <1>0, <1>c, <1>n, <1>1, <1>2, <1>3, <1>4, <1>5, <1>6, <1>7, <1>8, <1>9 DEF Busy, InService

LEMMA ListKeeps ==
    ASSUME Busy, NEW t \in Threads, List(t)
    PROVE  Busy'
  <1>0. Typed /\ InService /\ LocalOf(t) /\ referCount \in Nat /\ referCount # 0
    BY DEF Busy, InService, Local, Typed, TypeOK
  <1>d. PICK b \in Blocks : b = p[t] /\ pc[t] = "list"
    BY <1>0 DEF LocalOf, Typed, List
  <1>b. /\ b \in Blocks /\ p[t] = b /\ b # NoBlock /\ ~Linked(b) /\ ~InChain(b)
        /\ \A u \in Threads \ {t} : pc[u] \in Listing => p[u] # b
        /\ n[t] \in 1 .. W /\ after[t] \in {"idle", "heads", "release"}
    BY <1>0, <1>d, TAllocatorAssumption DEF InService, OnePlace, Linked, Listing, Typed
  <1>c. /\ pc[t] = "list" /\ controlBlocks[n[t]] = NoBlock
        /\ pc' = [pc EXCEPT ![t] = after[t]] /\ p' = [p EXCEPT ![t] = NoBlock]
        /\ n' = [n EXCEPT ![t] = 1] /\ bit' = [bit EXCEPT ![t] = 1]
        /\ controlBlocks' = [controlBlocks EXCEPT ![n[t]] = b]
    BY <1>d DEF List, Done, Set
  <1>n. /\ recycleHead' = recycleHead /\ recycleCount' = recycleCount /\ referCount' = referCount
        /\ next' = next /\ refCount' = refCount /\ managed' = managed /\ bitmap' = bitmap
        /\ atRoot' = atRoot
        /\ rest' = rest /\ after' = after
        /\ owners' = owners /\ owner' = owner
    BY DEF List, Done, Set, block
  <1>1. Typed'
    <2>1. n' \in [Threads -> 1 .. W] /\ bit' \in [Threads -> Nat]
      BY <1>0, <1>c, TAllocatorAssumption DEF Typed
    <2>2. pc' \in [Threads -> Labels] /\ p' \in [Threads -> Blocks \cup {NoBlock}]
      BY <1>0, <1>b, <1>c DEF Typed, Labels
    <2>3. controlBlocks' \in [1 .. W -> Blocks \cup {NoBlock}]
      BY <1>0, <1>b, <1>c DEF Typed, TypeOK
    <2> QED
      BY <1>0, <1>n, <2>1, <2>2, <2>3 DEF Typed, TypeOK
  <1>o. /\ Others(t) /\ pc'[t] = after[t] /\ p'[t] = NoBlock
        /\ pc'[t] \in {"idle", "heads", "release"}
    BY <1>0, <1>b, <1>c, <1>n DEF Typed, Others
  <1>e. controlBlocks'[n[t]] = b /\ \A i \in 1 .. W : i # n[t] => controlBlocks'[i] = controlBlocks[i]
    BY <1>0, <1>b, <1>c DEF Typed, TypeOK
  <1>p. /\ \A c : Stale(c)' <=> Stale(c)
        /\ \A c : InChain(c)' <=> InChain(c)
    BY <1>c, <1>n, <1>o, ChainsStay DEF Popping
  <1>l. \A c \in Blocks : Linked(c)' <=> Linked(c) \/ c = b
    <2>1. \A c \in Blocks : (\E i \in 1 .. W : controlBlocks'[i] = c)
                               <=> c = b \/ \E i \in 1 .. W : controlBlocks[i] = c
      BY <1>b, <1>c, <1>e, TAllocatorAssumption
    <2> QED
      BY <1>p, <2>1 DEF Linked
  <1>2. Local'
    <2>1. LocalOf(t)'
      BY <1>0, <1>c, <1>n, <1>o DEF LocalOf
    <2> QED
      BY <1>0, <1>n, <1>o, <2>1, LocalKept DEF InService
  <1>3. Claimed' /\ InUse' = InUse /\ \A c : InUseOf(c)' = InUseOf(c)
    BY <1>0, <1>c, <1>n, <1>o, ClaimedKept DEF InService
  <1>4. OnePlace' /\ Successors' /\ Acyclic'
    <2>0. OnePlace /\ Successors /\ Acyclic
      BY <1>0 DEF InService
    <2>l. \A u \in Threads \ {t} : pc'[u] = pc[u] /\ p'[u] = p[u] /\ rest'[u] = rest[u]
      BY <1>o DEF Others
    <2>1. \A i, j \in 1 .. W :
             controlBlocks'[i] # NoBlock /\ controlBlocks'[i] = controlBlocks'[j] => i = j
      BY <1>b, <1>e, <2>0 DEF OnePlace, Linked
    <2>2. \A i \in 1 .. W : controlBlocks'[i] # NoBlock => ~InChain(controlBlocks[i])'
      <3> SUFFICES ASSUME NEW i \in 1 .. W, controlBlocks'[i] # NoBlock
                   PROVE  ~InChain(controlBlocks[i])'
        OBVIOUS
      <3>1. \A c : c = controlBlocks'[i] => ~InChain(c)'
        BY <1>b, <1>e, <1>p, <2>0 DEF OnePlace
      <3> QED
        BY <3>1
    <2>t. \A u \in Threads : /\ pc'[u] \in Carrying <=> pc[u] \in Carrying
                             /\ pc[u] \in Carrying => rest'[u] = rest[u]
      BY <1>c, <1>o DEF Others, Carrying
    <2>8. \A u \in Threads : pc'[u] \in Listing => ~Linked(p[u])'
      <3> SUFFICES ASSUME NEW u \in Threads, pc'[u] \in Listing
                   PROVE  ~Linked(p[u])'
        OBVIOUS
      <3>1. p'[u] \in Blocks
        <4>1. pc'[u] \notin {"idle", "heads", "recycled", "root", "release"}
          BY DEF Listing, Popping
        <4> QED
          BY <1>1, <1>2, <4>1 DEF Local, LocalOf, Typed
      <3>2. \A c : c = p'[u] => ~Linked(c)'
        BY <1>b, <1>c, <1>n, <1>l, <1>o, <2>0, <2>l, <3>1 DEF OnePlace, Listing, Popping
      <3> QED
        BY <3>2
    <2>9. \A u, v \in Threads : pc'[u] \in Listing /\ pc'[v] \in Listing /\ p'[u] = p'[v] => u = v
      BY <1>b, <1>c, <1>n, <1>o, <2>0, <2>l DEF OnePlace, Listing, Popping
    <2>10. OnePlace'
      BY <1>n, <1>p, <2>0, <2>t, <2>1, <2>2, <2>8, <2>9 DEF OnePlace
    <2>11. Successors'
      BY <1>n, <1>p, <2>0 DEF Successors
    <2>12. Acyclic'
      BY <1>n, <1>p, <2>0 DEF Acyclic, Ordered
    <2> QED
      BY <2>10, <2>11, <2>12
  <1>5. Managed'
    <2>1. \A c \in Blocks \ {b} :
             p[t] = c /\ pc[t] \in Listing <=> p'[t] = c /\ pc'[t] \in Listing
      BY <1>c, <1>b, <1>o, TAllocatorAssumption DEF Listing, Popping
    <2>2. ~Linked(b) => p[t] = b /\ pc[t] \in Listing
      BY <1>b, <1>c, <1>l DEF Listing, Popping
    <2>3. ~Linked(b)' => p'[t] = b /\ pc'[t] \in Listing
      BY <1>b, <1>o, <1>l DEF Listing, Popping
    <2> QED
      BY <1>0, <1>b, <1>n, <1>o, <1>l, <2>1, <2>2, <2>3, ManagedHanded DEF InService
  <1>6. References'
    <2>1. \A c \in Blocks \ {b} : t \in Holders(c) <=> t \in Holders(c)'
      BY <1>c, <1>b, <1>o, TAllocatorAssumption DEF Holders, Holding
    <2>2. t \in Holders(b) <=> ~Linked(b)
      BY <1>b, <1>c, <1>l, TAllocatorAssumption DEF Holders, Holding
    <2>3. t \in Holders(b)' <=> ~Linked(b)'
      BY <1>b, <1>o, <1>l, TAllocatorAssumption DEF Holders, Holding
    <2>4. Linked(b)' <=> ~Linked(b)
      BY <1>b, <1>l
    <2> QED
      BY <1>0, <1>b, <1>n, <1>o, <1>l, <1>3, <2>1, <2>2, <2>3, <2>4, ReferencesHanded DEF InService
  <1>7. Refers'
    <2>1. t \in Releasing <=> t \in Releasing'
      BY <1>0, <1>c, <1>n, <1>o DEF Releasing, LocalOf
    <2> QED
      BY <1>0, <1>n, <1>o, <1>3, <2>1, RefersKept DEF InService
  <1>8. RecycledCounted'
    BY <1>0, <1>c, <1>n, <1>o, <1>p, RecycledKept DEF InService, Popping
  <1>9. AtRoot'
    BY <1>0, <1>c, <1>n, <1>o, AtRootKept DEF InService
  <1> QED
    BY <1>0, <1>c, <1>n, <1>1, <1>2, <1>3, <1>4, <1>5, <1>6, <1>7, <1>8, <1>9 DEF Busy, InService

LEMMA PushKeeps ==
    ASSUME Busy, NEW t \in Threads, Push(t)
    PROVE  Busy'
  <1>0. Typed /\ InService /\ LocalOf(t) /\ referCount \in Nat /\ referCount # 0
    BY DEF Busy, InService, Local, Typed, TypeOK
  <1>d. PICK b \in Blocks : b = p[t] /\ pc[t] = "push"
    BY <1>0 DEF LocalOf, Typed, Push
  <1>b. /\ b \in Blocks /\ p[t] = b /\ b # NoBlock /\ ~Linked(b) /\ ~InChain(b) /\ ~Stale(b)
        /\ \A u \in Threads \ {t} : pc[u] \in Listing => p[u] # b
        /\ next[b] = NoBlock /\ after[t] \in {"idle", "heads", "release"} /\ recycleHead # b
    <2>1. /\ b # NoBlock /\ ~Linked(b) /\ ~InChain(b)
          /\ \A u \in Threads \ {t} : pc[u] \in Listing => p[u] # b
          /\ after[t] \in {"idle", "heads", "release"}
      BY <1>0, <1>d, TAllocatorAssumption DEF InService, OnePlace, Linked, Listing, Typed
    <2>2. ~Stale(b)
      BY <1>d, <2>1 DEF Stale, Popping, Listing
    <2>3. next[b] = NoBlock /\ recycleHead # b
      BY <1>0, <2>1, <2>2 DEF InService, Successors, InChain
    <2> QED
      BY <1>d, <2>1, <2>2, <2>3
  <1>c. /\ pc[t] = "push"
        /\ pc' = [pc EXCEPT ![t] = after[t]] /\ p' = [p EXCEPT ![t] = NoBlock]
        /\ n' = [n EXCEPT ![t] = 1] /\ bit' = [bit EXCEPT ![t] = 1]
        /\ next' = [next EXCEPT ![b] = recycleHead] /\ recycleHead' = b
    BY <1>d DEF Push, Done, Set
  <1>n. /\ controlBlocks' = controlBlocks /\ recycleCount' = recycleCount /\ referCount' = referCount
        /\ refCount' = refCount /\ managed' = managed /\ bitmap' = bitmap /\ atRoot' = atRoot
        /\ rest' = rest /\ after' = after
        /\ owners' = owners /\ owner' = owner
    BY DEF Push, Done, Set
  <1>1. Typed'
    <2>1. n' \in [Threads -> 1 .. W] /\ bit' \in [Threads -> Nat]
      BY <1>0, <1>c, TAllocatorAssumption DEF Typed
    <2>2. pc' \in [Threads -> Labels] /\ p' \in [Threads -> Blocks \cup {NoBlock}]
      BY <1>0, <1>b, <1>c DEF Typed, Labels
    <2>3. next' \in [Blocks -> Blocks \cup {NoBlock}] /\ recycleHead' \in Blocks \cup {NoBlock}
      BY <1>0, <1>b, <1>c DEF Typed, TypeOK
    <2> QED
      BY <1>0, <1>n, <2>1, <2>2, <2>3 DEF Typed, TypeOK
  <1>o. /\ Others(t) /\ pc'[t] = after[t] /\ p'[t] = NoBlock
        /\ pc'[t] \in {"idle", "heads", "release"}
    BY <1>0, <1>b, <1>c, <1>n DEF Typed, Others
  <1>e. next'[b] = recycleHead /\ \A c \in Blocks \ {b} : next'[c] = next[c]
    BY <1>0, <1>b, <1>c DEF Typed, TypeOK
  <1>p. /\ \A c \in Blocks : Stale(c)' <=> Stale(c)
        /\ \A c \in Blocks : InChain(c)' <=> InChain(c) \/ c = b
    <2>l. \A u \in Threads \ {t} : pc'[u] = pc[u] /\ p'[u] = p[u] /\ rest'[u] = rest[u]
      BY <1>o DEF Others
    <2>1. \A c \in Blocks : Stale(c)' <=> Stale(c)
      BY <1>c, <1>o, <2>l DEF Stale, Popping
    <2>2. \A u \in Threads : /\ pc'[u] \in Carrying <=> pc[u] \in Carrying
                             /\ pc[u] \in Carrying => rest'[u] = rest[u]
      BY <1>c, <1>o, <2>l DEF Carrying
    <2>3. ASSUME NEW x \in Blocks
          PROVE  (\E c \in Blocks : next'[c] = x /\ ~Stale(c)')
                    <=> recycleHead = x \/ \E c \in Blocks : next[c] = x /\ ~Stale(c)
      BY <1>b, <1>e, <2>1, TAllocatorAssumption
    <2>4. \A c \in Blocks : InChain(c)' <=> InChain(c) \/ c = b
      BY <1>c, <2>2, <2>3 DEF InChain
    <2> QED
      BY <2>1, <2>4
  <1>l. \A c \in Blocks : Linked(c)' <=> Linked(c) \/ c = b
    BY <1>n, <1>p DEF Linked
  <1>2. Local'
    <2>1. LocalOf(t)'
      BY <1>0, <1>c, <1>n, <1>o DEF LocalOf
    <2> QED
      BY <1>0, <1>n, <1>o, <2>1, LocalKept DEF InService
  <1>3. Claimed' /\ InUse' = InUse /\ \A c : InUseOf(c)' = InUseOf(c)
    BY <1>0, <1>c, <1>n, <1>o, ClaimedKept DEF InService
  <1>4. OnePlace' /\ Successors' /\ Acyclic'
    <2>0. OnePlace /\ Successors /\ Acyclic
      BY <1>0 DEF InService
    <2>l. \A u \in Threads \ {t} : pc'[u] = pc[u] /\ p'[u] = p[u] /\ rest'[u] = rest[u]
      BY <1>o DEF Others
    <2>1. \A i, j \in 1 .. W :
             controlBlocks'[i] # NoBlock /\ controlBlocks'[i] = controlBlocks'[j] => i = j
      BY <1>n, <2>0 DEF OnePlace
    <2>2. \A i \in 1 .. W : controlBlocks'[i] # NoBlock => ~InChain(controlBlocks[i])'
      <3> SUFFICES ASSUME NEW i \in 1 .. W, controlBlocks'[i] # NoBlock
                   PROVE  ~InChain(controlBlocks[i])'
        OBVIOUS
      <3>1. controlBlocks'[i] \in Blocks
        BY <1>1 DEF Typed, TypeOK
      <3>2. \A c : c = controlBlocks'[i] => ~InChain(c)'
        BY <1>n, <1>b, <1>l, <1>p, <2>0, <3>1 DEF OnePlace, Linked
      <3> QED
        BY <3>2
    <2>3. \A u \in Threads : pc'[u] \in Carrying /\ rest'[u] # NoBlock => rest'[u] # recycleHead'
      BY <1>b, <1>c, <1>n, <1>e, <1>o, <1>p, <2>0, <2>l DEF OnePlace, Carrying, InChain
    <2>4. \A c \in Blocks : ~Stale(c)' /\ next'[c] # NoBlock => next'[c] # recycleHead'
      BY <1>b, <1>c, <1>n, <1>e, <1>o, <1>p, <2>0, <2>l DEF OnePlace, Carrying, InChain
    <2>5. \A u, v \in Threads :
             pc'[u] \in Carrying /\ pc'[v] \in Carrying /\ rest'[u] # NoBlock /\ rest'[u] = rest'[v]
                => u = v
      BY <1>b, <1>c, <1>n, <1>e, <1>o, <1>p, <2>0, <2>l DEF OnePlace, Carrying, InChain
    <2>6. \A u \in Threads, c \in Blocks :
             pc'[u] \in Carrying /\ ~Stale(c)' /\ next'[c] # NoBlock => next'[c] # rest'[u]
      BY <1>b, <1>c, <1>n, <1>e, <1>o, <1>p, <2>0, <2>l DEF OnePlace, Carrying, InChain
    <2>7. \A c, d \in Blocks :
             ~Stale(c)' /\ ~Stale(d)' /\ next'[c] # NoBlock /\ next'[c] = next'[d] => c = d
      BY <1>b, <1>c, <1>n, <1>e, <1>o, <1>p, <2>0, <2>l DEF OnePlace, Carrying, InChain
    <2>8. \A u \in Threads : pc'[u] \in Listing => ~Linked(p[u])'
      <3> SUFFICES ASSUME NEW u \in Threads, pc'[u] \in Listing
                   PROVE  ~Linked(p[u])'
        OBVIOUS
      <3>1. p'[u] \in Blocks
        <4>1. pc'[u] \notin {"idle", "heads", "recycled", "root", "release"}
          BY DEF Listing, Popping
        <4> QED
          BY <1>1, <1>2, <4>1 DEF Local, LocalOf, Typed
      <3>2. \A c : c = p'[u] => ~Linked(c)'
        BY <1>b, <1>c, <1>n, <1>l, <1>o, <2>0, <2>l, <3>1 DEF OnePlace, Listing, Popping
      <3> QED
        BY <3>2
    <2>9. \A u, v \in Threads : pc'[u] \in Listing /\ pc'[v] \in Listing /\ p'[u] = p'[v] => u = v
      BY <1>b, <1>c, <1>n, <1>o, <2>0, <2>l DEF OnePlace, Listing, Popping
    <2>10. OnePlace'
      BY <2>1, <2>2, <2>3, <2>4, <2>5, <2>6, <2>7, <2>8, <2>9 DEF OnePlace
    <2>11. Successors'
      BY <1>e, <1>p, <2>0 DEF Successors
    <2>12. Acyclic'
      <3>1. PICK rank \in [Blocks -> Int] : Ordered(rank)
        BY <2>0 DEF Acyclic
      <3>2. PICK least \in Int : recycleHead # NoBlock => least < rank[recycleHead]
        <4>1. CASE recycleHead = NoBlock
          BY <4>1
        <4>2. CASE recycleHead # NoBlock
          <5>1. recycleHead \in Blocks
            BY <1>0, <4>2 DEF Typed, TypeOK
          <5>2. rank[recycleHead] - 1 \in Int /\ rank[recycleHead] - 1 < rank[recycleHead]
            BY <5>1
          <5> QED
            BY <5>2
        <4> QED
          BY <4>1, <4>2
      <3> DEFINE lower == [rank EXCEPT ![b] = least]
      <3>3. lower \in [Blocks -> Int] /\ lower[b] = least /\ \A c \in Blocks \ {b} : lower[c] = rank[c]
        BY <1>b
      <3> HIDE DEF lower
      <3>4. ASSUME NEW c \in Blocks, ~Stale(c)', next'[c] # NoBlock
            PROVE  lower[c] < lower[next'[c]]
        <4>1. next'[c] \in Blocks /\ next'[c] # b
          <5>1. next'[c] \in Blocks
            BY <1>1, <3>4 DEF Typed, TypeOK
          <5>2. c # b => next'[c] = next[c] /\ ~Stale(c)
            BY <1>e, <1>p, <3>4
          <5>3. c # b => next[c] # b
            BY <1>b, <5>2 DEF InChain
          <5> QED
            BY <1>b, <1>e, <5>1, <5>2, <5>3
        <4>2. CASE c = b
          BY <1>e, <3>2, <3>3, <3>4, <4>1, <4>2
        <4>3. CASE c # b
          <5>1. rank[c] < rank[next[c]]
            BY <1>e, <1>p, <3>1, <3>4, <4>3 DEF Ordered
          <5> QED
            BY <1>e, <3>3, <4>1, <4>3, <5>1
        <4> QED
          BY <4>2, <4>3
      <3>5. Ordered(lower)'
        BY <3>4 DEF Ordered
      <3> QED
        BY <3>3, <3>5 DEF Acyclic
    <2> QED
      BY <2>10, <2>11, <2>12
  <1>5. Managed'
    <2>1. \A c \in Blocks \ {b} :
             p[t] = c /\ pc[t] \in Listing <=> p'[t] = c /\ pc'[t] \in Listing
      BY <1>c, <1>b, <1>o, TAllocatorAssumption DEF Listing, Popping
    <2>2. ~Linked(b) => p[t] = b /\ pc[t] \in Listing
      BY <1>b, <1>c, <1>l DEF Listing, Popping
    <2>3. ~Linked(b)' => p'[t] = b /\ pc'[t] \in Listing
      BY <1>b, <1>o, <1>l DEF Listing, Popping
    <2> QED
      BY <1>0, <1>b, <1>n, <1>o, <1>l, <2>1, <2>2, <2>3, ManagedHanded DEF InService
  <1>6. References'
    <2>1. \A c \in Blocks \ {b} : t \in Holders(c) <=> t \in Holders(c)'
      BY <1>c, <1>b, <1>o, TAllocatorAssumption DEF Holders, Holding
    <2>2. t \in Holders(b) <=> ~Linked(b)
      BY <1>b, <1>c, <1>l, TAllocatorAssumption DEF Holders, Holding
    <2>3. t \in Holders(b)' <=> ~Linked(b)'
      BY <1>b, <1>o, <1>l, TAllocatorAssumption DEF Holders, Holding
    <2>4. Linked(b)' <=> ~Linked(b)
      BY <1>b, <1>l
    <2> QED
      BY <1>0, <1>b, <1>n, <1>o, <1>l, <1>3, <2>1, <2>2, <2>3, <2>4, ReferencesHanded DEF InService
  <1>7. Refers'
    <2>1. t \in Releasing <=> t \in Releasing'
      BY <1>0, <1>c, <1>n, <1>o DEF Releasing, LocalOf
    <2> QED
      BY <1>0, <1>n, <1>o, <1>3, <2>1, RefersKept DEF InService
  <1>8. RecycledCounted'
    <2>l. \A u \in Threads \ {t} : pc'[u] = pc[u] /\ p'[u] = p[u]
      BY <1>o DEF Others
    <2>1. \A c \in Blocks : c \in Recycled' <=> c \in Recycled
      BY <1>b, <1>c, <1>o, <1>p, <2>l, TAllocatorAssumption DEF Recycled, Popping
    <2>2. Recycled' = Recycled
      BY <2>1 DEF Recycled
    <2> QED
      BY <1>0, <1>n, <2>2 DEF InService, RecycledCounted
  <1>9. AtRoot'
    BY <1>0, <1>c, <1>n, <1>o, AtRootKept DEF InService
  <1> QED
    BY <1>0, <1>c, <1>n, <1>1, <1>2, <1>3, <1>4, <1>5, <1>6, <1>7, <1>8, <1>9 DEF Busy, InService

-----------------------------------------------------------------------------
(* What is listed                                                            *)

(* Of some blocks there is one that no other ranks below.                    *)
LEMMA Lowest ==
    ASSUME NEW rank \in [Blocks -> Int], NEW S \in SUBSET Blocks, S # {}
    PROVE  \E c \in S : \A d \in S : ~(rank[d] < rank[c])
  <1> DEFINE Below(c) == {d \in S : rank[d] < rank[c]}
             Sizes == {Cardinality(Below(c)) : c \in S}
  <1>1. IsFiniteSet(S)
    BY TAllocatorAssumption, FS_Subset
  <1>2. \A c \in S : IsFiniteSet(Below(c)) /\ Cardinality(Below(c)) \in Nat
    BY <1>1, FS_Subset, FS_CardinalityType
  <1>3. PICK m \in Sizes : \A k \in Sizes : m <= k
    <2>1. Sizes \in SUBSET Nat /\ Sizes # {}
      BY <1>2
    <2> HIDE DEF Sizes
    <2> QED
      BY <2>1, Smallest
  <1>4. PICK c \in S : m = Cardinality(Below(c))
    BY <1>3
  <1>5. ASSUME NEW d \in S, rank[d] < rank[c] PROVE FALSE
    <2>1. Below(d) \subseteq Below(c) /\ d \in Below(c) /\ d \notin Below(d)
      BY <1>5
    <2>2. Cardinality(Below(d)) <= Cardinality(Below(c)) /\ Cardinality(Below(c)) # Cardinality(Below(d))
      BY <1>2, <2>1, FS_Subset
    <2>3. m <= Cardinality(Below(d))
      BY <1>3
    <2> QED
      BY <1>2, <1>4, <2>2, <2>3
  <1> QED
    BY <1>5

(* From a block in a chain the list goes on to blocks in a chain.            *)
LEMMA ListedLinked ==
    ASSUME Typed, OnePlace
    PROVE  /\ \A b \in Chain(recycleHead) : InChain(b)
           /\ \A b \in Listed : b \in Blocks /\ Linked(b)
  <1> DEFINE S == {c \in Blocks : InChain(c)}
  <1>1. recycleHead # NoBlock => recycleHead \in S
    BY DEF Typed, TypeOK, InChain
  <1>2. ASSUME NEW d \in S, next[d] # NoBlock PROVE next[d] \in S
    <2>1. ~Stale(d)
      BY DEF OnePlace, Stale, Listing, Linked
    <2> QED
      BY <1>2, <2>1 DEF InChain, Typed, TypeOK
  <1>3. Chain(recycleHead) \subseteq S
    BY <1>1, <1>2 DEF Chain
  <1>4. ASSUME NEW b \in Listed PROVE b \in Blocks /\ Linked(b)
    <2>1. CASE b \in Chain(recycleHead)
      BY <1>3, <2>1 DEF Linked
    <2>2. CASE \E i \in 1 .. W : controlBlocks[i] = b /\ b # NoBlock
      BY <2>2 DEF Linked, Typed, TypeOK
    <2> QED
      BY <2>1, <2>2 DEF Listed
  <1> QED
    BY <1>3, <1>4

(* While no thread has taken a part of the list there is nothing else.       *)
LEMMA LinkedListed ==
    ASSUME Typed, OnePlace, Successors, Acyclic, \A t \in Threads : pc[t] \notin Popping
    PROVE  \A b \in Blocks : /\ InChain(b) <=> b \in Chain(recycleHead)
                             /\ Linked(b) <=> b \in Listed
  <1>1. ASSUME NEW b \in Blocks, InChain(b), NEW S \in SUBSET Blocks,
               recycleHead # NoBlock => recycleHead \in S,
               \A d \in S : next[d] # NoBlock => next[d] \in S
        PROVE  b \in S
    <2> SUFFICES ASSUME b \notin S PROVE FALSE
      OBVIOUS
    <2>1. PICK rank \in [Blocks -> Int] : Ordered(rank)
      BY DEF Acyclic
    <2> DEFINE Left == {c \in Blocks \ S : InChain(c)}
    <2>2. PICK c \in Left : \A d \in Left : ~(rank[d] < rank[c])
      <3>1. Left \in SUBSET Blocks /\ Left # {}
        BY <1>1
      <3> HIDE DEF Left
      <3> QED
        BY <3>1, Lowest
    <2>3. c \in Blocks /\ c \notin S /\ InChain(c) /\ c # NoBlock /\ c # recycleHead
      BY <1>1, TAllocatorAssumption
    <2>4. PICK d \in Blocks : next[d] = c /\ ~Stale(d)
      BY <2>3 DEF InChain, Carrying, Popping
    <2>5. InChain(d)
      BY <2>3, <2>4 DEF Successors
    <2>6. d \notin S
      BY <1>1, <2>3, <2>4
    <2>7. rank[d] < rank[c]
      BY <2>1, <2>3, <2>4 DEF Ordered
    <2> QED
      BY <2>2, <2>5, <2>6, <2>7
  <1>2. \A b \in Blocks : InChain(b) => b \in Chain(recycleHead)
    BY <1>1 DEF Chain
  <1>3. \A b \in Blocks : Linked(b) => b \in Listed
    BY <1>2, TAllocatorAssumption DEF Linked, Listed
  <1> QED
    BY <1>2, <1>3, ListedLinked

-----------------------------------------------------------------------------
(* The last reference                                                        *)

(* Nobody is in the allocator and no slot is in use: all blocks but those of *)
(* the root allocator are listed.                                            *)
LEMMA AllListed ==
    ASSUME Typed, InService, InUse = {}, \A u \in Threads : pc[u] \in {"idle", "release"}
    PROVE  /\ Blocks \subseteq atRoot \cup Listed
           /\ \A s \in Blocks \X (1 .. Slots) : owners[s] = 0
  <1>1. ASSUME NEW b \in Blocks \ atRoot PROVE b \in Listed
    <2>1. refCount[b] # 0
      BY DEF InService, AtRoot
    <2>2. InUseOf(b) = {} /\ Holders(b) = {}
      BY DEF InUseOf, Holders, Holding
    <2>3. refCount[b] = One(Linked(b)) + 0 + 0
      BY <2>2, FS_EmptySet DEF InService, References
    <2>4. Linked(b)
      BY <2>1, <2>3 DEF One
    <2> QED
      BY <2>4, LinkedListed DEF InService, Popping
  <1>2. ASSUME NEW s \in Blocks \X (1 .. Slots) PROVE owners[s] = 0
    <2>1. ~Counting(s)
      BY DEF Counting
    <2>2. owners[s] # 1
      BY <2>1 DEF InUse
    <2> QED
      BY <2>2 DEF Typed
  <1> QED
    BY <1>1, <1>2

LEMMA ReleaseKeeps ==
    ASSUME Busy, NEW t \in Threads, Release(t)
    PROVE  IInv'
  <1>0. Typed /\ InService /\ LocalOf(t) /\ referCount \in Nat /\ referCount # 0
    BY DEF Busy, InService, Local, Typed, TypeOK
  <1>c. /\ pc[t] = "release" /\ pc' = [pc EXCEPT ![t] = "idle"] /\ referCount' = referCount - 1
        /\ IF referCount = 1
           THEN /\ atRoot' = atRoot \cup Listed
                /\ controlBlocks' = [i \in 1 .. W |-> NoBlock] /\ recycleHead' = NoBlock
           ELSE UNCHANGED <<atRoot, controlBlocks, recycleHead>>
    BY DEF Release, Goes, ReleaseObject
  <1>n. /\ recycleCount' = recycleCount
        /\ next' = next /\ refCount' = refCount /\ managed' = managed /\ bitmap' = bitmap
        /\ p' = p /\ n' = n /\ rest' = rest /\ bit' = bit /\ after' = after
        /\ owners' = owners /\ owner' = owner
    BY DEF Release, ReleaseObject, block, local
  <1>o. Others(t) /\ pc'[t] = "idle" /\ after[t] = "release" /\ p[t] = NoBlock
    BY <1>0, <1>c, <1>n DEF Typed, Others, LocalOf
  <1>1. Typed'
    <2>1. pc' \in [Threads -> Labels] /\ referCount' \in Nat
      BY <1>0, <1>c DEF Typed, Labels
    <2>2. atRoot' \subseteq Blocks
      BY <1>0, <1>c, ListedLinked DEF InService, Typed, TypeOK
    <2>3. controlBlocks' \in [1 .. W -> Blocks \cup {NoBlock}] /\ recycleHead' \in Blocks \cup {NoBlock}
      BY <1>0, <1>c DEF Typed, TypeOK
    <2> QED
      BY <1>0, <1>n, <2>1, <2>2, <2>3 DEF Typed, TypeOK
  <1>2. CASE referCount = 1
    <2>1. owner = FALSE /\ InUse = {} /\ Releasing = {t}
      <3>1. IsFiniteSet(InUse) /\ IsFiniteSet(Releasing)
        BY SlotsFinite, TAllocatorAssumption, FS_Subset DEF InUse, Releasing
      <3>2. t \in Releasing
        BY <1>c, <1>o DEF Releasing
      <3>3. /\ Cardinality(InUse) \in Nat /\ Cardinality(Releasing) \in Nat
            /\ Cardinality(InUse) = 0 <=> InUse = {}
            /\ Cardinality(Releasing) # 0
        BY <3>1, <3>2, FS_CardinalityType, FS_EmptySet
      <3>4. 1 = One(owner) + Cardinality(InUse) + Cardinality(Releasing)
        BY <1>0, <1>2 DEF InService, Refers
      <3>5. One(owner) \in {0, 1} /\ (One(owner) = 0 <=> ~owner)
        BY DEF One
      <3>6. One(owner) = 0 /\ Cardinality(InUse) = 0 /\ Cardinality(Releasing) = 1
        BY <3>3, <3>4, <3>5
      <3>7. PICK x : Releasing = {x}
        BY <3>1, <3>6, FS_Singleton
      <3> QED
        BY <1>0, <3>2, <3>3, <3>5, <3>6, <3>7 DEF Typed
    <2>2. ASSUME NEW u \in Threads PROVE pc[u] = "idle" \/ u = t
      BY <1>0, <2>1 DEF InService, Local, LocalOf, Releasing
    <2>3. \A u \in Threads : pc[u] \in {"idle", "release"}
      BY <1>c, <2>2
    <2>4. Blocks \subseteq atRoot \cup Listed /\ \A s \in Blocks \X (1 .. Slots) : owners[s] = 0
      BY <1>0, <2>1, <2>3, AllListed
    <2>5. \A u \in Threads : pc'[u] = "idle"
      BY <1>o, <2>2 DEF Others
    <2>6. atRoot' = Blocks
      BY <1>1, <1>2, <1>c, <2>4 DEF Typed, TypeOK
    <2> QED
      BY <1>1, <1>2, <1>c, <1>n, <2>1, <2>4, <2>5, <2>6 DEF IInv, Over
  <1>3. CASE referCount # 1
    <2>n. atRoot' = atRoot /\ controlBlocks' = controlBlocks /\ recycleHead' = recycleHead
      BY <1>3, <1>c
    <2>p. /\ \A b : Stale(b)' <=> Stale(b)
          /\ \A b : InChain(b)' <=> InChain(b)
          /\ \A b : Linked(b)' <=> Linked(b)
      BY <1>c, <1>n, <1>o, <2>n, PlacesStay DEF Popping
    <2>2. Local'
      <3>1. LocalOf(t)'
        BY <1>0, <1>c, <1>n, <1>o DEF LocalOf
      <3> QED
        BY <1>0, <1>n, <1>o, <3>1, LocalKept DEF InService
    <2>3. Claimed' /\ InUse' = InUse /\ \A b : InUseOf(b)' = InUseOf(b)
      BY <1>0, <1>c, <1>n, <1>o, ClaimedKept DEF InService
    <2>4. OnePlace' /\ Successors' /\ Acyclic'
      BY <1>c, <1>n, <1>o, <2>n, ListsKept DEF Popping, Listing
    <2>5. Managed'
      <3>1. \A u \in Threads : /\ pc'[u] \in Listing <=> pc[u] \in Listing
                               /\ pc[u] \in Listing => p'[u] = p[u]
        BY <1>c, <1>n, <1>o DEF Others, Listing, Popping
      <3> QED
        BY <1>0, <1>n, <2>p, <3>1 DEF InService, Managed
    <2>6. References'
      <3>1. \A b : t \in Holders(b) <=> t \in Holders(b)'
        BY <1>c, <1>n, <1>o DEF Holders, Holding
      <3> QED
        BY <1>0, <1>n, <1>o, <2>p, <2>3, <3>1, ReferencesKept DEF InService
    <2>7. Refers'
      <3>1. t \in Releasing /\ t \notin Releasing'
        BY <1>0, <1>c, <1>n, <1>o DEF Releasing
      <3>2. /\ Cardinality(Releasing) \in Nat /\ Cardinality(Releasing') \in Nat
            /\ Cardinality(Releasing') = Cardinality(Releasing) - 1
        BY <1>o, <3>1, ReleasingMoves
      <3>3. Cardinality(InUse) \in Nat /\ One(owner) \in Nat
        BY SlotsFinite, FS_Subset, FS_CardinalityType DEF InUse, One
      <3>4. referCount = One(owner) + Cardinality(InUse) + Cardinality(Releasing)
        BY <1>0 DEF InService, Refers
      <3>5. One(owner') = One(owner) /\ Cardinality(InUse') = Cardinality(InUse)
        BY <1>n, <2>3
      <3> QED
        BY <1>c, <3>2, <3>3, <3>4, <3>5 DEF Refers
    <2>8. RecycledCounted'
      BY <1>0, <1>c, <1>n, <1>o, <2>p, RecycledKept DEF InService, Popping
    <2>9. AtRoot'
      BY <1>0, <1>c, <1>n, <1>o, <2>n, AtRootKept DEF InService
    <2>10. referCount' # 0
      BY <1>0, <1>3, <1>c
    <2>11. InService'
      BY <2>2, <2>3, <2>4, <2>5, <2>6, <2>7, <2>8, <2>9 DEF InService
    <2>12. Busy'
      BY <1>1, <2>10, <2>11 DEF Busy
    <2> QED
      BY <2>12 DEF IInv
  <1> QED
    BY <1>2, <1>3

LEMMA OwnerReleaseKeeps ==
    ASSUME Busy, OwnerRelease
    PROVE  IInv'
  <1>0. Typed /\ InService /\ referCount \in Nat /\ referCount # 0
    BY DEF Busy, Typed, TypeOK
  <1>c. /\ owner /\ \A t \in Threads : pc[t] = "idle" \/ after[t] = "release"
        /\ owner' = FALSE /\ referCount' = referCount - 1
        /\ IF referCount = 1
           THEN /\ atRoot' = atRoot \cup Listed
                /\ controlBlocks' = [i \in 1 .. W |-> NoBlock] /\ recycleHead' = NoBlock
           ELSE UNCHANGED <<atRoot, controlBlocks, recycleHead>>
    BY DEF OwnerRelease, ReleaseObject
  <1>n. /\ recycleCount' = recycleCount
        /\ next' = next /\ refCount' = refCount /\ managed' = managed /\ bitmap' = bitmap
        /\ pc' = pc /\ p' = p /\ n' = n /\ rest' = rest /\ bit' = bit /\ after' = after
        /\ owners' = owners
    BY DEF OwnerRelease, ReleaseObject, block, local
  <1>1. Typed'
    <2>1. referCount' \in Nat
      BY <1>0, <1>c
    <2>2. atRoot' \subseteq Blocks
      BY <1>0, <1>c, ListedLinked DEF InService, Typed, TypeOK
    <2>3. controlBlocks' \in [1 .. W -> Blocks \cup {NoBlock}] /\ recycleHead' \in Blocks \cup {NoBlock}
      BY <1>0, <1>c DEF Typed, TypeOK
    <2> QED
      BY <1>0, <1>c, <1>n, <2>1, <2>2, <2>3 DEF Typed, TypeOK
  <1>s. /\ One(owner) = 1 /\ One(owner') = 0
        /\ Cardinality(InUse) \in Nat /\ Cardinality(Releasing) \in Nat
        /\ Cardinality(InUse) = 0 <=> InUse = {}
        /\ Cardinality(Releasing) = 0 <=> Releasing = {}
        /\ referCount = 1 + Cardinality(InUse) + Cardinality(Releasing)
    <2>1. IsFiniteSet(InUse) /\ IsFiniteSet(Releasing)
      BY SlotsFinite, TAllocatorAssumption, FS_Subset DEF InUse, Releasing
    <2>2. One(owner) = 1 /\ One(owner') = 0
      BY <1>c DEF One
    <2> QED
      BY <1>0, <2>1, <2>2, FS_CardinalityType, FS_EmptySet DEF InService, Refers
  <1>2. CASE referCount = 1
    <2>1. InUse = {} /\ Releasing = {}
      BY <1>2, <1>s
    <2>2. \A u \in Threads : pc[u] = "idle"
      BY <1>c, <2>1 DEF Releasing
    <2>3. Blocks \subseteq atRoot \cup Listed /\ \A s \in Blocks \X (1 .. Slots) : owners[s] = 0
      BY <1>0, <2>1, <2>2, AllListed
    <2>4. atRoot' = Blocks
      BY <1>1, <1>2, <1>c, <2>3 DEF Typed, TypeOK
    <2> QED
      BY <1>1, <1>2, <1>c, <1>n, <2>2, <2>3, <2>4 DEF IInv, Over
  <1>3. CASE referCount # 1
    <2>n. atRoot' = atRoot /\ controlBlocks' = controlBlocks /\ recycleHead' = recycleHead
      BY <1>3, <1>c
    <2>2. Local'
      <3>1. ASSUME NEW t \in Threads PROVE LocalOf(t)'
        <4>1. LocalOf(t) /\ (pc[t] # "idle" => after[t] = "release")
          BY <1>0, <1>c DEF InService, Local
        <4> QED
          BY <1>n, <4>1 DEF LocalOf
      <3> QED
        BY <3>1 DEF Local
    <2>3. Claimed' /\ InUse' = InUse /\ \A b : InUseOf(b)' = InUseOf(b)
      BY <1>0, <1>n DEF InService, Claimed, InUse, InUseOf, Counting
    <2>4. /\ \A b : Stale(b)' <=> Stale(b)
          /\ \A b : InChain(b)' <=> InChain(b)
          /\ \A b : Linked(b)' <=> Linked(b)
      BY <1>n, <2>n DEF Stale, InChain, Linked
    <2>5. OnePlace'
      <3>1. \A t \in Threads : pc'[t] \in Listing => ~Linked(p[t])'
        <4> SUFFICES ASSUME NEW t \in Threads, pc'[t] \in Listing PROVE ~Linked(p[t])'
          OBVIOUS
        <4>1. \A b : b = p'[t] => ~Linked(b)'
          BY <1>0, <1>n, <2>4 DEF InService, OnePlace
        <4> QED
          BY <4>1
      <3>2. \A i \in 1 .. W : controlBlocks'[i] # NoBlock => ~InChain(controlBlocks[i])'
        <4> SUFFICES ASSUME NEW i \in 1 .. W, controlBlocks'[i] # NoBlock
                     PROVE  ~InChain(controlBlocks[i])'
          OBVIOUS
        <4>1. \A b : b = controlBlocks'[i] => ~InChain(b)'
          BY <1>0, <2>n, <2>4 DEF InService, OnePlace
        <4> QED
          BY <4>1
      <3> QED
        BY <1>0, <1>n, <2>n, <2>4, <3>1, <3>2 DEF InService, OnePlace
    <2>6. Successors' /\ Acyclic' /\ Managed'
      BY <1>0, <1>n, <2>4 DEF InService, Successors, Acyclic, Ordered, Managed
    <2>7. References'
      <3>1. \A b : Holders(b)' = Holders(b)
        BY <1>n DEF Holders
      <3> QED
        BY <1>0, <1>n, <2>3, <2>4, <3>1 DEF InService, References, One
    <2>8. Refers'
      <3>1. Releasing' = Releasing
        BY <1>n DEF Releasing
      <3> QED
        BY <1>c, <1>s, <2>3, <3>1 DEF Refers
    <2>9. RecycledCounted'
      <3>1. Recycled' = Recycled
        BY <1>n, <2>4 DEF Recycled
      <3> QED
        BY <1>0, <1>n, <3>1 DEF InService, RecycledCounted
    <2>10. AtRoot'
      BY <1>0, <1>n, <2>n DEF InService, AtRoot
    <2>11. referCount' # 0
      BY <1>0, <1>3, <1>c
    <2>12. InService'
      BY <2>2, <2>3, <2>5, <2>6, <2>7, <2>8, <2>9, <2>10 DEF InService
    <2>13. Busy'
      BY <1>1, <2>11, <2>12 DEF Busy
    <2> QED
      BY <2>13 DEF IInv
  <1> QED
    BY <1>2, <1>3

-----------------------------------------------------------------------------
(* The theorems                                                              *)

LEMMA InitCorrect == Init => IInv
  <1> SUFFICES ASSUME Init PROVE Busy
    BY DEF IInv
  <1>1. Typed
    BY TAllocatorAssumption DEF Init, Typed, TypeOK, Labels
  <1>2. Local
    BY DEF Init, Local, LocalOf
  <1>3. (\A b : ~Stale(b)) /\ \A b \in Blocks : ~InChain(b) /\ ~Linked(b)
    BY TAllocatorAssumption DEF Init, Stale, InChain, Linked, Popping, Carrying
  <1>4. Claimed
    BY DEF Init, Claimed
  <1>5. OnePlace
    BY DEF Init, OnePlace, Popping, Carrying, Listing
  <1>6. Successors
    BY DEF Init, Successors
  <1>7. Acyclic
    <2>1. [b \in Blocks |-> 0] \in [Blocks -> Int]
      OBVIOUS
    <2>2. Ordered([b \in Blocks |-> 0])
      BY DEF Init, Ordered
    <2> QED
      BY <2>1, <2>2 DEF Acyclic
  <1>8. Managed
    BY <1>3 DEF Init, Managed, Listing, Popping
  <1>9. InUse = {} /\ Releasing = {} /\ Recycled = {}
    <2>1. InUse = {}
      BY DEF Init, InUse
    <2>2. Releasing = {}
      BY DEF Init, Releasing
    <2>3. Recycled = {}
      BY <1>3 DEF Init, Recycled, Popping
    <2> QED
      BY <2>1, <2>2, <2>3
  <1>10. References
    <2>1. \A b \in Blocks : InUseOf(b) = {} /\ Holders(b) = {}
      BY <1>9 DEF Init, InUseOf, Holders, Holding
    <2>2. \A b \in Blocks : /\ Cardinality(InUseOf(b)) = 0 /\ Cardinality(Holders(b)) = 0
                            /\ One(Linked(b)) = 0 /\ refCount[b] = 0
      BY <1>3, <2>1, FS_EmptySet DEF Init, One
    <2> QED
      BY <2>2 DEF References
  <1>11. Refers /\ RecycledCounted
    BY <1>9, FS_EmptySet DEF Init, Refers, RecycledCounted, One
  <1>12. AtRoot
    BY DEF Init, AtRoot
  <1>13. InService
    BY <1>2, <1>4, <1>5, <1>6, <1>7, <1>8, <1>10, <1>11, <1>12 DEF InService
  <1>14. referCount # 0
    BY DEF Init
  <1> QED
    BY <1>1, <1>13, <1>14 DEF Busy

LEMMA StepKeeps ==
    ASSUME Busy, NEW t \in Threads, Step(t)
    PROVE  IInv'
  <1>1. CASE Allocate(t)
    BY <1>1, AllocateKeeps DEF IInv
  <1>2. CASE TakeHead(t)
    BY <1>2, TakeNoHeadKeeps, TakeHeadKeeps DEF IInv
  <1>3. CASE TakeRecycled(t)
    BY <1>3, TakeNoneRecycledKeeps, TakeRecycledKeeps DEF IInv
  <1>4. CASE Reinstall(t)
    BY <1>4, ReinstallKeeps DEF IInv
  <1>5. CASE PushRest(t)
    BY <1>5, PushRestKeeps DEF IInv
  <1>6. CASE Popped(t)
    BY <1>6, PoppedKeeps DEF IInv
  <1>7. CASE Unmanage(t)
    BY <1>7, UnmanageKeeps DEF IInv
  <1>8. CASE RootAllocate(t)
    BY <1>8, RootAllocateKeeps DEF IInv
  <1>9. CASE Search(t)
    BY <1>9, SearchKeeps DEF IInv
  <1>10. CASE Claim(t)
    BY <1>10, ClaimInVainKeeps, ClaimSlotKeeps DEF IInv
  <1>11. CASE Count(t)
    BY <1>11, CountKeeps DEF IInv
  <1>12. CASE Deallocate(t)
    BY <1>12, DeallocateKeeps DEF IInv
  <1>13. CASE Recycle(t)
    BY <1>13, RecycleKeeps DEF IInv
  <1>14. CASE Manage(t)
    BY <1>14, ManageFirstKeeps, ManageLateKeeps DEF IInv
  <1>15. CASE List(t)
    BY <1>15, ListKeeps DEF IInv
  <1>16. CASE ListFails(t)
    BY <1>16, ListFailsKeeps DEF IInv
  <1>17. CASE CountRecycled(t)
    BY <1>17, CountRecycledKeeps DEF IInv
  <1>18. CASE Push(t)
    BY <1>18, PushKeeps DEF IInv
  <1>19. CASE TryFree(t)
    BY <1>19, TryFreeKeeps, TryFreeLastKeeps DEF IInv
  <1>20. CASE RootDeallocate(t)
    BY <1>20, RootDeallocateKeeps DEF IInv
  <1>21. CASE Release(t)
    BY <1>21, ReleaseKeeps
  <1> QED
    BY <1>1, <1>2, <1>3, <1>4, <1>5, <1>6, <1>7, <1>8, <1>9, <1>10, <1>11, <1>12, <1>13, <1>14,
       <1>15, <1>16, <1>17, <1>18, <1>19, <1>20, <1>21 DEF Step

(* Nothing happens any more once the allocator has gone.                     *)
LEMMA OverStays ==
    ASSUME Typed, Over, Next
    PROVE  FALSE
  <1>1. ASSUME NEW t \in Threads, Step(t) PROVE FALSE
    <2>1. pc[t] = "idle" /\ ~owner
      BY DEF Over
    <2>2. ~Allocate(t) /\ ~Release(t)
      BY <2>1 DEF Allocate, Release, Goes
    <2>3. ~Deallocate(t)
      <3>1. \A s \in DOMAIN owners : owners[s] = 0
        BY DEF Over, Typed
      <3>2. \A s \in DOMAIN owners : ~(owners[s] > 0)
        BY <3>1
      <3>3. Deallocate(t) => \E s \in DOMAIN owners : owners[s] > 0
        BY Zenon DEF Deallocate
      <3> QED
        BY <3>2, <3>3, Zenon
    <2>4. /\ ~TakeHead(t) /\ ~TakeRecycled(t) /\ ~Reinstall(t) /\ ~PushRest(t) /\ ~Popped(t)
          /\ ~Unmanage(t) /\ ~RootAllocate(t) /\ ~Search(t)
      BY <2>1 DEF TakeHead, TakeRecycled, Reinstall, PushRest, Popped, Unmanage, RootAllocate,
                  Search, Goes
    <2>5. /\ ~Claim(t) /\ ~Count(t) /\ ~Recycle(t) /\ ~Manage(t) /\ ~List(t) /\ ~ListFails(t)
          /\ ~CountRecycled(t) /\ ~Push(t) /\ ~TryFree(t) /\ ~RootDeallocate(t)
      BY <2>1 DEF Claim, Count, Recycle, Manage, List, ListFails, CountRecycled, Push, TryFree,
                  RootDeallocate, Goes
    <2> QED
      BY <1>1, <2>2, <2>3, <2>4, <2>5 DEF Step
  <1>2. ~OwnerRelease
    BY DEF OwnerRelease, Over
  <1> QED
    BY <1>1, <1>2 DEF Next

LEMMA StutterKeeps ==
    ASSUME IInv, UNCHANGED vars
    PROVE  IInv'
  <1>1. /\ controlBlocks' = controlBlocks /\ recycleHead' = recycleHead /\ recycleCount' = recycleCount
        /\ referCount' = referCount
        /\ next' = next /\ refCount' = refCount /\ managed' = managed /\ bitmap' = bitmap
        /\ atRoot' = atRoot /\ pc' = pc
        /\ p' = p /\ n' = n /\ rest' = rest /\ bit' = bit /\ after' = after
        /\ owners' = owners /\ owner' = owner
    BY DEF vars, lists, block, local
  <1>2. Typed <=> Typed'
    BY <1>1 DEF Typed, TypeOK
  <1>3. Over <=> Over'
    BY <1>1 DEF Over
  <1>4. InService <=> InService'
    <2>1. Local <=> Local'
      BY <1>1 DEF Local, LocalOf
    <2>2. Claimed <=> Claimed'
      BY <1>1 DEF Claimed
    <2>3. /\ \A b : Stale(b)' <=> Stale(b)
          /\ \A b : InChain(b)' <=> InChain(b)
          /\ \A b : Linked(b)' <=> Linked(b)
      BY <1>1 DEF Stale, InChain, Linked
    <2>4. OnePlace <=> OnePlace'
      BY <1>1 DEF OnePlace, Linked, InChain, Stale
    <2>5. (Successors <=> Successors') /\ (Acyclic <=> Acyclic') /\ (Managed <=> Managed')
      BY <1>1, <2>3 DEF Successors, Acyclic, Ordered, Managed
    <2>6. InUse' = InUse /\ (\A b : InUseOf(b)' = InUseOf(b)) /\ \A b : Holders(b)' = Holders(b)
      BY <1>1 DEF InUse, InUseOf, Counting, Holders
    <2>7. References <=> References'
      BY <1>1, <2>3, <2>6 DEF References, One
    <2>8. Releasing' = Releasing /\ Recycled' = Recycled
      BY <1>1, <2>3 DEF Releasing, Recycled
    <2>9. (Refers <=> Refers') /\ (RecycledCounted <=> RecycledCounted')
      BY <1>1, <2>6, <2>8 DEF Refers, RecycledCounted, One
    <2>10. AtRoot <=> AtRoot'
      BY <1>1 DEF AtRoot
    <2> QED
      BY <2>1, <2>2, <2>4, <2>5, <2>7, <2>9, <2>10 DEF InService
  <1>5. Busy <=> Busy'
    BY <1>1, <1>2, <1>4 DEF Busy
  <1> QED
    BY <1>2, <1>3, <1>5 DEF IInv

LEMMA NextKeeps == IInv /\ [Next]_vars => IInv'
  <1>1. ASSUME IInv, Next PROVE IInv'
    <2>1. CASE Busy
      BY <1>1, <2>1, StepKeeps, OwnerReleaseKeeps DEF Next
    <2>2. CASE Typed /\ Over
      BY <1>1, <2>2, OverStays
    <2> QED
      BY <1>1, <2>1, <2>2 DEF IInv
  <1> QED
    BY <1>1, StutterKeeps

(* What is where and who counts what: the inductive invariant, whatever the  *)
(* order of the atomic accesses of TAllocator.h:27-320.                      *)
THEOREM Invariance == Spec => []IInv
  BY InitCorrect, NextKeeps, PTL DEF Spec

LEMMA IInvAssertions == IInv => CodeAssertions
  <1>1. ASSUME Typed, Over PROVE CodeAssertions
    BY <1>1 DEF Typed, Over, CodeAssertions
  <1>2. ASSUME Busy PROVE CodeAssertions
    <2>0. Typed /\ InService
      BY <1>2 DEF Busy
    <2> SUFFICES ASSUME NEW t \in Threads
                 PROVE  /\ pc[t] = "popped" => refCount[p[t]] >= 1 /\ managed[p[t]] = 1
                        /\ pc[t] \in {"recycle", "free"} => refCount[p[t]] # 0
                        /\ pc[t] = "rootFree" => p[t] \notin Listed
                        /\ pc[t] = "push" => next[p[t]] = NoBlock
      BY <2>0 DEF CodeAssertions, Typed
    <2>1. CASE pc[t] \in {"popped", "recycle", "free", "rootFree", "push"}
      <3>1. PICK b : b = p[t] /\ b \in Blocks
        BY <2>0, <2>1 DEF InService, Local, LocalOf, Typed
      <3>2. pc[t] \in Holding => refCount[b] >= 1
        <4>1. pc[t] \in Holding => Holders(b) # {}
          BY <3>1 DEF Holders
        <4> QED
          BY <2>0, <3>1, <4>1, Unreferenced DEF InService
      <3>3. pc[t] = "popped" => managed[b] = 1
        BY <2>0, <3>1 DEF InService, Managed, Listing, Popping
      <3>4. pc[t] = "rootFree" => b \notin Listed
        <4>1. pc[t] = "rootFree" => refCount[b] = 0
          BY <2>0, <3>1 DEF InService, AtRoot
        <4> QED
          BY <2>0, <3>1, <4>1, Unreferenced, ListedLinked DEF InService
      <3>5. pc[t] = "push" => next[b] = NoBlock
        <4> SUFFICES ASSUME pc[t] = "push" PROVE next[b] = NoBlock
          OBVIOUS
        <4>1. ~InChain(b) /\ ~Stale(b)
          BY <2>0, <3>1 DEF InService, OnePlace, Linked, Stale, Listing, Popping
        <4> QED
          BY <2>0, <3>1, <4>1 DEF InService, Successors
      <3>6. refCount[b] \in Nat
        BY <2>0, <3>1 DEF Typed, TypeOK
      <3> QED
        BY <2>1, <3>1, <3>2, <3>3, <3>4, <3>5, <3>6 DEF Holding
    <2> QED
      BY <2>1
  <1> QED
    BY <1>1, <1>2 DEF IInv

(* The assertions of TAllocator.h:222-293 hold: a block taken from the list  *)
(* has a reference, no reference is given up that is not there, and no block *)
(* is freed, or put on the list, that hangs in it.                           *)
THEOREM AssertionsHold == Spec => []CodeAssertions
  BY Invariance, IInvAssertions, PTL

LEMMA IInvAccounted == IInv => BlocksAccounted
  <1>1. ASSUME Typed, Over PROVE BlocksAccounted
    BY <1>1 DEF Over, BlocksAccounted
  <1>2. ASSUME Busy, \A t \in Threads : pc[t] = "idle"
        PROVE  /\ \A b \in Blocks \ atRoot :
                    /\ managed[b] = 1 <=> b \in Listed
                    /\ refCount[b] = managed[b] + Cardinality({i \in 1 .. Slots : owners[<<b, i>>] > 0})
                    /\ refCount[b] > 0
               /\ recycleCount = Cardinality(Chain(recycleHead))
    <2>0. Typed /\ InService
      BY <1>2 DEF Busy
    <2>1. \A b \in Blocks : /\ InChain(b) <=> b \in Chain(recycleHead)
                            /\ Linked(b) <=> b \in Listed
      BY <1>2, <2>0, LinkedListed DEF InService, Popping
    <2>2. ASSUME NEW b \in Blocks \ atRoot
          PROVE  /\ managed[b] = 1 <=> b \in Listed
                 /\ refCount[b] = managed[b] + Cardinality({i \in 1 .. Slots : owners[<<b, i>>] > 0})
                 /\ refCount[b] > 0
      <3>1. managed[b] = 1 <=> Linked(b)
        BY <1>2, <2>0 DEF InService, Managed, Listing, Popping
      <3>2. managed[b] \in {0, 1} /\ refCount[b] \in Nat
        BY <2>0 DEF Typed, TypeOK
      <3>3. One(Linked(b)) = managed[b]
        BY <3>1, <3>2 DEF One
      <3>4. InUseOf(b) = {i \in 1 .. Slots : owners[<<b, i>>] > 0}
        <4>1. \A i \in 1 .. Slots : owners[<<b, i>>] \in {0, 1} /\ ~Counting(<<b, i>>)
          BY <1>2, <2>0 DEF Typed, Counting
        <4>2. \A i \in 1 .. Slots : i \in InUseOf(b) <=> owners[<<b, i>>] > 0
          BY <4>1 DEF InUseOf, InUse
        <4> QED
          BY <4>2 DEF InUseOf
      <3>5. Holders(b) = {} /\ Cardinality(InUseOf(b)) \in Nat
        BY <1>2, <2>0, Unreferenced DEF Holders, Holding, InService
      <3>6. refCount[b] = managed[b] + Cardinality(InUseOf(b))
        <4>1. Cardinality(Holders(b)) = 0
          BY <3>5, FS_EmptySet
        <4>2. refCount[b] = One(Linked(b)) + Cardinality(InUseOf(b)) + Cardinality(Holders(b))
          BY <2>0 DEF InService, References
        <4> QED
          BY <3>2, <3>3, <3>5, <4>1, <4>2
      <3>7. refCount[b] # 0
        BY <1>2, <2>0 DEF InService, AtRoot
      <3> QED
        BY <2>1, <3>1, <3>2, <3>4, <3>6, <3>7
    <2>3. recycleCount = Cardinality(Chain(recycleHead))
      <3>1. Recycled = Chain(recycleHead)
        BY <1>2, <2>1 DEF Recycled, Popping, Chain
      <3> QED
        BY <2>0, <3>1 DEF InService, RecycledCounted
    <2> QED
      BY <2>2, <2>3
  <1>3. ASSUME Busy PROVE BlocksAccounted
    BY <1>2, <1>3 DEF BlocksAccounted, Busy
  <1> QED
    BY <1>1, <1>3 DEF IInv

(* Between calls refCount is the slots in use and one for being listed, a    *)
(* block without either is with the root allocator, and so are all when the  *)
(* allocator has gone (TAllocator.h:170-187).                                *)
THEOREM Accounted == Spec => []BlocksAccounted
  BY Invariance, IInvAccounted, PTL

(* A slot changes hands and a block comes or goes as Heap allows it.         *)
LEMMA StepImplements == IInv /\ IInv' /\ [Next]_vars => [AbstractHeap!Next]_<<Blocks \ atRoot, owners>>
  <1> SUFFICES ASSUME IInv, IInv', Next
               PROVE  AbstractHeap!Next \/ UNCHANGED <<atRoot, owners>>
    <2>1. UNCHANGED vars => UNCHANGED <<atRoot, owners>>
      BY DEF vars
    <2> QED
      BY <2>1
  <1>1. Typed /\ InService
    BY OverStays DEF IInv, Busy
  <1>2. ASSUME NEW b \in Blocks, refCount[b] = 0, NEW i \in 1 .. Slots PROVE owners[<<b, i>>] = 0
    <2>1. InUseOf(b) = {} /\ Holders(b) = {}
      BY <1>1, <1>2, Unreferenced DEF InService
    <2>2. ~Counting(<<b, i>>)
      BY <2>1 DEF Counting, Holders, Holding
    <2>3. <<b, i>> \notin InUse
      BY <2>1 DEF InUseOf
    <2>4. owners[<<b, i>>] # 1
      BY <2>2, <2>3 DEF InUse
    <2> QED
      BY <1>1, <2>4 DEF Typed
  <1>3. ASSUME ReleaseObject PROVE AbstractHeap!Next \/ UNCHANGED <<atRoot, owners>>
    <2>1. owners' = owners
      BY <1>3 DEF ReleaseObject
    <2>2. CASE referCount = 1
      <3>1. atRoot' = atRoot \cup Listed /\ referCount' = 0
        BY <1>3, <2>2 DEF ReleaseObject
      <3>2. \A s \in Blocks \X (1 .. Slots) : owners[s] = 0
        BY <2>1, <3>1 DEF IInv, Busy, Over
      <3>3. ASSUME NEW b \in Listed PROVE b \in Blocks \ atRoot
        <4>1. b \in Blocks /\ Linked(b)
          BY <1>1, ListedLinked DEF InService
        <4> QED
          BY <1>1, <4>1, Unreferenced DEF InService, AtRoot
      <3>4. AbstractHeap!Return(Listed)
        <4>1. \A s \in Listed \X (1 .. Slots) : owners[s] = 0
          BY <3>2, <3>3
        <4>2. Blocks \ (atRoot \cup Listed) = (Blocks \ atRoot) \ Listed
          OBVIOUS
        <4> QED
          BY <2>1, <3>1, <4>1, <4>2 DEF AbstractHeap!Return
      <3> QED
        BY <3>3, <3>4 DEF AbstractHeap!Next
    <2>3. CASE referCount # 1
      BY <1>3, <2>3 DEF ReleaseObject
    <2> QED
      BY <2>2, <2>3
  <1>4. ASSUME NEW t \in Threads, Step(t) PROVE AbstractHeap!Next \/ UNCHANGED <<atRoot, owners>>
    <2>1. CASE RootAllocate(t)
      <3>1. PICK b \in atRoot : atRoot' = atRoot \ {b} /\ owners' = owners
        BY <2>1 DEF RootAllocate
      <3>2. b \in Blocks
        BY <1>1 DEF Typed, TypeOK
      <3>3. AbstractHeap!Reserve(b)
        BY <3>1, <3>2 DEF AbstractHeap!Reserve
      <3> QED
        BY <3>2, <3>3 DEF AbstractHeap!Next
    <2>2. CASE Claim(t)
      <3>1. CASE bit[t] \notin bitmap[p[t]] /\ bit[t] <= Slots
        <4>1. pc[t] = "claim" /\ atRoot' = atRoot
          BY <2>2 DEF Claim, Goes
        <4>2. PICK s : s = <<p[t], bit[t]>>
          OBVIOUS
        <4>3. p[t] \in Blocks /\ bit[t] \in 1 .. Slots
          BY <1>1, <3>1, <4>1, TAllocatorAssumption DEF InService, Local, LocalOf, Typed
        <4>4. owners[s] = 0
          BY <1>1, <3>1, <4>2, <4>3 DEF InService, Claimed, Typed
        <4>5. p[t] \in Blocks \ atRoot
          <5>1. Holders(p[t]) # {}
            BY <4>1 DEF Holders, Holding
          <5>2. refCount[p[t]] >= 1
            BY <1>1, <4>3, <5>1, Unreferenced DEF InService
          <5> QED
            BY <1>1, <4>3, <5>2 DEF InService, AtRoot
        <4>6. owners' = [owners EXCEPT ![s] = 1]
          <5>1. owners' = [owners EXCEPT ![s] = owners[s] + 1]
            BY <2>2, <3>1, <4>2 DEF Claim, Set
          <5> QED
            BY <4>4, <5>1
        <4>7. s \in Blocks \X (1 .. Slots) /\ s[1] = p[t]
          BY <4>2, <4>3
        <4>8. AbstractHeap!Allocate(s)
          BY <4>1, <4>4, <4>5, <4>6, <4>7 DEF AbstractHeap!Allocate
        <4> QED
          BY <4>7, <4>8 DEF AbstractHeap!Next
      <3>2. CASE ~(bit[t] \notin bitmap[p[t]] /\ bit[t] <= Slots)
        BY <2>2, <3>2 DEF Claim
      <3> QED
        BY <3>1, <3>2
    <2>3. CASE Deallocate(t)
      <3>1. PICK s \in DOMAIN owners : owners[s] > 0 /\ owners' = [owners EXCEPT ![s] = owners[s] - 1]
        BY <2>3 DEF Deallocate, Set
      <3>2. s \in Blocks \X (1 .. Slots) /\ owners[s] = 1
        BY <1>1, <3>1 DEF Typed
      <3>3. atRoot' = atRoot /\ owners' = [owners EXCEPT ![s] = 0]
        BY <2>3, <3>1, <3>2 DEF Deallocate
      <3>4. AbstractHeap!Deallocate(s)
        BY <3>2, <3>3 DEF AbstractHeap!Deallocate
      <3> QED
        BY <3>2, <3>4 DEF AbstractHeap!Next
    <2>4. CASE RootDeallocate(t)
      <3>1. PICK b : b = p[t] /\ pc[t] = "rootFree" /\ atRoot' = atRoot \cup {b} /\ owners' = owners
        BY <2>4 DEF RootDeallocate, Done
      <3>2. b \in Blocks /\ refCount[b] = 0 /\ b \notin atRoot
        BY <1>1, <3>1 DEF InService, Local, LocalOf, AtRoot, Typed
      <3>3. \A s \in {b} \X (1 .. Slots) : owners[s] = 0
        BY <1>2, <3>2
      <3>4. AbstractHeap!Return({b})
        BY <3>1, <3>3 DEF AbstractHeap!Return
      <3> QED
        BY <3>2, <3>4 DEF AbstractHeap!Next
    <2>5. CASE Release(t)
      <3>1. ReleaseObject
        BY <2>5 DEF Release
      <3> QED
        BY <1>3, <3>1
    <2>6. CASE ~(RootAllocate(t) \/ Claim(t) \/ Deallocate(t) \/ RootDeallocate(t) \/ Release(t))
      BY <1>4, <2>6 DEF Step, Allocate, TakeHead, TakeRecycled, Reinstall, PushRest, Popped, Unmanage,
                        Search, Count, Recycle, Manage, List, ListFails, CountRecycled, Push, TryFree
    <2> QED
      BY <2>1, <2>2, <2>3, <2>4, <2>5, <2>6
  <1> QED
    BY <1>3, <1>4 DEF Next, OwnerRelease

(* No slot is given to two clients, and no block goes back to the root       *)
(* allocator under one, whichever steps of Allocate, Deallocate, Recycle,    *)
(* TryFree and ~TAllocator come between each other.                          *)
THEOREM Implements == Spec => ImplementsHeap
  <1>1. Init => AbstractHeap!Init
    BY DEF Init, AbstractHeap!Init
  <1> QED
    BY <1>1, Invariance, StepImplements, PTL DEF Spec, ImplementsHeap, AbstractHeap!Spec
-----------------------------------------------------------------------------
(* TPool: the operators of FiniteSets as its instance has them               *)

LEMMA PoolSets ==
    \A S : Pool!Cardinality(S) = Cardinality(S) /\ (Pool!IsFiniteSet(S) <=> IsFiniteSet(S))
  <1>1. \A S : Pool!Cardinality(S) = Cardinality(S)
    BY DEF Pool!Cardinality, Cardinality
  <1>2. \A S : Pool!IsFiniteSet(S) = IsFiniteSet(S)
    BY DEF Pool!IsFiniteSet, IsFiniteSet
  <1> QED
    BY <1>1, <1>2

PoolAssumed ==
    /\ IsFiniteSet(Threads) /\ Threads # {} /\ IsFiniteSet(Items) /\ NoItem \notin Items
    /\ Heads \in Nat \ {0} /\ Limit \in Nat
    /\ CounterSize \in Nat /\ CounterSize >= Limit + Cardinality(Threads)

LEMMA PoolConstants == PoolAssumed
  BY PoolAssumption, PoolSets DEF Pool!Assumption, PoolAssumed

-----------------------------------------------------------------------------
(* Where an item is                                                          *)

(* Labels at which a thread that releases has an item of its own, ...        *)
Putting == {"start", "put", "choose", "push"}

(* ... or one that acquires.                                                 *)
Handing == {"reinstall", "pushRest", "uncount"} \cup Putting

PoolLabels == {"idle", "take", "construct", "count", "clear"} \cup Handing

HeadIndices == 0 .. Heads - 1

Handed(t) == IF at[t] \in Handing THEN {hand[t]} ELSE {}

(* The places of items, and what it is for item o to be in one of them.      *)
AtHead(h) == <<"chain", h>>
AtRest(t) == <<"rest", t>>
AtHand(t) == <<"hand", t>>
AtClient == <<"client", "client">>
Nowhere == <<"nowhere", "nowhere">>

ItemPlaces ==
    {AtHead(h) : h \in HeadIndices} \cup {AtRest(t) : t \in Threads} \cup {AtHand(t) : t \in Threads}
      \cup {AtClient}

ItemAt(o, place) ==
    /\ \A h \in HeadIndices : o \in Pool!ToSet(chains[h]) <=> place = AtHead(h)
    /\ \A t \in Threads : o \in Pool!ToSet(taken[t]) <=> place = AtRest(t)
    /\ \A t \in Threads : o \in Handed(t) <=> place = AtHand(t)
    /\ o \in owned <=> place = AtClient
    /\ o \in alive <=> place \in ItemPlaces

Located == \A o \in Items : \E place : ItemAt(o, place)

PoolTyped ==
    /\ chains \in [HeadIndices -> Seq(Items)] /\ \A h \in HeadIndices : Pool!IsInjective(chains[h])
    /\ taken \in [Threads -> Seq(Items)] /\ \A t \in Threads : Pool!IsInjective(taken[t])
    /\ currentCount \in Nat /\ maxCount \in Nat /\ clears \in Nat
    /\ at \in [Threads -> PoolLabels] /\ index \in [Threads -> Nat] /\ cur \in [Threads -> Nat]
    /\ hand \in [Threads -> Items \cup {NoItem}]
    /\ owned \subseteq Items /\ alive \subseteq Items

PoolLocal ==
    \A t \in Threads :
        /\ at[t] \in Handing => hand[t] \in Items
        /\ at[t] \notin Handing /\ at[t] # "count" => hand[t] = NoItem
        /\ at[t] \notin {"reinstall", "pushRest"} => taken[t] = <<>>
        /\ at[t] = "pushRest" => taken[t] # <<>>

(* The items the pool has, in chains or on the way out of them; the threads  *)
(* that have hung one up and not counted it, and those that release one.     *)
Stock == {o \in alive \ owned : \A t \in Threads : at[t] \in Putting => hand[t] # o}
Uncounted == {t \in Threads : at[t] = "count"}
Returning == {t \in Threads : at[t] \in Putting \cup {"count"}}

Net == Cardinality(Stock) - Cardinality(Uncounted)

(* currentCount is the number of items the pool has, less those not counted  *)
(* yet; that may be less than zero.                                          *)
Counted ==
    clears = 0 =>
        /\ maxCount = Limit /\ \A t \in Threads : at[t] # "clear"
        /\ currentCount = IF Net >= 0 THEN Net ELSE Net + CounterSize
        /\ Net + Cardinality(Returning) <= Limit + Cardinality(Threads) - 1

PoolInv == PoolTyped /\ PoolLocal /\ Located /\ Counted

-----------------------------------------------------------------------------
(* Sequences of items                                                        *)

LEMMA TailItems ==
    ASSUME NEW S, NEW s \in Seq(S), s # <<>>, Pool!IsInjective(s)
    PROVE  /\ Tail(s) \in Seq(S) /\ Pool!IsInjective(Tail(s))
           /\ s[1] \in S /\ s[1] \notin Pool!ToSet(Tail(s))
           /\ Pool!ToSet(s) = {s[1]} \cup Pool!ToSet(Tail(s))
  <1>1. /\ Tail(s) \in Seq(S) /\ Len(Tail(s)) = Len(s) - 1 /\ Len(s) \in Nat /\ Len(s) >= 1
        /\ \A i \in 1 .. Len(s) - 1 : Tail(s)[i] = s[i + 1]
    BY HeadTailProperties, EmptySeq
  <1>2. DOMAIN s = 1 .. Len(s) /\ DOMAIN Tail(s) = 1 .. Len(s) - 1
    BY <1>1
  <1>3. \A i, j \in 1 .. Len(s) : s[i] = s[j] => i = j
    BY <1>2 DEF Pool!IsInjective
  <1>4. Pool!IsInjective(Tail(s))
    BY <1>1, <1>2, <1>3 DEF Pool!IsInjective
  <1>5. s[1] \in S
    BY <1>1
  <1>6. s[1] \notin Pool!ToSet(Tail(s))
    BY <1>1, <1>2, <1>3 DEF Pool!ToSet
  <1>7. \A x \in Pool!ToSet(s) : x = s[1] \/ x \in Pool!ToSet(Tail(s))
    <2> SUFFICES ASSUME NEW i \in 1 .. Len(s), i # 1 PROVE s[i] \in Pool!ToSet(Tail(s))
      BY <1>2 DEF Pool!ToSet
    <2>1. i - 1 \in 1 .. Len(s) - 1 /\ Tail(s)[i - 1] = s[i]
      BY <1>1
    <2> QED
      BY <2>1, <1>2 DEF Pool!ToSet
  <1>8. \A x : x = s[1] \/ x \in Pool!ToSet(Tail(s)) => x \in Pool!ToSet(s)
    BY <1>1, <1>2 DEF Pool!ToSet
  <1> QED
    BY <1>1, <1>4, <1>5, <1>6, <1>7, <1>8

LEMMA ConsItems ==
    ASSUME NEW S, NEW s \in Seq(S), Pool!IsInjective(s), NEW e \in S, e \notin Pool!ToSet(s)
    PROVE  /\ <<e>> \o s \in Seq(S) /\ Pool!IsInjective(<<e>> \o s)
           /\ Pool!ToSet(<<e>> \o s) = {e} \cup Pool!ToSet(s)
  <1> DEFINE r == <<e>> \o s
  <1>1. <<e>> \in Seq(S) /\ Len(<<e>>) = 1 /\ <<e>>[1] = e
    OBVIOUS
  <1>2. Len(s) \in Nat /\ DOMAIN s = 1 .. Len(s)
    OBVIOUS
  <1>3. r \in Seq(S) /\ Len(r) = 1 + Len(s) /\ r[1] = e /\ \A i \in 2 .. 1 + Len(s) : r[i] = s[i - 1]
    BY <1>1, <1>2, ConcatProperties
  <1>4. DOMAIN r = 1 .. 1 + Len(s)
    BY <1>3
  <1> HIDE DEF r
  <1>5. \A i, j \in 1 .. Len(s) : s[i] = s[j] => i = j
    BY <1>2 DEF Pool!IsInjective
  <1>6. \A i \in 1 .. Len(s) : s[i] # e
    BY <1>2 DEF Pool!ToSet
  <1>7. Pool!IsInjective(r)
    <2> SUFFICES ASSUME NEW i \in 1 .. 1 + Len(s), NEW j \in 1 .. 1 + Len(s), r[i] = r[j] PROVE i = j
      BY <1>4 DEF Pool!IsInjective
    <2>1. i # 1 => i - 1 \in 1 .. Len(s) /\ r[i] = s[i - 1]
      BY <1>2, <1>3
    <2>2. j # 1 => j - 1 \in 1 .. Len(s) /\ r[j] = s[j - 1]
      BY <1>2, <1>3
    <2> QED
      BY <2>1, <2>2, <1>2, <1>3, <1>5, <1>6
  <1>8. \A i \in 1 .. Len(s) : i + 1 \in 1 .. 1 + Len(s) /\ r[i + 1] = s[i]
    BY <1>2, <1>3
  <1>9. Pool!ToSet(r) = {e} \cup Pool!ToSet(s)
    <2>1. \A x \in Pool!ToSet(r) : x = e \/ x \in Pool!ToSet(s)
      <3> SUFFICES ASSUME NEW i \in 1 .. 1 + Len(s), i # 1 PROVE r[i] \in Pool!ToSet(s)
        BY <1>3, <1>4 DEF Pool!ToSet
      <3>1. i - 1 \in 1 .. Len(s) /\ r[i] = s[i - 1]
        BY <1>2, <1>3
      <3> QED
        BY <3>1, <1>2 DEF Pool!ToSet
    <2>2. \A x \in Pool!ToSet(s) : x \in Pool!ToSet(r)
      BY <1>2, <1>4, <1>8 DEF Pool!ToSet
    <2>3. e \in Pool!ToSet(r)
      BY <1>2, <1>3, <1>4 DEF Pool!ToSet
    <2> QED
      BY <2>1, <2>2, <2>3
  <1> QED
    BY <1>3, <1>7, <1>9 DEF r

LEMMA NoItems == Pool!ToSet(<<>>) = {} /\ Pool!IsInjective(<<>>) /\ \A S : <<>> \in Seq(S)
  BY DEF Pool!ToSet, Pool!IsInjective

LEMMA OneItem ==
    ASSUME NEW S, NEW e \in S
    PROVE  <<e>> \in Seq(S) /\ Pool!IsInjective(<<e>>) /\ Pool!ToSet(<<e>>) = {e} /\ <<e>> # <<>>
  BY DEF Pool!ToSet, Pool!IsInjective

(* No two places are the same.                                               *)
LEMMA PlacesDiffer ==
    /\ \A h, g : AtHead(h) = AtHead(g) <=> h = g
    /\ \A t, u : AtRest(t) = AtRest(u) <=> t = u
    /\ \A t, u : AtHand(t) = AtHand(u) <=> t = u
    /\ \A h, t : AtHead(h) # AtRest(t) /\ AtHead(h) # AtHand(t)
    /\ \A t, u : AtRest(t) # AtHand(u)
    /\ \A h : AtHead(h) # AtClient /\ AtHead(h) # Nowhere
    /\ \A t : AtRest(t) # AtClient /\ AtRest(t) # Nowhere
    /\ \A t : AtHand(t) # AtClient /\ AtHand(t) # Nowhere
    /\ AtClient # Nowhere
  BY DEF AtHead, AtRest, AtHand, AtClient, Nowhere

LEMMA PlacesKnown ==
    /\ \A h \in HeadIndices : AtHead(h) \in ItemPlaces
    /\ \A t \in Threads : AtRest(t) \in ItemPlaces /\ AtHand(t) \in ItemPlaces
    /\ AtClient \in ItemPlaces /\ Nowhere \notin ItemPlaces
  BY PlacesDiffer DEF ItemPlaces

LEMMA IndexHead ==
    ASSUME PoolAssumed, PoolTyped, NEW t \in Threads
    PROVE  Pool!Index(t) \in HeadIndices
  <1>1. PICK a \in Nat : a = index[t] + cur[t]
    BY DEF PoolTyped
  <1>2. a % Heads \in 0 .. Heads - 1
    BY DEF PoolAssumed
  <1> QED
    BY <1>1, <1>2 DEF Pool!Index, HeadIndices

-----------------------------------------------------------------------------
(* Types                                                                     *)

LEMMA ChainReplaced ==
    ASSUME PoolTyped, NEW h \in HeadIndices, NEW s \in Seq(Items), Pool!IsInjective(s),
           chains' = Pool!With(chains, h, s)
    PROVE  chains' \in [HeadIndices -> Seq(Items)] /\ \A g \in HeadIndices : Pool!IsInjective(chains'[g])
  BY DEF PoolTyped, Pool!With

LEMMA RestReplaced ==
    ASSUME PoolTyped, NEW t \in Threads, NEW s \in Seq(Items), Pool!IsInjective(s),
           taken' = Pool!With(taken, t, s)
    PROVE  taken' \in [Threads -> Seq(Items)] /\ \A u \in Threads : Pool!IsInjective(taken'[u])
  BY DEF PoolTyped, Pool!With

(* Steps that leave the chains, and what has been taken from them, as they   *)
(* are.                                                                      *)
PoolQuiet(t) ==
    \/ Pool!AcquireSafe(t) \/ Pool!Start(t) \/ Pool!PutFails(t) \/ Pool!Choose(t) \/ Pool!Count(t)
    \/ Pool!Clear(t) \/ Pool!ClearAgain(t) \/ Pool!ClearEnds(t)

LEMMA CountTyped ==
    ASSUME PoolAssumed, PoolTyped, NEW k \in {-1, 1}, Pool!CountBy(k)
    PROVE  currentCount' \in Nat
  <1>1. PICK a \in Int : a = currentCount + k
    BY DEF PoolTyped
  <1>2. CounterSize \in Nat /\ CounterSize > 0
    BY FS_EmptySet, FS_CardinalityType DEF PoolAssumed
  <1>3. a % CounterSize \in 0 .. CounterSize - 1
    BY <1>2
  <1> QED
    BY <1>1, <1>3, <1>2 DEF Pool!CountBy

LEMMA ForgetTyped ==
    ASSUME PoolTyped, NEW t \in Threads, Pool!Forget(t)
    PROVE  index' \in [Threads -> Nat] /\ cur' \in [Threads -> Nat] /\ hand' \in [Threads -> Items \cup {NoItem}]
  BY DEF Pool!Forget, Pool!With, PoolTyped

LEMMA QuietTyped ==
    ASSUME PoolAssumed, PoolTyped, PoolLocal, NEW t \in Threads, PoolQuiet(t)
    PROVE  PoolTyped'
  <1>1. /\ chains' = chains /\ taken' = taken /\ owned' = owned /\ alive' = alive
    BY DEF PoolQuiet, Pool!AcquireSafe, Pool!Start, Pool!PutFails, Pool!Choose, Pool!Count,
           Pool!Clear, Pool!ClearAgain, Pool!ClearEnds, Pool!local
  <1>2. currentCount' \in Nat
    BY CountTyped DEF PoolQuiet, Pool!AcquireSafe, Pool!Start, Pool!PutFails, Pool!Choose,
           Pool!Count, Pool!Clear, Pool!ClearAgain,
                      Pool!ClearEnds, PoolTyped
  <1>3. maxCount' \in Nat /\ clears' \in Nat
    BY DEF PoolQuiet, Pool!AcquireSafe, Pool!Start, Pool!PutFails, Pool!Choose, Pool!Count,
           Pool!Clear, Pool!ClearAgain, Pool!ClearEnds, PoolTyped
  <1>4. at' \in [Threads -> PoolLabels]
    BY DEF PoolQuiet, Pool!AcquireSafe, Pool!Start, Pool!PutFails, Pool!Choose, Pool!Count,
           Pool!Clear, Pool!ClearAgain, Pool!ClearEnds,
           Pool!Goes, PoolTyped, PoolLabels, Handing, Putting
  <1>5. index' \in [Threads -> Nat] /\ cur' \in [Threads -> Nat] /\ hand' \in [Threads -> Items \cup {NoItem}]
    <2>1. CASE Pool!AcquireSafe(t) \/ Pool!Start(t) \/ Pool!Choose(t)
      <3>1. cur' = Pool!With(cur, t, currentCount) /\ hand' = hand /\ (index' = index \/ index' = Pool!With(index, t, 0))
        BY <2>1 DEF Pool!AcquireSafe, Pool!Start, Pool!Choose
      <3>2. cur' \in [Threads -> Nat]
        BY <3>1 DEF Pool!With, PoolTyped
      <3>3. index' \in [Threads -> Nat]
        BY <3>1 DEF Pool!With, PoolTyped
      <3> QED
        BY <3>1, <3>2, <3>3 DEF PoolTyped
    <2>2. CASE Pool!PutFails(t)
      BY <2>2 DEF Pool!PutFails, Pool!With, PoolTyped
    <2>3. CASE Pool!Count(t) \/ Pool!ClearEnds(t)
      <3>1. Pool!Forget(t)
        BY <2>3 DEF Pool!Count, Pool!ClearEnds
      <3> QED
        BY <3>1, ForgetTyped
    <2>4. CASE Pool!Clear(t)
      BY <2>4 DEF Pool!Clear, Pool!local, PoolTyped
    <2>5. CASE Pool!ClearAgain(t)
      BY <2>5 DEF Pool!ClearAgain, Pool!With, PoolTyped
    <2> QED
      BY <2>1, <2>2, <2>3, <2>4, <2>5 DEF PoolQuiet
  <1> QED
    BY <1>1, <1>2, <1>3, <1>4, <1>5 DEF PoolTyped

LEMMA TakeChainTyped ==
    ASSUME PoolAssumed, PoolTyped, PoolLocal, NEW t \in Threads, Pool!TakeChain(t)
    PROVE  PoolTyped'
  <1>1. PICK i \in HeadIndices : i = Pool!Index(t)
    BY IndexHead
  <1>2. PICK chain \in Seq(Items) : chain = chains[i] /\ Pool!IsInjective(chain)
    BY DEF PoolTyped
  <1>3. chains' \in [HeadIndices -> Seq(Items)] /\ \A g \in HeadIndices : Pool!IsInjective(chains'[g])
    BY <1>1, ChainReplaced, NoItems DEF Pool!TakeChain
  <1>4. /\ taken' \in [Threads -> Seq(Items)] /\ \A u \in Threads : Pool!IsInjective(taken'[u])
        /\ hand' \in [Threads -> Items \cup {NoItem}] /\ index' \in [Threads -> Nat]
    <2>1. CASE chain = <<>>
      <3>1. taken' = taken /\ hand' = hand /\ index' = Pool!With(index, t, index[t] + 1)
        BY <1>1, <1>2, <2>1 DEF Pool!TakeChain
      <3> QED
        BY <3>1 DEF PoolTyped, Pool!With
    <2>2. CASE chain # <<>>
      <3>1. Tail(chain) \in Seq(Items) /\ Pool!IsInjective(Tail(chain)) /\ chain[1] \in Items
        BY <1>2, <2>2, TailItems
      <3>2. taken' = Pool!With(taken, t, Tail(chain)) /\ hand' = Pool!With(hand, t, chain[1]) /\ index' = index
        BY <1>1, <1>2, <2>2 DEF Pool!TakeChain
      <3> QED
        BY <3>1, <3>2, RestReplaced DEF PoolTyped, Pool!With
    <2> QED
      BY <2>1, <2>2
  <1>5. at' \in [Threads -> PoolLabels]
    BY DEF Pool!TakeChain, Pool!Goes, PoolTyped, PoolLabels, Handing, Putting
  <1> QED
    BY <1>3, <1>4, <1>5 DEF PoolTyped, Pool!TakeChain

LEMMA ReinstallTyped ==
    ASSUME PoolAssumed, PoolTyped, PoolLocal, NEW t \in Threads, Pool!Reinstall(t)
    PROVE  PoolTyped'
  <1>1. PICK i \in HeadIndices : i = Pool!Index(t)
    BY IndexHead
  <1>2. /\ chains[i] \in Seq(Items) /\ Pool!IsInjective(chains[i])
        /\ taken[t] \in Seq(Items) /\ Pool!IsInjective(taken[t])
    BY DEF PoolTyped
  <1>3. chains' \in [HeadIndices -> Seq(Items)] /\ \A g \in HeadIndices : Pool!IsInjective(chains'[g])
    BY <1>1, <1>2, ChainReplaced DEF Pool!Reinstall
  <1>4. taken' \in [Threads -> Seq(Items)] /\ \A u \in Threads : Pool!IsInjective(taken'[u])
    BY <1>1, <1>2, RestReplaced DEF Pool!Reinstall
  <1>5. at' \in [Threads -> PoolLabels]
    BY DEF Pool!Reinstall, Pool!Goes, PoolTyped, PoolLabels, Handing, Putting
  <1> QED
    BY <1>3, <1>4, <1>5 DEF PoolTyped, Pool!Reinstall

LEMMA PushRestTyped ==
    ASSUME PoolAssumed, PoolTyped, PoolLocal, Located, NEW t \in Threads, Pool!PushRest(t)
    PROVE  PoolTyped'
  <1>1. PICK i \in HeadIndices : i = Pool!Index(t)
    BY IndexHead
  <1>2. /\ chains[i] \in Seq(Items) /\ Pool!IsInjective(chains[i])
        /\ taken[t] \in Seq(Items) /\ Pool!IsInjective(taken[t]) /\ taken[t] # <<>>
    BY DEF PoolTyped, PoolLocal, Pool!PushRest, Pool!Goes
  <1>3. /\ Tail(taken[t]) \in Seq(Items) /\ Pool!IsInjective(Tail(taken[t])) /\ taken[t][1] \in Items
        /\ taken[t][1] \in Pool!ToSet(taken[t])
    BY <1>2, TailItems
  <1>4. taken[t][1] \notin Pool!ToSet(chains[i])
    BY <1>3, PlacesDiffer DEF Located, ItemAt
  <1>5. <<taken[t][1]>> \o chains[i] \in Seq(Items) /\ Pool!IsInjective(<<taken[t][1]>> \o chains[i])
    BY <1>2, <1>3, <1>4, ConsItems
  <1>6. chains' = Pool!With(chains, i, <<taken[t][1]>> \o chains[i]) /\ taken' = Pool!With(taken, t, Tail(taken[t]))
    BY <1>1 DEF Pool!PushRest
  <1>7. chains' \in [HeadIndices -> Seq(Items)] /\ \A g \in HeadIndices : Pool!IsInjective(chains'[g])
    BY <1>5, <1>6, ChainReplaced
  <1>8. taken' \in [Threads -> Seq(Items)] /\ \A u \in Threads : Pool!IsInjective(taken'[u])
    BY <1>3, <1>6, RestReplaced
  <1>9. at' \in [Threads -> PoolLabels]
    BY DEF Pool!PushRest, Pool!Goes, PoolTyped, PoolLabels, Handing, Putting
  <1> QED
    BY <1>7, <1>8, <1>9 DEF PoolTyped, Pool!PushRest

(* Hanging an item up, in a head that is empty or in front of what is there. *)
Hang(t, h) ==
    /\ at[t] \in {"put", "push"} /\ at' = [at EXCEPT ![t] = "count"]
    /\ chains' = Pool!With(chains, h, <<hand[t]>> \o chains[h])
    /\ UNCHANGED <<currentCount, maxCount, Pool!local, owned, alive, loop, acquires, clears>>

LEMMA PutHangs ==
    ASSUME PoolAssumed, PoolTyped, PoolLocal, NEW t \in Threads, Pool!Put(t) \/ Pool!Push(t)
    PROVE  Hang(t, Pool!Index(t)) /\ hand[t] \in Items
  <1>1. hand[t] \in Items
    BY DEF PoolLocal, Pool!Put, Pool!Push, Pool!Goes, Handing, Putting
  <1>2. <<hand[t]>> \o <<>> = <<hand[t]>>
    OBVIOUS
  <1> QED
    BY <1>1, <1>2 DEF Pool!Put, Pool!Push, Hang, Pool!Goes

LEMMA HangTyped ==
    ASSUME PoolAssumed, PoolTyped, PoolLocal, Located, NEW t \in Threads, Pool!Put(t) \/ Pool!Push(t)
    PROVE  PoolTyped'
  <1>1. PICK i \in HeadIndices : i = Pool!Index(t)
    BY IndexHead
  <1>2. Hang(t, i) /\ hand[t] \in Items
    BY <1>1, PutHangs
  <1>3. chains[i] \in Seq(Items) /\ Pool!IsInjective(chains[i])
    BY DEF PoolTyped
  <1>4. hand[t] \in Handed(t)
    BY <1>2 DEF Hang, Handed, Handing, Putting
  <1>5. hand[t] \notin Pool!ToSet(chains[i])
    BY <1>2, <1>4, PlacesDiffer DEF Located, ItemAt
  <1>6. <<hand[t]>> \o chains[i] \in Seq(Items) /\ Pool!IsInjective(<<hand[t]>> \o chains[i])
    BY <1>2, <1>3, <1>5, ConsItems
  <1>7. chains' \in [HeadIndices -> Seq(Items)] /\ \A g \in HeadIndices : Pool!IsInjective(chains'[g])
    BY <1>2, <1>6, ChainReplaced DEF Hang
  <1>8. at' \in [Threads -> PoolLabels]
    BY <1>2 DEF Hang, PoolTyped, PoolLabels
  <1> QED
    BY <1>2, <1>7, <1>8 DEF PoolTyped, Hang, Pool!local

LEMMA ClientTyped ==
    ASSUME PoolAssumed, PoolTyped, PoolLocal, NEW t \in Threads, Pool!Uncount(t) \/ Pool!Construct(t) \/ Pool!ReleaseSafe(t)
    PROVE  PoolTyped'
  <1>1. chains' = chains /\ maxCount' = maxCount /\ clears' = clears
    BY DEF Pool!Uncount, Pool!Construct, Pool!ReleaseSafe
  <1>2. currentCount' \in Nat
    BY CountTyped DEF Pool!Uncount, Pool!Construct, Pool!ReleaseSafe, PoolTyped
  <1>3. taken' \in [Threads -> Seq(Items)] /\ \A u \in Threads : Pool!IsInjective(taken'[u])
    BY RestReplaced, NoItems DEF Pool!Uncount, Pool!Construct, Pool!ReleaseSafe, PoolTyped
  <1>4. at' \in [Threads -> PoolLabels]
    BY DEF Pool!Uncount, Pool!Construct, Pool!ReleaseSafe, Pool!Goes, PoolTyped, PoolLabels,
           Handing, Putting
  <1>5. index' \in [Threads -> Nat] /\ cur' \in [Threads -> Nat] /\ hand' \in [Threads -> Items \cup {NoItem}]
    <2>1. CASE Pool!Uncount(t) \/ Pool!Construct(t)
      BY <2>1, ForgetTyped DEF Pool!Uncount, Pool!Construct
    <2>2. CASE Pool!ReleaseSafe(t)
      BY <2>2 DEF Pool!ReleaseSafe, Pool!With, PoolTyped
    <2> QED
      BY <2>1, <2>2
  <1>6. owned' \subseteq Items /\ alive' \subseteq Items
    <2>1. CASE Pool!Uncount(t)
      BY <2>1 DEF Pool!Uncount, Pool!Goes, PoolTyped, PoolLocal, Handing
    <2>2. CASE Pool!Construct(t)
      <3>1. PICK o : o = CHOOSE x \in Items : x \notin alive
        OBVIOUS
      <3>2. o \in Items
        BY <2>2, <3>1 DEF Pool!Construct, PoolTyped
      <3> QED
        BY <2>2, <3>1, <3>2 DEF Pool!Construct, PoolTyped
    <2>3. CASE Pool!ReleaseSafe(t)
      BY <2>3 DEF Pool!ReleaseSafe, PoolTyped
    <2> QED
      BY <2>1, <2>2, <2>3
  <1> QED
    BY <1>1, <1>2, <1>3, <1>4, <1>5, <1>6 DEF PoolTyped

LEMMA ClearHeadTyped ==
    ASSUME PoolAssumed, PoolTyped, NEW t \in Threads, Pool!ClearHead(t)
    PROVE  PoolTyped'
  <1>1. index[t] \in HeadIndices
    BY DEF Pool!ClearHead, PoolTyped, HeadIndices, PoolAssumed
  <1>2. chains' \in [HeadIndices -> Seq(Items)] /\ \A g \in HeadIndices : Pool!IsInjective(chains'[g])
    BY <1>1, ChainReplaced, NoItems DEF Pool!ClearHead
  <1>3. alive' \subseteq Items
    BY DEF Pool!ClearHead, PoolTyped
  <1> QED
    BY <1>2, <1>3 DEF Pool!ClearHead, PoolTyped, Pool!With

-----------------------------------------------------------------------------
(* What a thread has at each label                                           *)

LocalAt(label, item, others) ==
    /\ label \in Handing => item \in Items
    /\ label \notin Handing /\ label # "count" => item = NoItem
    /\ label \notin {"reinstall", "pushRest"} => others = <<>>
    /\ label = "pushRest" => others # <<>>

(* A step of t leaves what other threads have.                               *)
LEMMA OthersLocal ==
    ASSUME PoolTyped, PoolLocal, NEW t \in Threads,
           \A u \in Threads \ {t} : at'[u] = at[u] /\ hand'[u] = hand[u] /\ taken'[u] = taken[u],
           LocalAt(at'[t], hand'[t], taken'[t])
    PROVE  PoolLocal'
  <1> SUFFICES ASSUME NEW u \in Threads PROVE LocalAt(at'[u], hand'[u], taken'[u])
    BY DEF PoolLocal, LocalAt
  <1>1. CASE u = t
    BY <1>1
  <1>2. CASE u # t
    BY <1>2 DEF PoolLocal, LocalAt
  <1> QED
    BY <1>1, <1>2

LEMMA QuietLocal ==
    ASSUME PoolAssumed, PoolTyped, PoolLocal, NEW t \in Threads, PoolQuiet(t)
    PROVE  /\ taken' = taken /\ at'[t] \in PoolLabels /\ at'[t] \notin {"reinstall", "pushRest"}
           /\ \A u \in Threads \ {t} : at'[u] = at[u] /\ hand'[u] = hand[u]
           /\ \/ hand'[t] = hand[t] /\ at[t] # "count" /\ at'[t] # "count" /\ (at'[t] \in Handing <=> at[t] \in Handing)
              \/ hand'[t] = NoItem /\ at[t] \notin Handing /\ at'[t] = "idle"
           /\ at[t] \notin {"reinstall", "pushRest"}
  <1>1. CASE Pool!AcquireSafe(t)
    BY <1>1 DEF Pool!AcquireSafe, Pool!Goes, PoolTyped, PoolLabels, Handing, Putting
  <1>2. CASE Pool!Start(t)
    BY <1>2 DEF Pool!Start, Pool!Goes, PoolTyped, PoolLabels, Handing, Putting
  <1>3. CASE Pool!PutFails(t)
    BY <1>3 DEF Pool!PutFails, Pool!Goes, PoolTyped, PoolLabels, Handing, Putting
  <1>4. CASE Pool!Choose(t)
    BY <1>4 DEF Pool!Choose, Pool!Goes, PoolTyped, PoolLabels, Handing, Putting
  <1>5. CASE Pool!Count(t)
    BY <1>5 DEF Pool!Count, Pool!Goes, Pool!Forget, Pool!With, PoolTyped, PoolLabels,
           Handing, Putting
  <1>6. CASE Pool!Clear(t)
    BY <1>6 DEF Pool!Clear, Pool!Goes, Pool!local, PoolTyped, PoolLabels, Handing, Putting
  <1>7. CASE Pool!ClearAgain(t)
    BY <1>7 DEF Pool!ClearAgain, PoolTyped, PoolLabels, Handing, Putting
  <1>8. CASE Pool!ClearEnds(t)
    BY <1>8 DEF Pool!ClearEnds, Pool!Forget, Pool!With, PoolTyped, PoolLabels, Handing, Putting
  <1> QED
    BY <1>1, <1>2, <1>3, <1>4, <1>5, <1>6, <1>7, <1>8 DEF PoolQuiet

LEMMA QuietLocalKept ==
    ASSUME PoolAssumed, PoolTyped, PoolLocal, NEW t \in Threads, PoolQuiet(t)
    PROVE  PoolLocal'
  <1>1. LocalAt(at[t], hand[t], taken[t])
    BY DEF PoolLocal, LocalAt
  <1>2. LocalAt(at'[t], hand'[t], taken'[t])
    BY <1>1, QuietLocal DEF LocalAt, Handing, Putting
  <1> QED
    BY <1>2, QuietLocal, OthersLocal

LEMMA TakeChainLocal ==
    ASSUME PoolAssumed, PoolTyped, PoolLocal, NEW t \in Threads, Pool!TakeChain(t)
    PROVE  PoolLocal'
  <1>1. PICK i \in HeadIndices : i = Pool!Index(t)
    BY IndexHead
  <1>2. PICK chain \in Seq(Items) : chain = chains[i] /\ Pool!IsInjective(chain)
    BY DEF PoolTyped
  <1>3. LocalAt("take", hand[t], taken[t])
    BY DEF PoolLocal, LocalAt, Pool!TakeChain, Pool!Goes
  <1>4. CASE chain = <<>>
    <2>1. taken' = taken /\ hand' = hand /\ at' = [at EXCEPT ![t] = IF index[t] < Heads - 1 THEN "take" ELSE "construct"]
      BY <1>1, <1>2, <1>4 DEF Pool!TakeChain, Pool!Goes
    <2>2. LocalAt(at'[t], hand'[t], taken'[t])
      BY <1>3, <2>1 DEF LocalAt, PoolTyped, Handing, Putting
    <2> QED
      BY <2>1, <2>2, OthersLocal DEF PoolTyped
  <1>5. CASE chain # <<>>
    <2>1. /\ taken' = Pool!With(taken, t, Tail(chain)) /\ hand' = Pool!With(hand, t, chain[1])
          /\ at' = [at EXCEPT ![t] = IF Len(chain) > 1 THEN "reinstall" ELSE "uncount"]
      BY <1>1, <1>2, <1>5 DEF Pool!TakeChain, Pool!Goes
    <2>2. Tail(chain) \in Seq(Items) /\ chain[1] \in Items /\ (Len(chain) <= 1 => Tail(chain) = <<>>)
      <3>1. Len(Tail(chain)) = Len(chain) - 1 /\ Tail(chain) \in Seq(Items) /\ Len(chain) \in Nat /\ Len(chain) >= 1
        BY <1>5, HeadTailProperties, EmptySeq
      <3> QED
        BY <3>1, <1>5, <1>2, TailItems, EmptySeq
    <2>3. taken'[t] = Tail(chain) /\ hand'[t] = chain[1]
      BY <2>1 DEF Pool!With, PoolTyped
    <2>4. Len(chain) \in Nat
      OBVIOUS
    <2>5. LocalAt(at'[t], hand'[t], taken'[t])
      BY <2>1, <2>2, <2>3, <2>4 DEF LocalAt, PoolTyped, Handing, Putting
    <2> QED
      BY <2>1, <2>5, OthersLocal DEF PoolTyped, Pool!With
  <1> QED
    BY <1>4, <1>5

LEMMA ReinstallLocal ==
    ASSUME PoolAssumed, PoolTyped, PoolLocal, NEW t \in Threads, Pool!Reinstall(t)
    PROVE  PoolLocal'
  <1>1. LocalAt("reinstall", hand[t], taken[t])
    BY DEF PoolLocal, LocalAt, Pool!Reinstall, Pool!Goes
  <1>2. LocalAt(at'[t], hand'[t], taken'[t])
    BY <1>1 DEF LocalAt, PoolTyped, Handing, Putting, Pool!Reinstall, Pool!Goes, Pool!With
  <1> QED
    BY <1>2, OthersLocal DEF PoolTyped, Pool!With, Pool!Reinstall, Pool!Goes

LEMMA PushRestLocal ==
    ASSUME PoolAssumed, PoolTyped, PoolLocal, NEW t \in Threads, Pool!PushRest(t)
    PROVE  PoolLocal'
  <1>1. LocalAt("pushRest", hand[t], taken[t])
    BY DEF PoolLocal, LocalAt, Pool!PushRest, Pool!Goes
  <1>2. PICK s \in Seq(Items) : s = taken[t] /\ s # <<>>
    BY <1>1 DEF PoolTyped, LocalAt
  <1>3. Len(Tail(s)) = Len(s) - 1 /\ Tail(s) \in Seq(Items) /\ Len(s) \in Nat
    BY <1>2, HeadTailProperties
  <1>4. Tail(s) = <<>> <=> Len(s) = 1
    <2>1. Len(Tail(s)) = 0 <=> Len(s) = 1
      BY <1>3
    <2>2. Tail(s) = <<>> <=> Len(Tail(s)) = 0
      BY <1>3, EmptySeq
    <2> QED
      BY <2>1, <2>2
  <1>5. taken'[t] = Tail(s) /\ hand' = hand /\ at'[t] = IF Len(s) = 1 THEN "uncount" ELSE "pushRest"
    BY <1>2 DEF Pool!PushRest, Pool!Goes, Pool!With, PoolTyped
  <1>6. LocalAt(at'[t], hand'[t], taken'[t])
    BY <1>1, <1>4, <1>5 DEF LocalAt, Handing, Putting
  <1> QED
    BY <1>6, OthersLocal DEF PoolTyped, Pool!With, Pool!PushRest, Pool!Goes

LEMMA HangLocal ==
    ASSUME PoolAssumed, PoolTyped, PoolLocal, NEW t \in Threads, NEW h, Hang(t, h)
    PROVE  PoolLocal'
  <1>1. LocalAt(at[t], hand[t], taken[t])
    BY DEF PoolLocal, LocalAt
  <1>2. at'[t] = "count" /\ hand' = hand /\ taken' = taken /\ at[t] \in {"put", "push"}
    BY DEF Hang, PoolTyped, Pool!local
  <1>3. LocalAt(at'[t], hand'[t], taken'[t])
    BY <1>1, <1>2 DEF LocalAt, Handing, Putting
  <1> QED
    BY <1>2, <1>3, OthersLocal DEF PoolTyped, Hang

LEMMA ClientLocal ==
    ASSUME PoolAssumed, PoolTyped, PoolLocal, NEW t \in Threads, Pool!Uncount(t) \/ Pool!Construct(t) \/ Pool!ReleaseSafe(t)
    PROVE  PoolLocal'
  <1>1. LocalAt(at[t], hand[t], taken[t])
    BY DEF PoolLocal, LocalAt
  <1>2. CASE Pool!Uncount(t) \/ Pool!Construct(t)
    <2>1. /\ at'[t] = "idle" /\ hand'[t] = NoItem /\ taken'[t] = <<>>
          /\ \A u \in Threads \ {t} : at'[u] = at[u] /\ hand'[u] = hand[u] /\ taken'[u] = taken[u]
      <3>1. CASE Pool!Uncount(t)
        BY <3>1 DEF Pool!Uncount, Pool!Goes, Pool!Forget, Pool!With, PoolTyped
      <3>2. CASE Pool!Construct(t)
        <4>1. taken' = taken /\ hand' = Pool!With(hand, t, NoItem) /\ Pool!Goes(t, "construct", "idle")
          BY <3>2 DEF Pool!Construct, Pool!Forget
        <4> QED
          BY <1>1, <4>1 DEF Pool!Goes, Pool!With, PoolTyped, LocalAt
      <3> QED
        BY <1>2, <3>1, <3>2
    <2>2. LocalAt(at'[t], hand'[t], taken'[t])
      BY <2>1 DEF LocalAt, Handing, Putting
    <2> QED
      BY <2>1, <2>2, OthersLocal
  <1>3. CASE Pool!ReleaseSafe(t)
    <2>1. PICK o \in owned : /\ taken' = taken
                             /\ \/ Pool!Goes(t, "idle", "start") /\ hand' = Pool!With(hand, t, o)
                                \/ at[t] = "idle" /\ at' = at /\ hand' = hand
      BY <1>3 DEF Pool!ReleaseSafe
    <2>2. o \in Items
      BY DEF PoolTyped
    <2>3. LocalAt(at'[t], hand'[t], taken'[t])
      BY <1>1, <2>1, <2>2 DEF LocalAt, Handing, Putting, Pool!Goes, Pool!With, PoolTyped
    <2> QED
      BY <2>1, <2>3, OthersLocal DEF Pool!Goes, Pool!With, PoolTyped
  <1> QED
    BY <1>2, <1>3

LEMMA ClearHeadLocal ==
    ASSUME PoolAssumed, PoolTyped, PoolLocal, NEW t \in Threads, Pool!ClearHead(t)
    PROVE  PoolLocal'
  BY DEF PoolLocal, Pool!ClearHead

-----------------------------------------------------------------------------
(* Every item stays in one place                                             *)

LEMMA QuietLocated ==
    ASSUME PoolAssumed, PoolTyped, PoolLocal, Located, NEW t \in Threads, PoolQuiet(t)
    PROVE  Located'
  <1>1. /\ chains' = chains /\ taken' = taken /\ owned' = owned /\ alive' = alive
    BY DEF PoolQuiet, Pool!AcquireSafe, Pool!Start, Pool!PutFails, Pool!Choose, Pool!Count,
           Pool!Clear, Pool!ClearAgain, Pool!ClearEnds, Pool!local
  <1>2. \A u \in Threads : Handed(u)' = Handed(u)
    <2> SUFFICES ASSUME NEW u \in Threads PROVE Handed(u)' = Handed(u)
      OBVIOUS
    <2>1. CASE u = t
      BY <2>1, QuietLocal DEF Handed, Handing, Putting
    <2>2. CASE u # t
      BY <2>2, QuietLocal DEF Handed
    <2> QED
      BY <2>1, <2>2
  <1>3. ASSUME NEW o \in Items, NEW place, ItemAt(o, place) PROVE ItemAt(o, place)'
    BY <1>1, <1>2, <1>3 DEF ItemAt
  <1> QED
    BY <1>3 DEF Located

LEMMA TakeChainLocated ==
    ASSUME PoolAssumed, PoolTyped, PoolLocal, Located, NEW t \in Threads, Pool!TakeChain(t)
    PROVE  Located'
  <1>1. PICK i \in HeadIndices : i = Pool!Index(t)
    BY IndexHead
  <1>2. PICK chain \in Seq(Items) : chain = chains[i] /\ Pool!IsInjective(chain)
    BY DEF PoolTyped
  <1>3. at[t] = "take" /\ owned' = owned /\ alive' = alive /\ taken[t] = <<>>
    BY DEF Pool!TakeChain, Pool!Goes, PoolLocal
  <1>4. /\ \A h \in HeadIndices : Pool!ToSet(chains'[h]) = IF h = i THEN {} ELSE Pool!ToSet(chains[h])
        /\ Handed(t) = {} /\ Pool!ToSet(taken[t]) = {}
    BY <1>1, <1>3, NoItems DEF Pool!TakeChain, Pool!With, PoolTyped, Handed, Handing, Putting
  <1>5. CASE chain = <<>>
    <2>1. taken' = taken /\ hand' = hand /\ at' = [at EXCEPT ![t] = IF index[t] < Heads - 1 THEN "take" ELSE "construct"]
      BY <1>1, <1>2, <1>5 DEF Pool!TakeChain, Pool!Goes
    <2>2. \A u \in Threads : Handed(u)' = Handed(u)
      BY <1>3, <2>1 DEF Handed, Handing, Putting, PoolTyped
    <2>3. \A h \in HeadIndices : Pool!ToSet(chains'[h]) = Pool!ToSet(chains[h])
      BY <1>2, <1>4, <1>5, NoItems
    <2>4. ASSUME NEW o \in Items, NEW place, ItemAt(o, place) PROVE ItemAt(o, place)'
      BY <1>3, <2>1, <2>2, <2>3, <2>4 DEF ItemAt
    <2> QED
      BY <2>4 DEF Located
  <1>6. CASE chain # <<>>
    <2>1. /\ taken' = Pool!With(taken, t, Tail(chain)) /\ hand' = Pool!With(hand, t, chain[1])
          /\ at' = [at EXCEPT ![t] = IF Len(chain) > 1 THEN "reinstall" ELSE "uncount"]
      BY <1>1, <1>2, <1>6 DEF Pool!TakeChain, Pool!Goes
    <2>2. \A u \in Threads : Handed(u)' = IF u = t THEN {chain[1]} ELSE Handed(u)
      BY <2>1 DEF Handed, Handing, Putting, PoolTyped, Pool!With
    <2>3. \A u \in Threads : Pool!ToSet(taken'[u]) = IF u = t THEN Pool!ToSet(Tail(chain)) ELSE Pool!ToSet(taken[u])
      BY <2>1 DEF Pool!With, PoolTyped
    <2>4. Pool!ToSet(chains[i]) = {chain[1]} \cup Pool!ToSet(Tail(chain)) /\ chain[1] \notin Pool!ToSet(Tail(chain))
      BY <1>2, <1>6, TailItems
    <2>5. ASSUME NEW o \in Items, NEW place, ItemAt(o, place) PROVE \E q : ItemAt(o, q)'
      <3>1. CASE o = chain[1]
        <4>1. place = AtHead(i)
          BY <2>4, <2>5, <3>1 DEF ItemAt
        <4>2. ItemAt(o, AtHand(t))'
          BY <1>3, <1>4, <2>2, <2>3, <2>4, <2>5, <3>1, <4>1, PlacesDiffer, PlacesKnown DEF
                 ItemAt
        <4> QED
          BY <4>2
      <3>2. CASE o \in Pool!ToSet(Tail(chain))
        <4>1. place = AtHead(i) /\ o # chain[1]
          BY <2>4, <2>5, <3>2 DEF ItemAt
        <4>2. ItemAt(o, AtRest(t))'
          BY <1>3, <1>4, <2>2, <2>3, <2>4, <2>5, <3>2, <4>1, PlacesDiffer, PlacesKnown DEF
                 ItemAt
        <4> QED
          BY <4>2
      <3>3. CASE o # chain[1] /\ o \notin Pool!ToSet(Tail(chain))
        <4>1. place # AtHead(i) /\ place # AtHand(t) /\ place # AtRest(t)
          BY <1>4, <2>4, <2>5, <3>3 DEF ItemAt
        <4>2. ItemAt(o, place)'
          BY <1>3, <1>4, <2>2, <2>3, <2>5, <3>3, <4>1, PlacesDiffer DEF ItemAt
        <4> QED
          BY <4>2
      <3> QED
        BY <3>1, <3>2, <3>3
    <2> QED
      BY <2>5 DEF Located
  <1> QED
    BY <1>5, <1>6

LEMMA ReinstallLocated ==
    ASSUME PoolAssumed, PoolTyped, PoolLocal, Located, NEW t \in Threads, Pool!Reinstall(t)
    PROVE  Located'
  <1>1. PICK i \in HeadIndices : i = Pool!Index(t)
    BY IndexHead
  <1>2. /\ at[t] = "reinstall" /\ at'[t] \in {"uncount", "pushRest"} /\ \A u \in Threads \ {t} : at'[u] = at[u]
        /\ owned' = owned /\ alive' = alive /\ hand' = hand
    BY DEF Pool!Reinstall, Pool!Goes, PoolTyped
  <1>3. \A u \in Threads : Handed(u)' = Handed(u)
    BY <1>2 DEF Handed, Handing, Putting
  <1>4. /\ \A h \in HeadIndices : Pool!ToSet(chains'[h]) = IF h = i THEN Pool!ToSet(taken[t]) ELSE Pool!ToSet(chains[h])
        /\ \A u \in Threads : Pool!ToSet(taken'[u]) = IF u = t THEN Pool!ToSet(chains[i]) ELSE Pool!ToSet(taken[u])
    BY <1>1 DEF Pool!Reinstall, Pool!With, PoolTyped
  <1>5. ASSUME NEW o \in Items, NEW place, ItemAt(o, place) PROVE \E q : ItemAt(o, q)'
    <2>1. CASE place = AtHead(i)
      <3>1. ItemAt(o, AtRest(t))'
        BY <1>2, <1>3, <1>4, <1>5, <2>1, PlacesDiffer, PlacesKnown DEF ItemAt
      <3> QED
        BY <3>1
    <2>2. CASE place = AtRest(t)
      <3>1. ItemAt(o, AtHead(i))'
        BY <1>2, <1>3, <1>4, <1>5, <2>2, PlacesDiffer, PlacesKnown DEF ItemAt
      <3> QED
        BY <3>1
    <2>3. CASE place # AtHead(i) /\ place # AtRest(t)
      <3>1. ItemAt(o, place)'
        BY <1>2, <1>3, <1>4, <1>5, <2>3 DEF ItemAt
      <3> QED
        BY <3>1
    <2> QED
      BY <2>1, <2>2, <2>3
  <1> QED
    BY <1>5 DEF Located

LEMMA PushRestLocated ==
    ASSUME PoolAssumed, PoolTyped, PoolLocal, Located, NEW t \in Threads, Pool!PushRest(t)
    PROVE  Located'
  <1>1. PICK i \in HeadIndices : i = Pool!Index(t)
    BY IndexHead
  <1>2. PICK s \in Seq(Items) : s = taken[t] /\ s # <<>> /\ Pool!IsInjective(s)
    BY DEF PoolTyped, PoolLocal, Pool!PushRest, Pool!Goes
  <1>3. s[1] \in Items /\ s[1] \notin Pool!ToSet(Tail(s)) /\ Pool!ToSet(s) = {s[1]} \cup Pool!ToSet(Tail(s))
    BY <1>2, TailItems
  <1>4. s[1] \notin Pool!ToSet(chains[i]) /\ chains[i] \in Seq(Items) /\ Pool!IsInjective(chains[i])
    BY <1>2, <1>3, PlacesDiffer DEF Located, ItemAt, PoolTyped
  <1>5. Pool!ToSet(<<s[1]>> \o chains[i]) = {s[1]} \cup Pool!ToSet(chains[i])
    BY <1>3, <1>4, ConsItems
  <1>6. /\ at[t] = "pushRest" /\ at'[t] \in {"uncount", "pushRest"} /\ \A u \in Threads \ {t} : at'[u] = at[u]
        /\ owned' = owned /\ alive' = alive /\ hand' = hand
    BY DEF Pool!PushRest, Pool!Goes, PoolTyped
  <1>7. \A u \in Threads : Handed(u)' = Handed(u)
    BY <1>6 DEF Handed, Handing, Putting
  <1>8. chains' = Pool!With(chains, i, <<s[1]>> \o chains[i]) /\ taken' = Pool!With(taken, t, Tail(s))
    BY <1>1, <1>2 DEF Pool!PushRest
  <1>9. /\ \A h \in HeadIndices : Pool!ToSet(chains'[h]) = IF h = i THEN {s[1]} \cup Pool!ToSet(chains[i]) ELSE Pool!ToSet(chains[h])
        /\ \A u \in Threads : Pool!ToSet(taken'[u]) = IF u = t THEN Pool!ToSet(Tail(s)) ELSE Pool!ToSet(taken[u])
    BY <1>5, <1>8 DEF Pool!With, PoolTyped
  <1>10. ASSUME NEW o \in Items, NEW place, ItemAt(o, place) PROVE \E q : ItemAt(o, q)'
    <2>1. CASE o = s[1]
      <3>1. place = AtRest(t)
        BY <1>2, <1>3, <1>10, <2>1 DEF ItemAt
      <3>2. ItemAt(o, AtHead(i))'
        BY <1>3, <1>6, <1>7, <1>9, <1>10, <2>1, <3>1, PlacesDiffer, PlacesKnown DEF ItemAt
      <3> QED
        BY <3>2
    <2>2. CASE o # s[1]
      <3>1. o \in Pool!ToSet(taken[t]) <=> o \in Pool!ToSet(Tail(s))
        BY <1>2, <1>3, <2>2
      <3>2. ItemAt(o, place)'
        BY <1>6, <1>7, <1>9, <1>10, <2>2, <3>1 DEF ItemAt
      <3> QED
        BY <3>2
    <2> QED
      BY <2>1, <2>2
  <1> QED
    BY <1>10 DEF Located

LEMMA HangLocated ==
    ASSUME PoolAssumed, PoolTyped, PoolLocal, Located, NEW t \in Threads, NEW i \in HeadIndices, Hang(t, i),
           hand[t] \in Items
    PROVE  Located'
  <1>1. /\ at[t] \in {"put", "push"} /\ at'[t] = "count" /\ \A u \in Threads \ {t} : at'[u] = at[u]
        /\ owned' = owned /\ alive' = alive /\ hand' = hand /\ taken' = taken
    BY DEF Hang, PoolTyped, Pool!local
  <1>2. /\ Handed(t) = {hand[t]} /\ Handed(t)' = {}
        /\ \A u \in Threads \ {t} : Handed(u)' = Handed(u)
    BY <1>1 DEF Handed, Handing, Putting
  <1>3. PICK e \in Items : e = hand[t]
    OBVIOUS
  <1>4. e \notin Pool!ToSet(chains[i]) /\ chains[i] \in Seq(Items) /\ Pool!IsInjective(chains[i])
    BY <1>2, <1>3, PlacesDiffer DEF Located, ItemAt, PoolTyped
  <1>5. Pool!ToSet(<<e>> \o chains[i]) = {e} \cup Pool!ToSet(chains[i])
    BY <1>3, <1>4, ConsItems
  <1>6. \A h \in HeadIndices : Pool!ToSet(chains'[h]) = IF h = i THEN {e} \cup Pool!ToSet(chains[i]) ELSE Pool!ToSet(chains[h])
    BY <1>3, <1>5 DEF Hang, Pool!With, PoolTyped
  <1>7. ASSUME NEW o \in Items, NEW place, ItemAt(o, place) PROVE \E q : ItemAt(o, q)'
    <2>1. CASE o = e
      <3>1. place = AtHand(t)
        BY <1>2, <1>3, <1>7, <2>1 DEF ItemAt
      <3>2. ItemAt(o, AtHead(i))'
        BY <1>1, <1>2, <1>6, <1>7, <2>1, <3>1, PlacesDiffer, PlacesKnown DEF ItemAt
      <3> QED
        BY <3>2
    <2>2. CASE o # e
      <3>1. place # AtHand(t)
        BY <1>2, <1>3, <1>7, <2>2 DEF ItemAt
      <3>2. ItemAt(o, place)'
        BY <1>1, <1>2, <1>6, <1>7, <2>2, <3>1, PlacesDiffer DEF ItemAt
      <3> QED
        BY <3>2
    <2> QED
      BY <2>1, <2>2
  <1> QED
    BY <1>7 DEF Located

LEMMA UncountLocated ==
    ASSUME PoolAssumed, PoolTyped, PoolLocal, Located, NEW t \in Threads, Pool!Uncount(t)
    PROVE  Located'
  <1>1. PICK e \in Items : e = hand[t]
    BY DEF Pool!Uncount, Pool!Goes, PoolLocal, Handing
  <1>2. /\ at[t] = "uncount" /\ at'[t] = "idle" /\ owned' = owned \cup {e} /\ alive' = alive
        /\ \A u \in Threads \ {t} : at'[u] = at[u] /\ hand'[u] = hand[u]
        /\ chains' = chains
    BY <1>1 DEF Pool!Uncount, Pool!Goes, PoolTyped, Pool!Forget, Pool!With
  <1>3. taken' = taken
    BY DEF Pool!Uncount, Pool!Goes, PoolTyped, PoolLocal, Pool!With
  <1>4. /\ Handed(t) = {e} /\ Handed(t)' = {}
        /\ \A u \in Threads \ {t} : Handed(u)' = Handed(u)
    BY <1>1, <1>2 DEF Handed, Handing, Putting
  <1>5. ASSUME NEW o \in Items, NEW place, ItemAt(o, place) PROVE \E q : ItemAt(o, q)'
    <2>1. CASE o = e
      <3>1. place = AtHand(t)
        BY <1>4, <1>5, <2>1 DEF ItemAt
      <3>2. ItemAt(o, AtClient)'
        BY <1>2, <1>3, <1>4, <1>5, <2>1, <3>1, PlacesDiffer, PlacesKnown DEF ItemAt
      <3> QED
        BY <3>2
    <2>2. CASE o # e
      <3>1. place # AtHand(t)
        BY <1>4, <1>5, <2>2 DEF ItemAt
      <3>2. ItemAt(o, place)'
        BY <1>2, <1>3, <1>4, <1>5, <2>2, <3>1, PlacesDiffer DEF ItemAt
      <3> QED
        BY <3>2
    <2> QED
      BY <2>1, <2>2
  <1> QED
    BY <1>5 DEF Located

LEMMA ConstructLocated ==
    ASSUME PoolAssumed, PoolTyped, PoolLocal, Located, NEW t \in Threads, Pool!Construct(t)
    PROVE  Located'
  <1>1. PICK e \in Items : e \notin alive /\ owned' = owned \cup {e} /\ alive' = alive \cup {e}
    <2>1. PICK o : o = CHOOSE x \in Items : x \notin alive
      OBVIOUS
    <2>2. o \in Items /\ o \notin alive
      BY <2>1 DEF Pool!Construct, PoolTyped
    <2> QED
      BY <2>1, <2>2 DEF Pool!Construct
  <1>2. chains' = chains /\ taken' = taken /\ hand' = Pool!With(hand, t, NoItem) /\ Pool!Goes(t, "construct", "idle")
    BY DEF Pool!Construct, Pool!Forget
  <1>3. \A u \in Threads : Handed(u)' = Handed(u)
    BY <1>2 DEF Handed, Handing, Putting, Pool!Goes, Pool!With, PoolTyped
  <1>4. ASSUME NEW o \in Items, NEW place, ItemAt(o, place) PROVE \E q : ItemAt(o, q)'
    <2>1. CASE o = e
      <3>1. place \notin ItemPlaces
        BY <1>1, <1>4, <2>1 DEF ItemAt
      <3>2. ItemAt(o, AtClient)'
        BY <1>1, <1>2, <1>3, <1>4, <2>1, <3>1, PlacesDiffer, PlacesKnown DEF ItemAt
      <3> QED
        BY <3>2
    <2>2. CASE o # e
      <3>1. ItemAt(o, place)'
        BY <1>1, <1>2, <1>3, <1>4, <2>2 DEF ItemAt
      <3> QED
        BY <3>1
    <2> QED
      BY <2>1, <2>2
  <1> QED
    BY <1>4 DEF Located

LEMMA Released ==
    ASSUME NEW t \in Threads, Pool!ReleaseSafe(t)
    PROVE  \E e \in owned :
             /\ owned' = owned \ {e} /\ chains' = chains /\ taken' = taken /\ at[t] = "idle"
             /\ \/ Pool!Goes(t, "idle", "start") /\ hand' = Pool!With(hand, t, e) /\ alive' = alive
                \/ at' = at /\ hand' = hand /\ alive' = alive \ {e}
  <1>1. PICK e \in owned :
          /\ owned' = owned \ {e}
          /\ IF currentCount < maxCount
             THEN Pool!Goes(t, "idle", "start") /\ hand' = Pool!With(hand, t, e) /\ UNCHANGED alive
             ELSE alive' = alive \ {e} /\ at[t] = "idle" /\ UNCHANGED <<at, hand>>
    BY DEF Pool!ReleaseSafe
  <1>2. chains' = chains /\ taken' = taken
    BY DEF Pool!ReleaseSafe
  <1>3. CASE currentCount < maxCount
    <2>1. owned' = owned \ {e} /\ Pool!Goes(t, "idle", "start") /\ hand' = Pool!With(hand, t, e) /\ alive' = alive
      BY <1>1, <1>3
    <2>2. at[t] = "idle"
      BY <2>1 DEF Pool!Goes
    <2> QED
      BY <1>2, <2>1, <2>2
  <1>4. CASE ~(currentCount < maxCount)
    <2>1. owned' = owned \ {e} /\ at' = at /\ hand' = hand /\ alive' = alive \ {e} /\ at[t] = "idle"
      BY <1>1, <1>4
    <2> QED
      BY <1>2, <2>1
  <1> QED
    BY <1>3, <1>4

LEMMA ReleaseLocated ==
    ASSUME PoolAssumed, PoolTyped, PoolLocal, Located, NEW t \in Threads, Pool!ReleaseSafe(t)
    PROVE  Located'
  <1>1. PICK e \in owned :
          /\ owned' = owned \ {e} /\ chains' = chains /\ taken' = taken /\ at[t] = "idle"
          /\ \/ Pool!Goes(t, "idle", "start") /\ hand' = Pool!With(hand, t, e) /\ alive' = alive
             \/ at' = at /\ hand' = hand /\ alive' = alive \ {e}
    BY Released
  <1>2. Handed(t) = {}
    BY <1>1 DEF Handed, Handing, Putting
  <1>3. ASSUME NEW o \in Items, NEW place, ItemAt(o, place), o = e PROVE place = AtClient
    BY <1>3 DEF ItemAt
  <1>4. CASE at' = at /\ hand' = hand /\ alive' = alive \ {e}
    <2>1. \A u \in Threads : Handed(u)' = Handed(u)
      BY <1>4 DEF Handed
    <2>2. ASSUME NEW o \in Items, NEW place, ItemAt(o, place) PROVE \E q : ItemAt(o, q)'
      <3>1. CASE o = e
        <4>1. place = AtClient
          BY <1>3, <2>2, <3>1
        <4>2. ItemAt(o, Nowhere)'
          BY <1>1, <1>4, <2>1, <2>2, <3>1, <4>1, PlacesDiffer, PlacesKnown DEF ItemAt
        <4> QED
          BY <4>2
      <3>2. CASE o # e
        <4>1. ItemAt(o, place)'
          BY <1>1, <1>4, <2>1, <2>2, <3>2 DEF ItemAt
        <4> QED
          BY <4>1
      <3> QED
        BY <3>1, <3>2
    <2> QED
      BY <2>2 DEF Located
  <1>5. CASE Pool!Goes(t, "idle", "start") /\ hand' = Pool!With(hand, t, e) /\ alive' = alive
    <2>1. \A u \in Threads : Handed(u)' = IF u = t THEN {e} ELSE Handed(u)
      BY <1>5 DEF Handed, Handing, Putting, Pool!Goes, Pool!With, PoolTyped
    <2>2. ASSUME NEW o \in Items, NEW place, ItemAt(o, place) PROVE \E q : ItemAt(o, q)'
      <3>1. CASE o = e
        <4>1. place = AtClient
          BY <1>3, <2>2, <3>1
        <4>2. ItemAt(o, AtHand(t))'
          BY <1>1, <1>2, <1>5, <2>1, <2>2, <3>1, <4>1, PlacesDiffer, PlacesKnown DEF ItemAt
        <4> QED
          BY <4>2
      <3>2. CASE o # e
        <4>1. place # AtHand(t)
          BY <1>2, <2>2 DEF ItemAt
        <4>2. ItemAt(o, place)'
          BY <1>1, <1>2, <1>5, <2>1, <2>2, <3>2, <4>1, PlacesDiffer DEF ItemAt
        <4> QED
          BY <4>2
      <3> QED
        BY <3>1, <3>2
    <2> QED
      BY <2>2 DEF Located
  <1> QED
    BY <1>1, <1>4, <1>5

LEMMA ClearHeadLocated ==
    ASSUME PoolAssumed, PoolTyped, PoolLocal, Located, NEW t \in Threads, Pool!ClearHead(t)
    PROVE  Located'
  <1>1. PICK i \in HeadIndices : i = index[t]
    BY DEF Pool!ClearHead, PoolTyped, HeadIndices, PoolAssumed
  <1>2. /\ at' = at /\ hand' = hand /\ taken' = taken /\ owned' = owned
        /\ alive' = alive \ Pool!ToSet(chains[i]) /\ chains' = Pool!With(chains, i, <<>>)
    BY <1>1 DEF Pool!ClearHead
  <1>3. \A u \in Threads : Handed(u)' = Handed(u)
    BY <1>2 DEF Handed
  <1>4. \A h \in HeadIndices : Pool!ToSet(chains'[h]) = IF h = i THEN {} ELSE Pool!ToSet(chains[h])
    BY <1>2, NoItems DEF Pool!With, PoolTyped
  <1>5. ASSUME NEW o \in Items, NEW place, ItemAt(o, place) PROVE \E q : ItemAt(o, q)'
    <2>1. CASE place = AtHead(i)
      <3>1. o \in Pool!ToSet(chains[i])
        BY <1>5, <2>1 DEF ItemAt
      <3>2. ItemAt(o, Nowhere)'
        BY <1>2, <1>3, <1>4, <1>5, <2>1, <3>1, PlacesDiffer, PlacesKnown DEF ItemAt
      <3> QED
        BY <3>2
    <2>2. CASE place # AtHead(i)
      <3>1. o \notin Pool!ToSet(chains[i])
        BY <1>5, <2>2 DEF ItemAt
      <3>2. ItemAt(o, place)'
        BY <1>2, <1>3, <1>4, <1>5, <2>2, <3>1 DEF ItemAt
      <3> QED
        BY <3>2
    <2> QED
      BY <2>1, <2>2
  <1> QED
    BY <1>5 DEF Located

-----------------------------------------------------------------------------
(* What currentCount counts                                                  *)

LEMMA CountsTyped ==
    ASSUME PoolAssumed, PoolTyped
    PROVE  /\ IsFiniteSet(Stock) /\ IsFiniteSet(Uncounted) /\ IsFiniteSet(Returning)
           /\ Cardinality(Stock) \in Nat /\ Cardinality(Uncounted) \in Nat
           /\ Cardinality(Returning) \in Nat /\ Cardinality(Threads) \in Nat
           /\ Cardinality(Uncounted) <= Cardinality(Returning)
           /\ Cardinality(Returning) <= Cardinality(Threads)
           /\ Net \in Int /\ Limit \in Nat /\ CounterSize \in Nat
           /\ CounterSize >= Limit + Cardinality(Threads) /\ Cardinality(Threads) >= 1
  <1>1. Stock \subseteq Items /\ Uncounted \subseteq Returning /\ Returning \subseteq Threads
    BY DEF Stock, Uncounted, Returning, PoolTyped
  <1>2. IsFiniteSet(Items) /\ IsFiniteSet(Threads) /\ Threads # {}
    BY DEF PoolAssumed
  <1>3. IsFiniteSet(Stock) /\ IsFiniteSet(Returning)
    BY <1>1, <1>2, FS_Subset
  <1>4. IsFiniteSet(Uncounted)
    BY <1>1, <1>3, FS_Subset
  <1>5. Cardinality(Uncounted) <= Cardinality(Returning) /\ Cardinality(Returning) <= Cardinality(Threads)
    BY <1>1, <1>2, <1>3, FS_Subset
  <1>6. Cardinality(Stock) \in Nat /\ Cardinality(Uncounted) \in Nat
    BY <1>3, <1>4, FS_CardinalityType
  <1>7. Cardinality(Returning) \in Nat /\ Cardinality(Threads) \in Nat /\ Cardinality(Threads) # 0
    BY <1>2, <1>3, FS_CardinalityType, FS_EmptySet
  <1>8. Net \in Int
    BY <1>6 DEF Net
  <1>9. Cardinality(Threads) >= 1
    BY <1>7
  <1> QED
    BY <1>3, <1>4, <1>5, <1>6, <1>7, <1>8, <1>9 DEF PoolAssumed

(* The count as it is stored.                                                *)
Stored(m) == IF m >= 0 THEN m ELSE m + CounterSize

CountedIs(net, returning) ==
    /\ maxCount = Limit /\ \A t \in Threads : at[t] # "clear"
    /\ currentCount = Stored(net)
    /\ net + returning <= Limit + Cardinality(Threads) - 1

LEMMA CountedSplit == Counted <=> (clears = 0 => CountedIs(Net, Cardinality(Returning)))
  BY DEF Counted, CountedIs, Stored

LEMMA StoredDown ==
    ASSUME NEW m \in Int, NEW c \in Nat, CounterSize = c, m - 1 >= -c, m <= c - 1, c > 0
    PROVE  (Stored(m) - 1) % CounterSize = Stored(m - 1)
  <1>1. CASE m >= 1
    BY <1>1 DEF Stored
  <1>2. CASE m = 0
    <2>1. (-1) % c = c - 1
      OBVIOUS
    <2> QED
      BY <1>2, <2>1 DEF Stored
  <1>3. CASE m < 0
    BY <1>3 DEF Stored
  <1> QED
    BY <1>1, <1>2, <1>3

LEMMA StoredUp ==
    ASSUME NEW m \in Int, NEW c \in Nat, CounterSize = c, m >= -c, m + 1 <= c - 1, c > 0
    PROVE  (Stored(m) + 1) % CounterSize = Stored(m + 1)
  <1>1. CASE m >= 0
    BY <1>1 DEF Stored
  <1>2. CASE m = -1
    <2>1. c % c = 0
      OBVIOUS
    <2> QED
      BY <1>2, <2>1 DEF Stored
  <1>3. CASE m < -1
    BY <1>3 DEF Stored
  <1> QED
    BY <1>1, <1>2, <1>3

(* Steps that change no count.                                               *)
LEMMA CountsStay ==
    ASSUME Counted, Stock' = Stock, Uncounted' = Uncounted, Returning' = Returning,
           currentCount' = currentCount, maxCount' = maxCount, clears' = clears,
           (\A t \in Threads : at[t] # "clear") => \A t \in Threads : at'[t] # "clear"
    PROVE  Counted'
  <1>1. Net' = Net /\ Cardinality(Returning)' = Cardinality(Returning)
    BY DEF Net
  <1> QED
    BY <1>1 DEF Counted

SameStage(t) ==
    /\ at'[t] \in Putting <=> at[t] \in Putting
    /\ at[t] \in Putting => hand'[t] = hand[t]
    /\ at'[t] = "count" <=> at[t] = "count"
    /\ at'[t] = "clear" <=> at[t] = "clear"

LEMMA StagesStay ==
    ASSUME Counted, \A t \in Threads : SameStage(t), (alive \ owned)' = alive \ owned,
           currentCount' = currentCount, maxCount' = maxCount, clears' = clears
    PROVE  Counted'
  <1>1. Stock' = Stock
    BY DEF Stock, SameStage
  <1>2. Uncounted' = Uncounted
    BY DEF Uncounted, SameStage
  <1>3. Returning' = Returning
    BY DEF Returning, SameStage
  <1>4. (\A t \in Threads : at[t] # "clear") => \A t \in Threads : at'[t] # "clear"
    BY DEF SameStage
  <1> QED
    BY <1>1, <1>2, <1>3, <1>4, CountsStay

(* Clear forgets the count.                                                  *)
LEMMA ClearCounted ==
    ASSUME PoolTyped, Counted, NEW t \in Threads,
           Pool!Clear(t) \/ Pool!ClearHead(t) \/ Pool!ClearAgain(t) \/ Pool!ClearEnds(t)
    PROVE  Counted'
  <1>1. CASE Pool!Clear(t)
    <2>1. clears' = clears + 1 /\ clears \in Nat
      BY <1>1 DEF Pool!Clear, PoolTyped
    <2>2. clears' # 0
      BY <2>1
    <2> QED
      BY <2>2 DEF Counted
  <1>2. CASE Pool!ClearHead(t) \/ Pool!ClearAgain(t) \/ Pool!ClearEnds(t)
    <2>1. at[t] = "clear" /\ clears' = clears
      BY <1>2 DEF Pool!ClearHead, Pool!ClearAgain, Pool!ClearEnds
    <2>2. clears' # 0
      BY <2>1 DEF Counted
    <2> QED
      BY <2>2 DEF Counted
  <1> QED
    BY <1>1, <1>2

LEMMA MovesCounted ==
    ASSUME PoolAssumed, PoolTyped, PoolLocal, Counted, NEW t \in Threads,
           \/ Pool!AcquireSafe(t) \/ Pool!Start(t) \/ Pool!PutFails(t) \/ Pool!Choose(t)
           \/ Pool!TakeChain(t) \/ Pool!Reinstall(t) \/ Pool!PushRest(t)
    PROVE  Counted'
  <1>1. /\ owned' = owned /\ alive' = alive /\ currentCount' = currentCount
        /\ maxCount' = maxCount /\ clears' = clears
    BY DEF Pool!AcquireSafe, Pool!Start, Pool!PutFails, Pool!Choose, Pool!TakeChain,
           Pool!Reinstall, Pool!PushRest
  <1>2. \A u \in Threads \ {t} : at'[u] = at[u] /\ hand'[u] = hand[u]
    BY DEF Pool!AcquireSafe, Pool!Start, Pool!PutFails, Pool!Choose, Pool!TakeChain,
           Pool!Reinstall, Pool!PushRest, Pool!Goes, Pool!With, PoolTyped
  <1>3. SameStage(t)
    <2>1. CASE Pool!AcquireSafe(t)
      BY <2>1 DEF Pool!AcquireSafe, Pool!Goes, SameStage, Putting, PoolTyped
    <2>2. CASE Pool!Start(t)
      BY <2>2 DEF Pool!Start, Pool!Goes, SameStage, Putting, PoolTyped
    <2>3. CASE Pool!PutFails(t)
      BY <2>3 DEF Pool!PutFails, Pool!Goes, SameStage, Putting, PoolTyped
    <2>4. CASE Pool!Choose(t)
      BY <2>4 DEF Pool!Choose, Pool!Goes, SameStage, Putting, PoolTyped
    <2>5. CASE Pool!TakeChain(t)
      <3>1. at[t] = "take" /\ at'[t] \in {"reinstall", "uncount", "take", "construct"}
        BY <2>5 DEF Pool!TakeChain, Pool!Goes, PoolTyped
      <3> QED
        BY <3>1 DEF SameStage, Putting
    <2>6. CASE Pool!Reinstall(t)
      <3>1. at[t] = "reinstall" /\ at'[t] \in {"uncount", "pushRest"}
        BY <2>6 DEF Pool!Reinstall, Pool!Goes, PoolTyped
      <3> QED
        BY <3>1 DEF SameStage, Putting
    <2>7. CASE Pool!PushRest(t)
      <3>1. at[t] = "pushRest" /\ at'[t] \in {"uncount", "pushRest"}
        BY <2>7 DEF Pool!PushRest, Pool!Goes, PoolTyped
      <3> QED
        BY <3>1 DEF SameStage, Putting
    <2> QED
      BY <2>1, <2>2, <2>3, <2>4, <2>5, <2>6, <2>7
  <1>4. \A u \in Threads : SameStage(u)
    BY <1>2, <1>3 DEF SameStage
  <1> QED
    BY <1>1, <1>4, StagesStay

LEMMA ConstructCounted ==
    ASSUME PoolAssumed, PoolTyped, PoolLocal, Counted, NEW t \in Threads, Pool!Construct(t)
    PROVE  Counted'
  <1>1. PICK e \in Items : e \notin alive /\ owned' = owned \cup {e} /\ alive' = alive \cup {e}
    <2>1. PICK o : o = CHOOSE x \in Items : x \notin alive
      OBVIOUS
    <2>2. o \in Items /\ o \notin alive
      BY <2>1 DEF Pool!Construct, PoolTyped
    <2> QED
      BY <2>1, <2>2 DEF Pool!Construct
  <1>2. (alive \ owned)' = alive \ owned
    BY <1>1
  <1>3. /\ Pool!Goes(t, "construct", "idle") /\ hand' = Pool!With(hand, t, NoItem) /\ currentCount' = currentCount
        /\ maxCount' = maxCount /\ clears' = clears
    BY DEF Pool!Construct, Pool!Forget
  <1>4. \A u \in Threads : SameStage(u)
    BY <1>3 DEF SameStage, Putting, Pool!Goes, Pool!With, PoolTyped
  <1> QED
    BY <1>2, <1>3, <1>4, StagesStay

(* The item taken is not counted any more.                                   *)
LEMMA UncountCounted ==
    ASSUME PoolAssumed, PoolTyped, PoolLocal, Located, Counted, NEW t \in Threads, Pool!Uncount(t)
    PROVE  Counted'
  <1> SUFFICES ASSUME clears = 0 PROVE CountedIs(Net, Cardinality(Returning))'
    BY CountedSplit DEF Pool!Uncount, Counted, CountedIs, Stored
  <1>1. PICK e \in Items : e = hand[t]
    BY DEF Pool!Uncount, Pool!Goes, PoolLocal, Handing
  <1>2. /\ at[t] = "uncount" /\ at'[t] = "idle" /\ owned' = owned \cup {e} /\ alive' = alive
        /\ \A u \in Threads \ {t} : at'[u] = at[u] /\ hand'[u] = hand[u]
        /\ maxCount' = maxCount /\ Pool!CountBy(-1)
    BY <1>1 DEF Pool!Uncount, Pool!Goes, PoolTyped, Pool!Forget, Pool!With
  <1>3. e \in alive \ owned /\ \A u \in Threads : at[u] \in Putting => hand[u] # e
    <2>1. PICK place : ItemAt(e, place)
      BY DEF Located
    <2>2. e \in Handed(t)
      BY <1>1, <1>2 DEF Handed, Handing
    <2>3. place = AtHand(t)
      BY <2>1, <2>2 DEF ItemAt
    <2>4. e \in alive \ owned
      BY <2>1, <2>3, PlacesDiffer, PlacesKnown DEF ItemAt
    <2>5. ASSUME NEW u \in Threads, at[u] \in Putting, hand[u] = e PROVE FALSE
      <3>1. e \in Handed(u)
        BY <2>5 DEF Handed, Handing
      <3>2. u = t
        BY <2>1, <2>3, <3>1, PlacesDiffer DEF ItemAt
      <3> QED
        BY <1>2, <2>5, <3>2 DEF Putting
    <2> QED
      BY <2>4, <2>5
  <1>4. Stock' = Stock \ {e} /\ e \in Stock
    BY <1>2, <1>3 DEF Stock, Putting
  <1>5. Uncounted' = Uncounted /\ Returning' = Returning
    BY <1>2 DEF Uncounted, Returning, Putting
  <1>6. Cardinality(Stock') = Cardinality(Stock) - 1
    BY <1>4, CountsTyped, FS_RemoveElement
  <1>7. Net' = Net - 1
    BY <1>5, <1>6, CountsTyped DEF Net
  <1>8. CountedIs(Net, Cardinality(Returning))
    BY CountedSplit
  <1>9. Cardinality(Uncounted) <= Cardinality(Threads) - 1
    <2>1. Uncounted \subseteq Threads \ {t}
      BY <1>2 DEF Uncounted
    <2>2. IsFiniteSet(Threads) /\ IsFiniteSet(Threads \ {t}) /\ Cardinality(Threads \ {t}) = Cardinality(Threads) - 1
      BY FS_RemoveElement DEF PoolAssumed
    <2>3. Cardinality(Uncounted) <= Cardinality(Threads \ {t})
      BY <2>1, <2>2, FS_Subset
    <2> QED
      BY <2>2, <2>3
  <1>10. PICK users \in Nat, st \in Nat, un \in Nat, re \in Nat, net \in Int :
            /\ users = Cardinality(Threads) /\ st = Cardinality(Stock) /\ un = Cardinality(Uncounted)
            /\ re = Cardinality(Returning) /\ net = Net
    BY CountsTyped
  <1>11. /\ net = st - un /\ un <= users - 1 /\ net + re <= Limit + users - 1
         /\ CounterSize >= Limit + users /\ users >= 1 /\ Limit \in Nat /\ CounterSize \in Nat
    BY <1>8, <1>9, <1>10, CountsTyped DEF CountedIs, Net
  <1>12. net - 1 >= -CounterSize /\ net <= CounterSize - 1 /\ CounterSize > 0
    BY <1>11
  <1>13. currentCount' = Stored(net - 1)
    BY <1>2, <1>8, <1>10, <1>11, <1>12, StoredDown DEF Pool!CountBy, CountedIs
  <1>14. (net - 1) + re <= Limit + users - 1
    BY <1>11
  <1>15. Net' = net - 1 /\ Cardinality(Returning)' = re
    BY <1>5, <1>7, <1>10
  <1>16. \A u \in Threads : at'[u] # "clear"
    BY <1>2, <1>8 DEF CountedIs
  <1>17. maxCount' = Limit
    BY <1>2, <1>8 DEF CountedIs
  <1> QED
    BY <1>10, <1>13, <1>14, <1>15, <1>16, <1>17 DEF CountedIs, Stored

(* A thread that finds currentCount below maxCount hangs its item up later:  *)
(* each of the threads may have found it so.                                 *)
LEMMA ReleaseCounted ==
    ASSUME PoolAssumed, PoolTyped, PoolLocal, Located, Counted, NEW t \in Threads, Pool!ReleaseSafe(t)
    PROVE  Counted'
  <1>1. /\ currentCount' = currentCount /\ maxCount' = maxCount /\ clears' = clears
    BY DEF Pool!ReleaseSafe
  <1>2. CASE ~(currentCount < maxCount)
    <2>1. PICK e \in owned : owned' = owned \ {e} /\ alive' = alive \ {e} /\ at' = at /\ hand' = hand
      BY <1>2 DEF Pool!ReleaseSafe
    <2>2. (alive \ owned)' = alive \ owned
      BY <2>1
    <2>3. \A u \in Threads : SameStage(u)
      BY <2>1 DEF SameStage
    <2> QED
      BY <1>1, <2>2, <2>3, StagesStay
  <1>3. CASE currentCount < maxCount
    <2> SUFFICES ASSUME clears = 0 PROVE CountedIs(Net, Cardinality(Returning))'
      BY <1>1 DEF Counted, CountedIs, Stored
    <2>1. PICK e \in owned : owned' = owned \ {e} /\ alive' = alive /\ Pool!Goes(t, "idle", "start")
                             /\ hand' = Pool!With(hand, t, e)
      BY <1>3 DEF Pool!ReleaseSafe
    <2>2. /\ at[t] = "idle" /\ at'[t] = "start" /\ hand'[t] = e
          /\ \A u \in Threads \ {t} : at'[u] = at[u] /\ hand'[u] = hand[u]
      BY <2>1 DEF Pool!Goes, Pool!With, PoolTyped
    <2>3. ASSUME NEW u \in Threads, at[u] \in Putting, hand[u] = e PROVE FALSE
      <3>1. e \in Items
        BY DEF PoolTyped
      <3>2. PICK place : ItemAt(e, place)
        BY <3>1 DEF Located
      <3>3. e \in Handed(u)
        BY <2>3 DEF Handed, Handing
      <3> QED
        BY <3>2, <3>3, PlacesDiffer DEF ItemAt
    <2>4. Stock' = Stock
      <3>1. ASSUME NEW o \in Stock PROVE o \in Stock'
        BY <2>1, <2>2, <3>1 DEF Stock, Putting
      <3>2. ASSUME NEW o \in Stock' PROVE o \in Stock
        <4>1. o # e
          BY <2>2, <3>2 DEF Stock, Putting
        <4> QED
          BY <2>1, <2>2, <3>2, <4>1 DEF Stock, Putting
      <3> QED
        BY <3>1, <3>2
    <2>5. Uncounted' = Uncounted
      BY <2>2 DEF Uncounted
    <2>6. Net' = Net
      BY <2>4, <2>5 DEF Net
    <2>7. CountedIs(Net, Cardinality(Returning))
      BY CountedSplit
    <2>8. Returning' \subseteq Threads /\ IsFiniteSet(Threads)
      BY DEF Returning, PoolAssumed
    <2>9. Cardinality(Returning') <= Cardinality(Threads) /\ Cardinality(Returning') \in Nat
      <3>1. IsFiniteSet(Returning') /\ Cardinality(Returning') <= Cardinality(Threads)
        BY <2>8, FS_Subset
      <3> QED
        BY <3>1, FS_CardinalityType
    <2>10. PICK users \in Nat, re \in Nat, net \in Int :
              users = Cardinality(Threads) /\ re = Cardinality(Returning') /\ net = Net
      BY <2>9, CountsTyped
    <2>11. Stored(net) < Limit /\ Limit \in Nat /\ CounterSize \in Nat
      BY <1>3, <2>7, <2>10, CountsTyped DEF CountedIs
    <2>12. net < Limit
      BY <2>11 DEF Stored
    <2>13. re <= users
      BY <2>9, <2>10
    <2>14. net + re <= Limit + users - 1
      BY <2>11, <2>12, <2>13
    <2>15. \A u \in Threads : at'[u] # "clear"
      BY <2>2, <2>7 DEF CountedIs
    <2>16. currentCount' = Stored(net) /\ maxCount' = Limit
      BY <1>1, <2>7, <2>10 DEF CountedIs
    <2> QED
      BY <2>6, <2>10, <2>14, <2>15, <2>16 DEF CountedIs, Stored
  <1> QED
    BY <1>2, <1>3

(* An item that hangs is in the pool, and not counted yet.                   *)
LEMMA HangCounted ==
    ASSUME PoolAssumed, PoolTyped, PoolLocal, Located, Counted, NEW t \in Threads, NEW i \in HeadIndices,
           Hang(t, i), hand[t] \in Items
    PROVE  Counted'
  <1> SUFFICES ASSUME clears = 0 PROVE CountedIs(Net, Cardinality(Returning))'
    BY CountedSplit DEF Hang, Counted, CountedIs, Stored
  <1>1. PICK e \in Items : e = hand[t]
    OBVIOUS
  <1>2. /\ at[t] \in Putting /\ at[t] # "count" /\ at'[t] = "count"
        /\ \A u \in Threads \ {t} : at'[u] = at[u]
        /\ owned' = owned /\ alive' = alive /\ hand' = hand
        /\ currentCount' = currentCount /\ maxCount' = maxCount
    BY DEF Hang, PoolTyped, Pool!local, Putting
  <1>3. e \in alive \ owned /\ \A u \in Threads : u # t /\ at[u] \in Putting => hand[u] # e
    <2>1. PICK place : ItemAt(e, place)
      BY DEF Located
    <2>2. e \in Handed(t)
      BY <1>1, <1>2 DEF Handed, Handing
    <2>3. place = AtHand(t)
      BY <2>1, <2>2 DEF ItemAt
    <2>4. e \in alive \ owned
      BY <2>1, <2>3, PlacesDiffer, PlacesKnown DEF ItemAt
    <2>5. ASSUME NEW u \in Threads, u # t, at[u] \in Putting, hand[u] = e PROVE FALSE
      <3>1. e \in Handed(u)
        BY <2>5 DEF Handed, Handing
      <3> QED
        BY <2>1, <2>3, <2>5, <3>1, PlacesDiffer DEF ItemAt
    <2> QED
      BY <2>4, <2>5
  <1>4. e \notin Stock
    BY <1>1, <1>2 DEF Stock
  <1>5. Stock' = Stock \cup {e}
    <2>1. e \in Stock'
      BY <1>2, <1>3 DEF Stock, Putting
    <2>2. ASSUME NEW o \in Stock PROVE o \in Stock'
      BY <1>2, <2>2 DEF Stock, Putting
    <2>3. ASSUME NEW o \in Stock', o # e PROVE o \in Stock
      BY <1>1, <1>2, <2>3 DEF Stock
    <2> QED
      BY <2>1, <2>2, <2>3
  <1>6. Cardinality(Stock') = Cardinality(Stock) + 1
    BY <1>4, <1>5, CountsTyped, FS_AddElement
  <1>7. Uncounted' = Uncounted \cup {t} /\ t \notin Uncounted
    BY <1>2 DEF Uncounted
  <1>8. Cardinality(Uncounted') = Cardinality(Uncounted) + 1
    BY <1>7, CountsTyped, FS_AddElement
  <1>9. Returning' = Returning
    BY <1>2 DEF Returning
  <1>10. Net' = Net
    BY <1>6, <1>8, CountsTyped DEF Net
  <1>11. CountedIs(Net, Cardinality(Returning))
    BY CountedSplit
  <1>12. \A u \in Threads : at'[u] # "clear"
    BY <1>2, <1>11 DEF CountedIs
  <1> QED
    BY <1>2, <1>9, <1>10, <1>11, <1>12 DEF CountedIs, Stored

LEMMA CountCounted ==
    ASSUME PoolAssumed, PoolTyped, PoolLocal, Counted, NEW t \in Threads, Pool!Count(t)
    PROVE  Counted'
  <1> SUFFICES ASSUME clears = 0 PROVE CountedIs(Net, Cardinality(Returning))'
    BY CountedSplit DEF Pool!Count, Counted, CountedIs, Stored
  <1>1. /\ at[t] = "count" /\ at'[t] = "idle" /\ owned' = owned /\ alive' = alive
        /\ \A u \in Threads \ {t} : at'[u] = at[u] /\ hand'[u] = hand[u]
        /\ maxCount' = maxCount /\ Pool!CountBy(1)
    BY DEF Pool!Count, Pool!Goes, PoolTyped, Pool!Forget, Pool!With
  <1>2. Stock' = Stock
    BY <1>1 DEF Stock, Putting
  <1>3. Uncounted' = Uncounted \ {t} /\ t \in Uncounted
    BY <1>1 DEF Uncounted
  <1>4. Returning' = Returning \ {t} /\ t \in Returning
    BY <1>1 DEF Returning, Putting
  <1>5. Cardinality(Uncounted') = Cardinality(Uncounted) - 1
    BY <1>3, CountsTyped, FS_RemoveElement
  <1>6. Cardinality(Returning') = Cardinality(Returning) - 1
    BY <1>4, CountsTyped, FS_RemoveElement
  <1>7. Cardinality(Returning) # 0
    BY <1>4, CountsTyped, FS_EmptySet
  <1>8. CountedIs(Net, Cardinality(Returning))
    BY CountedSplit
  <1>9. PICK users \in Nat, st \in Nat, un \in Nat, re \in Nat, net \in Int :
            /\ users = Cardinality(Threads) /\ st = Cardinality(Stock) /\ un = Cardinality(Uncounted)
            /\ re = Cardinality(Returning) /\ net = Net
    BY CountsTyped
  <1>10. /\ net = st - un /\ un <= re /\ re <= users /\ net + re <= Limit + users - 1 /\ re # 0
         /\ CounterSize >= Limit + users /\ users >= 1 /\ Limit \in Nat /\ CounterSize \in Nat
    BY <1>7, <1>8, <1>9, CountsTyped DEF CountedIs, Net
  <1>11. net >= -CounterSize /\ net + 1 <= CounterSize - 1 /\ CounterSize > 0
    BY <1>10
  <1>12. currentCount' = Stored(net + 1)
    BY <1>1, <1>8, <1>9, <1>10, <1>11, StoredUp DEF Pool!CountBy, CountedIs
  <1>13. (net + 1) + (re - 1) <= Limit + users - 1
    BY <1>10
  <1>14. Net' = net + 1 /\ Cardinality(Returning)' = re - 1
    BY <1>2, <1>5, <1>6, <1>9, <1>10 DEF Net
  <1>15. \A u \in Threads : at'[u] # "clear"
    BY <1>1, <1>8 DEF CountedIs
  <1>16. maxCount' = Limit
    BY <1>1, <1>8 DEF CountedIs
  <1> QED
    BY <1>9, <1>12, <1>13, <1>14, <1>15, <1>16 DEF CountedIs, Stored

-----------------------------------------------------------------------------
(* The invariant of the pool                                                 *)

LEMMA InitPool == PoolAssumed /\ Pool!Init => PoolInv
  <1> SUFFICES ASSUME PoolAssumed, Pool!Init PROVE PoolInv
    OBVIOUS
  <1>1. PoolTyped
    BY NoItems DEF Pool!Init, PoolTyped, PoolLabels, HeadIndices, PoolAssumed
  <1>2. PoolLocal
    BY DEF Pool!Init, PoolLocal, Handing, Putting
  <1>3. ASSUME NEW o \in Items PROVE ItemAt(o, Nowhere)
    <2>1. /\ \A h \in HeadIndices : Pool!ToSet(chains[h]) = {}
          /\ \A u \in Threads : Pool!ToSet(taken[u]) = {} /\ Handed(u) = {}
      BY NoItems DEF Pool!Init, HeadIndices, Handed, Handing, Putting
    <2> QED
      BY <2>1, PlacesDiffer, PlacesKnown DEF ItemAt, Pool!Init
  <1>4. Located
    BY <1>3 DEF Located
  <1>5. Stock = {} /\ Uncounted = {} /\ Returning = {}
    BY DEF Pool!Init, Stock, Uncounted, Returning, Putting
  <1>6. Cardinality(Stock) = 0 /\ Cardinality(Uncounted) = 0 /\ Cardinality(Returning) = 0
    BY <1>5, FS_EmptySet
  <1>7. PICK users \in Nat : users = Cardinality(Threads) /\ users >= 1 /\ Limit \in Nat
    BY <1>1, CountsTyped
  <1>8. Net = 0
    BY <1>6 DEF Net
  <1>9. 0 + 0 <= Limit + users - 1
    BY <1>7
  <1>10. Counted
    BY <1>6, <1>7, <1>8, <1>9 DEF Counted, Pool!Init
  <1> QED
    BY <1>1, <1>2, <1>4, <1>10 DEF PoolInv

LEMMA PoolStep ==
    ASSUME PoolAssumed, PoolInv, Pool!Next
    PROVE  PoolInv'
  <1>0. PoolTyped /\ PoolLocal /\ Located /\ Counted
    BY DEF PoolInv
  <1>1. PICK t \in Threads :
          \/ PoolQuiet(t)
          \/ Pool!TakeChain(t) \/ Pool!Reinstall(t) \/ Pool!PushRest(t) \/ Pool!ClearHead(t) \/ Pool!Put(t) \/ Pool!Push(t)
          \/ Pool!Uncount(t) \/ Pool!Construct(t) \/ Pool!ReleaseSafe(t)
    BY DEF Pool!Next, PoolQuiet
  <1>2. CASE PoolQuiet(t)
    <2>1. Counted'
      BY <1>0, <1>2, ClearCounted, MovesCounted, CountCounted DEF PoolQuiet
    <2> QED
      BY <1>0, <1>2, <2>1, QuietTyped, QuietLocalKept, QuietLocated DEF PoolInv
  <1>3. CASE Pool!TakeChain(t)
    BY <1>0, <1>3, TakeChainTyped, TakeChainLocal, TakeChainLocated, MovesCounted DEF PoolInv
  <1>4. CASE Pool!Reinstall(t)
    BY <1>0, <1>4, ReinstallTyped, ReinstallLocal, ReinstallLocated, MovesCounted DEF PoolInv
  <1>5. CASE Pool!PushRest(t)
    BY <1>0, <1>5, PushRestTyped, PushRestLocal, PushRestLocated, MovesCounted DEF PoolInv
  <1>6. CASE Pool!ClearHead(t)
    BY <1>0, <1>6, ClearHeadTyped, ClearHeadLocal, ClearHeadLocated, ClearCounted DEF PoolInv
  <1>7. CASE Pool!Put(t) \/ Pool!Push(t)
    <2>1. PICK i \in HeadIndices : i = Pool!Index(t)
      BY <1>0, IndexHead
    <2>2. Hang(t, i) /\ hand[t] \in Items
      BY <1>0, <1>7, <2>1, PutHangs
    <2> QED
      BY <1>0, <1>7, <2>2, HangTyped, HangLocal, HangLocated, HangCounted DEF PoolInv
  <1>8. CASE Pool!Uncount(t)
    BY <1>0, <1>8, ClientTyped, ClientLocal, UncountLocated, UncountCounted DEF PoolInv
  <1>9. CASE Pool!Construct(t)
    BY <1>0, <1>9, ClientTyped, ClientLocal, ConstructLocated, ConstructCounted DEF PoolInv
  <1>10. CASE Pool!ReleaseSafe(t)
    BY <1>0, <1>10, ClientTyped, ClientLocal, ReleaseLocated, ReleaseCounted DEF PoolInv
  <1> QED
    BY <1>1, <1>2, <1>3, <1>4, <1>5, <1>6, <1>7, <1>8, <1>9, <1>10

LEMMA PoolRests ==
    ASSUME PoolInv, UNCHANGED Pool!vars
    PROVE  PoolInv'
  <1>1. PoolTyped' /\ PoolLocal'
    BY DEF PoolInv, PoolTyped, PoolLocal, Pool!vars, Pool!local
  <1>2. Located'
    BY DEF PoolInv, Located, ItemAt, Handed, Pool!vars, Pool!local
  <1>3. Counted'
    <2>1. /\ alive' = alive /\ owned' = owned /\ at' = at /\ hand' = hand /\ currentCount' = currentCount
          /\ maxCount' = maxCount /\ clears' = clears
      BY DEF Pool!vars, Pool!local
    <2>2. Stock' = Stock /\ Uncounted' = Uncounted /\ Returning' = Returning
      BY <2>1 DEF Stock, Uncounted, Returning
    <2> QED
      BY <2>1, <2>2, CountsStay DEF PoolInv
  <1> QED
    BY <1>1, <1>2, <1>3 DEF PoolInv

-----------------------------------------------------------------------------
(* What it means                                                             *)

LEMMA PlacesOne ==
    ASSUME PoolAssumed, PoolInv, NEW o \in Items
    PROVE  Pool!Places(o) = IF o \in alive THEN 1 ELSE 0
  <1> DEFINE hs == {h \in DOMAIN chains : o \in Pool!ToSet(chains[h])}
             ts == {t \in Threads : o \in Pool!ToSet(taken[t])}
             us == {t \in Threads : hand[t] = o /\ at[t] # "count"}
  <1>1. PICK place : ItemAt(o, place)
    BY DEF PoolInv, Located
  <1>2. DOMAIN chains = HeadIndices
    BY DEF PoolInv, PoolTyped
  <1>3. hs = {h \in HeadIndices : place = AtHead(h)}
    BY <1>1, <1>2 DEF ItemAt
  <1>4. ts = {t \in Threads : place = AtRest(t)}
    BY <1>1 DEF ItemAt
  <1>5. us = {t \in Threads : place = AtHand(t)}
    <2> SUFFICES ASSUME NEW t \in Threads PROVE (hand[t] = o /\ at[t] # "count") <=> o \in Handed(t)
      BY <1>1 DEF ItemAt
    <2>1. at[t] \notin Handing /\ at[t] # "count" => hand[t] # o
      BY DEF PoolInv, PoolLocal, PoolAssumed
    <2>2. at[t] \in Handing => at[t] # "count"
      BY DEF Handing, Putting
    <2> QED
      BY <2>1, <2>2 DEF Handed
  <1>6. (o \in owned <=> place = AtClient) /\ (o \in alive <=> place \in ItemPlaces)
    BY <1>1 DEF ItemAt
  <1>7. Pool!Places(o) = Cardinality(hs) + Cardinality(ts) + Cardinality(us) + (IF o \in owned THEN 1 ELSE 0)
    BY PoolSets DEF Pool!Places
  <1> HIDE DEF hs, ts, us
  <1>8. CASE \E h \in HeadIndices : place = AtHead(h)
    <2>1. PICK h \in HeadIndices : place = AtHead(h)
      BY <1>8
    <2>2. hs = {h} /\ ts = {} /\ us = {} /\ o \notin owned /\ o \in alive
      BY <1>3, <1>4, <1>5, <1>6, <2>1, PlacesDiffer, PlacesKnown
    <2>3. Cardinality(hs) = 1 /\ Cardinality(ts) = 0 /\ Cardinality(us) = 0
      BY <2>2, FS_EmptySet, FS_Singleton
    <2> QED
      BY <1>7, <2>2, <2>3
  <1>9. CASE \E t \in Threads : place = AtRest(t)
    <2>1. PICK t \in Threads : place = AtRest(t)
      BY <1>9
    <2>2. hs = {} /\ ts = {t} /\ us = {} /\ o \notin owned /\ o \in alive
      BY <1>3, <1>4, <1>5, <1>6, <2>1, PlacesDiffer, PlacesKnown
    <2>3. Cardinality(hs) = 0 /\ Cardinality(ts) = 1 /\ Cardinality(us) = 0
      BY <2>2, FS_EmptySet, FS_Singleton
    <2> QED
      BY <1>7, <2>2, <2>3
  <1>10. CASE \E t \in Threads : place = AtHand(t)
    <2>1. PICK t \in Threads : place = AtHand(t)
      BY <1>10
    <2>2. hs = {} /\ ts = {} /\ us = {t} /\ o \notin owned /\ o \in alive
      BY <1>3, <1>4, <1>5, <1>6, <2>1, PlacesDiffer, PlacesKnown
    <2>3. Cardinality(hs) = 0 /\ Cardinality(ts) = 0 /\ Cardinality(us) = 1
      BY <2>2, FS_EmptySet, FS_Singleton
    <2> QED
      BY <1>7, <2>2, <2>3
  <1>11. CASE /\ \A h \in HeadIndices : place # AtHead(h)
              /\ \A t \in Threads : place # AtRest(t)
              /\ \A t \in Threads : place # AtHand(t)
    <2>1. hs = {} /\ ts = {} /\ us = {} /\ (o \in alive <=> o \in owned)
      <3>1. hs = {}
        BY <1>3, <1>11
      <3>2. ts = {}
        BY <1>4, <1>11
      <3>3. us = {}
        BY <1>5, <1>11
      <3>4. place \in ItemPlaces <=> place = AtClient
        BY <1>11 DEF ItemPlaces
      <3> QED
        BY <1>6, <3>1, <3>2, <3>3, <3>4
    <2>2. Cardinality(hs) = 0 /\ Cardinality(ts) = 0 /\ Cardinality(us) = 0
      BY <2>1, FS_EmptySet
    <2> QED
      BY <1>7, <2>1, <2>2
  <1> QED
    BY <1>8, <1>9, <1>10, <1>11

LEMMA PoolAccounted ==
    ASSUME PoolAssumed, PoolInv
    PROVE  Pool!ItemsAccounted
  <1>1. Pool!ItemsConserved
    BY PlacesOne DEF Pool!ItemsConserved, PoolInv, PoolTyped
  <1>2. Pool!CountHolds
    <2> SUFFICES ASSUME clears = 0, \A t \in Threads : at[t] = "idle"
                 PROVE  /\ currentCount = Cardinality(alive \ owned)
                        /\ currentCount <= Limit + Cardinality(Threads) - 1
      BY PoolSets DEF Pool!CountHolds
    <2>1. Stock = alive \ owned /\ Uncounted = {} /\ Returning = {}
      BY DEF Stock, Uncounted, Returning, Putting
    <2>2. Cardinality(Uncounted) = 0 /\ Cardinality(Returning) = 0
      BY <2>1, FS_EmptySet
    <2>3. CountedIs(Net, Cardinality(Returning)) /\ PoolTyped
      BY CountedSplit DEF PoolInv
    <2>4. PICK st \in Nat : st = Cardinality(Stock)
      BY <2>3, CountsTyped
    <2>5. Net = st
      BY <2>2, <2>4 DEF Net
    <2>6. currentCount = st
      BY <2>3, <2>5 DEF CountedIs, Stored
    <2>7. PICK users \in Nat : users = Cardinality(Threads) /\ Limit \in Nat
      BY <2>3, CountsTyped
    <2>8. st + 0 <= Limit + users - 1
      BY <2>2, <2>3, <2>5, <2>7 DEF CountedIs
    <2>9. st <= Limit + users - 1
      BY <2>7, <2>8
    <2> QED
      BY <2>1, <2>4, <2>6, <2>7, <2>9
  <1> QED
    BY <1>1, <1>2 DEF Pool!ItemsAccounted

-----------------------------------------------------------------------------
(* The pool beside the allocator                                             *)

(* A step of both is one of the pool, or leaves it alone.                    *)
LEMMA PoolMoves ==
    [MemoryNext]_<<vars, poolVars, part>> => [Pool!Next]_(Pool!vars)
  BY DEF MemoryNext, poolVars, Pool!vars, Pool!local

(* The invariant of the pool, whatever the threads do with it.               *)
LEMMA PoolInvariance == MemorySpec => []PoolInv
  <1>1. MemoryInit => PoolInv
    BY PoolConstants, InitPool DEF MemoryInit
  <1>2. PoolInv /\ [MemoryNext]_<<vars, poolVars, part>> => PoolInv'
    BY PoolConstants, PoolMoves, PoolStep, PoolRests
  <1> QED
    BY <1>1, <1>2, PTL DEF MemorySpec

(* Every item alive is in one place, with a client, in the hands of a thread *)
(* or once in a chain, through any interleaving of the exchanges on the      *)
(* heads (TPool.h:50-85, 111-175); and between calls, until Clear,           *)
(* currentCount is the number of those in the pool, which exceed the limit   *)
(* by fewer than there are threads.                                          *)
THEOREM PoolKeepsItems == MemorySpec => []ItemsAccounted
  <1>1. PoolInv => ItemsAccounted
    BY PoolConstants, PoolAccounted DEF ItemsAccounted
  <1> QED
    BY <1>1, PoolInvariance, PTL

=============================================================================
