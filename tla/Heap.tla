-------------------------------- MODULE Heap --------------------------------
(***************************************************************************)
(* What an allocator of small objects promises: a slot has one owner at a  *)
(* time, and the memory of a block goes back while none of its slots has   *)
(* one.                                                                    *)
(***************************************************************************)
EXTENDS Naturals

CONSTANTS Blocks, Places

VARIABLES
    reserved,   \* the blocks the allocator has
    owners      \* of each block and place in it: how many clients own the slot

Init == reserved = {} /\ owners = [s \in Blocks \X Places |-> 0]

Reserve(b) == b \notin reserved /\ reserved' = reserved \cup {b} /\ UNCHANGED owners

Allocate(s) ==
    /\ s[1] \in reserved /\ owners[s] = 0
    /\ owners' = [owners EXCEPT ![s] = 1]
    /\ UNCHANGED reserved

Deallocate(s) ==
    /\ owners[s] = 1
    /\ owners' = [owners EXCEPT ![s] = 0]
    /\ UNCHANGED reserved

(* One block goes back, or several when the allocator is closed.             *)
Return(given) ==
    /\ \A s \in given \X Places : owners[s] = 0
    /\ reserved' = reserved \ given
    /\ UNCHANGED owners

Next ==
    \/ \E b \in Blocks : Reserve(b)
    \/ \E s \in Blocks \X Places : Allocate(s) \/ Deallocate(s)
    \/ \E given \in SUBSET reserved : Return(given)

Spec == Init /\ [][Next]_<<reserved, owners>>
=============================================================================
