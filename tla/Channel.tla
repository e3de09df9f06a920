------------------------------ MODULE Channel ------------------------------
(***************************************************************************)
(* What a queue from one writer to one reader promises ("One to one queue, *)
(* kfifo", Core/Template/TQueue.h, line 2): what is pushed comes out once  *)
(* and in order.  The elements are numbered as they are pushed.            *)
(***************************************************************************)
EXTENDS Integers, Sequences

CONSTANT MaxBurst       \* the most elements that are pushed in one step

VARIABLES
    queue,      \* what is in the queue
    sent,       \* the last element pushed
    received    \* the last element popped

vars == <<queue, sent, received>>

Init == queue = <<>> /\ sent = 0 /\ received = 0

(* The next n elements: a range is pushed a page at a time.                  *)
Send(n) ==
    /\ queue' = queue \o [i \in 1 .. n |-> sent + i]
    /\ sent' = sent + n
    /\ UNCHANGED received

Receive ==
    /\ queue # <<>>
    /\ received' = Head(queue)
    /\ queue' = Tail(queue)
    /\ UNCHANGED sent

Next == Receive \/ \E n \in 1 .. MaxBurst : Send(n)

Spec == Init /\ [][Next]_vars

TypeOK == queue \in Seq(Nat) /\ sent \in Nat /\ received \in Nat

(* Nothing is lost, doubled or overtaken: the queue holds what was pushed    *)
(* and not popped yet, in order.                                             *)
InOrder ==
    /\ Len(queue) = sent - received
    /\ \A i \in 1 .. Len(queue) : queue[i] = received + i

=============================================================================
