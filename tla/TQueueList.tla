----------------------------- MODULE TQueueList -----------------------------
(***************************************************************************)
(* TQueueList of Core/Template/TQueue.h: a queue from one writer to one    *)
(* reader, kept in a chain of pages of N elements.  The writer works on    *)
(* the page pushHead, the reader on popHead; neither takes a lock.         *)
(*                                                                         *)
(* A step is one access to a field the other side writes.  The reader is   *)
(* the loop of TaskQueue::OnOperation: Empty, Top, Pop.  The counters of a *)
(* page are modelled by what is between them.                              *)
(***************************************************************************)
EXTENDS Integers, Sequences, SequencesExt, FiniteSetsExt

CONSTANTS
    N,              \* elements in a page
    MaxPages,       \* bound: pages allocated
    MaxSent,        \* bound: elements pushed
    RangeSizes      \* the sizes of the ranges pushed

(* What the constants have to satisfy. *)
Assumption ==
    /\ N \in Nat \ {0} /\ MaxPages \in Nat \ {0}
    /\ MaxSent \in Nat
    /\ RangeSizes \subseteq Nat \ {0}

VARIABLES
    items,      \* of each page: what is between popCount and pushCount
    nextPage,   \* next of each page, 0 if there is none
    freed,      \* the pages deleted
    pushHead, popHead,
    allocated,  \* pages allocated so far
    wpc,        \* the writer: label,
    left, room, \* elements still to push, and what fits in the page
    rpc,        \* the reader: label
    sent, received, \* the last element stored and popped
    dropped,        \* elements pushed, but stored nowhere
    pageLost        \* whether CleanupEmpty has deleted a page with elements: see Cleanup

shared == <<items, nextPage, freed, pushHead, popHead, allocated>>
writer == <<wpc, left, room>>
vars == <<shared, writer, rpc, sent, received, dropped, pageLost>>

Pages == 1 .. MaxPages

Init ==
    /\ items = [p \in Pages |-> <<>>]
    /\ nextPage = [p \in Pages |-> 0]
    /\ freed = {}
    /\ pushHead = 1 /\ popHead = 1 /\ allocated = 1
    /\ wpc = "idle" /\ left = 0 /\ room = 0
    /\ rpc = "empty"
    /\ sent = 0 /\ received = 0 /\ dropped = 0 /\ pageLost = FALSE

-----------------------------------------------------------------------------
(* The writer                                                                *)

Numbered(n) == [i \in 1 .. n |-> sent + i]

Free(p) == N - Len(items[p])

(* A push of n elements begins. *)
MayWrite(n) ==
    /\ wpc = "idle"
    /\ sent + dropped + n <= MaxSent
    /\ left' = n
    /\ room' = Min({n, Free(pushHead)})

BeginPush ==
    /\ MayWrite(1)
    /\ wpc' = IF Free(pushHead) = 0 THEN "chain" ELSE "push"
    /\ UNCHANGED <<shared, rpc, sent, received, dropped, pageLost>>

(* The full test and the store of pushCount are apart, but only the reader   *)
(* can come in between, and it makes room.                                   *)
Push ==
    /\ wpc = "push"
    /\ items' = [items EXCEPT ![pushHead] = @ \o Numbered(1)]
    /\ sent' = sent + 1
    /\ left' = 0
    /\ wpc' = "idle"
    /\ UNCHANGED <<nextPage, freed, pushHead, popHead, allocated, room, rpc, received, dropped, pageLost>>

(* A full page: a new one is chained, and the element is not pushed to it.   *)
Chain ==
    /\ wpc = "chain"
    /\ allocated < MaxPages
    /\ allocated' = allocated + 1
    /\ nextPage' = [nextPage EXCEPT ![pushHead] = allocated + 1]
    /\ wpc' = "advance"
    /\ UNCHANGED <<items, freed, pushHead, popHead, left, room, rpc, sent, received, dropped, pageLost>>

Advance ==
    /\ wpc = "advance"
    /\ pushHead' = allocated
    /\ dropped' = dropped + 1
    /\ left' = 0
    /\ wpc' = "idle"
    /\ UNCHANGED <<items, nextPage, freed, popHead, allocated, room, rpc, sent, received, pageLost>>

(* A range fills the page first: popCount is read once, then pushCount set,  *)
(* and what the reader pops in between is not made use of.                   *)
BeginRange ==
    /\ \E n \in RangeSizes : MayWrite(n)
    /\ wpc' = "fill"
    /\ UNCHANGED <<shared, rpc, sent, received, dropped, pageLost>>

FillPage ==
    /\ wpc = "fill"
    /\ items' = [items EXCEPT ![pushHead] = @ \o Numbered(room)]
    /\ sent' = sent + room
    /\ left' = left - room
    /\ wpc' = IF room = left THEN "idle" ELSE "rest"
    /\ UNCHANGED <<nextPage, freed, pushHead, popHead, allocated, room, rpc, received, dropped, pageLost>>

(* Mutant: the new page is given all that is left, however much it holds. *)
ChainFilledAll ==
    /\ wpc = "rest"
    /\ allocated < MaxPages
    /\ allocated' = allocated + 1
    /\ items' = [items EXCEPT ![allocated + 1] = Numbered(left)]
    /\ nextPage' = [nextPage EXCEPT ![pushHead] = allocated + 1]
    /\ wpc' = "advancefilled"
    /\ UNCHANGED <<freed, pushHead, popHead, left, room, rpc, sent, received, dropped, pageLost>>

(* The rest goes to new pages, which the reader does not know until they are *)
(* chained and pushHead is set.                                              *)
ChainFilled ==
    /\ wpc = "rest"
    /\ allocated < MaxPages
    /\ allocated' = allocated + 1
    /\ items' = [items EXCEPT ![allocated + 1] = Numbered(Min({left, N}))]
    /\ nextPage' = [nextPage EXCEPT ![pushHead] = allocated + 1]
    /\ wpc' = "advancefilled"
    /\ UNCHANGED <<freed, pushHead, popHead, left, room, rpc, sent, received, dropped, pageLost>>

AdvanceFilled ==
    /\ wpc = "advancefilled"
    /\ pushHead' = allocated
    /\ sent' = sent + Min({left, N})
    /\ left' = left - Min({left, N})
    /\ wpc' = IF left > N THEN "rest" ELSE "idle"
    /\ UNCHANGED <<items, nextPage, freed, popHead, allocated, room, rpc, received, dropped, pageLost>>

Writer ==
    BeginPush \/ Push \/ Chain \/ Advance \/ BeginRange \/ FillPage \/ ChainFilled \/ AdvanceFilled

-----------------------------------------------------------------------------
(* The reader                                                                *)

ReaderGoes(from, to) == rpc = from /\ rpc' = to

(* Empty *)
EmptyPage ==
    /\ ReaderGoes("empty", IF items[popHead] # <<>> THEN "top" ELSE "more")
    /\ UNCHANGED <<shared, writer, sent, received, dropped, pageLost>>

(* Mutant: an empty page is taken for an empty list. *)
EmptyMoreNot ==
    /\ ReaderGoes("more", "empty")
    /\ UNCHANGED <<shared, writer, sent, received, dropped, pageLost>>

EmptyMore ==
    /\ ReaderGoes("more", IF popHead # pushHead THEN "last" ELSE "empty")
    /\ UNCHANGED <<shared, writer, sent, received, dropped, pageLost>>

(* Mutant: a list of more than one page is taken not to be empty. *)
EmptyLastNot ==
    /\ ReaderGoes("last", "top")
    /\ UNCHANGED <<shared, writer, sent, received, dropped, pageLost>>

EmptyLast ==
    /\ ReaderGoes("last", IF items[pushHead] # <<>> THEN "top" ELSE "empty")
    /\ UNCHANGED <<shared, writer, sent, received, dropped, pageLost>>

(* CleanupEmpty, which Top calls before it reads and Pop after it has popped. *)
(* The page is tested before the chain: a writer that fills the page and     *)
(* chains another one in between makes it delete a page that is not empty.   *)
Cleanup(test, drop, done) ==
    \/ /\ ReaderGoes(test, IF items[popHead] = <<>> THEN drop ELSE done)
       /\ UNCHANGED <<shared, writer, sent, received, dropped, pageLost>>
    \/ /\ ReaderGoes(drop, done)
       /\ IF popHead # pushHead
          THEN /\ popHead' = nextPage[popHead] /\ freed' = freed \cup {popHead}
               /\ pageLost' = (pageLost \/ items[popHead] # <<>>)
          ELSE UNCHANGED <<popHead, freed, pageLost>>
       /\ UNCHANGED <<items, nextPage, pushHead, allocated, writer, sent, received, dropped>>

TopCleanup == Cleanup("top", "topdrop", "pop")

(* Top and Pop: what the page holds was written before pushCount was set.    *)
Pop ==
    /\ ReaderGoes("pop", "popped")
    /\ items[popHead] # <<>>
    /\ received' = Head(items[popHead])
    /\ items' = [items EXCEPT ![popHead] = Tail(@)]
    /\ UNCHANGED <<nextPage, freed, pushHead, popHead, allocated, writer, sent, dropped, pageLost>>

PopCleanup == Cleanup("popped", "popdrop", "empty")

Reader == EmptyPage \/ EmptyMore \/ EmptyLast \/ TopCleanup \/ Pop \/ PopCleanup

Next == Writer \/ Reader

Spec == Init /\ [][Next]_vars

(* A reader that goes on polling, and a writer that completes its calls. *)
Fairness == WF_vars(Reader) /\ WF_vars(Writer /\ wpc # "idle")

FairSpec == Spec /\ Fairness

-----------------------------------------------------------------------------
(* Properties                                                                *)

TypeOK ==
    /\ items \in [Pages -> Seq(1 .. MaxSent)]
    /\ nextPage \in [Pages -> 0 .. MaxPages]
    /\ freed \subseteq Pages
    /\ pushHead \in Pages /\ popHead \in Pages /\ allocated \in Pages
    /\ {sent, received, dropped, left} \subseteq 0 .. MaxSent
    /\ room \in 0 .. N

(* "assert(!Empty())" of Top (TQueue.h, line 286): after CleanupEmpty the    *)
(* page has an element, if Empty has answered no.                            *)
TopAssertion == TypeOK /\ (rpc = "pop" => items[popHead] # <<>>)

(* What the reader still gets: the pages from popHead to pushHead.  A page   *)
(* that is chained belongs to the queue once pushHead points to it.          *)
Contents == FlattenSeq([i \in 1 .. pushHead - popHead + 1 |-> items[popHead + i - 1]])

(* The list is a channel for the elements that Push stores: each step of it  *)
(* sends, receives or changes nothing that the two sides can see, until a    *)
(* page is deleted that is not empty (see Cleanup).                          *)
Abstract == INSTANCE Channel WITH queue <- Contents, MaxBurst <- N

ImplementsChannel == Abstract!Init /\ [][Abstract!Next \/ pageLost']_(Abstract!vars)

(* What is stored is popped in the end: a reader that stops at Empty does    *)
(* not leave anything behind, unless an element has been dropped: the page   *)
(* chained for it is empty, and Empty looks at the last page only.  (What is *)
(* sent is bounded: the reader catches up.)                                  *)
EverythingArrives == []<>(received = sent \/ dropped # 0 \/ pageLost)

=============================================================================
