-------------------------- MODULE TQueueListProofs --------------------------
(***************************************************************************)
(* Theorems about TQueueList, for pages of any size, any number of them    *)
(* and ranges of any length, however the two sides interleave.             *)
(*                                                                         *)
(* Neither property is inductive.  That Top finds an element rests on the  *)
(* pages between the two heads, none of which is ever empty (PagesOK), and *)
(* the refinement on the numbers of the elements, which go on from page to *)
(* page (InSequence).                                                      *)
(***************************************************************************)
EXTENDS TQueueList, SequenceTheorems, WellFoundedInduction, TLAPS

Chained == wpc \in {"advance", "advancefilled"}

(* The pages from popHead to pushHead hang together, and none but the first  *)
(* and the last is empty; a page that is chained has not become the last     *)
(* until pushHead is set.                                                    *)
PagesOK ==
    /\ popHead <= pushHead
    /\ allocated = IF Chained THEN pushHead + 1 ELSE pushHead
    /\ \A p \in popHead .. allocated - 1 : nextPage[p] = p + 1
    /\ \A p \in Pages : p > pushHead /\ (p # allocated \/ wpc # "advancefilled") => items[p] = <<>>
    /\ \A p \in popHead + 1 .. pushHead - 1 : items[p] # <<>>

(* What a writer in the middle of a push has still to store, and has room for.*)
WriterOK ==
    /\ wpc \in {"idle", "chain", "push", "advance", "fill", "rest", "advancefilled"}
    /\ left + sent + dropped <= MaxSent
    /\ \A p \in Pages : Len(items[p]) <= N
    /\ wpc \in {"push", "chain", "advance"} => left = 1
    /\ wpc = "push" => Len(items[pushHead]) < N
    /\ wpc = "fill" => left > 0 /\ room <= left /\ Len(items[pushHead]) + room <= N
    /\ wpc \in {"rest", "advancefilled"} => left > 0
    /\ wpc = "advancefilled" => items[allocated] = Numbered(Min({left, N}))

(* A page that is given up as the last one while it is not the first one has *)
(* an element.                                                               *)
LeavesFull ==
    popHead # pushHead =>
      /\ wpc \in {"chain", "advance", "rest", "advancefilled"} => items[pushHead] # <<>>
      /\ wpc = "fill" => room > 0 \/ items[pushHead] # <<>>

(* Empty has answered no: the first page has an element, or else the second. *)
Found ==
    \/ items[popHead] # <<>>
    \/ popHead # pushHead /\ items[popHead + 1] # <<>>

ReaderOK ==
    /\ rpc \in {"empty", "more", "last", "top", "topdrop", "pop", "popped", "popdrop"}
    /\ rpc = "last" => popHead # pushHead
    /\ rpc \in {"top", "topdrop"} => Found
    /\ rpc = "topdrop" => items[popHead] = <<>>
    /\ rpc = "pop" => items[popHead] # <<>>

(* base[p] is the number of the last element before page p.                  *)
Bases(base) ==
    /\ base[popHead] = received
    /\ base[pushHead] + Len(items[pushHead]) = sent
    /\ \A p \in popHead .. pushHead - 1 : base[p + 1] = base[p] + Len(items[p])
    /\ \A p \in popHead .. pushHead : \A k \in 1 .. Len(items[p]) : items[p][k] = base[p] + k

InSequence == pageLost \/ \E base \in [Pages -> Nat] : Bases(base)

Typed == TypeOK /\ pageLost \in BOOLEAN

IInv == Typed /\ PagesOK /\ WriterOK /\ LeavesFull /\ ReaderOK /\ InSequence

-----------------------------------------------------------------------------
(* Operators                                                                 *)

Least(a, b) == IF a <= b THEN a ELSE b

LEMMA MinOfTwo ==
    ASSUME NEW a \in Nat, NEW b \in Nat
    PROVE  Min({a, b}) = Least(a, b)
  <1>1. Least(a, b) \in {a, b} /\ \A y \in {a, b} : Least(a, b) <= y
    BY DEF Least
  <1>2. \A x \in {a, b} : (\A y \in {a, b} : x <= y) => x = Least(a, b)
    BY DEF Least
  <1>3. Min({a, b}) \in {a, b} /\ \A y \in {a, b} : Min({a, b}) <= y
    BY <1>1 DEF Min
  <1> QED
    BY <1>2, <1>3

(* m of what is left are stored, or one is dropped: the sum does not grow.   *)
LEMMA Sums ==
    ASSUME NEW M \in Nat, NEW l \in Nat, NEW s \in Nat, NEW d \in Nat, NEW m \in Nat,
           NEW r \in Nat, NEW e \in Nat, l + s + d <= M, r + m + e <= l + d
    PROVE  /\ r + (s + m) + e <= M /\ s + m \in Nat
           /\ r \in 0 .. M /\ s + m \in 0 .. M /\ e \in 0 .. M
  <1>1. r + (s + m) + e <= l + s + d
    OBVIOUS
  <1>2. r + (s + m) + e <= M
    BY <1>1
  <1>3. r <= M /\ s + m <= M /\ e <= M
    BY <1>2
  <1> QED
    BY <1>2, <1>3

(* The elements from s + 1 to s + n. *)
Run(s, n) == [k \in 1 .. n |-> s + k]

LEMMA RunIsSeq ==
    ASSUME NEW s \in Nat, NEW n \in Nat
    PROVE  /\ Run(s, n) \in Seq(Nat) /\ Len(Run(s, n)) = n
           /\ \A k \in 1 .. n : Run(s, n)[k] = s + k
           /\ Run(s, n) = <<>> <=> n = 0
  <1>1. Run(s, n) \in [1 .. n -> Nat]
    BY DEF Run
  <1>2. Run(s, n) \in Seq(Nat)
    BY <1>1, SMT
  <1>3. Len(Run(s, n)) = n
    BY SMT DEF Run
  <1>4. \A k \in 1 .. n : Run(s, n)[k] = s + k
    BY DEF Run
  <1>5. Run(s, n) = <<>> <=> n = 0
    BY <1>2, <1>3, EmptySeq
  <1> QED
    BY <1>2, <1>3, <1>4, <1>5

(* A sequence is known by its elements.                                      *)
LEMMA IsRun ==
    ASSUME NEW q \in Seq(Nat), NEW s \in Nat, \A k \in 1 .. Len(q) : q[k] = s + k
    PROVE  q = Run(s, Len(q))
  <1>1. Len(q) \in Nat
    BY LenProperties
  <1> QED
    BY <1>1, RunIsSeq, SeqEqual

(* Two runs, one after the other.                                            *)
LEMMA RunsJoin ==
    ASSUME NEW s \in Nat, NEW m \in Nat, NEW n \in Nat
    PROVE  Run(s, m) \o Run(s + m, n) = Run(s, m + n)
  <1>0. s + m \in Nat /\ m + n \in Nat
    OBVIOUS
  <1>1. Run(s, m) \in Seq(Nat) /\ Len(Run(s, m)) = m /\ \A k \in 1 .. m : Run(s, m)[k] = s + k
    BY RunIsSeq
  <1>2. /\ Run(s + m, n) \in Seq(Nat) /\ Len(Run(s + m, n)) = n
        /\ \A k \in 1 .. n : Run(s + m, n)[k] = s + m + k
    BY <1>0, RunIsSeq
  <1> DEFINE q == Run(s, m) \o Run(s + m, n)
             l == Run(s, m)
             r == Run(s + m, n)
  <1> HIDE DEF l, r
  <1>l1. l \in Seq(Nat) /\ Len(l) = m
    BY <1>1 DEF l
  <1>r1. r \in Seq(Nat) /\ Len(r) = n
    BY <1>2 DEF r
  <1>q1. q = l \o r
    BY DEF l, r
  <1> HIDE DEF q
  <1>3. /\ q \in Seq(Nat) /\ Len(q) = m + n
        /\ \A k \in 1 .. m + n : q[k] = IF k <= m THEN l[k] ELSE r[k - m]
    BY <1>l1, <1>r1, <1>q1, ConcatProperties
  <1>4. ASSUME NEW k \in 1 .. m + n PROVE q[k] = s + k
    <2>1. q[k] = IF k <= m THEN l[k] ELSE r[k - m]
      BY <1>3
    <2>2. CASE k <= m
      BY <1>1, <2>1, <2>2 DEF l
    <2>3. CASE k > m
      <3>1. k - m \in 1 .. n
        BY <2>3
      <3>2. Run(s + m, n)[k - m] = s + m + (k - m) /\ s + m + (k - m) = s + k
        BY <1>2, <3>1
      <3>3. q[k] = r[k - m]
        BY <2>1, <2>3
      <3> QED
        BY <3>2, <3>3 DEF r
    <2> QED
      BY <2>2, <2>3
  <1>5. q = Run(s, Len(q))
    BY <1>3, <1>4, IsRun
  <1> QED
    BY <1>3, <1>5 DEF q

(* The oldest of a run, and what is left without it.                         *)
LEMMA RunTail ==
    ASSUME NEW s \in Nat, NEW n \in Nat, n > 0
    PROVE  Head(Run(s, n)) = s + 1 /\ Tail(Run(s, n)) = Run(s + 1, n - 1)
  <1> DEFINE q == Run(s, n)
  <1>1. q \in Seq(Nat) /\ Len(q) = n /\ q # <<>> /\ \A k \in 1 .. n : q[k] = s + k
    BY RunIsSeq
  <1> HIDE DEF q
  <1>2. Head(q) = s + 1
    BY <1>1
  <1>3. Tail(q) \in Seq(Nat) /\ Len(Tail(q)) = n - 1
    BY <1>1, HeadTailProperties
  <1>4. \A k \in 1 .. Len(Tail(q)) : Tail(q)[k] = s + 1 + k
    BY <1>1, <1>3, HeadTailProperties
  <1>5. Tail(q) = Run(s + 1, Len(Tail(q)))
    <2>1. s + 1 \in Nat
      OBVIOUS
    <2> QED
      BY <1>3, <1>4, <2>1, IsRun
  <1> QED
    BY <1>2, <1>3, <1>5 DEF q

-----------------------------------------------------------------------------
(* What the invariant says of numbers and of pages                           *)

LEMMA Scalars ==
    ASSUME Assumption, IInv
    PROVE  /\ N \in Nat /\ N > 0 /\ MaxPages \in Nat /\ MaxSent \in Nat
           /\ popHead \in Nat /\ pushHead \in Nat /\ allocated \in Nat
           /\ popHead > 0 /\ popHead <= pushHead /\ pushHead <= allocated /\ allocated <= MaxPages
           /\ sent \in Nat /\ received \in Nat /\ dropped \in Nat /\ left \in Nat /\ room \in Nat
           /\ left + sent + dropped <= MaxSent /\ received <= MaxSent /\ room <= N
           /\ pageLost \in BOOLEAN
  <1>1. N \in Nat /\ N > 0 /\ MaxPages \in Nat /\ MaxSent \in Nat
    BY DEF Assumption
  <1>2. /\ popHead \in 1 .. MaxPages /\ pushHead \in 1 .. MaxPages /\ allocated \in 1 .. MaxPages
        /\ sent \in 0 .. MaxSent /\ received \in 0 .. MaxSent /\ dropped \in 0 .. MaxSent
        /\ left \in 0 .. MaxSent /\ room \in 0 .. N /\ pageLost \in BOOLEAN
    BY DEF IInv, Typed, TypeOK, Pages
  <1>3. popHead <= pushHead /\ (allocated = pushHead \/ allocated = pushHead + 1)
    BY DEF IInv, PagesOK
  <1>4. left + sent + dropped <= MaxSent
    BY DEF IInv, WriterOK
  <1> QED
    BY <1>1, <1>2, <1>3, <1>4

LEMMA PageSeqs ==
    ASSUME Assumption, IInv
    PROVE  /\ items \in [Pages -> Seq(1 .. MaxSent)] /\ pushHead \in Pages /\ popHead \in Pages
           /\ allocated \in Pages
           /\ \A p \in Pages :
                 /\ items[p] \in Seq(Nat) /\ Len(items[p]) \in Nat /\ Len(items[p]) <= N
                 /\ items[p] = <<>> <=> Len(items[p]) = 0
                 /\ p \in Nat
           /\ \A p \in popHead .. pushHead : p \in Pages
  <1>1. items \in [Pages -> Seq(1 .. MaxSent)] /\ pushHead \in Pages /\ popHead \in Pages /\ allocated \in Pages
    BY DEF IInv, Typed, TypeOK
  <1>2. ASSUME NEW p \in Pages
        PROVE  Len(items[p]) \in Nat /\ items[p] \in Seq(Nat) /\ (items[p] = <<>> <=> Len(items[p]) = 0)
    <2>1. items[p] \in Seq(1 .. MaxSent)
      BY <1>1
    <2>2. 1 .. MaxSent \subseteq Nat
      OBVIOUS
    <2>3. items[p] \in Seq(Nat)
      BY <2>1, <2>2, SeqMonotonic
    <2> QED
      BY <2>3, EmptySeq, LenProperties
  <1>3. \A p \in Pages : Len(items[p]) <= N
    BY DEF IInv, WriterOK
  <1>4. (\A p \in Pages : p \in Nat) /\ \A p \in popHead .. pushHead : p \in Pages
    BY Scalars DEF Pages
  <1> QED
    BY <1>1, <1>2, <1>3, <1>4

-----------------------------------------------------------------------------
(* Steps that change nothing of the list                                     *)

(* A push begins.                                                            *)
LEMMA BeginKeeps ==
    ASSUME Assumption, IInv, BeginPush \/ BeginRange
    PROVE  IInv'
  <1>a. /\ N \in Nat /\ N > 0 /\ MaxSent \in Nat /\ sent \in Nat /\ dropped \in Nat
    BY Scalars
  <1>b. /\ pushHead \in Pages /\ Len(items[pushHead]) \in Nat /\ Len(items[pushHead]) <= N
        /\ items[pushHead] = <<>> <=> Len(items[pushHead]) = 0
    BY PageSeqs
  <1>1. PICK n \in Nat : n > 0 /\ MayWrite(n) /\ (BeginPush => n = 1)
    BY DEF BeginPush, BeginRange, Assumption
  <1>2. left' = n /\ room' = Min({n, Free(pushHead)}) /\ wpc = "idle" /\ sent + dropped + n <= MaxSent
    BY <1>1 DEF MayWrite
  <1>3. Free(pushHead) = N - Len(items[pushHead]) /\ Free(pushHead) \in Nat /\ Free(pushHead) <= N
    BY <1>a, <1>b DEF Free
  <1>4. /\ room' \in Nat /\ room' <= n /\ room' <= Free(pushHead)
        /\ room' = n \/ room' = Free(pushHead)
    <2>1. room' = Least(n, Free(pushHead))
      BY <1>1, <1>2, <1>3, MinOfTwo
    <2> QED
      BY <2>1, <1>3 DEF Least
  <1>5. /\ UNCHANGED <<shared, rpc, sent, received, dropped, pageLost>>
        /\ \/ BeginPush /\ n = 1 /\ wpc' = (IF Free(pushHead) = 0 THEN "chain" ELSE "push")
           \/ wpc' = "fill"
    BY <1>1 DEF BeginPush, BeginRange
  <1> HIDE DEF Free
  <1>6. Typed'
    <2>1. left' \in 0 .. MaxSent /\ room' \in 0 .. N
      BY <1>a, <1>1, <1>2, <1>3, <1>4
    <2> QED
      BY <1>5, <2>1 DEF IInv, Typed, TypeOK, shared
  <1>7. PagesOK'
    BY <1>2, <1>5 DEF IInv, PagesOK, Chained, shared
  <1>8. WriterOK'
    <2>1. left' + sent' + dropped' <= MaxSent
      BY <1>a, <1>1, <1>2, <1>5
    <2>2. room' <= left' /\ Len(items'[pushHead']) + room' <= N
      BY <1>a, <1>b, <1>1, <1>2, <1>3, <1>4, <1>5 DEF shared
    <2>3. wpc' = "push" => Len(items'[pushHead']) < N
      BY <1>a, <1>b, <1>3, <1>5 DEF shared
    <2>4. \A p \in Pages : Len(items'[p]) <= N
      BY <1>5 DEF IInv, WriterOK, shared
    <2> QED
      BY <1>1, <1>2, <1>5, <2>1, <2>2, <2>3, <2>4 DEF WriterOK
  <1>9. LeavesFull'
    <2>1. Free(pushHead) = 0 => items[pushHead] # <<>>
      BY <1>a, <1>b, <1>3
    <2> QED
      BY <1>1, <1>3, <1>4, <1>5, <2>1 DEF LeavesFull, shared
  <1>10. ReaderOK' /\ InSequence'
    BY <1>5 DEF IInv, ReaderOK, Found, InSequence, Bases, shared
  <1> QED
    BY <1>6, <1>7, <1>8, <1>9, <1>10 DEF IInv

(* The reader tests something.                                               *)
LEMMA TestKeeps ==
    ASSUME Assumption, IInv, UNCHANGED <<shared, writer, sent, received, dropped, pageLost>>,
           \/ EmptyPage \/ EmptyMore \/ EmptyLast
           \/ ReaderGoes("top", IF items[popHead] = <<>> THEN "topdrop" ELSE "pop")
           \/ ReaderGoes("popped", IF items[popHead] = <<>> THEN "popdrop" ELSE "empty")
    PROVE  IInv'
  <1>1. EmptyLast /\ rpc' = "top" => Found
    <2> SUFFICES ASSUME rpc = "last", items[pushHead] # <<>> PROVE Found
      BY DEF EmptyLast, ReaderGoes
    <2>1. popHead < pushHead /\ popHead \in Nat /\ pushHead \in Nat
      BY Scalars DEF IInv, ReaderOK
    <2>2. CASE pushHead = popHead + 1
      BY <2>1, <2>2 DEF Found
    <2>3. CASE pushHead # popHead + 1
      <3>1. popHead + 1 \in popHead + 1 .. pushHead - 1
        BY <2>1, <2>3
      <3> QED
        BY <2>1, <3>1 DEF Found, IInv, PagesOK
    <2> QED
      BY <2>2, <2>3
  <1>2. ReaderOK'
    BY <1>1 DEF IInv, ReaderOK, Found, shared, EmptyPage, EmptyMore, EmptyLast, ReaderGoes
  <1>3. Typed' /\ PagesOK' /\ WriterOK'
    BY DEF IInv, Typed, TypeOK, PagesOK, WriterOK, Chained, Numbered, shared, writer
  <1>4. LeavesFull' /\ InSequence'
    BY DEF IInv, LeavesFull, InSequence, Bases, shared, writer
  <1> QED
    BY <1>2, <1>3, <1>4 DEF IInv

LEMMA StutterKeeps ==
    ASSUME IInv, UNCHANGED vars
    PROVE  IInv'
  <1>1. Typed' /\ PagesOK' /\ WriterOK'
    BY DEF IInv, Typed, TypeOK, PagesOK, WriterOK, Chained, Numbered, vars, shared, writer
  <1>2. LeavesFull' /\ ReaderOK' /\ InSequence'
    BY DEF IInv, LeavesFull, ReaderOK, Found, InSequence, Bases, vars, shared, writer
  <1> QED
    BY <1>1, <1>2 DEF IInv

-----------------------------------------------------------------------------
(* The writer                                                                *)

(* e is what a page that held q holds with the n numbers after s behind it.  *)
Extends(e, q, s, n) ==
    /\ e \in Seq(Nat) /\ Len(e) = Len(q) + n
    /\ \A k \in 1 .. Len(q) : e[k] = q[k]
    /\ \A k \in 1 .. Len(e) : k > Len(q) => e[k] = s + (k - Len(q))
    /\ e = <<>> <=> Len(q) = 0 /\ n = 0

LEMMA Extended ==
    ASSUME NEW q \in Seq(Nat), NEW s \in Nat, NEW n \in Nat
    PROVE  Extends(q \o Run(s, n), q, s, n)
  <1> DEFINE r == Run(s, n)
             e == q \o r
  <1>1. r \in Seq(Nat) /\ Len(r) = n /\ \A k \in 1 .. n : r[k] = s + k
    BY RunIsSeq
  <1>2. Len(q) \in Nat
    BY LenProperties
  <1> HIDE DEF r
  <1>3. /\ e \in Seq(Nat) /\ Len(e) = Len(q) + n
        /\ \A k \in 1 .. Len(q) + n : e[k] = IF k <= Len(q) THEN q[k] ELSE r[k - Len(q)]
    BY <1>1, ConcatProperties
  <1> HIDE DEF e
  <1>4. \A k \in 1 .. Len(q) : e[k] = q[k]
    BY <1>2, <1>3
  <1>5. ASSUME NEW k \in 1 .. Len(e), k > Len(q) PROVE e[k] = s + (k - Len(q))
    <2>1. k - Len(q) \in 1 .. n /\ e[k] = r[k - Len(q)]
      BY <1>2, <1>3, <1>5
    <2> QED
      BY <1>1, <2>1
  <1>6. e = <<>> <=> Len(q) = 0 /\ n = 0
    <2>1. e = <<>> <=> Len(e) = 0
      BY <1>3, EmptySeq
    <2> QED
      BY <1>2, <1>3, <2>1
  <1>7. Extends(e, q, s, n)
    BY <1>3, <1>4, <1>5, <1>6 DEF Extends
  <1> QED
    BY <1>7 DEF e, r

(* Numbers up to MaxSent.                                                    *)
LEMMA Bounded ==
    ASSUME NEW q \in Seq(Nat), NEW m \in Nat, \A k \in 1 .. Len(q) : q[k] \in 1 .. m
    PROVE  q \in Seq(1 .. m)
  <1>1. Len(q) \in Nat /\ q \in [1 .. Len(q) -> Nat] /\ DOMAIN q = 1 .. Len(q)
    BY LenProperties
  <1>2. q \in [1 .. Len(q) -> 1 .. m]
    BY <1>1
  <1> QED
    BY <1>1, <1>2, SeqDef

(* n elements go to the page at pushHead.                                    *)
Store(n) ==
    /\ wpc \in {"push", "fill"} /\ n <= left /\ Len(items[pushHead]) + n <= N
    /\ n = 0 => wpc = "fill" /\ room = 0
    /\ items' = [items EXCEPT ![pushHead] = @ \o Numbered(n)]
    /\ sent' = sent + n /\ left' = left - n
    /\ wpc' = IF n = left THEN "idle" ELSE "rest"
    /\ UNCHANGED <<nextPage, freed, pushHead, popHead, allocated, room, rpc, received, dropped, pageLost>>

LEMMA StoreKeeps ==
    ASSUME Assumption, IInv, NEW n \in Nat, Store(n)
    PROVE  IInv'
  <1>c. /\ wpc \in {"push", "fill"} /\ n <= left /\ Len(items[pushHead]) + n <= N
        /\ n = 0 => wpc = "fill" /\ room = 0
        /\ sent' = sent + n /\ left' = left - n /\ wpc' = IF n = left THEN "idle" ELSE "rest"
    BY DEF Store
  <1>u. /\ nextPage' = nextPage /\ freed' = freed /\ pushHead' = pushHead /\ popHead' = popHead
        /\ allocated' = allocated /\ room' = room /\ rpc' = rpc /\ received' = received
        /\ dropped' = dropped /\ pageLost' = pageLost
    BY DEF Store
  <1>a. /\ N \in Nat /\ MaxSent \in Nat /\ sent \in Nat /\ dropped \in Nat /\ left \in Nat
        /\ left + sent + dropped <= MaxSent /\ popHead \in Nat /\ pushHead \in Nat /\ popHead <= pushHead
    BY Scalars
  <1>b. /\ items \in [Pages -> Seq(1 .. MaxSent)] /\ pushHead \in Pages /\ popHead \in Pages
        /\ items[pushHead] \in Seq(Nat) /\ Len(items[pushHead]) \in Nat
        /\ items[pushHead] = <<>> <=> Len(items[pushHead]) = 0
    BY PageSeqs
  <1> DEFINE old == items[pushHead]
             q == old \o Numbered(n)
  <1>1. Numbered(n) = Run(sent, n)
    BY DEF Numbered, Run
  <1>2. /\ q \in Seq(Nat) /\ Len(q) = Len(old) + n
        /\ \A k \in 1 .. Len(old) : q[k] = old[k]
        /\ \A k \in 1 .. Len(q) : k > Len(old) => q[k] = sent + (k - Len(old))
        /\ q = <<>> <=> Len(old) = 0 /\ n = 0
    <2>1. q = old \o Run(sent, n)
      BY <1>c, <1>u, <1>1
    <2> HIDE DEF q, old
    <2>2. old \in Seq(Nat)
      BY <1>b DEF old
    <2>3. sent \in Nat
      BY <1>a
    <2>4. Extends(q, old, sent, n)
      BY <2>1, <2>2, <2>3, Extended
    <2> QED
      BY <2>4 DEF Extends
  <1>3. items' = [items EXCEPT ![pushHead] = q]
    BY DEF Store
  <1>4. items'[pushHead] = q /\ \A p \in Pages : p # pushHead => items'[p] = items[p]
    BY <1>b, <1>3
  <1> HIDE DEF q
  <1>5. q \in Seq(1 .. MaxSent)
    <2>1. ASSUME NEW k \in 1 .. Len(q) PROVE q[k] \in 1 .. MaxSent
      <3>1. CASE k <= Len(old)
        <4>1. old \in Seq(1 .. MaxSent) /\ k \in 1 .. Len(old)
          BY <1>c, <1>u, <1>b, <3>1
        <4>2. old[k] \in 1 .. MaxSent
          BY <1>c, <1>u, <4>1, ElementOfSeq
        <4> QED
          BY <1>c, <1>u, <1>2, <4>1, <4>2
      <3>2. CASE k > Len(old)
        <4>1. q[k] = sent + (k - Len(old))
          BY <1>c, <1>u, <1>2, <3>2
        <4>2. k - Len(old) \in 1 .. n
          BY <1>c, <1>u, <1>b, <1>2, <3>2
        <4> QED
          BY <1>c, <1>u, <1>a, <4>1, <4>2
      <3> QED
        BY <1>c, <1>u, <1>b, <1>2, <3>1, <3>2
    <2> QED
      BY <1>c, <1>u, <1>a, <1>2, <2>1, Bounded
  <1>6. Typed'
    <2>1. items' \in [Pages -> Seq(1 .. MaxSent)]
      BY <1>c, <1>u, <1>b, <1>3, <1>5
    <2>2. sent' \in 0 .. MaxSent /\ left' \in 0 .. MaxSent
      BY <1>c, <1>u, <1>a
    <2> QED
      BY <1>c, <1>u, <2>1, <2>2 DEF IInv, Typed, TypeOK
  <1>7. \A p \in Pages : items[p] # <<>> => items'[p] # <<>>
    BY <1>c, <1>u, <1>b, <1>2, <1>4
  <1>8. PagesOK'
    <2>1. allocated' = pushHead' /\ ~Chained /\ ~Chained'
      BY <1>c, <1>u DEF IInv, PagesOK, Chained
    <2>2. \A p \in Pages : p > pushHead => items'[p] = <<>>
      BY <1>c, <1>u, <1>a, <1>b, <1>4, <2>1 DEF IInv, PagesOK
    <2>3. \A p \in popHead + 1 .. pushHead - 1 : items'[p] # <<>>
      <3>1. \A p \in popHead + 1 .. pushHead - 1 : p \in Pages
        BY <1>c, <1>u, <1>a, PageSeqs
      <3> QED
        BY <1>c, <1>u, <1>7, <3>1 DEF IInv, PagesOK
    <2> QED
      BY <1>c, <1>u, <2>1, <2>2, <2>3 DEF IInv, PagesOK, Chained
  <1>9. WriterOK'
    <2>1. \A p \in Pages : Len(items'[p]) <= N
      BY <1>c, <1>u, <1>2, <1>4, PageSeqs
    <2>2. left' + sent' + dropped' <= MaxSent
      BY <1>c, <1>u, <1>a
    <2>3. n # left => left' > 0
      BY <1>c, <1>u, <1>a
    <2> QED
      BY <1>c, <1>u, <2>1, <2>2, <2>3 DEF WriterOK
  <1>10. LeavesFull'
    <2>1. wpc' = "rest" /\ popHead # pushHead => items'[pushHead] # <<>>
      <3>1. CASE n = 0
        BY <1>c, <1>u, <1>7, <1>b, <3>1 DEF IInv, LeavesFull
      <3>2. CASE n # 0
        BY <1>c, <1>u, <1>2, <1>4, <3>2
      <3> QED
        BY <1>c, <1>u, <3>1, <3>2
    <2> QED
      BY <1>c, <1>u, <2>1 DEF LeavesFull
  <1>11. ReaderOK'
    <2>1. popHead # pushHead => items'[popHead] = items[popHead] /\ popHead + 1 \in Pages
      <3>1. popHead # pushHead => popHead + 1 \in popHead .. pushHead
        BY <1>c, <1>u, <1>a
      <3> QED
        BY <1>c, <1>u, <1>b, <1>4, <3>1, PageSeqs
    <2>2. Found => Found'
      BY <1>c, <1>u, <1>7, <1>b, <2>1 DEF Found
    <2>3. rpc = "topdrop" => items'[popHead] = <<>>
      BY <1>c, <1>u, <2>1 DEF IInv, ReaderOK, Found
    <2> QED
      BY <1>c, <1>u, <1>7, <1>b, <2>2, <2>3 DEF IInv, ReaderOK
  <1>12. InSequence'
    <2> SUFFICES ASSUME ~pageLost PROVE InSequence'
      BY <1>c, <1>u DEF InSequence
    <2>1. PICK base \in [Pages -> Nat] : Bases(base)
      BY <1>c, <1>u DEF IInv, InSequence
    <2>2. base[pushHead] \in Nat /\ base[pushHead] + Len(old) = sent
      BY <1>c, <1>u, <1>b, <2>1 DEF Bases
    <2>3. base[popHead] = received' /\ base[pushHead] + Len(items'[pushHead]) = sent'
      <3>1. base[popHead] = received'
        BY <1>c, <1>u, <2>1 DEF Bases
      <3>2. Len(items'[pushHead]) = Len(old) + n
        BY <1>c, <1>u, <1>2, <1>4
      <3> HIDE DEF old
      <3>3. Len(old) \in Nat
        BY <1>c, <1>u, <1>b DEF old
      <3>4. sent' = sent + n /\ pushHead' = pushHead
        BY <1>c, <1>u
      <3>5. base[pushHead] + (Len(old) + n) = sent + n
        BY <1>a, <2>2, <3>3
      <3> QED
        BY <3>1, <3>2, <3>4, <3>5
    <2>4. \A p \in popHead .. pushHead - 1 : base[p + 1] = base[p] + Len(items'[p])
      <3>1. \A p \in popHead .. pushHead - 1 : p # pushHead /\ p \in Pages
        BY <1>c, <1>u, <1>a, PageSeqs
      <3> QED
        BY <1>c, <1>u, <1>4, <2>1, <3>1 DEF Bases
    <2>5. ASSUME NEW p \in popHead .. pushHead, NEW k \in 1 .. Len(items'[p])
          PROVE  items'[p][k] = base[p] + k
      <3>1. CASE p # pushHead
        <4>1. items'[p] = items[p]
          BY <1>c, <1>u, <1>4, <3>1, PageSeqs
        <4> QED
          BY <1>c, <1>u, <2>1, <4>1 DEF Bases
      <3>2. CASE p = pushHead /\ k \in 1 .. Len(old)
        BY <1>c, <1>u, <1>2, <1>4, <2>1, <3>2 DEF Bases
      <3>3. CASE p = pushHead /\ k > Len(old)
        <4>1. q[k] = sent + (k - Len(old))
          BY <1>c, <1>u, <1>2, <1>4, <3>3
        <4>2. k \in Nat
          OBVIOUS
        <4> QED
          BY <1>c, <1>u, <1>b, <1>4, <2>2, <3>3, <4>1, <4>2
      <3> QED
        BY <1>c, <1>u, <1>b, <3>1, <3>2, <3>3
    <2>6. Bases(base)'
      BY <1>c, <1>u, <2>3, <2>4, <2>5 DEF Bases
    <2> QED
      BY <1>c, <1>u, <2>6 DEF InSequence
  <1> QED
    BY <1>6, <1>8, <1>9, <1>10, <1>11, <1>12 DEF IInv

LEMMA PushKeeps ==
    ASSUME Assumption, IInv, Push \/ FillPage
    PROVE  IInv'
  <1>1. CASE Push
    <2>1. left = 1 /\ Len(items[pushHead]) < N /\ wpc = "push"
      BY <1>1 DEF Push, IInv, WriterOK
    <2>2. N \in Nat /\ Len(items[pushHead]) \in Nat
      BY Scalars, PageSeqs
    <2>3. Len(items[pushHead]) + 1 <= N
      BY <2>1, <2>2
    <2>4. Store(1)
      BY <1>1, <2>1, <2>3 DEF Push, Store
    <2> QED
      BY <2>4, StoreKeeps
  <1>2. CASE FillPage
    <2>1. left > 0 /\ room <= left /\ Len(items[pushHead]) + room <= N /\ wpc = "fill"
      BY <1>2 DEF FillPage, IInv, WriterOK
    <2>2. room \in Nat
      BY Scalars
    <2>3. Store(room)
      BY <1>2, <2>1 DEF FillPage, Store
    <2> QED
      BY <2>2, <2>3, StoreKeeps
  <1> QED
    BY <1>1, <1>2

(* A page is chained, with m elements or none.                               *)
Chains(m) ==
    /\ \/ wpc = "chain" /\ wpc' = "advance" /\ m = 0 /\ items' = items
       \/ /\ wpc = "rest" /\ wpc' = "advancefilled" /\ m = Min({left, N})
          /\ items' = [items EXCEPT ![allocated + 1] = Numbered(m)]
    /\ allocated < MaxPages /\ allocated' = allocated + 1
    /\ nextPage' = [nextPage EXCEPT ![pushHead] = allocated + 1]
    /\ UNCHANGED <<freed, pushHead, popHead, left, room, rpc, sent, received, dropped, pageLost>>

LEMMA ChainsKeeps ==
    ASSUME Assumption, IInv, NEW m \in Nat, m <= left, m <= N, Chains(m)
    PROVE  IInv'
  <1>a. /\ N \in Nat /\ MaxSent \in Nat /\ MaxPages \in Nat /\ sent \in Nat /\ dropped \in Nat /\ left \in Nat
        /\ left + sent + dropped <= MaxSent /\ popHead \in Nat /\ pushHead \in Nat /\ popHead <= pushHead
        /\ popHead > 0 /\ allocated \in Nat
    BY Scalars
  <1>b. /\ items \in [Pages -> Seq(1 .. MaxSent)] /\ pushHead \in Pages /\ popHead \in Pages
        /\ \A p \in popHead .. pushHead : p \in Pages
        /\ \A p \in Pages : Len(items[p]) <= N
    BY PageSeqs
  <1>u. /\ freed' = freed /\ pushHead' = pushHead /\ popHead' = popHead /\ left' = left
        /\ room' = room /\ rpc' = rpc /\ sent' = sent /\ received' = received
        /\ dropped' = dropped /\ pageLost' = pageLost
    BY DEF Chains
  <1>c. /\ allocated = pushHead /\ allocated' = pushHead + 1 /\ pushHead + 1 \in Pages
        /\ nextPage' = [nextPage EXCEPT ![pushHead] = pushHead + 1]
        /\ \/ wpc = "chain" /\ wpc' = "advance"
           \/ wpc = "rest" /\ wpc' = "advancefilled" /\ m = Min({left, N})
    <2>1. wpc = "chain" \/ wpc = "rest"
      BY DEF Chains
    <2>2. allocated = pushHead
      BY <2>1 DEF IInv, PagesOK, Chained
    <2>3. allocated + 1 \in Pages
      BY <1>a DEF Chains, Pages
    <2> QED
      BY <2>2, <2>3 DEF Chains
  <1>1. \A p \in Pages : p > pushHead => items[p] = <<>>
    BY <1>c DEF IInv, PagesOK
  <1>2. Numbered(m) \in Seq(Nat) /\ Len(Numbered(m)) = m /\ \A k \in 1 .. m : Numbered(m)[k] = sent + k
    <2>1. Numbered(m) = Run(sent, m)
      BY DEF Numbered, Run
    <2>2. sent \in Nat
      BY <1>a
    <2>3. /\ Run(sent, m) \in Seq(Nat) /\ Len(Run(sent, m)) = m
          /\ \A k \in 1 .. m : Run(sent, m)[k] = sent + k
      BY <2>2, RunIsSeq
    <2> QED
      BY <2>1, <2>3
  <1>3. Numbered(m) \in Seq(1 .. MaxSent)
    <2>1. \A k \in 1 .. m : sent + k \in 1 .. MaxSent
      BY <1>a
    <2> QED
      BY <1>a, <1>2, <2>1, Bounded
  <1>4. /\ items' \in [Pages -> Seq(1 .. MaxSent)]
        /\ \A p \in Pages : p # pushHead + 1 => items'[p] = items[p]
        /\ items'[pushHead + 1] = IF wpc' = "advancefilled" THEN Numbered(m) ELSE <<>>
    <2>1. CASE wpc = "chain"
      BY <1>a, <1>b, <1>c, <1>1, <2>1 DEF Chains
    <2>2. CASE wpc = "rest"
      <3>1. items' = [items EXCEPT ![pushHead + 1] = Numbered(m)]
        BY <1>c, <2>2 DEF Chains
      <3> QED
        BY <1>b, <1>c, <1>3, <2>2, <3>1
    <2> QED
      BY <1>c, <2>1, <2>2
  <1>5. \A p \in popHead .. pushHead : p \in Pages /\ p # pushHead + 1 /\ items'[p] = items[p]
    BY <1>a, <1>b, <1>4
  <1>6. Typed'
    <2>1. nextPage' \in [Pages -> 0 .. MaxPages] /\ allocated' \in Pages
      BY <1>c DEF IInv, Typed, TypeOK, Pages
    <2> QED
      BY <1>u, <1>4, <2>1 DEF IInv, Typed, TypeOK
  <1>7. PagesOK'
    <2>1. allocated' = IF Chained' THEN pushHead' + 1 ELSE pushHead'
      BY <1>u, <1>c DEF Chained
    <2>2. ASSUME NEW p \in popHead .. pushHead
          PROVE  nextPage'[p] = p + 1
      <3>1. p # pushHead => p \in popHead .. allocated - 1 /\ nextPage'[p] = nextPage[p]
        BY <1>a, <1>b, <1>c DEF IInv, Typed, TypeOK
      <3> QED
        BY <1>b, <1>c, <3>1 DEF IInv, PagesOK, Typed, TypeOK
    <2>3. \A p \in Pages : p > pushHead' /\ (p # allocated' \/ wpc' # "advancefilled") => items'[p] = <<>>
      BY <1>u, <1>c, <1>1, <1>4
    <2>4. \A p \in popHead + 1 .. pushHead - 1 : items'[p] # <<>>
      BY <1>a, <1>5 DEF IInv, PagesOK
    <2>5. allocated' - 1 = pushHead
      BY <1>a, <1>c
    <2> QED
      BY <1>u, <2>1, <2>2, <2>3, <2>4, <2>5 DEF IInv, PagesOK
  <1>8. WriterOK'
    <2>1. \A p \in Pages : Len(items'[p]) <= N
      <3>1. Len(items'[pushHead + 1]) <= N
        <4>1. CASE wpc' = "advancefilled"
          BY <1>a, <1>2, <1>4, <4>1
        <4>2. CASE wpc' # "advancefilled"
          <5>1. items'[pushHead + 1] = <<>>
            BY <1>4, <4>2
          <5> QED
            BY <1>a, <5>1
        <4> QED
          BY <4>1, <4>2
      <3> QED
        BY <1>b, <1>4, <3>1
    <2>2. wpc' = "advancefilled" => left' > 0 /\ items'[allocated'] = Numbered(Min({left, N}))'
      BY <1>u, <1>c, <1>4 DEF IInv, WriterOK, Numbered
    <2>3. wpc' = "advance" => left' = 1
      BY <1>u, <1>c DEF IInv, WriterOK
    <2> QED
      BY <1>u, <1>c, <2>1, <2>2, <2>3 DEF IInv, WriterOK
  <1>9. LeavesFull'
    <2>1. items'[pushHead] = items[pushHead]
      BY <1>a, <1>5
    <2> QED
      BY <1>u, <1>c, <2>1 DEF IInv, LeavesFull
  <1>10. ReaderOK'
    <2>1. items'[popHead] = items[popHead] /\ (popHead # pushHead => items'[popHead + 1] = items[popHead + 1])
      <3>1. popHead \in popHead .. pushHead /\ (popHead # pushHead => popHead + 1 \in popHead .. pushHead)
        BY <1>a
      <3> QED
        BY <1>5, <3>1
    <2> QED
      BY <1>u, <2>1 DEF IInv, ReaderOK, Found
  <1>11. InSequence'
    <2> SUFFICES ASSUME ~pageLost PROVE InSequence'
      BY <1>u DEF InSequence
    <2>1. PICK base \in [Pages -> Nat] : Bases(base)
      BY DEF IInv, InSequence
    <2>2. pushHead \in popHead .. pushHead /\ \A p \in popHead .. pushHead - 1 : p \in popHead .. pushHead
      BY <1>a
    <2>3. base[popHead'] = received' /\ base[pushHead'] + Len(items'[pushHead']) = sent'
      BY <1>u, <1>5, <2>1, <2>2 DEF Bases
    <2>4. \A p \in popHead .. pushHead - 1 : base[p + 1] = base[p] + Len(items'[p])
      BY <1>5, <2>1, <2>2 DEF Bases
    <2>5. \A p \in popHead .. pushHead : \A k \in 1 .. Len(items'[p]) : items'[p][k] = base[p] + k
      BY <1>5, <2>1 DEF Bases
    <2>6. Bases(base)'
      BY <1>u, <2>3, <2>4, <2>5 DEF Bases
    <2> QED
      BY <2>6 DEF InSequence
  <1> QED
    BY <1>6, <1>7, <1>8, <1>9, <1>10, <1>11 DEF IInv

LEMMA ChainKeeps ==
    ASSUME Assumption, IInv, Chain \/ ChainFilled
    PROVE  IInv'
  <1>1. CASE Chain
    <2>1. 0 <= left /\ 0 <= N
      BY Scalars
    <2>2. Chains(0)
      BY <1>1 DEF Chain, Chains
    <2> QED
      BY <2>1, <2>2, ChainsKeeps
  <1>2. CASE ChainFilled
    <2>1. Min({left, N}) \in Nat /\ Min({left, N}) <= left /\ Min({left, N}) <= N
      BY Scalars, MinOfTwo DEF Least
    <2>2. Chains(Min({left, N}))
      BY <1>2 DEF ChainFilled, Chains
    <2> QED
      BY <2>1, <2>2, ChainsKeeps
  <1> QED
    BY <1>1, <1>2

(* The page chained becomes the last one, with its m elements.               *)
Advances(m) ==
    /\ \/ wpc = "advance" /\ wpc' = "idle" /\ m = 0 /\ dropped' = dropped + 1 /\ left' = 0
       \/ /\ wpc = "advancefilled" /\ m = Min({left, N}) /\ dropped' = dropped /\ left' = left - m
          /\ wpc' = IF left > N THEN "rest" ELSE "idle"
    /\ pushHead' = allocated /\ sent' = sent + m
    /\ UNCHANGED <<items, nextPage, freed, popHead, allocated, room, rpc, received, pageLost>>

LEMMA AdvancesKeeps ==
    ASSUME Assumption, IInv, NEW m \in Nat, Advances(m)
    PROVE  IInv'
  <1>a. /\ N \in Nat /\ N > 0 /\ MaxSent \in Nat /\ MaxPages \in Nat /\ sent \in Nat /\ dropped \in Nat
        /\ left \in Nat /\ left + sent + dropped <= MaxSent
        /\ popHead \in Nat /\ pushHead \in Nat /\ popHead <= pushHead /\ popHead > 0
    BY Scalars
  <1>b. /\ items \in [Pages -> Seq(1 .. MaxSent)] /\ pushHead \in Pages /\ popHead \in Pages
        /\ allocated \in Pages
        /\ \A p \in popHead .. pushHead : p \in Pages
        /\ \A p \in Pages : Len(items[p]) <= N
    BY PageSeqs
  <1>u. /\ items' = items /\ nextPage' = nextPage /\ freed' = freed /\ popHead' = popHead
        /\ allocated' = allocated /\ room' = room /\ rpc' = rpc /\ received' = received
        /\ pageLost' = pageLost /\ pushHead' = allocated /\ sent' = sent + m
    BY DEF Advances
  <1>1. allocated = pushHead + 1
    BY DEF Advances, IInv, PagesOK, Chained
  <1>2. /\ wpc \in {"advance", "advancefilled"} /\ m <= left /\ m <= N
        /\ left' \in Nat /\ left' + m + dropped' <= left + dropped /\ dropped' \in Nat
        /\ dropped' <= MaxSent
        /\ wpc' \in {"idle", "rest"} /\ (wpc' = "rest" => wpc = "advancefilled" /\ left' > 0 /\ m > 0)
    <2>1. CASE wpc = "advance"
      <3>1. left = 1
        BY <2>1 DEF IInv, WriterOK
      <3> QED
        BY <1>a, <2>1, <3>1 DEF Advances
    <2>2. CASE wpc = "advancefilled"
      <3>1. m = Least(left, N) /\ left > 0
        BY <1>a, <2>2, MinOfTwo DEF Advances, IInv, WriterOK
      <3>2. m <= left /\ m <= N /\ m > 0 /\ (left > N => left - m > 0)
        BY <1>a, <3>1 DEF Least
      <3>3. /\ dropped' = dropped /\ left' = left - m /\ wpc' = IF left > N THEN "rest" ELSE "idle"
        BY <2>2 DEF Advances
      <3> QED
        BY <1>a, <2>2, <3>2, <3>3
    <2> QED
      BY <2>1, <2>2 DEF Advances
  <1>m. /\ left' + sent' + dropped' <= MaxSent
        /\ sent' \in 0 .. MaxSent /\ left' \in 0 .. MaxSent /\ dropped' \in 0 .. MaxSent
    <2>1. /\ left' \in Nat /\ dropped' \in Nat /\ left' + m + dropped' <= left + dropped
          /\ sent' = sent + m
      BY <1>u, <1>2
    <2> QED
      BY <1>a, <2>1, Sums
  <1>3. /\ items[pushHead + 1] \in Seq(Nat) /\ Len(items[pushHead + 1]) = m
        /\ \A k \in 1 .. m : items[pushHead + 1][k] = sent + k
        /\ items[pushHead + 1] = <<>> <=> m = 0
    <2>1. items[pushHead + 1] = Run(sent, m)
      <3>1. CASE wpc = "advance"
        <4>1. items[pushHead + 1] = <<>> /\ m = 0
          BY <1>a, <1>b, <1>1, <3>1 DEF Advances, IInv, PagesOK
        <4>2. Run(sent, 0) = <<>>
          BY <1>a, RunIsSeq
        <4> QED
          BY <4>1, <4>2
      <3>2. CASE wpc = "advancefilled"
        BY <1>1, <3>2 DEF Advances, IInv, WriterOK, Numbered, Run
      <3> QED
        BY <1>2, <3>1, <3>2
    <2>2. sent \in Nat
      BY <1>a
    <2>3. /\ Run(sent, m) \in Seq(Nat) /\ Len(Run(sent, m)) = m
          /\ \A k \in 1 .. m : Run(sent, m)[k] = sent + k
          /\ Run(sent, m) = <<>> <=> m = 0
      BY <2>2, RunIsSeq
    <2> QED
      BY <2>1, <2>3
  <1>4. Typed'
    <2> QED
      BY <1>b, <1>u, <1>m DEF IInv, Typed, TypeOK
  <1>5. PagesOK'
    <2>1. ~Chained' /\ allocated' = pushHead' /\ popHead' <= pushHead'
      BY <1>a, <1>u, <1>1, <1>2 DEF Chained
    <2>2. \A p \in Pages : p > pushHead' => items'[p] = <<>>
      <3>1. \A p \in Pages : p > pushHead + 1 => p > pushHead /\ p # allocated
        BY <1>a, <1>1 DEF Pages
      <3> QED
        BY <1>u, <1>1, <3>1 DEF IInv, PagesOK
    <2>3. ASSUME NEW p \in popHead + 1 .. pushHead' - 1
          PROVE  items'[p] # <<>>
      <3>1. CASE p = pushHead
        <4>1. popHead # pushHead
          BY <1>a, <3>1
        <4> QED
          BY <1>u, <1>2, <3>1, <4>1 DEF IInv, LeavesFull
      <3>2. CASE p # pushHead
        <4>1. p \in popHead + 1 .. pushHead - 1
          BY <1>a, <1>u, <1>1, <3>2
        <4> QED
          BY <1>u, <4>1 DEF IInv, PagesOK
      <3> QED
        BY <3>1, <3>2
    <2> QED
      BY <1>u, <2>1, <2>2, <2>3 DEF IInv, PagesOK
  <1>6. WriterOK'
    <2>1. left' + sent' + dropped' <= MaxSent
      BY <1>m
    <2> QED
      BY <1>b, <1>u, <1>2, <2>1 DEF WriterOK
  <1>7. LeavesFull'
    BY <1>u, <1>1, <1>2, <1>3 DEF LeavesFull
  <1>8. ReaderOK'
    <2>1. popHead' # pushHead'
      BY <1>a, <1>u, <1>1
    <2> QED
      BY <1>u, <2>1 DEF IInv, ReaderOK, Found
  <1>9. InSequence'
    <2> SUFFICES ASSUME ~pageLost PROVE InSequence'
      BY <1>u DEF InSequence
    <2>1. PICK base \in [Pages -> Nat] : Bases(base)
      BY DEF IInv, InSequence
    <2>0. PICK next : next = [base EXCEPT ![pushHead + 1] = sent]
      OBVIOUS
    <2>2. /\ next \in [Pages -> Nat] /\ next[pushHead + 1] = sent
          /\ \A p \in popHead .. pushHead : next[p] = base[p] /\ p # pushHead + 1
      <3>1. \A p \in popHead .. pushHead : p # pushHead + 1
        BY <1>a
      <3> QED
        BY <1>a, <1>b, <1>1, <2>0, <3>1
    <2>3. next[popHead] = received' /\ next[pushHead'] + Len(items'[pushHead']) = sent'
      <3>1. popHead \in popHead .. pushHead
        BY <1>a
      <3>2. next[popHead] = received
        BY <2>1, <2>2, <3>1 DEF Bases
      <3> QED
        BY <1>u, <1>1, <1>3, <2>2, <3>2
    <2>4. ASSUME NEW p \in popHead .. pushHead' - 1
          PROVE  next[p + 1] = next[p] + Len(items'[p])
      <3>1. p \in popHead .. pushHead
        BY <1>a, <1>u, <1>1
      <3>2. CASE p = pushHead
        BY <1>u, <2>1, <2>2, <3>1, <3>2 DEF Bases
      <3>3. CASE p # pushHead
        <4>1. p \in popHead .. pushHead - 1 /\ p + 1 \in popHead .. pushHead
          BY <1>a, <3>1, <3>3
        <4>2. next[p + 1] = base[p + 1] /\ next[p] = base[p]
          BY <2>2, <3>1, <4>1
        <4> QED
          BY <1>u, <2>1, <4>1, <4>2 DEF Bases
      <3> QED
        BY <3>2, <3>3
    <2>5. ASSUME NEW p \in popHead .. pushHead', NEW k \in 1 .. Len(items'[p])
          PROVE  items'[p][k] = next[p] + k
      <3>1. CASE p = pushHead + 1
        BY <1>u, <1>3, <2>2, <3>1
      <3>2. CASE p # pushHead + 1
        <4>1. p \in popHead .. pushHead
          BY <1>a, <1>u, <1>1, <3>2
        <4>2. items'[p] = items[p] /\ next[p] = base[p]
          BY <1>u, <2>2, <4>1
        <4>3. k \in 1 .. Len(items[p]) /\ items[p][k] = base[p] + k
          BY <2>1, <4>1, <4>2 DEF Bases
        <4> QED
          BY <4>2, <4>3
      <3> QED
        BY <3>1, <3>2
    <2>6. Bases(next)'
      BY <1>u, <2>3, <2>4, <2>5 DEF Bases
    <2> QED
      BY <2>2, <2>6 DEF InSequence
  <1> QED
    BY <1>4, <1>5, <1>6, <1>7, <1>8, <1>9 DEF IInv

LEMMA AdvanceKeeps ==
    ASSUME Assumption, IInv, Advance \/ AdvanceFilled
    PROVE  IInv'
  <1>1. CASE Advance
    <2>1. Advances(0)
      <3>1. sent = sent + 0
        BY Scalars
      <3> QED
        BY <1>1, <3>1 DEF Advance, Advances
    <2> QED
      BY <2>1, AdvancesKeeps
  <1>2. CASE AdvanceFilled
    <2>1. Min({left, N}) \in Nat
      BY Scalars, MinOfTwo DEF Least
    <2>2. Advances(Min({left, N}))
      BY <1>2 DEF AdvanceFilled, Advances
    <2> QED
      BY <2>1, <2>2, AdvancesKeeps
  <1> QED
    BY <1>1, <1>2

-----------------------------------------------------------------------------
(* The reader                                                                *)

(* CleanupEmpty goes on to the next page, if there is one.                   *)
Drops(drop, done) ==
    /\ ReaderGoes(drop, done)
    /\ IF popHead # pushHead
       THEN /\ popHead' = nextPage[popHead] /\ freed' = freed \cup {popHead}
            /\ pageLost' = (pageLost \/ items[popHead] # <<>>)
       ELSE UNCHANGED <<popHead, freed, pageLost>>
    /\ UNCHANGED <<items, nextPage, pushHead, allocated, writer, sent, received, dropped>>

LEMMA DropKeeps ==
    ASSUME Assumption, IInv, Drops("topdrop", "pop") \/ Drops("popdrop", "empty")
    PROVE  IInv'
  <1>a. /\ popHead \in Nat /\ pushHead \in Nat /\ popHead <= pushHead /\ popHead > 0
        /\ allocated \in Nat /\ pushHead <= allocated /\ pageLost \in BOOLEAN
    BY Scalars
  <1>b. \A p \in popHead .. pushHead : p \in Pages
    BY PageSeqs
  <1>u. /\ items' = items /\ nextPage' = nextPage /\ pushHead' = pushHead /\ allocated' = allocated
        /\ wpc' = wpc /\ left' = left /\ room' = room /\ sent' = sent /\ received' = received
        /\ dropped' = dropped
    BY DEF Drops, writer
  <1>1. \/ rpc = "topdrop" /\ rpc' = "pop"
        \/ rpc = "popdrop" /\ rpc' = "empty"
    BY DEF Drops, ReaderGoes
  <1>2. /\ popHead # pushHead => /\ popHead' = popHead + 1 /\ freed' = freed \cup {popHead}
                                 /\ pageLost' = (pageLost \/ items[popHead] # <<>>)
        /\ popHead = pushHead => popHead' = popHead /\ freed' = freed /\ pageLost' = pageLost
    <2>1. popHead # pushHead => nextPage[popHead] = popHead + 1
      <3>1. popHead # pushHead => popHead \in popHead .. allocated - 1
        BY <1>a
      <3> QED
        BY <3>1 DEF IInv, PagesOK
    <2> QED
      BY <2>1 DEF Drops
  <1>h. PICK h : h = popHead'
    OBVIOUS
  <1>3. h \in Nat /\ h \in popHead .. pushHead /\ h <= pushHead /\ h >= popHead
    BY <1>a, <1>h, <1>2
  <1>4. Typed'
    <2>1. popHead' \in Pages /\ freed' \subseteq Pages
      BY <1>b, <1>h, <1>2, <1>3 DEF IInv, Typed, TypeOK
    <2>2. pageLost' \in BOOLEAN
      BY <1>a, <1>2
    <2> QED
      BY <1>u, <2>1, <2>2 DEF IInv, Typed, TypeOK
  <1>5. PagesOK'
    <2>1. \A p \in h .. allocated - 1 : p \in popHead .. allocated - 1
      BY <1>a, <1>3
    <2>2. \A p \in h + 1 .. pushHead - 1 : p \in popHead + 1 .. pushHead - 1
      BY <1>a, <1>3
    <2> QED
      BY <1>u, <1>h, <1>3, <2>1, <2>2 DEF IInv, PagesOK, Chained
  <1>6. WriterOK'
    BY <1>u DEF IInv, WriterOK, Numbered
  <1>7. LeavesFull'
    BY <1>u, <1>2 DEF IInv, LeavesFull
  <1>8. ReaderOK'
    <2>1. rpc = "topdrop" => items'[popHead'] # <<>>
      BY <1>u, <1>2 DEF IInv, ReaderOK, Found
    <2> QED
      BY <1>1, <2>1 DEF ReaderOK
  <1>9. InSequence'
    <2> SUFFICES ASSUME ~pageLost' PROVE InSequence'
      BY DEF InSequence
    <2>1. PICK base \in [Pages -> Nat] : Bases(base)
      <3>1. ~pageLost
        BY <1>a, <1>2
      <3> QED
        BY <3>1 DEF IInv, InSequence
    <2>2. base[popHead'] = received'
      <3>1. CASE popHead = pushHead
        BY <1>u, <1>2, <2>1, <3>1 DEF Bases
      <3>2. CASE popHead # pushHead
        <4>1. items[popHead] = <<>> /\ popHead' = popHead + 1
          BY <1>2, <3>2
        <4>2. popHead \in popHead .. pushHead - 1 /\ base[popHead] \in Nat
          BY <1>a, <1>b, <1>3, <3>2
        <4>3. base[popHead + 1] = base[popHead] + 0
          BY <2>1, <4>1, <4>2 DEF Bases
        <4> QED
          BY <1>u, <2>1, <4>1, <4>2, <4>3 DEF Bases
      <3> QED
        BY <3>1, <3>2
    <2>3. /\ \A p \in h .. pushHead - 1 : p \in popHead .. pushHead - 1
          /\ \A p \in h .. pushHead : p \in popHead .. pushHead
      BY <1>a, <1>3
    <2>4. Bases(base)'
      BY <1>u, <1>h, <2>1, <2>2, <2>3 DEF Bases
    <2> QED
      BY <2>4 DEF InSequence
  <1> QED
    BY <1>4, <1>5, <1>6, <1>7, <1>8, <1>9 DEF IInv

LEMMA PopKeeps ==
    ASSUME Assumption, IInv, Pop
    PROVE  IInv'
  <1>a. /\ popHead \in Nat /\ pushHead \in Nat /\ popHead <= pushHead /\ popHead > 0
        /\ MaxSent \in Nat /\ N \in Nat /\ allocated \in Nat /\ pushHead <= allocated
    BY Scalars
  <1>b. /\ items \in [Pages -> Seq(1 .. MaxSent)] /\ popHead \in Pages /\ pushHead \in Pages
        /\ \A p \in popHead .. pushHead : p \in Pages
        /\ \A p \in Pages : items[p] \in Seq(Nat) /\ Len(items[p]) \in Nat /\ Len(items[p]) <= N /\ p \in Nat
    BY PageSeqs
  <1>u. /\ nextPage' = nextPage /\ freed' = freed /\ pushHead' = pushHead /\ popHead' = popHead
        /\ allocated' = allocated /\ wpc' = wpc /\ left' = left /\ room' = room /\ sent' = sent
        /\ dropped' = dropped /\ pageLost' = pageLost
    BY DEF Pop, writer
  <1>1. rpc = "pop" /\ rpc' = "popped" /\ received' = Head(items[popHead])
    BY DEF Pop, ReaderGoes
  <1> DEFINE old == items[popHead]
             q == Tail(items[popHead])
  <1>2. items' = [items EXCEPT ![popHead] = q]
    BY DEF Pop
  <1>3. items'[popHead] = q /\ \A p \in Pages : p # popHead => items'[p] = items[p]
    BY <1>b, <1>2
  <1>4. old \in Seq(1 .. MaxSent) /\ old \in Seq(Nat) /\ Len(old) \in Nat /\ old # <<>>
    BY <1>b DEF Pop
  <1> HIDE DEF old
  <1>5. /\ q \in Seq(1 .. MaxSent) /\ Len(q) = Len(old) - 1 /\ Head(old) = old[1] /\ Len(old) > 0
        /\ \A k \in 1 .. Len(q) : q[k] = old[k + 1]
    <2>1. Tail(old) \in Seq(1 .. MaxSent) /\ Len(Tail(old)) = Len(old) - 1
          /\ \A k \in 1 .. Len(Tail(old)) : Tail(old)[k] = old[k + 1]
      BY <1>4, HeadTailProperties
    <2>2. Head(old) = old[1] /\ Len(old) > 0
      BY <1>4, EmptySeq
    <2> QED
      BY <2>1, <2>2 DEF old
  <1> HIDE DEF q
  <1>6. old = items[popHead] /\ received' = old[1] /\ old[1] \in 1 .. MaxSent
    <2>1. 1 \in 1 .. Len(old)
      BY <1>4, <1>5
    <2>2. old[1] \in 1 .. MaxSent
      BY <1>4, <2>1, ElementOfSeq
    <2> QED
      BY <1>1, <1>5, <2>2 DEF old
  <1>7. Typed'
    <2>1. items' \in [Pages -> Seq(1 .. MaxSent)]
      BY <1>b, <1>2, <1>5
    <2>2. received' \in 0 .. MaxSent
      BY <1>a, <1>6
    <2> QED
      BY <1>u, <2>1, <2>2 DEF IInv, Typed, TypeOK
  <1>8. PagesOK'
    <2>1. \A p \in Pages : p > pushHead => p # popHead
      BY <1>a
    <2>2. \A p \in popHead + 1 .. pushHead - 1 : p # popHead /\ p \in Pages
      <3>1. \A p \in popHead + 1 .. pushHead - 1 : p # popHead /\ p \in popHead .. pushHead
        BY <1>a
      <3> QED
        BY <1>b, <3>1
    <2> QED
      BY <1>u, <1>3, <2>1, <2>2 DEF IInv, PagesOK, Chained
  <1>9. WriterOK'
    <2>1. ASSUME NEW p \in Pages
          PROVE  Len(items'[p]) \in Nat /\ Len(items'[p]) <= Len(items[p])
      <3>1. CASE p = popHead
        <4>1. Len(items'[p]) = Len(items[p]) - 1
          BY <1>3, <1>5, <1>6, <3>1
        <4>2. Len(items[p]) \in Nat /\ Len(items[p]) > 0
          BY <1>4, <1>5, <1>6, <3>1
        <4> QED
          BY <4>1, <4>2
      <3>2. CASE p # popHead
        BY <1>b, <1>3, <3>2
      <3> QED
        BY <3>1, <3>2
    <2>2. ASSUME NEW p \in Pages
          PROVE  Len(items'[p]) <= N
      <3>1. /\ Len(items'[p]) \in Nat /\ Len(items'[p]) <= Len(items[p])
            /\ Len(items[p]) \in Nat /\ Len(items[p]) <= N
        BY <1>b, <2>1
      <3> QED
        BY <1>a, <3>1
    <2>p. /\ Len(items'[pushHead]) \in Nat /\ Len(items'[pushHead]) <= Len(items[pushHead])
          /\ Len(items[pushHead]) \in Nat /\ N \in Nat
      BY <1>a, <1>b, <2>1
    <2>3. wpc = "push" => Len(items'[pushHead]) < N
      <3>1. wpc = "push" => Len(items[pushHead]) < N
        BY DEF IInv, WriterOK
      <3> QED
        BY <2>p, <3>1
    <2>4. wpc = "fill" => Len(items'[pushHead]) + room <= N
      <3>1. wpc = "fill" => Len(items[pushHead]) + room <= N
        BY DEF IInv, WriterOK
      <3>2. room \in Nat
        BY Scalars
      <3> QED
        BY <2>p, <3>1, <3>2
    <2>5. wpc = "advancefilled" => items'[allocated] = items[allocated]
      <3>1. wpc = "advancefilled" => allocated # popHead /\ allocated \in Pages
        BY <1>a, PageSeqs DEF IInv, PagesOK, Chained
      <3> QED
        BY <1>3, <3>1
    <2> QED
      BY <1>u, <2>2, <2>3, <2>4, <2>5 DEF IInv, WriterOK, Numbered
  <1>10. LeavesFull'
    BY <1>b, <1>u, <1>3 DEF IInv, LeavesFull
  <1>11. ReaderOK'
    BY <1>1 DEF ReaderOK
  <1>12. InSequence'
    <2> SUFFICES ASSUME ~pageLost PROVE InSequence'
      BY <1>u DEF InSequence
    <2>1. PICK base \in [Pages -> Nat] : Bases(base)
      BY DEF IInv, InSequence
    <2>0. PICK next : next = [base EXCEPT ![popHead] = base[popHead] + 1]
      OBVIOUS
    <2>2. /\ next \in [Pages -> Nat] /\ next[popHead] = base[popHead] + 1 /\ base[popHead] \in Nat
          /\ \A p \in Pages : p # popHead => next[p] = base[p]
          /\ \A p \in Pages : base[p] \in Nat
      BY <1>b, <2>0
    <2>3. next[popHead] = received'
      <3>1. popHead \in popHead .. pushHead /\ 1 \in 1 .. Len(items[popHead])
        BY <1>a, <1>4, <1>5, <1>6
      <3> QED
        BY <1>6, <2>1, <2>2, <3>1 DEF Bases
    <2>4. ASSUME NEW p \in popHead .. pushHead
          PROVE  next[p] + Len(items'[p]) = base[p] + Len(items[p])
      <3>1. p \in Pages
        BY <1>b
      <3>2. CASE p = popHead
        <4>1. PICK l \in Nat : l = Len(items[p]) /\ Len(items'[p]) = l - 1
          BY <1>3, <1>4, <1>5, <1>6, <3>2
        <4>2. PICK b \in Nat : b = base[p] /\ next[p] = b + 1
          BY <2>2, <3>2
        <4>3. b + 1 + (l - 1) = b + l
          OBVIOUS
        <4> QED
          BY <4>1, <4>2, <4>3
      <3>3. CASE p # popHead
        BY <1>3, <2>2, <3>1, <3>3
      <3> QED
        BY <3>2, <3>3
    <2>5. next[pushHead] + Len(items'[pushHead]) = sent
      <3>1. pushHead \in popHead .. pushHead
        BY <1>a
      <3> QED
        BY <2>1, <2>4, <3>1 DEF Bases
    <2>6. ASSUME NEW p \in popHead .. pushHead - 1
          PROVE  next[p + 1] = next[p] + Len(items'[p])
      <3>1. p \in popHead .. pushHead /\ p + 1 \in popHead .. pushHead /\ p + 1 # popHead
        BY <1>a
      <3>2. next[p + 1] = base[p + 1]
        BY <1>b, <2>2, <3>1
      <3>3. next[p] + Len(items'[p]) = base[p] + Len(items[p])
        BY <2>4, <3>1
      <3> QED
        BY <2>1, <3>2, <3>3 DEF Bases
    <2>7. ASSUME NEW p \in popHead .. pushHead, NEW k \in 1 .. Len(items'[p])
          PROVE  items'[p][k] = next[p] + k
      <3>1. p \in Pages
        BY <1>b
      <3>2. CASE p = popHead
        <4>1. k \in 1 .. Len(q) /\ items'[p][k] = q[k]
          BY <1>3, <3>2
        <4>2. k + 1 \in 1 .. Len(items[popHead]) /\ q[k] = items[popHead][k + 1]
          <5>1. Len(old) \in Nat /\ Len(q) = Len(old) - 1
            BY <1>4, <1>5
          <5>2. k + 1 \in 1 .. Len(old)
            BY <4>1, <5>1
          <5> QED
            BY <1>5, <1>6, <4>1, <5>2
        <4>3. items[popHead][k + 1] = base[popHead] + (k + 1)
          BY <2>1, <3>2, <4>2 DEF Bases
        <4>4. k \in Nat
          OBVIOUS
        <4>5. base[popHead] \in Nat /\ next[popHead] = base[popHead] + 1
          BY <2>2
        <4>6. base[popHead] + (k + 1) = base[popHead] + 1 + k
          <5>1. PICK b \in Nat : b = base[popHead]
            BY <4>5
          <5>2. b + (k + 1) = b + 1 + k
            BY <4>4
          <5> QED
            BY <5>1, <5>2
        <4> QED
          BY <3>2, <4>1, <4>2, <4>3, <4>5, <4>6
      <3>3. CASE p # popHead
        <4>1. items'[p] = items[p] /\ next[p] = base[p]
          BY <1>3, <2>2, <3>1, <3>3
        <4> QED
          BY <2>1, <4>1 DEF Bases
      <3> QED
        BY <3>2, <3>3
    <2>8. Bases(next)'
      BY <1>u, <2>3, <2>5, <2>6, <2>7 DEF Bases
    <2> QED
      BY <2>2, <2>8 DEF InSequence
  <1> QED
    BY <1>7, <1>8, <1>9, <1>10, <1>11, <1>12 DEF IInv

-----------------------------------------------------------------------------
(* What Top finds                                                            *)

LEMMA InitInv ==
    ASSUME Assumption, Init
    PROVE  IInv
  <1>a. /\ MaxPages \in Nat /\ MaxPages > 0 /\ MaxSent \in Nat /\ N \in Nat /\ 1 \in Pages
    BY DEF Assumption, Pages
  <1>b. /\ items = [p \in Pages |-> <<>>] /\ nextPage = [p \in Pages |-> 0] /\ freed = {}
        /\ pushHead = 1 /\ popHead = 1 /\ allocated = 1 /\ wpc = "idle" /\ left = 0 /\ room = 0
        /\ rpc = "empty" /\ sent = 0 /\ received = 0 /\ dropped = 0 /\ pageLost = FALSE
    BY DEF Init
  <1>1. \A p \in Pages : items[p] = <<>> /\ Len(items[p]) = 0
    BY <1>b
  <1>2. Typed
    <2>1. <<>> \in Seq(1 .. MaxSent)
      OBVIOUS
    <2>2. items \in [Pages -> Seq(1 .. MaxSent)]
      BY <1>b, <2>1
    <2>3. nextPage \in [Pages -> 0 .. MaxPages]
      BY <1>a, <1>b
    <2>4. 0 \in 0 .. MaxSent /\ 0 \in 0 .. N
      BY <1>a
    <2>5. freed \subseteq Pages /\ pushHead \in Pages /\ popHead \in Pages /\ allocated \in Pages
      BY <1>a, <1>b
    <2>6. {sent, received, dropped, left} \subseteq 0 .. MaxSent /\ room \in 0 .. N
      BY <1>b, <2>4
    <2> QED
      BY <1>b, <2>2, <2>3, <2>5, <2>6 DEF Typed, TypeOK
  <1>3. PagesOK
    BY <1>b, <1>1 DEF PagesOK, Chained
  <1>4. WriterOK
    BY <1>a, <1>b, <1>1 DEF WriterOK
  <1>5. LeavesFull /\ ReaderOK
    BY <1>b DEF LeavesFull, ReaderOK
  <1>6. InSequence
    <2>1. PICK base : base = [p \in Pages |-> 0]
      OBVIOUS
    <2>2. base \in [Pages -> Nat] /\ base[1] = 0
      BY <1>a, <2>1
    <2>3. items[1] = <<>> /\ Len(items[1]) = 0
      BY <1>a, <1>1
    <2>4. Bases(base)
      BY <1>b, <2>2, <2>3 DEF Bases
    <2> QED
      BY <2>2, <2>4 DEF InSequence
  <1> QED
    BY <1>2, <1>3, <1>4, <1>5, <1>6 DEF IInv

LEMMA NextInv ==
    ASSUME Assumption, IInv, [Next]_vars
    PROVE  IInv'
  <1>1. CASE Writer
    BY <1>1, BeginKeeps, PushKeeps, ChainKeeps, AdvanceKeeps DEF Writer
  <1>2. CASE EmptyPage \/ EmptyMore \/ EmptyLast
    BY <1>2, TestKeeps DEF EmptyPage, EmptyMore, EmptyLast
  <1>3. CASE TopCleanup
    <2>1. \/ Drops("topdrop", "pop")
          \/ /\ ReaderGoes("top", IF items[popHead] = <<>> THEN "topdrop" ELSE "pop")
             /\ UNCHANGED <<shared, writer, sent, received, dropped, pageLost>>
      BY <1>3 DEF TopCleanup, Cleanup, Drops
    <2> QED
      BY <2>1, DropKeeps, TestKeeps
  <1>4. CASE Pop
    BY <1>4, PopKeeps
  <1>5. CASE PopCleanup
    <2>1. \/ Drops("popdrop", "empty")
          \/ /\ ReaderGoes("popped", IF items[popHead] = <<>> THEN "popdrop" ELSE "empty")
             /\ UNCHANGED <<shared, writer, sent, received, dropped, pageLost>>
      BY <1>5 DEF PopCleanup, Cleanup, Drops
    <2> QED
      BY <2>1, DropKeeps, TestKeeps
  <1>6. CASE UNCHANGED vars
    BY <1>6, StutterKeeps
  <1> QED
    BY <1>1, <1>2, <1>3, <1>4, <1>5, <1>6 DEF Next, Reader

(* The pages hang together, whatever the two sides do at the same time.      *)
THEOREM Invariance ==
    ASSUME Assumption
    PROVE  Spec => []IInv
  <1>1. Init => IInv
    BY InitInv
  <1>2. IInv /\ [Next]_vars => IInv'
    BY NextInv
  <1> QED
    BY <1>1, <1>2, PTL DEF Spec

(* When Top reads, the page has an element: the assertion of Top holds even  *)
(* when CleanupEmpty deletes a page that is not empty.                       *)
THEOREM TopFinds ==
    ASSUME Assumption
    PROVE  Spec => []TopAssertion
  <1>1. IInv => TopAssertion
    BY DEF IInv, Typed, ReaderOK, TopAssertion
  <1> QED
    BY <1>1, Invariance, PTL

-----------------------------------------------------------------------------
(* What is in the queue                                                      *)

(* A set of numbers has a smallest one.                                      *)
LEMMA Smallest ==
    ASSUME NEW T \in SUBSET Nat, T # {}
    PROVE  \E m \in T : \A k \in T : m <= k
  <1>1. \E m \in T : \A k \in T : ~(<<k, m>> \in OpToRel(<, Nat))
    BY NatLessThanWellFounded, WFMin, Zenon
  <1>2. PICK m \in T : \A k \in T : ~(k < m)
    BY <1>1, Zenon DEF OpToRel
  <1> QED
    BY <1>2

(* What FlattenSeq builds up: f[i] is made of the first i sequences.         *)
Flattens(f, seqs) == f = [i \in 1 .. Len(seqs) |-> IF i = 1 THEN seqs[i] ELSE f[i - 1] \o seqs[i]]

LEMMA OneFlattens ==
    ASSUME NEW seqs, Len(seqs) \in Nat, NEW f, Flattens(f, seqs), NEW g, Flattens(g, seqs)
    PROVE  g = f
  <1>1. PICK L \in Nat : L = Len(seqs)
    OBVIOUS
  <1>2. /\ \A i \in 1 .. L : f[i] = IF i = 1 THEN seqs[i] ELSE f[i - 1] \o seqs[i]
        /\ \A i \in 1 .. L : g[i] = IF i = 1 THEN seqs[i] ELSE g[i - 1] \o seqs[i]
        /\ DOMAIN f = 1 .. L /\ DOMAIN g = 1 .. L
        /\ f = [i \in 1 .. L |-> f[i]] /\ g = [i \in 1 .. L |-> g[i]]
    BY <1>1 DEF Flattens
  <1>3. \A i \in 1 .. L : f[i] = g[i]
    <2> SUFFICES ASSUME \E i \in 1 .. L : f[i] # g[i] PROVE FALSE
      OBVIOUS
    <2> DEFINE T == {i \in 1 .. L : f[i] # g[i]}
    <2>1. T \in SUBSET Nat /\ T # {}
      OBVIOUS
    <2> HIDE DEF T
    <2>2. PICK m \in T : \A k \in T : m <= k
      BY <2>1, Smallest
    <2>3. m \in 1 .. L /\ f[m] # g[m]
      BY <2>2 DEF T
    <2>4. m # 1
      BY <1>2, <2>3
    <2>5. m - 1 \in 1 .. L /\ ~(m <= m - 1)
      BY <2>3, <2>4
    <2>6. f[m - 1] = g[m - 1]
      BY <2>2, <2>5 DEF T
    <2>7. f[m] = f[m - 1] \o seqs[m] /\ g[m] = g[m - 1] \o seqs[m]
      BY <1>2, <2>3, <2>4
    <2> QED
      BY <2>3, <2>6, <2>7
  <1> QED
    BY <1>2, <1>3

LEMMA FlattenIs ==
    ASSUME NEW seqs, Len(seqs) \in Nat, Len(seqs) # 0, NEW f, Flattens(f, seqs)
    PROVE  FlattenSeq(seqs) = f[Len(seqs)]
  <1>1. \A g : Flattens(g, seqs) => g = f
    BY OneFlattens
  <1>2. (CHOOSE g : Flattens(g, seqs)) = f
    BY <1>1, Zenon
  <1>3. FlattenSeq(seqs) = (CHOOSE g : Flattens(g, seqs))[Len(seqs)]
    BY Zenon DEF FlattenSeq, Flattens
  <1> QED
    BY <1>2, <1>3, Zenon

(* Runs, each of which goes on where the one before it ends, are one run.    *)
Continues(seqs, L, s, n) ==
    /\ Len(seqs) = L /\ L > 0 /\ s \in [1 .. L -> Nat] /\ n \in [1 .. L -> Nat]
    /\ \A i \in 1 .. L : seqs[i] = Run(s[i], n[i])
    /\ \A i \in 1 .. L - 1 : s[i + 1] = s[i] + n[i]

LEMMA Rises ==
    ASSUME NEW seqs, NEW L \in Nat, NEW s, NEW n, Continues(seqs, L, s, n)
    PROVE  \A i \in 1 .. L : s[1] <= s[i]
  <1>0. L > 0 /\ (\A i \in 1 .. L : s[i] \in Nat /\ n[i] \in Nat) /\ \A i \in 1 .. L - 1 : s[i + 1] = s[i] + n[i]
    BY DEF Continues
  <1> SUFFICES ASSUME \E i \in 1 .. L : ~(s[1] <= s[i]) PROVE FALSE
    OBVIOUS
  <1> DEFINE T == {i \in 1 .. L : ~(s[1] <= s[i])}
  <1>1. T \in SUBSET Nat /\ T # {}
    OBVIOUS
  <1> HIDE DEF T
  <1>2. PICK m \in T : \A k \in T : m <= k
    BY <1>1, Smallest
  <1>3. m \in 1 .. L /\ ~(s[1] <= s[m])
    BY <1>2 DEF T
  <1>4. m # 1
    BY <1>0, <1>3
  <1>5. m - 1 \in 1 .. L - 1 /\ m - 1 \in 1 .. L /\ ~(m <= m - 1) /\ m - 1 + 1 = m
    BY <1>3, <1>4
  <1>6. s[1] <= s[m - 1]
    BY <1>2, <1>5 DEF T
  <1>7. s[m] = s[m - 1] + n[m - 1]
    BY <1>0, <1>5
  <1>8. s[1] \in Nat /\ s[m - 1] \in Nat /\ n[m - 1] \in Nat
    BY <1>0, <1>5
  <1> QED
    BY <1>3, <1>6, <1>7, <1>8

LEMMA RunsFlatten ==
    ASSUME NEW seqs, NEW L \in Nat, NEW s, NEW n, Continues(seqs, L, s, n)
    PROVE  FlattenSeq(seqs) = Run(s[1], s[L] + n[L] - s[1]) /\ s[1] <= s[L]
  <1>0. /\ Len(seqs) = L /\ L > 0 /\ \A i \in 1 .. L : s[i] \in Nat /\ n[i] \in Nat
        /\ \A i \in 1 .. L : seqs[i] = Run(s[i], n[i])
        /\ \A i \in 1 .. L - 1 : s[i + 1] = s[i] + n[i]
    BY DEF Continues
  <1>1. PICK f : f = [i \in 1 .. L |-> Run(s[1], s[i] + n[i] - s[1])]
    OBVIOUS
  <1>2. \A i \in 1 .. L : f[i] = Run(s[1], s[i] + n[i] - s[1])
    BY <1>1
  <1>3. ASSUME NEW i \in 1 .. L
        PROVE  f[i] = IF i = 1 THEN seqs[i] ELSE f[i - 1] \o seqs[i]
    <2>1. CASE i = 1
      <3>1. s[1] + n[1] - s[1] = n[1]
        BY <1>0
      <3> QED
        BY <1>0, <1>2, <2>1, <3>1
    <2>2. CASE i # 1
      <3>1. i - 1 \in 1 .. L - 1 /\ i - 1 \in 1 .. L /\ i - 1 + 1 = i /\ 1 \in 1 .. L
        BY <2>2
      <3>2. s[i] = s[i - 1] + n[i - 1]
        BY <1>0, <3>1
      <3>3. f[i - 1] = Run(s[1], s[i] - s[1])
        <4>1. f[i - 1] = Run(s[1], s[i - 1] + n[i - 1] - s[1])
          BY <1>2, <3>1
        <4>2. PICK b \in Nat, c \in Nat, d \in Nat : b = s[i - 1] /\ c = n[i - 1] /\ d = s[1] /\ s[i] = b + c
          BY <1>0, <3>1, <3>2
        <4> QED
          BY <4>1, <4>2
      <3>4. PICK a \in Nat, m \in Nat, k \in Nat :
              a = s[1] /\ s[i] = a + m /\ m = s[i] - s[1] /\ k = n[i] /\ m + k = s[i] + n[i] - s[1]
        <4>1. s[1] \in Nat /\ s[i] \in Nat /\ n[i] \in Nat /\ s[1] <= s[i]
          BY <1>0, <3>1, Rises
        <4>2. s[i] - s[1] \in Nat /\ s[i] = s[1] + (s[i] - s[1])
              /\ (s[i] - s[1]) + n[i] = s[i] + n[i] - s[1]
          BY <4>1
        <4> QED
          BY <4>1, <4>2
      <3>5. Run(a, m) \o Run(a + m, k) = Run(a, m + k)
        BY RunsJoin
      <3>6. seqs[i] = Run(s[i], n[i]) /\ f[i] = Run(s[1], s[i] + n[i] - s[1])
        BY <1>0, <1>2
      <3> QED
        BY <2>2, <3>3, <3>4, <3>5, <3>6
    <2> QED
      BY <2>1, <2>2
  <1>4. Flattens(f, seqs)
    <2>1. f = [i \in 1 .. L |-> f[i]]
      BY <1>1
    <2>2. [i \in 1 .. L |-> f[i]] = [i \in 1 .. L |-> IF i = 1 THEN seqs[i] ELSE f[i - 1] \o seqs[i]]
      BY <1>3
    <2> QED
      BY <1>0, <2>1, <2>2, Zenon DEF Flattens
  <1>5. FlattenSeq(seqs) = f[L]
    BY <1>0, <1>4, FlattenIs
  <1>6. L \in 1 .. L
    BY <1>0
  <1> QED
    BY <1>2, <1>5, <1>6, Rises

(* The queue holds what was stored and not popped yet, in order.             *)
InOrder == pageLost \/ (received <= sent /\ Contents = Run(received, sent - received))

LEMMA OrderKept ==
    ASSUME Assumption, IInv
    PROVE  InOrder
  <1> SUFFICES ASSUME ~pageLost
               PROVE  received <= sent /\ Contents = Run(received, sent - received)
    BY DEF InOrder
  <1>a. /\ popHead \in Nat /\ pushHead \in Nat /\ popHead <= pushHead
        /\ sent \in Nat /\ received \in Nat
    BY Scalars
  <1>b. /\ \A p \in popHead .. pushHead : p \in Pages
        /\ \A p \in Pages : items[p] \in Seq(Nat) /\ Len(items[p]) \in Nat
    BY PageSeqs
  <1>1. PICK base \in [Pages -> Nat] : Bases(base)
    BY DEF IInv, InSequence
  <1>2. PICK L \in Nat : L = pushHead - popHead + 1 /\ L > 0 /\ popHead + L - 1 = pushHead
    BY <1>a
  <1>3. PICK seqs, s, n :
          /\ seqs = [i \in 1 .. L |-> items[popHead + i - 1]]
          /\ s = [i \in 1 .. L |-> base[popHead + i - 1]]
          /\ n = [i \in 1 .. L |-> Len(items[popHead + i - 1])]
    OBVIOUS
  <1>4. \A i \in 1 .. L : popHead + i - 1 \in popHead .. pushHead /\ popHead + i - 1 \in Pages
    <2>1. \A i \in 1 .. L : popHead + i - 1 \in popHead .. pushHead
      BY <1>a, <1>2
    <2> QED
      BY <1>b, <2>1
  <1>5. Continues(seqs, L, s, n)
    <2>1. s \in [1 .. L -> Nat] /\ n \in [1 .. L -> Nat]
      BY <1>b, <1>3, <1>4
    <2>2. Len(seqs) = L
      BY <1>3, SMT
    <2>3. ASSUME NEW i \in 1 .. L
          PROVE  seqs[i] = Run(s[i], n[i])
      <3>1. PICK p \in Pages : p = popHead + i - 1 /\ p \in popHead .. pushHead
        BY <1>4
      <3>2. seqs[i] = items[p] /\ s[i] = base[p] /\ n[i] = Len(items[p])
        BY <1>3, <3>1
      <3>3. \A k \in 1 .. Len(items[p]) : items[p][k] = base[p] + k
        BY <1>1, <3>1 DEF Bases
      <3>4. items[p] \in Seq(Nat) /\ base[p] \in Nat
        BY <1>b
      <3>5. items[p] = Run(base[p], Len(items[p]))
        BY <3>3, <3>4, IsRun
      <3> QED
        BY <3>2, <3>5
    <2>4. ASSUME NEW i \in 1 .. L - 1
          PROVE  s[i + 1] = s[i] + n[i]
      <3>1. i \in 1 .. L /\ i + 1 \in 1 .. L
        BY <1>2
      <3>2. PICK p : p = popHead + i - 1 /\ p \in popHead .. pushHead - 1 /\ popHead + (i + 1) - 1 = p + 1
        BY <1>a, <1>2
      <3>3. s[i + 1] = base[p + 1] /\ s[i] = base[p] /\ n[i] = Len(items[p])
        BY <1>3, <3>1, <3>2
      <3> QED
        BY <1>1, <3>2, <3>3 DEF Bases
    <2> QED
      BY <1>2, <2>1, <2>2, <2>3, <2>4 DEF Continues
  <1>6. FlattenSeq(seqs) = Run(s[1], s[L] + n[L] - s[1]) /\ s[1] <= s[L]
    BY <1>5, RunsFlatten
  <1>7. s[1] = received /\ s[L] + n[L] = sent /\ n[L] \in Nat /\ s[L] \in Nat
    <2>1. 1 \in 1 .. L /\ L \in 1 .. L /\ popHead + 1 - 1 = popHead
      BY <1>a, <1>2
    <2>2. s[1] = base[popHead] /\ s[L] = base[pushHead] /\ n[L] = Len(items[pushHead])
      BY <1>2, <1>3, <2>1
    <2>3. pushHead \in Pages
      BY PageSeqs
    <2> QED
      BY <1>1, <1>b, <2>2, <2>3 DEF Bases
  <1>8. received <= sent
    <2>1. received <= s[L] /\ s[L] <= s[L] + n[L]
      BY <1>6, <1>7
    <2> QED
      BY <1>a, <1>7, <2>1
  <1>9. Contents = FlattenSeq(seqs)
    BY <1>2, <1>3 DEF Contents
  <1>10. Run(s[1], s[L] + n[L] - s[1]) = Run(received, sent - received)
    <2>1. PICK b \in Nat, c \in Nat, d \in Nat : b = s[L] /\ c = n[L] /\ d = received /\ sent = b + c
      BY <1>a, <1>7
    <2> QED
      BY <1>7, <2>1
  <1> QED
    BY <1>6, <1>8, <1>9, <1>10

(* Nothing that has been stored is lost, doubled or overtaken in the pages,  *)
(* as long as CleanupEmpty deletes none with elements (see Cleanup).         *)
THEOREM Ordered ==
    ASSUME Assumption
    PROVE  Spec => []InOrder
  <1>1. IInv => InOrder
    BY OrderKept
  <1> QED
    BY <1>1, Invariance, PTL

-----------------------------------------------------------------------------
(* The list is a channel                                                     *)

LEMMA InitAbstract ==
    ASSUME Assumption, Init
    PROVE  Abstract!Init
  <1>1. IInv /\ ~pageLost /\ sent = 0 /\ received = 0
    BY InitInv DEF Init
  <1>2. Contents = Run(0, 0)
    BY <1>1, OrderKept DEF InOrder
  <1>3. Run(0, 0) = <<>>
    BY RunIsSeq
  <1> QED
    BY <1>1, <1>2, <1>3 DEF Abstract!Init

(* A step that stores n elements.                                            *)
LEMMA SendsNext ==
    ASSUME InOrder, InOrder', ~pageLost', ~pageLost, sent \in Nat, received \in Nat, N \in Nat,
           NEW n \in Nat, n <= N, sent' = sent + n, received' = received
    PROVE  Abstract!Next \/ UNCHANGED (Abstract!vars)
  <1>1. /\ Contents = Run(received, sent - received) /\ Contents' = Run(received, sent + n - received)
        /\ received <= sent
    BY DEF InOrder
  <1>2. PICK r \in Nat, m \in Nat : r = received /\ sent = r + m /\ sent - received = m /\ sent + n - received = m + n
    BY <1>1
  <1>3. Run(r, m) \o Run(r + m, n) = Run(r, m + n)
    BY RunsJoin
  <1>4. Contents' = Contents \o Run(sent, n)
    BY <1>1, <1>2, <1>3
  <1>5. CASE n = 0
    BY <1>1, <1>5 DEF Abstract!vars
  <1>6. CASE n # 0
    <2>1. n \in 1 .. N
      BY <1>6
    <2>2. Abstract!Send(n)
      BY <1>4 DEF Abstract!Send, Run
    <2> QED
      BY <2>1, <2>2 DEF Abstract!Next
  <1> QED
    BY <1>5, <1>6

(* A pop.                                                                    *)
LEMMA PopReceives ==
    ASSUME Assumption, IInv, InOrder, InOrder', ~pageLost, ~pageLost', Pop
    PROVE  Abstract!Next
  <1>a. sent \in Nat /\ received \in Nat /\ popHead \in Nat /\ pushHead \in Nat /\ popHead <= pushHead
    BY Scalars
  <1>1. received' = received + 1
    <2>1. PICK base \in [Pages -> Nat] : Bases(base)
      BY DEF IInv, InSequence
    <2>2. items[popHead] \in Seq(Nat) /\ items[popHead] # <<>> /\ received' = Head(items[popHead])
      BY PageSeqs DEF Pop
    <2>3. 1 \in 1 .. Len(items[popHead]) /\ Head(items[popHead]) = items[popHead][1]
      BY <2>2, EmptySeq, LenProperties
    <2>4. popHead \in popHead .. pushHead
      BY <1>a
    <2> QED
      BY <2>1, <2>2, <2>3, <2>4 DEF Bases
  <1>2. sent' = sent
    BY DEF Pop
  <1>3. /\ Contents = Run(received, sent - received) /\ received + 1 <= sent
        /\ Contents' = Run(received + 1, sent - (received + 1))
    BY <1>1, <1>2 DEF InOrder
  <1>4. PICK r \in Nat, m \in Nat : r = received /\ m = sent - received /\ m > 0 /\ sent - (received + 1) = m - 1
    BY <1>a, <1>3
  <1>5. Head(Run(r, m)) = r + 1 /\ Tail(Run(r, m)) = Run(r + 1, m - 1) /\ Run(r, m) # <<>>
    <2>1. Run(r, m) # <<>>
      BY <1>4, RunIsSeq
    <2> QED
      BY <1>4, <2>1, RunTail
  <1>6. Abstract!Receive
    BY <1>1, <1>2, <1>3, <1>4, <1>5 DEF Abstract!Receive
  <1> QED
    BY <1>6 DEF Abstract!Next

LEMMA StepImplements ==
    ASSUME Assumption, IInv, InOrder, InOrder', [Next]_vars
    PROVE  Abstract!Next \/ pageLost' \/ UNCHANGED (Abstract!vars)
  <1> SUFFICES ASSUME ~pageLost' PROVE Abstract!Next \/ UNCHANGED (Abstract!vars)
    OBVIOUS
  <1>a. sent \in Nat /\ received \in Nat /\ N \in Nat /\ left \in Nat /\ room \in Nat /\ room <= N /\ N > 0
    BY Scalars
  <1>b. 0 \in Nat /\ 0 <= N /\ 1 \in Nat /\ 1 <= N /\ sent = sent + 0
    BY <1>a
  <1>m. Min({left, N}) \in Nat /\ Min({left, N}) <= N
    BY <1>a, MinOfTwo DEF Least
  <1>1. CASE Pop
    <2>1. pageLost' = pageLost
      BY <1>1 DEF Pop
    <2> QED
      BY <1>1, <2>1, PopReceives
  <1>2. CASE ~Pop
    <2>1. received' = received /\ (pageLost' = pageLost \/ pageLost' = (pageLost \/ items[popHead] # <<>>))
          /\ \/ sent' = sent
             \/ sent' = sent + 1
             \/ sent' = sent + room
             \/ sent' = sent + Min({left, N})
      BY <1>2 DEF Next, Writer, Reader, BeginPush, Push, Chain, Advance, BeginRange, FillPage, ChainFilled,
           AdvanceFilled, EmptyPage, EmptyMore, EmptyLast, TopCleanup, PopCleanup, Cleanup, vars
    <2>2. ~pageLost
      BY <2>1
    <2>3. \E n \in Nat : n <= N /\ sent' = sent + n
      BY <1>a, <1>b, <1>m, <2>1
    <2> QED
      BY <1>a, <2>1, <2>2, <2>3, SendsNext
  <1> QED
    BY <1>1, <1>2

(* What is popped is what was stored, once and in order, as long as no page  *)
(* is deleted that is not empty: the list implements the channel.            *)
THEOREM Implements ==
    ASSUME Assumption
    PROVE  Spec => ImplementsChannel
  <1>1. Init => Abstract!Init
    BY InitAbstract
  <1>2. IInv => InOrder
    BY OrderKept
  <1>3. IInv /\ InOrder /\ InOrder' /\ [Next]_vars => [Abstract!Next \/ pageLost']_(Abstract!vars)
    BY StepImplements
  <1> QED
    BY <1>1, <1>2, <1>3, Invariance, PTL DEF Spec, ImplementsChannel

-----------------------------------------------------------------------------
(* What the channel promises                                                 *)

ChannelInv ==
    /\ sent \in Nat /\ received \in Nat /\ received <= sent
    /\ Contents = Run(received, sent - received)

(* A step of the channel that sends n elements puts the next ones behind.    *)
LEMMA ChannelSends ==
    ASSUME ChannelInv, NEW n \in Nat, Abstract!Send(n)
    PROVE  ChannelInv'
  <1>1. PICK r \in Nat, m \in Nat : r = received /\ m = sent - received /\ sent = r + m
    BY DEF ChannelInv
  <1>2. Contents' = Run(r, m) \o Run(r + m, n) /\ sent' = r + m + n /\ received' = r
    BY <1>1 DEF ChannelInv, Abstract!Send, Run
  <1>3. Contents' = Run(r, m + n)
    BY <1>1, <1>2, RunsJoin
  <1> QED
    BY <1>1, <1>2, <1>3 DEF ChannelInv

(* A step of the channel that receives takes the oldest.                     *)
LEMMA ChannelReceives ==
    ASSUME ChannelInv, Abstract!Receive
    PROVE  ChannelInv'
  <1>1. PICK r \in Nat, m \in Nat : r = received /\ m = sent - received /\ sent = r + m
    BY DEF ChannelInv
  <1>2. Contents = Run(r, m) /\ Contents # <<>>
    BY <1>1 DEF ChannelInv, Abstract!Receive
  <1>3. m > 0
    BY <1>1, <1>2, RunIsSeq
  <1>4. Head(Run(r, m)) = r + 1 /\ Tail(Run(r, m)) = Run(r + 1, m - 1)
    BY <1>1, <1>3, RunTail
  <1>5. received' = r + 1 /\ sent' = r + m /\ Contents' = Run(r + 1, m - 1)
    BY <1>1, <1>2, <1>4 DEF Abstract!Receive
  <1> QED
    BY <1>1, <1>3, <1>5 DEF ChannelInv

(* What behaves as the channel, a queue for one writer and one reader, holds *)
(* what has been pushed and not been popped, in order ("One to one queue,    *)
(* kfifo", TQueue.h, line 2).                                                *)
THEOREM ChannelOrdered ==
    ASSUME N \in Nat
    PROVE  Abstract!Spec => []Abstract!InOrder
  <1>1. Abstract!Init => ChannelInv
    <2> SUFFICES ASSUME Abstract!Init PROVE ChannelInv
      OBVIOUS
    <2>1. Contents = <<>> /\ sent = 0 /\ received = 0
      BY DEF Abstract!Init
    <2>2. Run(0, 0) = <<>>
      BY RunIsSeq
    <2> QED
      BY <2>1, <2>2 DEF ChannelInv
  <1>2. ChannelInv /\ [Abstract!Next]_(Abstract!vars) => ChannelInv'
    <2> SUFFICES ASSUME ChannelInv, [Abstract!Next]_(Abstract!vars) PROVE ChannelInv'
      OBVIOUS
    <2>1. CASE Abstract!Receive
      BY <2>1, ChannelReceives
    <2>2. ASSUME NEW n \in 1 .. N, Abstract!Send(n) PROVE ChannelInv'
      BY <2>2, ChannelSends
    <2>3. CASE UNCHANGED (Abstract!vars)
      BY <2>3 DEF Abstract!vars, ChannelInv
    <2> QED
      BY <2>1, <2>2, <2>3 DEF Abstract!Next
  <1>3. ChannelInv => Abstract!InOrder
    <2> SUFFICES ASSUME ChannelInv PROVE Abstract!InOrder
      OBVIOUS
    <2>1. PICK r \in Nat, m \in Nat : r = received /\ m = sent - received
      BY DEF ChannelInv
    <2>2. Contents = Run(r, m) /\ Len(Run(r, m)) = m /\ \A k \in 1 .. m : Run(r, m)[k] = r + k
      BY <2>1, RunIsSeq DEF ChannelInv
    <2> QED
      BY <2>1, <2>2 DEF Abstract!InOrder
  <1> QED
    BY <1>1, <1>2, <1>3, PTL DEF Abstract!Spec

=============================================================================
