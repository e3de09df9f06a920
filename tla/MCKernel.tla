------------------------------ MODULE MCKernel ------------------------------
(* Finite instances of Kernel for TLC. *)
EXTENDS Kernel

CONSTANTS t1, t2, a, b, x1, x2, x3, x4

TwoThreads == {t1, t2}
TwoRings == <<t1, t2>>
OneThread == {t1}
OneRing == <<t1>>
TwoWarps == {a, b}
TwoTasks == {x1, x2}
ThreeTasks == {x1, x2, x3}
FourTasks == {x1, x2, x3, x4}

(* All in one warp; x3, x1, or x1 and x3 in the other one. *)
AllTogether == {[x \in Tasks |-> a]}
LastApart == {[x \in Tasks |-> IF x = x3 THEN b ELSE a]}
FirstApart == {[x \in Tasks |-> IF x = x1 THEN b ELSE a]}
OddApart == {[x \in Tasks |-> IF x \in {x1, x3} THEN b ELSE a]}
TogetherOrApart == AllTogether \cup FirstApart

WaitForNone == [x \in Tasks |-> {}]
WaitCrosswise == [x \in Tasks |-> IF x = x1 THEN {x4} ELSE IF x = x2 THEN {x3} ELSE {}]
WaitForOther == [x \in Tasks |-> IF x = x1 THEN {x3} ELSE {}]
=============================================================================
