---------------------------- MODULE MCThreadPool ----------------------------
(* Finite instances of ThreadPool for TLC. *)
EXTENDS ThreadPool, TLC

CONSTANTS w1, w2, main, c1, x1, x2, x3

OneWorker == {w1}
TwoWorkers == {w1, w2}
MainAndClient == {main, c1}
OneClient == {c1}
Nobody == {}
OneTask == {x1}
TwoTasks == {x1, x2}
ThreeTasks == {x1, x2, x3}
Normal == {0}
TopAndLast == {0, -1}
Symmetric == Permutations(Workers) \cup Permutations(Tasks)
=============================================================================
