------------------------------ MODULE MCTinyPool ------------------------------
(* Two workers, two callers that share the pool and three task slots: the     *)
(* smallest pool in which tasks queue, a worker overtakes another and two     *)
(* callers sleep in wait at once.                                             *)
EXTENDS TinyPool

CONSTANTS w1, w2, c1, c2, t1, t2, t3

MCWorkers == {w1, w2}
MCCallers == {c1, c2}
MCTasks == {t1, t2, t3}
===============================================================================
