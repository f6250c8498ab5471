------------------------------- MODULE MCTaskStack -------------------------------
(* Callers push tasks of one or two sizes, workers destroy them. *)
EXTENDS TaskStack

CONSTANTS c1, c2, w1, w2

TwoCallers == {c1, c2}

OneWorker == {w1}

TwoWorkers == {w1, w2}

MCAddresses == 1..3

\* What comes after an ABA is not explored: the properties say nothing of it.
NoABA == ~aba
===============================================================================
