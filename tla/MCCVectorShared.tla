---------------------------- MODULE MCCVectorShared ----------------------------
(* Two threads go through three buckets in opposite orders, or share some of them. *)
EXTENDS CVectorShared

CONSTANTS t1, t2

MCThreads == {t1, t2}

MCLocks == 0..3

\* What docs/cvector.md gives for threads that write, and what tests/test_cvector.cpp does.
MCMixes == {{"for_each", "const_for_each"}, {"for_each", "move"}}

\* Wrappers that read beside wrappers that write.
ReadMixes == {{"const_for_each", "move"}}

MCRanges == {<<1, 2, 3>>, <<3, 2, 1>>}
===============================================================================
