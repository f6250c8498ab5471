------------------------------ MODULE CVectorSpec ------------------------------
(***************************************************************************)
(* What the compressed vector promises: the operations of a vector.  How   *)
(* its values are kept, compressed or not, does not show.                  *)
(***************************************************************************)
EXTENDS Naturals, Sequences

CONSTANTS Values, MaxSize   \* MaxSize bounds the vectors that are explored

VARIABLE vec

\* The vector with n values: the first of vec, then copies of v.
Resized(n, v) == [i \in 1..n |-> IF i <= Len(vec) THEN vec[i] ELSE v]

Init == vec = <<>>

PushBack(v) == Len(vec) < MaxSize /\ vec' = Append(vec, v)

PopBack == vec # <<>> /\ vec' = SubSeq(vec, 1, Len(vec) - 1)

Resize(n, v) == n <= MaxSize /\ vec' = Resized(n, v)

Clear == vec' = <<>>

\* A range is overwritten: one value through a reference, or by for_each.
Fill(first, last, v) ==
  vec' = [i \in DOMAIN vec |-> IF i \in first..last THEN v ELSE vec[i]]

Assign(to, from) == vec' = [vec EXCEPT ![to] = vec[from]]

Swap(i, j) == vec' = [vec EXCEPT ![i] = vec[j], ![j] = vec[i]]

Next ==
  \/ PopBack \/ Clear
  \/ \E v \in Values :
       \/ PushBack(v)
       \/ \E n \in 1..MaxSize : Resize(n, v)
       \/ \E first, last \in DOMAIN vec : Fill(first, last, v)
  \/ \E i, j \in DOMAIN vec : Assign(i, j) \/ Swap(i, j)

Spec == Init /\ [][Next]_vec
===============================================================================
