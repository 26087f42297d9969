------------------------------- MODULE Filters -------------------------------
(***************************************************************************)
(* A part of a sequence, computed one element after the other, in a form   *)
(* that can be reasoned about.                                             *)
(***************************************************************************)
EXTENDS Naturals, Sequences

\* The elements of q that are in S, in their order.
Filter(q, S) ==
  LET kept[i \in 0..Len(q)] ==
        IF i = 0 THEN <<>>
        ELSE IF q[i] \in S THEN Append(kept[i - 1], q[i]) ELSE kept[i - 1]
  IN  kept[Len(q)]
=============================================================================
