---------------------------- MODULE Subsequences ----------------------------
(***************************************************************************)
(* What is left of a sequence when some of its elements go, and what it    *)
(* is when one comes.                                                      *)
(***************************************************************************)
EXTENDS Naturals, FiniteSets, Sequences

\* The numbers of a finite set, in increasing order.
InOrder(S) ==
  CHOOSE f \in [1..Cardinality(S) -> S] :
    /\ \A k, l \in DOMAIN f : k < l => f[k] < f[l]
    /\ \A x \in S : \E k \in DOMAIN f : f[k] = x

\* The sequence s without the elements at some places.
Without(s, places) ==
  LET left == InOrder(DOMAIN s \ places) IN [k \in DOMAIN left |-> s[left[k]]]

RemovedAt(list, k) == SubSeq(list, 1, k - 1) \o SubSeq(list, k + 1, Len(list))

InsertedAt(list, k, e) == SubSeq(list, 1, k - 1) \o <<e>> \o SubSeq(list, k, Len(list))
=============================================================================
