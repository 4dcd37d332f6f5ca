---------------------------- MODULE NonceSource ----------------------------
(***************************************************************************)
(* What the network state promises to the encryption: it is a source of    *)
(* <<IV index, sequence number>> pairs, each later than every pair it gave *)
(* before, so that no pair is ever given twice (net_state.h:80-91).        *)
(***************************************************************************)
EXTENDS Naturals, Sequences

VARIABLE given    \* the pairs given so far, in order

Precedes(p, q) == p[1] < q[1] \/ (p[1] = q[1] /\ p[2] < q[2])

Init == given = <<>>

\* One more pair is given, later than the others.
Give ==
  LET n == Len(given) IN
  /\ Len(given') = n + 1
  /\ \A i \in 1..n : given'[i] = given[i] /\ Precedes(given[i], given'[n + 1])

Spec == Init /\ [][Give]_given
=============================================================================
