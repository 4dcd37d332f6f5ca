---------------------------- MODULE MCTransportSar ----------------------------
(***************************************************************************)
(* TransportSar between two nodes.                                         *)
(***************************************************************************)
EXTENDS TransportSar

CONSTANTS a, b, all,    \* the nodes and the group
          m1, m2, m3,
          MaxSent       \* bound: sequence numbers a sender uses

MCSrc(m) == a
MCDst(m) == IF m = m3 THEN all ELSE b
MCLast(m) == IF m = m2 THEN 0 ELSE 1
MCSegmented(m) == m # m2
MCMisformed(m) == m = m3
MCLimit(n) == IF n = a THEN MaxSent ELSE 2
=============================================================================
