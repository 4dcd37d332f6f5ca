----------------------------- MODULE MCNetState -----------------------------
(***************************************************************************)
(* NetState on small instances.  The thresholds are a few numbers and a    *)
(* few minutes, in the order of the real ones; the counters without a      *)
(* bound of their own (the IV index and the number of lock holders) are    *)
(* bounded here, in the guards of the next-state relations.                *)
(***************************************************************************)
EXTENDS NetState

CONSTANTS
  MaxIv,      \* the highest IV index a run reaches
  MaxLocks    \* how many transport sessions hold the IV index at a time

MCIndexes == 0..MaxIv

Bounded == ram'.iv <= MaxIv /\ ram'.lock_count <= MaxLocks

\* Everything at once: power cycles, flash malfunctions and node resets.  A
\* number may then be sent again and again, so the history is bounded too.
MaxSpent == 2

MCNext == Next /\ Bounded /\ Len(spent') <= MaxSpent

MCPoweredSpec == Init /\ [][PoweredNext /\ Bounded]_vars

MCOrderedSpec == Init /\ [][OrderedNext /\ Bounded]_vars

\* Power cycles with nothing said about the order of the flash actions.
MCCrashSpec == Init /\ [][(Operate \/ PowerCycle) /\ Bounded]_vars
=============================================================================
