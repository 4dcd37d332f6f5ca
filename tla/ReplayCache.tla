----------------------------- MODULE ReplayCache -----------------------------
(***************************************************************************)
(* The replay protection cache (replay_cache.c): the last sequence number  *)
(* accepted from each source, kept apart for the two values of the IV      *)
(* index bit.                                                              *)
(*                                                                         *)
(* The entries of a bit are filled from the first one on and are only      *)
(* given back all together, so they are a sequence here.                   *)
(***************************************************************************)
EXTENDS Integers, Sequences

CONSTANTS
  REPLAY_CACHE_ENTRIES   \* sources that a cache holds

ASSUME ReplayAssumption == REPLAY_CACHE_ENTRIES \in Nat \ {0}

Entry(src, seqno) == [src |-> src, seqno |-> seqno]

\* Both caches, after replay_cache_clear.
Cleared == [entries |-> [ivi \in {0, 1} |-> <<>>], index |-> 0, full |-> FALSE]

Positions(c, src, ivi) == {i \in DOMAIN c.entries[ivi] : c.entries[ivi][i].src = src}

\* A known source takes its own entry again, a new one the first free entry.
CanAdd(c, src, ivi) ==
  \/ Positions(c, src, ivi) # {}
  \/ Len(c.entries[ivi]) < REPLAY_CACHE_ENTRIES

\* The flag is shared by the two caches.
Added(c, src, seqno, ivi) ==
  IF Positions(c, src, ivi) # {}
  THEN [c EXCEPT !.entries[ivi] =
          [i \in DOMAIN @ |-> IF @[i].src = src THEN Entry(src, seqno) ELSE @[i]]]
  ELSE [c EXCEPT !.entries[ivi] = Append(@, Entry(src, seqno)),
                 !.full = @ \/ Len(c.entries[ivi]) = REPLAY_CACHE_ENTRIES - 1]

HasRoom(c, src, ivi) == ~c.full \/ Positions(c, src, ivi) # {}

\* Mutant: the last number itself is not found.
HasElemLater(c, src, seqno, ivi) ==
  \E i \in Positions(c, src, ivi) : c.entries[ivi][i].seqno > seqno

HasElem(c, src, seqno, ivi) ==
  \E i \in Positions(c, src, ivi) : c.entries[ivi][i].seqno >= seqno

\* What replay_cache_on_iv_update does for its caller.  Nothing calls it
\* outside the unit test, so no action of ReplayProtection does.
OnIvUpdate(c) ==
  LET old == (c.index + 1) % 2
  IN  [c EXCEPT !.index = old, !.entries[old] = <<>>]
=============================================================================
