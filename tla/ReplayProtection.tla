-------------------------- MODULE ReplayProtection --------------------------
(***************************************************************************)
(* The replay protection of one node through several IV updates: what      *)
(* transport_packet_in lets through when the network layer accepts the     *)
(* current IV index and the one before it.                                 *)
(***************************************************************************)
EXTENDS ReplayCache

CONSTANTS
  SOURCES,      \* the other nodes
  MaxSeqno,     \* bound: the highest sequence number sent on an IV index
  MaxIv         \* bound: the highest IV index reached

\* The cache, the IV index of the node, and the packets that were handed to the
\* transport layer.
VARIABLE replay

Packets == [src : SOURCES, iv : 0..MaxIv, seqno : 0..MaxSeqno]

ReplayInit == replay = [cache |-> Cleared, iv_index |-> 0, accepted |-> {}]

\* The network layer accepts the current IV index and the one before it.
InWindow(p) == p.iv \in {replay.iv_index, replay.iv_index - 1}

TransportPacketIn(p) ==
  /\ InWindow(p)
  /\ ~HasElem(replay.cache, p.src, p.seqno, p.iv % 2)
  /\ CanAdd(replay.cache, p.src, p.iv % 2)
  /\ replay' = [replay EXCEPT !.cache = Added(@, p.src, p.seqno, p.iv % 2),
                              !.accepted = @ \union {p}]

\* An IV update begins on the node: nobody tells the cache.
IvUpdate ==
  /\ replay.iv_index < MaxIv
  /\ replay' = [replay EXCEPT !.iv_index = @ + 1]

ReplayNext == (\E p \in Packets : TransportPacketIn(p)) \/ IvUpdate

ReplaySpec == ReplayInit /\ [][ReplayNext]_replay

(***************************************************************************)
(* No packet is handed to the transport layer twice: what was accepted is  *)
(* found in the cache for as long as the network layer accepts its IV      *)
(* index, although two IV indexes at a time share the entries of a bit     *)
(* with all those that were used before.                                   *)
(***************************************************************************)
AcceptedOnce ==
  \A p \in replay.accepted :
    InWindow(p) => HasElem(replay.cache, p.src, p.seqno, p.iv % 2)
=============================================================================
