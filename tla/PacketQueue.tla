----------------------------- MODULE PacketQueue -----------------------------
(***************************************************************************)
(* What a packet buffer promises its users (packet_buffer.h:56-60): one    *)
(* consumer gets the packets of many producers in the order in which they  *)
(* were reserved, one at a time, and none that was given up.               *)
(***************************************************************************)
EXTENDS Naturals, Sequences, Subsequences

VARIABLE packets    \* the packets someone holds, oldest first

States == {"reserved", "committed", "popped"}

Init == packets = <<>>

Reserve ==
  /\ Len(packets') = Len(packets) + 1
  /\ packets'[Len(packets')].state = "reserved"
  /\ packets' = Append(packets, packets'[Len(packets')])

Commit ==
  \E i \in DOMAIN packets :
    /\ packets[i].state = "reserved"
    /\ packets' = [packets EXCEPT ![i].state = "committed"]

\* A producer gives up the packet it reserved.
Discard ==
  \E i \in DOMAIN packets :
    /\ packets[i].state = "reserved"
    /\ packets' = Without(packets, {i})

\* The consumer takes the oldest packet, once the producer is done with it.
Pop ==
  /\ packets # <<>> /\ packets[1].state = "committed"
  /\ packets' = [packets EXCEPT ![1].state = "popped"]

Free ==
  /\ packets # <<>> /\ packets[1].state = "popped"
  /\ packets' = Without(packets, {1})

\* Committed packets are dropped; the others keep their places.
Flush ==
  \E dropped \in SUBSET {i \in DOMAIN packets : packets[i].state = "committed"} :
    packets' = Without(packets, dropped)

Next == Reserve \/ Commit \/ Discard \/ Pop \/ Free \/ Flush

Spec == Init /\ [][Next]_packets
=============================================================================
