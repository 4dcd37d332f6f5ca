---------------------------- MODULE PacketBuffer ----------------------------
(***************************************************************************)
(* The packet buffer (mesh/core/src/packet_buffer.c): a ring of packets of *)
(* any length in one block of memory.  It is the queue under the flash     *)
(* manager, the advertisers, the scanner and the serial bearer.            *)
(*                                                                         *)
(* Memory is counted in words: a header takes one, and the code aligns all *)
(* lengths to words.  "mem" is what each word holds; a word that a user    *)
(* has written his data to is "data", so that reading it as a header shows.*)
(* The buffer itself keeps no list of packets: "live" is the view of the   *)
(* users, who hold the pointers.                                           *)
(***************************************************************************)
EXTENDS Integers, Sequences, Subsequences

CONSTANTS
  SIZE,       \* size of the pool, in words, more than one
  LENGTHS     \* the packet lengths that users ask for, in 1..(SIZE - 1)

ASSUME BufferAssumption == SIZE \in Nat /\ SIZE > 1 /\ LENGTHS \subseteq 1..(SIZE - 1)

VARIABLES
  buf,      \* head, tail and memory of the packet buffer
  live      \* the packets users hold, in the order they were reserved

bufferVars == <<buf, live>>

Words == 0..(SIZE - 1)

\* A word of the pool: a header, in one of its states, or data.
FreeCell == [state |-> "free", size |-> 0]

DataCell == [state |-> "data", size |-> 0]

\* The buffers there are, whatever their users did.
Cells == [state : {"free", "data", "skipped", "reserved", "committed", "popped"}, size : Nat]

Buffers == [head : Words, tail : Words, mem : [Words -> Cells]]

-----------------------------------------------------------------------------
(* packet_buffer.c, one operator per function *)

Wrapped(i) == IF i = SIZE THEN 0 ELSE i

NextPacket(b, at) == Wrapped(at + b.mem[at].size + 1)

State(b, at) == b.mem[at].state

SetState(b, at, st) == [b EXCEPT !.mem[at].state = st]

\* The size a free header keeps is never read.
SetFree(b, at) == [b EXCEPT !.mem[at] = FreeCell]

AvailableEnd(b, at) == IF at < b.tail THEN b.tail ELSE SIZE

\* m_adjust_desired_packet_length: no room is left that cannot hold a packet.
AdjustedLength(b, at, len) ==
  LET available == AvailableEnd(b, at) - at IN
  IF available - (len + 1) <= 1 THEN available - 1 ELSE len

WrapHeadToStart(b) ==
  [b EXCEPT !.mem[b.head] = [state |-> "skipped", size |-> SIZE - b.head - 1],
            !.head = 0]

FitsAhead(b, words) == b.tail - b.head >= words

\* m_prepare_for_reserve: the buffer to reserve in, or nothing.
Prepared(b, words) ==
  IF b.head < b.tail
  THEN IF FitsAhead(b, words) THEN {b} ELSE {}
  ELSE IF b.head = b.tail /\ State(b, b.tail) # "free" THEN {}
  ELSE IF SIZE - b.head >= words THEN {b}
  ELSE IF b.tail >= words THEN {WrapHeadToStart(b)}
  ELSE {}

\* The slot behind the last packet is marked free, unless it is taken.
MarkHead(b) == IF b.head # b.tail THEN SetFree(b, b.head) ELSE b

\* m_reserve_packet; the user then writes to the packet.
ReservePacket(b, len) ==
  LET written == [i \in Words |-> IF i = b.head
                                  THEN [state |-> "reserved", size |-> len]
                                  ELSE IF i \in (b.head + 1)..(b.head + len)
                                       THEN DataCell ELSE b.mem[i]]
  IN MarkHead([b EXCEPT !.mem = written, !.head = Wrapped(b.head + len + 1)])

\* m_adjust_reserved_packet_len
Shrunk(b, at, len) ==
  LET reduction == b.mem[at].size - len
      head      == (IF b.head = 0 THEN SIZE ELSE b.head) - reduction
  IN IF reduction > 0
     THEN SetFree([b EXCEPT !.head = head, !.mem[at].size = len], head)
     ELSE b

CommittedAnywhere(b, at, len) ==   \* Mutant: also a packet with others behind it
  SetState(IF len # b.mem[at].size THEN Shrunk(b, at, AdjustedLength(b, at, len)) ELSE b,
           at, "committed")

Committed(b, at, len) ==
  LET last   == NextPacket(b, at) = b.head
      shrunk == IF len # b.mem[at].size /\ last
                THEN Shrunk(b, at, AdjustedLength(b, at, len)) ELSE b
  IN SetState(shrunk, at, "committed")

DiscardedToHead(b, at) == SetFree([b EXCEPT !.head = at], at)   \* Mutant

\* m_free_reserved_packet: the last packet gives its room back at once, any
\* other becomes a hole.
Discarded(b, at) ==
  IF NextPacket(b, at) = b.head
  THEN SetFree([b EXCEPT !.head = at], at)
  ELSE SetState(b, at, "skipped")

FreedUnmarked(b, at) == [b EXCEPT !.tail = NextPacket(b, at)]   \* Mutant

\* m_free_popped_packet
Freed(b, at) == SetFree([b EXCEPT !.tail = NextPacket(b, at)], at)

\* free_skipped_packets: the loop ends, for a packet that was freed is free.
SkipOnce(b) == IF State(b, b.tail) = "skipped" THEN Freed(b, b.tail) ELSE b

FreeSkipped(b) ==
  LET after[n \in 0..SIZE] == IF n = 0 THEN b ELSE SkipOnce(after[n - 1])
  IN after[SIZE]

\* A walk along the packets stops at the first reserved one, and at the head.
FlushOnce(w) ==
  IF State(w.b, w.at) = "reserved" \/ w.at = w.b.head THEN w
  ELSE [at |-> NextPacket(w.b, w.at), b |-> SetState(w.b, w.at, "skipped")]

FlushedFrom(b, at) ==
  LET walk[n \in 0..SIZE] == IF n = 0 THEN [at |-> at, b |-> b] ELSE FlushOnce(walk[n - 1])
  IN walk[SIZE].b

\* packet_buffer_flush: from the first packet that is not popped.
Flushed(b) ==
  IF State(b, b.tail) = "popped" THEN FlushedFrom(b, NextPacket(b, b.tail))
  ELSE FreeSkipped(FlushedFrom(b, b.tail))

\* packet_buffer_packets_ready_to_pop, after the skipped packets are freed: is the
\* first packet that is neither popped nor skipped committed?
ReadyToPop(b) ==
  LET at[n \in 0..SIZE] ==
        IF n = 0 THEN b.tail
        ELSE LET i == at[n - 1] IN
             IF State(b, i) \in {"popped", "skipped"} /\ (n = 1 \/ i # b.tail)
             THEN NextPacket(b, i) ELSE i
  IN State(b, at[SIZE]) = "committed"

-----------------------------------------------------------------------------
(* Actions *)

BufferInit ==
  /\ buf = [head |-> 0, tail |-> 0,
            mem |-> [i \in Words |-> IF i = 0 THEN FreeCell ELSE DataCell]]
  /\ live = <<>>

WithState(i, st) == [live EXCEPT ![i].state = st]

Reserve(len) ==
  /\ \E b \in Prepared(buf, len + 1) :
       LET given == ReservePacket(b, AdjustedLength(b, b.head, len)) IN
       /\ buf' = given
       /\ live' = Append(live, [at |-> b.head, len |-> len, state |-> "reserved"])

\* A producer commits one of its packets, with the length it used of it.
Commit(i, len) ==
  /\ live[i].state = "reserved" /\ len <= live[i].len
  /\ buf' = Committed(buf, live[i].at, len)
  /\ live' = [WithState(i, "committed") EXCEPT ![i].len = len]

\* packet_buffer_free of a reserved packet.
Discard(i) ==
  /\ live[i].state = "reserved"
  /\ buf' = Discarded(buf, live[i].at)
  /\ live' = Without(live, {i})

HasPopped == \E i \in DOMAIN live : live[i].state = "popped"

\* packet_buffer_pop: whatever packet is found at the tail goes to the consumer.
Pop ==
  LET b == FreeSkipped(buf) IN
  /\ ~HasPopped
  /\ buf' = IF State(b, b.tail) = "committed" THEN SetState(b, b.tail, "popped") ELSE b
  /\ live' = IF State(b, b.tail) = "committed"
             THEN [i \in DOMAIN live |-> IF live[i].at = b.tail
                                         THEN [live[i] EXCEPT !.state = "popped"]
                                         ELSE live[i]]
             ELSE live

\* packet_buffer_can_pop, and packet_buffer_packets_ready_to_pop: what they
\* return is a function of the new state.
CanPop ==
  /\ buf' = FreeSkipped(buf)
  /\ UNCHANGED live

\* packet_buffer_free of the popped packet.
Free(i) ==
  /\ live[i].state = "popped"
  /\ buf' = Freed(buf, live[i].at)
  /\ live' = Without(live, {i})

Flush ==
  LET b == Flushed(buf) IN
  /\ buf' = b
  /\ live' = Without(live, {i \in DOMAIN live : State(b, live[i].at) \in {"skipped", "free"}})

Produce ==
  \/ \E len \in LENGTHS : Reserve(len)
  \/ \E i \in DOMAIN live, len \in LENGTHS : Commit(i, len)
  \/ \E i \in DOMAIN live : Discard(i)

Consume == Pop \/ CanPop \/ \E i \in DOMAIN live : Free(i)

BufferNext == Produce \/ Consume \/ Flush

BufferSpec == BufferInit /\ [][BufferNext]_bufferVars

-----------------------------------------------------------------------------
(* Properties *)

Extent(p) == p.at..(p.at + buf.mem[p.at].size)

\* The packets that users hold lie inside the pool and do not overlap, in any
\* order of reserving, shrinking, discarding, wrapping and flushing.
Disjoint ==
  /\ \A i \in DOMAIN live : Extent(live[i]) \subseteq Words
  /\ \A i, j \in DOMAIN live : i # j => Extent(live[i]) \cap Extent(live[j]) = {}

\* A packet that is committed and the oldest is what a pop returns: it is not
\* lost behind holes left by others (packet_buffer.h:58-60).
OldestIsPopped ==
  live # <<>> =>
    LET b == FreeSkipped(buf) IN
    b.tail = live[1].at

\* When nobody holds a packet, one pop later the whole pool is a free slot:
\* no room leaks over any number of rounds.
NothingLeaks ==
  live = <<>> =>
    LET b == FreeSkipped(buf) IN b.head = b.tail /\ State(b, b.tail) = "free"

\* The ring implements the queue: packets are consumed in the order they were
\* reserved (packet_buffer.h:59).
Queue == INSTANCE PacketQueue
           WITH packets <- [i \in DOMAIN live |->
                              [at |-> live[i].at, state |-> live[i].state]]

ImplementsQueue == Queue!Spec
=============================================================================
