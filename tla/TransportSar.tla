----------------------------- MODULE TransportSar -----------------------------
(***************************************************************************)
(* Segmentation and reassembly of the lower transport layer (transport.c): *)
(* the sessions of every node, the cache of recent sessions, the replay    *)
(* cache in front of them, and the packets in the air between the nodes.   *)
(*                                                                         *)
(* The air keeps every packet that was ever sent: a packet may be received *)
(* at any later time, any number of times, in any order, or never.         *)
(* A handler is an operator from the record of one node to its next        *)
(* record; packet buffers run out at any point (`sent' fewer than wanted). *)
(***************************************************************************)
EXTENDS ReplayCache, FiniteSets, FiniteSetsExt, Functions

CONSTANTS
  NODES,            \* the unicast addresses, one element on each node
  GROUP,            \* a group address every node subscribes to
  MESSAGES,         \* the messages the access layers send
  FREE,             \* stands for no message and for no address
  SRC(_), DST(_),   \* of a message
  LAST(_),          \* index of its last segment
  SEGMENTED(_),     \* sent with the SAR header or in one packet
  MISFORMED(_),     \* a foreign sender's, with a first segment too short
  SESSIONS_MAX,     \* TRANSPORT_SAR_SESSIONS_MAX
  CACHE_LEN,        \* TRANSPORT_SAR_RX_CACHE_LEN
  TX_RETRIES,       \* m_trs_config.tx_retries
  SEQZERO_MOD,      \* TRANSPORT_SAR_SEQZERO_MASK + 1
  SEQNUM_LIMIT(_),  \* bound: the numbers net_state gives to a node
  STACK_SEQZERO     \* what the uninitialised seq_zero of a new session may be

VARIABLE node       \* the transport layer of each node, and what it did

Slots == 1..SESSIONS_MAX

IVI == 0            \* the IV index stays: every session keeps it locked

FreeSession ==
  [type |-> "INACTIVE", msg |-> FREE, src |-> FREE, dst |-> FREE, last |-> 0,
   seqauth |-> 0, seqzero |-> 0, block |-> {}, start |-> 0, retries |-> 0,
   encrypted |-> FALSE, ack |-> "IDLE", ack_timer |-> FALSE, data |-> {}]

NewNode ==
  [seqnum |-> 0,                            \* the next number of net_state
   slots |-> [i \in Slots |-> FreeSession],
   cache |-> <<>>,                          \* newest first
   replay |-> Cleared,
   lock |-> 0,                              \* holders of the IV index
   sent |-> {},                             \* packets put in the air
   submitted |-> {},                        \* messages accepted for sending
   events |-> [m \in MESSAGES |-> <<>>],    \* what their sender was told
   received |-> [m \in MESSAGES |-> 0],     \* deliveries to the access layer
   halted |-> FALSE]                        \* an assertion failed

Init == node = [n \in NODES |-> NewNode]

Unicast(a) == a \in NODES

BlockAckFull(last) == 0..last

\* The number of the first segment, from the number and SeqZero of any one.
SeqAuth(seqnum, seqzero) ==
  LET low == seqnum % SEQZERO_MOD
  IN  IF low < seqzero THEN seqnum - (low - seqzero) - SEQZERO_MOD
                       ELSE seqnum - (low - seqzero)

-----------------------------------------------------------------------------
(***************************************************************************)
(* Packets.                                                                *)
(***************************************************************************)
Segment(s, off, seq) ==
  [kind |-> "segment", src |-> s.src, dst |-> s.dst, seq |-> seq,
   seqzero |-> s.seqzero, last |-> s.last, off |-> off, msg |-> s.msg]

Whole(m, seq) ==
  [kind |-> "whole", src |-> SRC(m), dst |-> DST(m), seq |-> seq, msg |-> m]

Ack(src, dst, seqzero, block, seq) ==
  [kind |-> "ack", src |-> src, dst |-> dst, seq |-> seq,
   seqzero |-> seqzero, block |-> block]

HasNumbers(n, d) == d.seqnum < SEQNUM_LIMIT(n)

(***************************************************************************)
(* Sessions.                                                               *)
(***************************************************************************)
HandledAs(s, ok) ==
  [src |-> s.src, seqauth |-> s.seqauth, successful |-> ok]

\* Mutant: only the sessions that succeeded are remembered.
RememberSuccess(d, s, ok) ==
  IF ok THEN [d EXCEPT !.cache =
                SubSeq(<<HandledAs(s, ok)>> \o @, 1,
                       IF Len(@) < CACHE_LEN THEN Len(@) + 1 ELSE CACHE_LEN)]
        ELSE d

\* The oldest of CACHE_LEN sessions is forgotten.
MarkAsHandled(d, s, ok) ==
  [d EXCEPT !.cache = SubSeq(<<HandledAs(s, ok)>> \o @, 1,
                             IF Len(@) < CACHE_LEN THEN Len(@) + 1 ELSE CACHE_LEN)]

Alloc(d, i, s) ==
  [d EXCEPT !.slots[i] = s, !.lock = @ + 1,
            !.halted = @ \/ d.slots[i].type # "INACTIVE"]

\* Mutant: the IV index stays locked.
FreeLocked(d, i) ==
  [d EXCEPT !.slots[i].type = "INACTIVE", !.slots[i].ack_timer = FALSE]

\* The header and the metadata of the session stay behind in the slot.
Free(d, i) ==
  [d EXCEPT !.slots[i].type = "INACTIVE", !.slots[i].ack_timer = FALSE,
            !.lock = @ - 1]

Told(d, m, e) ==
  IF m \in MESSAGES THEN [d EXCEPT !.events[m] = Append(@, e)] ELSE d

\* The token of the event is the sender's only in a session that transmits.
Cancel(d, i) ==
  LET s == d.slots[i]
  IN  Free(Told(MarkAsHandled(d, s, FALSE),
                IF s.type = "TX" THEN s.msg ELSE FREE, "failed"), i)

RxComplete(d, i) == Free(MarkAsHandled(d, d.slots[i], TRUE), i)

TxComplete(d, i) == Free(Told(d, d.slots[i].msg, "complete"), i)

-----------------------------------------------------------------------------
(***************************************************************************)
(* Sending segments.  k segments find a packet buffer and a number, then   *)
(* one does not; what is left is taken up from `start' the next time.      *)
(***************************************************************************)
Unsent(s) == {off \in s.start..s.last : off \notin s.block}

\* How many of the segments of a session may be sent at this point.
Room(n, d, s) ==
  {k \in 0..Cardinality(Unsent(s)) : d.seqnum + k <= SEQNUM_LIMIT(n)}

First(k, S) == {x \in S : Cardinality({y \in S : y < x}) < k}

\* SeqZero is set, and the payload encrypted, with the first segment that
\* gets a number; the code asserts that it is segment 0.
Started(d, s) ==
  IF s.encrypted THEN s
  ELSE [s EXCEPT !.seqzero = d.seqnum % SEQZERO_MOD, !.encrypted = TRUE]

\* Mutant: a segment that got no buffer is passed over.
PacketOutSkips(d, i, k) ==
  LET s == d.slots[i]
      S == First(k, Unsent(s))
      t == Started(d, s)
      Number(off) == d.seqnum + Cardinality({o \in S : o < off})
  IN  CASE S = {} -> [d EXCEPT !.slots[i].start = @ + 1]
        [] S # {} /\ ~s.encrypted /\ Min(S) # 0 -> [d EXCEPT !.halted = TRUE]
        [] OTHER -> [d EXCEPT !.slots[i] = [t EXCEPT !.start = Max(S) + 1],
                              !.sent = @ \union {Segment(t, off, Number(off)) : off \in S},
                              !.seqnum = @ + k]

PacketOut(d, i, k) ==
  LET s == d.slots[i]
      S == First(k, Unsent(s))
      t == Started(d, s)
      Number(off) == d.seqnum + Cardinality({o \in S : o < off})
  IN  CASE S = {} -> d
        [] S # {} /\ ~s.encrypted /\ Min(S) # 0 -> [d EXCEPT !.halted = TRUE]
        [] OTHER -> [d EXCEPT !.slots[i] = [t EXCEPT !.start = Max(S) + 1],
                              !.sent = @ \union {Segment(t, off, Number(off)) : off \in S},
                              !.seqnum = @ + k]

SendWhole(d, m) ==
  [d EXCEPT !.sent = @ \union {Whole(m, d.seqnum)}, !.seqnum = @ + 1,
            !.submitted = @ \union {m}]

(***************************************************************************)
(* transport_tx: a message in one packet, or a new session in the first    *)
(* free slot; whatever part of it cannot be sent is left to the timers.    *)
(***************************************************************************)
TxWhole(n, m) ==
  /\ ~SEGMENTED(m)
  /\ HasNumbers(n, node[n])
  /\ node' = [node EXCEPT ![n] = SendWhole(@, m)]

NewTxSession(m, seqzero) ==
  [FreeSession EXCEPT !.type = "TX", !.msg = m, !.src = SRC(m), !.dst = DST(m),
     !.last = LAST(m), !.retries = TX_RETRIES, !.seqzero = seqzero]

TxSegmented(n, m) ==
  /\ SEGMENTED(m)
  /\ LET free == {i \in Slots : node[n].slots[i].type = "INACTIVE"}
         i == Min(free)
     IN  /\ free # {}
         /\ \E seqzero \in STACK_SEQZERO :
              LET d == Alloc(node[n], i, NewTxSession(m, seqzero))
                  e == [d EXCEPT !.submitted = @ \union {m}]
              IN  \E k \in Room(n, e, e.slots[i]) :
                    node' = [node EXCEPT ![n] = PacketOut(e, i, k)]

Tx(n, m) ==
  /\ SRC(m) = n /\ m \notin node[n].submitted
  /\ TxWhole(n, m) \/ TxSegmented(n, m)

(***************************************************************************)
(* The timers of the sessions.                                             *)
(***************************************************************************)
\* Mutant: the last timeout of a session to a node ends it as a success.
RetrySucceeds(n, i, d) ==
  LET s == d.slots[i]
  IN  IF s.retries = 0
      THEN {TxComplete(d, i)}
      ELSE LET e == [d EXCEPT !.slots[i].retries = @ - 1, !.slots[i].start = 0]
           IN  {PacketOut(e, i, k) : k \in Room(n, e, e.slots[i])}

\* A message to a group has no acknowledgment: it is done after the retries.
Retry(n, i, d) ==
  LET s == d.slots[i]
  IN  IF s.retries = 0
      THEN {IF Unicast(s.dst) THEN Cancel(d, i) ELSE TxComplete(d, i)}
      ELSE LET e == [d EXCEPT !.slots[i].retries = @ - 1, !.slots[i].start = 0]
           IN  {PacketOut(e, i, k) : k \in Room(n, e, e.slots[i])}

RetryTimeout(n, i) ==
  /\ node[n].slots[i].type = "TX"
  /\ \E d \in Retry(n, i, node[n]) : node' = [node EXCEPT ![n] = d]

\* The incomplete timer runs in every session that receives.
AbortTimeout(n, i) ==
  /\ node[n].slots[i].type = "RX"
  /\ node' = [node EXCEPT ![n] = Cancel(@, i)]

\* What sar_ack_send leads to: nothing to a group, else one packet or none.
AckSends(n, d, src, dst, seqzero, block) ==
  IF ~Unicast(dst) THEN {[ok |-> TRUE, node |-> d]}
  ELSE {[ok |-> FALSE, node |-> d]} \union
       (IF HasNumbers(n, d)
        THEN {[ok |-> TRUE,
               node |-> [d EXCEPT !.sent = @ \union {Ack(dst, src, seqzero, block, d.seqnum)},
                                  !.seqnum = @ + 1]]}
        ELSE {})

SessionAck(n, d, i) ==
  LET s == d.slots[i]
  IN  AckSends(n, d, s.src, s.dst, s.seqzero, s.block)

\* Also when the reassembly is complete and only its last acknowledgment is
\* pending: the session then stays, idle, until it is aborted.
AckTimeout(n, i) ==
  LET d == [node[n] EXCEPT !.slots[i].ack_timer = FALSE]
  IN  /\ node[n].slots[i].ack_timer
      /\ \E r \in SessionAck(n, d, i) :
           node' = [node EXCEPT
                      ![n] = [r.node EXCEPT !.slots[i].ack = IF r.ok THEN "IDLE" ELSE "PENDING"]]

-----------------------------------------------------------------------------
(***************************************************************************)
(* Receiving.  Each operator is the set of records a node may end with.    *)
(***************************************************************************)
Nodes(results) == {r.node : r \in results}

Matches(d, src, seqzero) ==
  {i \in Slots : /\ d.slots[i].type # "INACTIVE"
                 /\ d.slots[i].src = src /\ d.slots[i].seqzero = seqzero}

\* An acknowledgment of nothing is the peer's refusal.
SegAckIn(n, d, p) ==
  LET found == Matches(d, n, p.seqzero)
      i == Min(found)
      e == [d EXCEPT !.slots[i].block = @ \union p.block]
      full == BlockAckFull(d.slots[i].last)
      again == [e EXCEPT !.slots[i].start = 0]
  IN  CASE found = {} -> {d}
        [] found # {} /\ p.block = {} -> {Cancel(e, i)}
        [] found # {} /\ p.block # {} /\ e.slots[i].block = full -> {TxComplete(e, i)}
        [] OTHER -> {PacketOut(again, i, k) : k \in Room(n, again, again.slots[i])}

NewRxSession(p) ==
  [FreeSession EXCEPT !.type = "RX", !.src = p.src, !.dst = p.dst, !.last = p.last,
     !.seqauth = SeqAuth(p.seq, p.seqzero), !.seqzero = p.seqzero]

\* The last session of the slot is refused, not the one that finds no memory.
Refused(n, d, i) ==
  LET old == d.slots[i]
  IN  Nodes(AckSends(n, d, old.src, old.dst, old.seqzero, {}))

\* All segments are there: the access layer gets the message when its
\* integrity check finds the segments of one message.
Delivered(d, i) ==
  LET msgs == {x.msg : x \in d.slots[i].data}
  IN  IF Cardinality(msgs) = 1
      THEN [d EXCEPT !.received = [m \in MESSAGES |-> IF m \in msgs THEN @[m] + 1 ELSE @[m]]]
      ELSE d

Reassembled(n, d, i) ==
  LET e == [Delivered(d, i) EXCEPT !.slots[i].ack = "PENDING"]
  IN  {IF r.ok THEN RxComplete([r.node EXCEPT !.slots[i].ack = "IDLE"], i)
               ELSE r.node : r \in SessionAck(n, e, i)}

\* A segment of session i: the timers run again, also for a repeated one.
SegmentOf(n, d, i, p) ==
  LET s == d.slots[i]
      timed == IF Unicast(s.dst) /\ s.ack = "IDLE"
               THEN [d EXCEPT !.slots[i].ack_timer = TRUE, !.slots[i].ack = "TIMER_ACTIVE"]
               ELSE d
      e == [timed EXCEPT !.slots[i].block = @ \union {p.off},
                         !.slots[i].data = @ \union {[off |-> p.off, msg |-> p.msg]}]
  IN  CASE p.seq < s.seqauth -> {d}
        [] p.seq >= s.seqauth /\ p.off \in s.block -> {timed}
        [] p.seq >= s.seqauth /\ p.off \notin s.block
             /\ MISFORMED(p.msg) /\ p.off # s.last -> {Cancel(e, i)}
        [] OTHER -> IF e.slots[i].block = BlockAckFull(s.last)
                    THEN Reassembled(n, e, i) ELSE {e}

SegmentIn(n, d, p) ==
  LET handled == {c \in Range(d.cache) : /\ c.src = p.src
                                         /\ c.seqauth = SeqAuth(p.seq, p.seqzero)}
      found == Matches(d, p.src, p.seqzero)
      free == {i \in Slots : d.slots[i].type = "INACTIVE"}
      done == CHOOSE c \in handled : TRUE
      new == Alloc(d, Min(free), NewRxSession(p))
  IN  CASE handled # {} ->
             Nodes(AckSends(n, d, p.src, p.dst, p.seqzero,
                            IF done.successful THEN BlockAckFull(p.last) ELSE {}))
        [] handled = {} /\ found # {} -> SegmentOf(n, d, Min(found), p)
        [] handled = {} /\ found = {} /\ free = {} -> {d}
        [] OTHER -> Refused(n, d, Min(free)) \union
                    (IF HasRoom(d.replay, p.src, IVI)
                     THEN SegmentOf(n, new, Min(free), p) ELSE {})

WholeIn(d, p) == {[d EXCEPT !.received[p.msg] = @ + 1]}

TransportPacketIn(n, d, p) ==
  LET e == [d EXCEPT !.replay = Added(@, p.src, p.seq, IVI)]
  IN  CASE HasElem(d.replay, p.src, p.seq, IVI) -> {d}
        [] ~CanAdd(d.replay, p.src, IVI) -> {d}
        [] p.kind = "whole" -> WholeIn(e, p)
        [] p.kind = "ack" -> SegAckIn(n, e, p)
        [] OTHER -> SegmentIn(n, e, p)

Air(n) == {p \in UNION {node[o].sent : o \in NODES \ {n}} : p.dst \in {n, GROUP}}

Receive(n, p) ==
  \E d \in TransportPacketIn(n, node[n], p) : node' = [node EXCEPT ![n] = d]

(***************************************************************************)
(* transport_sar_process, whenever a packet of the node, be it a relayed   *)
(* one, has left: first the segments of every session, then the pending    *)
(* acknowledgments.                                                        *)
(***************************************************************************)
TxProcessed(n, d, i) ==
  IF d.slots[i].type = "TX"
  THEN {PacketOut(d, i, k) : k \in Room(n, d, d.slots[i])} ELSE {d}

RxProcessed(n, d, i) ==
  IF d.slots[i].type = "RX" /\ d.slots[i].ack = "PENDING"
  THEN {IF ~r.ok THEN r.node
        ELSE LET e == [r.node EXCEPT !.slots[i].ack = "IDLE"]
             IN  IF e.slots[i].block = BlockAckFull(e.slots[i].last)
                 THEN RxComplete(e, i) ELSE e : r \in SessionAck(n, d, i)}
  ELSE {d}

AllProcessed(n, d) ==
  LET Sent[i \in 0..SESSIONS_MAX] ==
        IF i = 0 THEN {d} ELSE UNION {TxProcessed(n, e, i) : e \in Sent[i - 1]}
      Acked[i \in 0..SESSIONS_MAX] ==
        IF i = 0 THEN Sent[SESSIONS_MAX]
        ELSE UNION {RxProcessed(n, e, i) : e \in Acked[i - 1]}
  IN  Acked[SESSIONS_MAX]

SarProcess(n) ==
  \E d \in AllProcessed(n, node[n]) : node' = [node EXCEPT ![n] = d]

-----------------------------------------------------------------------------
Next ==
  \E n \in NODES :
    \/ \E m \in MESSAGES : Tx(n, m)
    \/ \E i \in Slots : RetryTimeout(n, i) \/ AbortTimeout(n, i) \/ AckTimeout(n, i)
    \/ \E p \in Air(n) : Receive(n, p)
    \/ SarProcess(n)

Spec == Init /\ [][Next]_node

\* The timer schedulers go on calling the timers of the sessions.  That some
\* timer fires as long as one runs is all that is needed of them.
SessionTimeout ==
  \E n \in NODES : \E i \in Slots : RetryTimeout(n, i) \/ AbortTimeout(n, i)

FairSpec == Spec /\ WF_node(SessionTimeout)

-----------------------------------------------------------------------------
(***************************************************************************)
(* Properties.                                                             *)
(***************************************************************************)
\* No assertion of transport.c fails: a session is only put in a slot that
\* was given back, and a payload is encrypted before any of it is sent.
NeverHalts == \A n \in NODES : ~node[n].halted

\* The access layer gets a message at most once, whatever is repeated in the
\* air and whatever acknowledgments are lost.
DeliveredOnce == \A n \in NODES, m \in MESSAGES : node[n].received[m] <= 1

\* The sender of a segmented message is told of its end once, when its
\* session ends and not before, and a message to a node is only reported
\* complete when the node has it.
OutcomeIsTrue ==
  \A m \in MESSAGES :
    LET d == node[SRC(m)]
        open == {i \in Slots : d.slots[i].type = "TX" /\ d.slots[i].msg = m}
        ended == SEGMENTED(m) /\ m \in d.submitted /\ open = {}
    IN  /\ Len(d.events[m]) = IF ended THEN 1 ELSE 0
        /\ d.events[m] = <<"complete">> /\ Unicast(DST(m)) => node[DST(m)].received[m] > 0

\* Nodes that hold the IV index, because of their own messages or of what they
\* hear of others', give it back: every session ends.
LockReturned ==
  (\E n \in NODES : node[n].lock > 0) ~> (\A n \in NODES : node[n].lock = 0)
=============================================================================
