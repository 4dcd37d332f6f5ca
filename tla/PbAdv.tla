-------------------------------- MODULE PbAdv --------------------------------
(***************************************************************************)
(* The advertising bearer of provisioning (prov_bearer_adv.c) at both ends *)
(* of a link: it opens the link, carries one message at a time in          *)
(* segments, sends it again until it is acknowledged, and closes the link  *)
(* when the packets that say so are sent.  Each packet may be lost.        *)
(*                                                                         *)
(* Callbacks of packets, timers and flags run one after the other in the   *)
(* handler of bearer events; the end of a transmission comes in the radio  *)
(* interrupt, between any two of them.                                     *)
(***************************************************************************)
EXTENDS Integers, SequencesExt

CONSTANTS
  SCRIPT,           \* whose turn it is to send, message after message
  SEGMENTS,         \* segments of a message
  TX_BUFFER,        \* packets the buffer of the advertiser has room for
  UNACKED_REPEATS,  \* PROV_BEARER_ADV_UNACKED_REPEAT_COUNT
  LINKS             \* bound: the times each end opens a link or listens

Nodes == {"provisioner", "provisionee"}

\* The provisioner sends first, its invitation.  The numbers, of a byte, do not come to
\* those that the other end starts with.
ASSUME BearerAssumption ==
  /\ SCRIPT \in Seq(Nodes) /\ Len(SCRIPT) < 128
  /\ SCRIPT # <<>> => SCRIPT[1] = "provisioner"
  /\ SEGMENTS \in Nat /\ TX_BUFFER \in Nat /\ UNACKED_REPEATS \in Nat

VARIABLE bearer

Peer(n) == IF n = "provisioner" THEN "provisionee" ELSE "provisioner"

\* PB_ADV_TRANSACTION_NUMBER_..._START
StartOf(n) == IF n = "provisioner" THEN 0 ELSE 128

\* init_bearer_structure: what the flag and the timer hold stays.
Initialized(b, n, state, id) ==
  [b EXCEPT !.state = state, !.link = id, !.buffer = "UNUSED", !.out = StartOf(n),
            !.in = StartOf(Peer(n)), !.links = @ + 1]

BearerInit ==
  bearer = [n \in Nodes |->
              [state |-> "IDLE", link |-> 0, buffer |-> "UNUSED", finished |-> 0, received |-> {},
               out |-> StartOf(n), in |-> StartOf(Peer(n)), queue |-> <<>>,
               queue_empty_pending |-> FALSE, retry |-> FALSE, links |-> 0]]

-----------------------------------------------------------------------------
(* Packets.  The advertiser sends them in order; the token of the last one *)
(* is kept.                                                                *)

CanSend(b) == Len(b.queue) < TX_BUFFER

Send(b, type, number, segment, repeats) ==
  LET packet == [type |-> type, link |-> b.link, number |-> number, segment |-> segment,
                 left |-> repeats, last |-> TRUE]
  IN  IF CanSend(b)
      THEN [b EXCEPT !.queue = Append([i \in DOMAIN @ |-> [@[i] EXCEPT !.last = FALSE]], packet)]
      ELSE b

SendLinkAck(b) == Send(b, "LINK_ACK", 0, 0, 1)

SendTransactionAck(b, number) == Send(b, "TRANSACTION_ACK", number, 0, 1)

\* advertiser_flush: a packet that is on the air is sent to its end.
QueueFlushed(b) ==
  {[b EXCEPT !.queue = <<>>]}
    \union {[b EXCEPT !.queue = <<[Head(@) EXCEPT !.left = 1]>>] : i \in 1..Len(b.queue)}

\* prov_buffer_tx: as many of the segments that were not sent as there is room for.
BufferTx(b) ==
  LET waiting == SEGMENTS - b.finished
      room    == TX_BUFFER - Len(b.queue)
      count   == IF waiting < room THEN waiting ELSE room
      Segment(i) ==
        [type |-> IF i = 0 THEN "TRANSACTION_START" ELSE "TRANSACTION_CONTINUE",
         link |-> b.link, number |-> b.out, segment |-> i, left |-> 1,
         last |-> i = b.finished + count - 1]
  IN  IF count <= 0 THEN b
      ELSE [b EXCEPT !.finished = @ + count,
                     !.queue = [i \in DOMAIN @ |-> [@[i] EXCEPT !.last = FALSE]]
                               \o [i \in 1..count |-> Segment(b.finished + i - 1)]]

-----------------------------------------------------------------------------
(* Closing *)

CloseLink(b) ==
  {[c EXCEPT !.buffer = "UNUSED", !.state = "IDLE"] : c \in QueueFlushed(b)}

\* prov_bearer_adv_link_close, and what a transaction that times out does.
LinkClose(b) ==
  IF CanSend(b)
  THEN {[Send(b, "LINK_CLOSE", 0, 0, UNACKED_REPEATS) EXCEPT !.state = "LINK_CLOSING"]}
  ELSE CloseLink(b)

StopIfTx(b) == [b EXCEPT !.retry = @ /\ b.buffer # "TX"]

-----------------------------------------------------------------------------
(* Packets that are received *)

\* prov_buffer_rx.  What the upper layer answers is a step of its own.
BufferRx(b, number) ==
  [SendTransactionAck(b, b.in) EXCEPT !.in = number + 1, !.buffer = "UNUSED"]

Reassembled(b, number) ==
  IF b.received = 0..(SEGMENTS - 1) THEN BufferRx(b, number) ELSE b

\* With a message of its own on the way a bearer takes no other.
TransactionStart(b, p) ==
  CASE b.buffer = "UNUSED" /\ p.number >= b.in ->
         Reassembled([b EXCEPT !.buffer = "RX", !.received = {0}], p.number)
    [] b.buffer # "RX" /\ p.number < b.in -> SendTransactionAck(b, p.number)
    [] OTHER -> b

TransactionContinue(b, p) ==
  CASE b.buffer = "RX" /\ p.number = b.in ->
         Reassembled([b EXCEPT !.received = @ \union {p.segment}], p.number)
    [] b.buffer # "RX" /\ p.number < b.in -> SendTransactionAck(b, p.number)
    [] OTHER -> b

\* Mutant: any acknowledgment is taken for that of the message on the way.
TransactionAckAny(b, p) ==
  IF b.buffer = "TX"
  THEN {[c EXCEPT !.retry = FALSE, !.out = @ + 1, !.buffer = "UNUSED"] : c \in QueueFlushed(b)}
  ELSE {b}

TransactionAck(b, p) ==
  IF b.buffer = "TX" /\ p.number = b.out
  THEN {[c EXCEPT !.retry = FALSE, !.out = @ + 1, !.buffer = "UNUSED"] : c \in QueueFlushed(b)}
  ELSE {b}

LinkOpen(b, n, p) ==
  LET opened == SendLinkAck([b EXCEPT !.link = p.link])
  IN  CASE n = "provisionee" /\ b.state = "LISTEN" /\ CanSend(b) ->
             [opened EXCEPT !.state = "LINK_OPEN"]
        [] n = "provisionee" /\ b.state = "LINK_OPEN" /\ b.link = p.link
             /\ b.buffer = "UNUSED" -> SendLinkAck(b)
        [] OTHER -> b

LinkAck(b) ==
  IF b.state = "LINK_OPENING" THEN {[c EXCEPT !.state = "LINK_OPEN"] : c \in QueueFlushed(b)} ELSE {b}

LinkClosed(b) ==
  IF b.state \in {"LINK_OPENING", "LINK_OPEN"} THEN CloseLink(StopIfTx(b)) ELSE {b}

\* prov_bearer_adv_packet_in.  All but the packets that open a link are for the
\* bearer with its number.
BearerPacketIn(b, n, p) ==
  LET known == b.state # "IDLE" /\ b.link = p.link
      open  == known /\ b.state = "LINK_OPEN"
  IN  CASE p.type = "LINK_OPEN" -> {LinkOpen(b, n, p)}
        [] known /\ p.type = "LINK_ACK" -> LinkAck(b)
        [] known /\ p.type = "LINK_CLOSE" -> LinkClosed(b)
        [] open /\ p.type = "TRANSACTION_START" -> {TransactionStart(b, p)}
        [] open /\ p.type = "TRANSACTION_CONTINUE" -> {TransactionContinue(b, p)}
        [] open /\ p.type = "TRANSACTION_ACK" -> TransactionAck(b, p)
        [] OTHER -> {b}

\* The radio sends the first packet of the queue once, and after its repeats calls
\* tx_complete_cb.
SentOnce(b) ==
  LET p == Head(b.queue)
  IN  IF p.left > 1 THEN [b EXCEPT !.queue[1].left = @ - 1]
      ELSE [b EXCEPT !.queue = Tail(@), !.queue_empty_pending = @ \/ p.last]

Received(n) ==
  /\ bearer[n].queue # <<>>
  /\ \E c \in BearerPacketIn(bearer[Peer(n)], Peer(n), Head(bearer[n].queue)) :
       bearer' = [bearer EXCEPT ![n] = SentOnce(@), ![Peer(n)] = c]

Lost(n) ==
  /\ bearer[n].queue # <<>>
  /\ bearer' = [bearer EXCEPT ![n] = SentOnce(@)]

-----------------------------------------------------------------------------
(* Timers and flags *)

To(n, bearers) == \E c \in bearers : bearer' = [bearer EXCEPT ![n] = c]

\* tx_retry_cb, before the time of the transaction is over, or when it says
\* nothing to a bearer that has nothing to send.  Its interval is two seconds more
\* than the segments take, so that they have been sent.
TxRetry(n) ==
  LET b == bearer[n] IN
  /\ b.retry /\ b.queue = <<>> /\ ~b.queue_empty_pending
  /\ To(n, IF b.state = "LINK_OPEN" /\ b.buffer = "TX"
           THEN {BufferTx([b EXCEPT !.finished = 0])} ELSE {[b EXCEPT !.retry = FALSE]})

\* tx_retry_cb, after the time of the transaction.
TransactionTimeout(n) ==
  LET b == bearer[n] IN
  /\ b.retry /\ b.state = "LINK_OPEN" /\ b.buffer = "TX" /\ CanSend(b)
  /\ To(n, {[c EXCEPT !.retry = FALSE] : c \in LinkClose(b)})

\* Mutant: what did not fit waits for the timer.
QueueEmptyWaits(b) ==
  IF b.state = "LINK_CLOSING" THEN CloseLink(StopIfTx(b)) ELSE {b}

QueueEmpty(b) ==
  CASE b.state = "LINK_CLOSING" -> CloseLink(StopIfTx(b))
    [] b.state # "LINK_CLOSING" /\ b.buffer = "TX" -> {BufferTx(b)}
    [] OTHER -> {b}

AsyncProcess(n) ==
  /\ bearer[n].queue_empty_pending /\ bearer[n].state # "IDLE"
  /\ To(n, QueueEmpty([bearer[n] EXCEPT !.queue_empty_pending = FALSE]))

\* The upper layer closes the link, or the link timer does.
Close(n) ==
  /\ bearer[n].state \in {"LINK_OPENING", "LINK_OPEN"}
  /\ To(n, LinkClose(bearer[n]))

-----------------------------------------------------------------------------
(* The interface.  The advertiser is not initialized while it sends. *)

Unlinked(n) == bearer[n].state = "IDLE" /\ bearer[n].queue = <<>> /\ bearer[n].links < LINKS

Listen == Unlinked("provisionee") /\ To("provisionee",
  {Initialized(bearer["provisionee"], "provisionee", "LISTEN", 0)})

ListenStop ==
  /\ bearer["provisionee"].state = "LISTEN"
  /\ To("provisionee", {[c EXCEPT !.state = "IDLE"] : c \in QueueFlushed(bearer["provisionee"])})

Open ==
  LET b == bearer["provisioner"] IN
  /\ Unlinked("provisioner")
  /\ To("provisioner", {Send(Initialized(b, "provisioner", "LINK_OPENING", b.links + 1),
                             "LINK_OPEN", 0, 0, UNACKED_REPEATS)})

\* The messages there have been, by what one end knows.
Turn(b, n) ==
  1 + b.out - StartOf(n) + b.in - StartOf(Peer(n))

Tx(n) ==
  LET b == bearer[n] IN
  /\ b.state = "LINK_OPEN" /\ b.buffer = "UNUSED"
  /\ Turn(b, n) \in DOMAIN SCRIPT /\ SCRIPT[Turn(b, n)] = n
  /\ To(n, {BufferTx([b EXCEPT !.buffer = "TX", !.finished = 0, !.retry = TRUE])})

BearerNext ==
  \/ \E n \in Nodes :
       \/ Received(n) \/ Lost(n)
       \/ TxRetry(n) \/ TransactionTimeout(n) \/ AsyncProcess(n)
       \/ Close(n) \/ Tx(n)
  \/ Listen
  \/ ListenStop
  \/ Open

BearerSpec == BearerInit /\ [][BearerNext]_bearer

\* A packet is received that the other end does something about.
Heeded(n) == Received(n) /\ bearer'[Peer(n)] # bearer[Peer(n)]

\* An end that answers sends after the other, and tries again at the same interval:
\* the two do not send their segments at the same time, over and over, each without
\* room for the acknowledgment of the other's.
RetriesApart == \A n \in Nodes : TxRetry(n) => bearer[Peer(n)].queue = <<>>

\* Timers and flags are called, the radio sends, and of the packets the other end
\* would do something about, when such are sent time and again, one arrives in the end.
BearerFairSpec ==
  /\ BearerInit /\ [][BearerNext /\ RetriesApart]_bearer
  /\ \A n \in Nodes :
       /\ WF_bearer(TxRetry(n)) /\ WF_bearer(AsyncProcess(n)) /\ WF_bearer(Tx(n))
       /\ WF_bearer(Received(n) \/ Lost(n)) /\ SF_bearer(Heeded(n))

-----------------------------------------------------------------------------
\* What the packets on their way and the bearers hold.
Packet ==
  [type : {"LINK_OPEN", "LINK_ACK", "LINK_CLOSE",
           "TRANSACTION_START", "TRANSACTION_CONTINUE", "TRANSACTION_ACK"},
   link : Nat, number : Nat, segment : Nat, left : Nat, last : BOOLEAN]

Bearers ==
  [state : {"IDLE", "LISTEN", "LINK_OPENING", "LINK_OPEN", "LINK_CLOSING"}, link : Nat,
   buffer : {"UNUSED", "RX", "TX"}, finished : Nat, received : SUBSET Nat, out : Nat, in : Nat,
   queue : Seq(Packet), queue_empty_pending : BOOLEAN, retry : BOOLEAN, links : Nat]

Linked ==
  /\ \A n \in Nodes : bearer[n].state = "LINK_OPEN"
  /\ bearer["provisioner"].link = bearer["provisionee"].link

(***************************************************************************)
(* Every message is delivered once and in order: the two ends of a link    *)
(* agree on the number of the next message, up to the one whose            *)
(* acknowledgment is still on its way, whatever was lost or sent again.    *)
(***************************************************************************)
DeliveredOnce ==
  Linked => \A n \in Nodes :
    \/ bearer[Peer(n)].in = bearer[n].out
    \/ bearer[Peer(n)].in = bearer[n].out + 1 /\ bearer[n].buffer = "TX"

Exchanged ==
  \A n \in Nodes : Turn(bearer[n], n) = Len(SCRIPT) + 1 /\ bearer[n].buffer = "UNUSED"

(***************************************************************************)
(* On a link that neither end closes all messages are delivered and        *)
(* acknowledged in the end: the two ends, with a buffer each for both      *)
(* directions, do not wait for each other for ever.                        *)
(***************************************************************************)
AllDelivered == []<>(Linked => Exchanged)
=============================================================================
