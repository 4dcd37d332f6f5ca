----------------------------- MODULE Advertiser -----------------------------
(***************************************************************************)
(* An advertiser (advertiser.c) with its broadcast (broadcast.c): packets  *)
(* that were committed to its buffer are sent one after the other, each    *)
(* its number of times, at the timeouts of a timer.  The radio interrupt   *)
(* that ends a broadcast comes between any two steps of the others.        *)
(***************************************************************************)
EXTENDS Integers, Sequences

CONSTANTS
  REPEATS,          \* numbers of repeats packets are sent with
  CAPACITY          \* packets the buffer has room for, the current one among them

INFINITE == 255     \* ADVERTISER_REPEAT_INFINITE

NoPacket == -1      \* p_packet is NULL

ASSUME AdvertiserAssumption ==
  /\ REPEATS \subseteq 1..INFINITE
  /\ CAPACITY \in Nat

VARIABLE advertiser

AdvertiserInit ==
  advertiser = [enabled |-> FALSE, ready |-> <<>>, packet |-> NoPacket, active |-> FALSE,
                pending |-> FALSE, timer |-> "UNUSED", interval |-> FALSE,
                timeout |-> "none", sending |-> FALSE, popped |-> FALSE, halted |-> FALSE]

Asserted(a, holds) == [a EXCEPT !.halted = @ \/ ~holds]

IsActive(a) == a.timer \in {"SCHEDULED", "IN_CALLBACK"}

Abort(a) ==
  [a EXCEPT !.timer = IF @ = "SCHEDULED" THEN "ABORTED"
                      ELSE IF @ = "IN_CALLBACK" THEN "UNUSED" ELSE @]

ScheduleFirstTime(a) == [a EXCEPT !.timer = "SCHEDULED"]

(***************************************************************************)
(* broadcast_complete_cb, and the end of the radio action, in the radio    *)
(* interrupt.                                                              *)
(***************************************************************************)
\* Mutant: the timer is stopped before the packet is looked for.
BroadcastEndedStops(a) ==
  LET notify == a.packet \in {0, INFINITE}
      b == [Asserted(a, notify => ~a.pending) EXCEPT !.active = FALSE, !.pending = @ \/ notify]
  IN  IF a.packet # 0 THEN b ELSE Abort([b EXCEPT !.packet = NoPacket])

BroadcastEnded(a) ==
  LET notify == a.packet \in {0, INFINITE}
      b == [Asserted(a, notify => ~a.pending) EXCEPT !.active = FALSE, !.pending = @ \/ notify]
  IN  CASE a.packet # 0 -> b
        [] a.packet = 0 /\ a.ready # <<>> -> [b EXCEPT !.packet = NoPacket]
        [] OTHER -> Abort([b EXCEPT !.packet = NoPacket])

BroadcastComplete ==
  /\ advertiser.active
  /\ advertiser' = [BroadcastEnded(advertiser) EXCEPT !.popped = FALSE]

TxCompleteEvent ==
  /\ advertiser.pending /\ advertiser.timeout = "none"
  /\ advertiser' = [advertiser EXCEPT !.pending = FALSE, !.popped = FALSE]

(***************************************************************************)
(* The timeout of the timer: what it knows of the broadcast may be over    *)
(* when the next timeout is set up.                                        *)
(***************************************************************************)
\* Mutant: a packet that repeats for ever stays.
ShouldFreeDone(a) == a.packet = 0

\* A packet that repeats for ever makes way to one that is ready.
ShouldFree(a) == a.packet = 0 \/ (a.packet = INFINITE /\ a.ready # <<>>)

Popped(a, k) ==
  [a EXCEPT !.packet = a.ready[k], !.ready = SubSeq(@, k + 1, Len(@)), !.popped = TRUE]

\* A packet that was popped is asked the same question again: the ones that repeat
\* for ever are freed unsent for as long as others are ready behind them.
Kept(a) == {k \in DOMAIN a.ready : ~ShouldFree(Popped(a, k))}

FirstKept(a) == CHOOSE k \in Kept(a) : \A l \in Kept(a) : k <= l

Fetched(a) ==
  CASE a.packet # NoPacket /\ ~ShouldFree(a) -> a
    [] a.ready # <<>> /\ (a.packet = NoPacket \/ ShouldFree(a)) -> Popped(a, FirstKept(a))
    [] OTHER -> [a EXCEPT !.packet = NoPacket]

Broadcast(a) ==
  [Asserted(a, a.packet > 0)
     EXCEPT !.active = TRUE, !.packet = IF @ = INFINITE THEN @ ELSE @ - 1]

\* Back in the scheduler an event that is still in its callback goes on with its
\* interval.
AfterCallback(a) ==
  [a EXCEPT !.timeout = "none",
            !.timer = IF @ = "IN_CALLBACK" THEN (IF a.interval THEN "SCHEDULED" ELSE "UNUSED")
                      ELSE @]

TimedOut(a) ==
  LET f == Fetched(a)
  IN  CASE ~a.enabled -> AfterCallback([a EXCEPT !.interval = FALSE])
        [] a.enabled /\ (a.active \/ a.pending) -> [a EXCEPT !.timeout = "has_packet"]
        [] a.enabled /\ ~a.active /\ ~a.pending /\ f.packet # NoPacket ->
             [Broadcast(f) EXCEPT !.timeout = "has_packet"]
        [] OTHER -> AfterCallback(f)

TimeoutEvent ==
  /\ advertiser.timer = "SCHEDULED" /\ advertiser.timeout = "none"
  /\ advertiser' = TimedOut([advertiser EXCEPT !.timer = "IN_CALLBACK", !.popped = FALSE])

SetupNextTimeout ==
  /\ advertiser.timeout = "has_packet"
  /\ advertiser' = AfterCallback([Asserted(advertiser, advertiser.timer = "IN_CALLBACK")
                                    EXCEPT !.interval = TRUE, !.popped = FALSE])

\* The scheduler takes an aborted event from its list.
TimerRemoved ==
  /\ advertiser.timer = "ABORTED"
  /\ advertiser' = [advertiser EXCEPT !.timer = "UNUSED", !.popped = FALSE]

(***************************************************************************)
(* The interface, from the main loop.                                      *)
(***************************************************************************)
Idle == advertiser.timeout = "none" /\ ~advertiser.sending

AdvertiserEnable ==
  /\ Idle
  /\ LET a == [advertiser EXCEPT !.enabled = TRUE, !.popped = FALSE]
     IN  advertiser' = IF ~advertiser.enabled /\ (a.packet # NoPacket \/ a.ready # <<>>)
                       THEN ScheduleFirstTime(a) ELSE a

AdvertiserDisable ==
  /\ Idle
  /\ advertiser' = Abort([advertiser EXCEPT !.enabled = FALSE, !.popped = FALSE])

\* The packet is committed, and then the timer looked at.
PacketCommit(repeats) ==
  /\ Idle
  /\ Len(advertiser.ready) + (IF advertiser.packet = NoPacket THEN 0 ELSE 1) < CAPACITY
  /\ advertiser' = [advertiser EXCEPT !.ready = Append(@, repeats), !.sending = TRUE,
                                      !.popped = FALSE]

PacketSent ==
  /\ advertiser.sending /\ advertiser.timeout = "none"
  /\ LET a == [advertiser EXCEPT !.sending = FALSE, !.popped = FALSE]
     IN  advertiser' = IF a.enabled /\ ~IsActive(a) THEN ScheduleFirstTime(a) ELSE a

AdvertiserFlush ==
  /\ Idle
  /\ advertiser' = [advertiser EXCEPT !.ready = <<>>, !.popped = FALSE,
                                      !.packet = IF @ = NoPacket THEN @ ELSE 0]

AdvertiserIntervalSet ==
  /\ Idle
  /\ advertiser' = [advertiser EXCEPT !.timer = IF advertiser.enabled /\ IsActive(advertiser)
                                                THEN "SCHEDULED" ELSE @, !.popped = FALSE]

AdvertiserNext ==
  \/ BroadcastComplete
  \/ TxCompleteEvent
  \/ TimeoutEvent
  \/ SetupNextTimeout
  \/ TimerRemoved
  \/ AdvertiserEnable
  \/ AdvertiserDisable
  \/ \E repeats \in REPEATS : PacketCommit(repeats)
  \/ PacketSent
  \/ AdvertiserFlush
  \/ AdvertiserIntervalSet

AdvertiserSpec == AdvertiserInit /\ [][AdvertiserNext]_advertiser

\* The radio, the bearer event handler and the scheduler go on, and every run of
\* the handler calls the sequential events that are pending.
AdvertiserFairSpec ==
  /\ AdvertiserSpec
  /\ WF_advertiser(BroadcastComplete) /\ SF_advertiser(TxCompleteEvent)
  /\ WF_advertiser(TimeoutEvent) /\ WF_advertiser(SetupNextTimeout \/ PacketSent)

-----------------------------------------------------------------------------
\* What the fields of an advertiser hold.
Advertisers ==
  [enabled : BOOLEAN, ready : Seq(REPEATS), packet : {NoPacket} \union 0..INFINITE,
   active : BOOLEAN, pending : BOOLEAN,
   timer : {"UNUSED", "SCHEDULED", "IN_CALLBACK", "ABORTED"}, interval : BOOLEAN,
   timeout : {"none", "has_packet"}, sending : BOOLEAN, popped : BOOLEAN, halted : BOOLEAN]

(***************************************************************************)
(* An enabled advertiser with anything to send has its timer running: what *)
(* the radio interrupt and the main loop decide of it, each from its own   *)
(* look at the buffer, never leaves a packet behind.                       *)
(***************************************************************************)
SendsOn ==
  LET a == advertiser IN
  a.enabled /\ Idle /\ ~a.halted
    => (a.ready # <<>> \/ a.packet > 0 => a.timer = "SCHEDULED")

Moves ==
  advertiser.popped \/ advertiser.ready = <<>> \/ ~advertiser.enabled \/ advertiser.halted

\* Time and again an enabled advertiser with packets that are ready takes one,
\* whatever repeats, unless an assertion stopped the device.
PacketsMove == []<>Moves
=============================================================================
