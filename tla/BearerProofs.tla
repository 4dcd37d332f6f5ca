---------------------------- MODULE BearerProofs ----------------------------
(***************************************************************************)
(* What is proved below provisioning: that an advertiser never leaves a    *)
(* packet behind, and that the bearer delivers every message once, for     *)
(* every number of repeats, segments and links and every size of buffer.   *)
(***************************************************************************)
EXTENDS Advertiser, PbAdv, SequenceTheorems, WellFoundedInduction, TLAPS

-----------------------------------------------------------------------------
(* The advertiser *)

Works(a) == a.ready # <<>> \/ a.packet > 0

(***************************************************************************)
(* The inductive invariant.  An event is in its callback only while the    *)
(* timeout handler is between its two halves, so that whoever finds the    *)
(* timer active outside of it finds it scheduled.                          *)
(***************************************************************************)
Attended(a) ==
  /\ a \in Advertisers
  /\ a.timer = "IN_CALLBACK" => a.timeout = "has_packet"
  /\ a.enabled /\ a.timeout = "none" /\ ~a.sending /\ ~a.halted /\ Works(a)
       => a.timer = "SCHEDULED"

AdvertiserInv == Attended(advertiser)

\* The numbers of packets: repeats, those that are left, and none.
LEMMA PacketNumbers ==
  /\ \A r \in REPEATS : r \in 1..INFINITE /\ r > 0 /\ r # NoPacket
  /\ ~(NoPacket > 0) /\ ~(0 > 0) /\ 0 # NoPacket
  /\ REPEATS \subseteq 0..INFINITE
BY AdvertiserAssumption DEF AdvertiserAssumption, INFINITE, NoPacket

\* A step that neither gives work nor touches the timer keeps the invariant.
LEMMA NothingToAttend ==
  ASSUME NEW a, Attended(a), NEW b \in Advertisers,
         b.timer = a.timer, b.timeout = a.timeout, b.sending = a.sending,
         b.enabled => a.enabled, a.halted => b.halted, Works(b) => Works(a)
  PROVE  Attended(b)
BY Zenon DEF Attended

\* Aborting ends a callback's hold of the timer.
LEMMA AbortIs ==
  ASSUME NEW a \in Advertisers
  PROVE  /\ Abort(a) \in Advertisers
         /\ Abort(a).timer # "IN_CALLBACK"
         /\ Abort(a).enabled = a.enabled /\ Abort(a).ready = a.ready /\ Abort(a).packet = a.packet
<1> DEFINE t == IF a.timer = "SCHEDULED" THEN "ABORTED"
                ELSE IF a.timer = "IN_CALLBACK" THEN "UNUSED" ELSE a.timer
<1>1. t \in {"UNUSED", "SCHEDULED", "IN_CALLBACK", "ABORTED"} /\ t # "IN_CALLBACK"
  BY DEF Advertisers
<1>2. Abort(a) = [a EXCEPT !.timer = t]
  BY DEF Abort, Advertisers
<1> HIDE DEF t
<1> QED BY <1>1, <1>2 DEF Advertisers

\* An assertion may halt the device, and does nothing else.
LEMMA AssertedIs ==
  ASSUME NEW a \in Advertisers, NEW holds \in BOOLEAN
  PROVE  \E h \in BOOLEAN : /\ Asserted(a, holds) = [a EXCEPT !.halted = h]
                            /\ a.halted => h
                            /\ ~holds => h
<1>1. (a.halted \/ ~holds) \in BOOLEAN
  OBVIOUS
<1> QED BY <1>1 DEF Asserted, Advertisers

\* The end of a broadcast in the radio interrupt.
LEMMA BroadcastEndedKeeps ==
  ASSUME NEW a, Attended(a)
  PROVE  Attended([BroadcastEnded(a) EXCEPT !.popped = FALSE])
<1> DEFINE notify == a.packet \in {0, INFINITE}
           c == Asserted(a, notify => ~a.pending)
           d == [c EXCEPT !.active = FALSE, !.pending = @ \/ notify]
<1>0. a \in Advertisers BY DEF Attended
<1>1. PICK h \in BOOLEAN : c = [a EXCEPT !.halted = h] /\ (a.halted => h)
  BY <1>0, AssertedIs
<1>2. PICK p \in BOOLEAN : d = [a EXCEPT !.halted = h, !.active = FALSE, !.pending = p]
  <2>1. (c.pending \/ notify) \in BOOLEAN OBVIOUS
  <2> QED BY <1>0, <1>1, <2>1 DEF Advertisers
<1>3. /\ d \in Advertisers
      /\ d.timer = a.timer /\ d.timeout = a.timeout /\ d.sending = a.sending
      /\ d.enabled = a.enabled /\ d.ready = a.ready /\ d.packet = a.packet /\ d.halted = h
  BY <1>0, <1>2 DEF Advertisers
<1>4. BroadcastEnded(a) = IF a.packet # 0 THEN d
                          ELSE IF a.ready # <<>> THEN [d EXCEPT !.packet = NoPacket]
                          ELSE Abort([d EXCEPT !.packet = NoPacket])
  BY DEF BroadcastEnded
<1> HIDE DEF c, d
<1> DEFINE e == [d EXCEPT !.packet = NoPacket]
<1>5. /\ e \in Advertisers
      /\ e.timer = a.timer /\ e.timeout = a.timeout /\ e.sending = a.sending
      /\ e.enabled = a.enabled /\ e.ready = a.ready /\ e.packet = NoPacket /\ e.halted = h
  BY <1>3 DEF Advertisers
<1> HIDE DEF e
<1> DEFINE b == [BroadcastEnded(a) EXCEPT !.popped = FALSE]
<1>6. CASE a.packet # 0
  <2>1. b = [d EXCEPT !.popped = FALSE] BY <1>4, <1>6
  <2>2. /\ b \in Advertisers
        /\ b.timer = a.timer /\ b.timeout = a.timeout /\ b.sending = a.sending
        /\ b.enabled = a.enabled /\ b.ready = a.ready /\ b.packet = a.packet /\ b.halted = h
    BY <1>3, <2>1 DEF Advertisers
  <2> HIDE DEF b
  <2>3. Works(b) => Works(a) BY <2>2, Zenon DEF Works
  <2>4. Attended(b) BY <1>1, <2>2, <2>3, NothingToAttend, Zenon
  <2> QED BY <2>4 DEF b
<1>7. CASE a.packet = 0 /\ a.ready # <<>>
  <2>1. b = [e EXCEPT !.popped = FALSE] BY <1>4, <1>7 DEF e
  <2>2. /\ b \in Advertisers
        /\ b.timer = a.timer /\ b.timeout = a.timeout /\ b.sending = a.sending
        /\ b.enabled = a.enabled /\ b.ready = a.ready /\ b.packet = NoPacket /\ b.halted = h
    BY <1>5, <2>1 DEF Advertisers
  <2> HIDE DEF b
  <2>3. Works(b) => Works(a) BY <1>7, Zenon DEF Works
  <2>4. Attended(b) BY <1>1, <2>2, <2>3, NothingToAttend, Zenon
  <2> QED BY <2>4 DEF b
<1>8. CASE a.packet = 0 /\ a.ready = <<>>
  <2>1. b = [Abort(e) EXCEPT !.popped = FALSE] BY <1>4, <1>8 DEF e
  <2>2. b \in Advertisers /\ b.timer # "IN_CALLBACK" /\ b.ready = <<>> /\ b.packet = NoPacket
    <3>1. /\ Abort(e) \in Advertisers /\ Abort(e).timer # "IN_CALLBACK"
          /\ Abort(e).ready = <<>> /\ Abort(e).packet = NoPacket
      BY <1>5, <1>8, AbortIs
    <3> QED BY <2>1, <3>1 DEF Advertisers
  <2> HIDE DEF b
  <2>3. ~Works(b) BY <2>2, PacketNumbers, Zenon DEF Works
  <2>4. Attended(b) BY <2>2, <2>3, Zenon DEF Attended
  <2> QED BY <2>4 DEF b
<1> QED BY <1>6, <1>7, <1>8

\* Back from its callback a timer runs that has an interval.
LEMMA AfterCallbackIs ==
  ASSUME NEW a \in Advertisers
  PROVE  LET b == AfterCallback(a) IN
         /\ b \in Advertisers
         /\ b.timer # "IN_CALLBACK"
         /\ a.timer = "IN_CALLBACK" /\ a.interval => b.timer = "SCHEDULED"
         /\ b.enabled = a.enabled /\ b.ready = a.ready /\ b.packet = a.packet
         /\ b.halted = a.halted
<1> DEFINE t == IF a.timer = "IN_CALLBACK" THEN (IF a.interval THEN "SCHEDULED" ELSE "UNUSED")
                ELSE a.timer
<1>1. /\ t \in {"UNUSED", "SCHEDULED", "IN_CALLBACK", "ABORTED"} /\ t # "IN_CALLBACK"
      /\ a.timer = "IN_CALLBACK" /\ a.interval => t = "SCHEDULED"
  BY DEF Advertisers
<1>2. AfterCallback(a) = [a EXCEPT !.timeout = "none", !.timer = t]
  BY DEF AfterCallback, Advertisers
<1> HIDE DEF t
<1>3. LET b == [a EXCEPT !.timeout = "none", !.timer = t] IN
      /\ b \in Advertisers /\ b.timer = t
      /\ b.enabled = a.enabled /\ b.ready = a.ready /\ b.packet = a.packet
      /\ b.halted = a.halted
  BY <1>1 DEF Advertisers
<1> QED BY <1>1, <1>2, <1>3

\* A non-empty set of natural numbers has a least element.
LEMMA LeastOf ==
  ASSUME NEW T \in SUBSET Nat, T # {}
  PROVE  \E x \in T : \A y \in T : x <= y
<1>1. \E x \in T : \A y \in T : ~(<<y, x>> \in OpToRel(<, Nat))
  BY NatLessThanWellFounded, WFMin
<1>2. PICK x \in T : \A y \in T : ~(<<y, x>> \in OpToRel(<, Nat)) BY <1>1
<1>3. ASSUME NEW y \in T PROVE x <= y
  <2>1. x \in Nat /\ y \in Nat OBVIOUS
  <2>2. ~(y < x) BY <1>2, <2>1 DEF OpToRel
  <2> QED BY <2>1, <2>2
<1> QED BY <1>3

\* A packet that is popped from the buffer of an advertiser.
LEMMA PoppedIs ==
  ASSUME NEW a \in Advertisers, NEW k \in DOMAIN a.ready
  PROVE  LET b == Popped(a, k) IN
         /\ b \in Advertisers
         /\ b.packet = a.ready[k] /\ b.packet \in REPEATS
         /\ b.ready = SubSeq(a.ready, k + 1, Len(a.ready))
         /\ b.timer = a.timer /\ b.enabled = a.enabled /\ b.halted = a.halted
<1> DEFINE n == Len(a.ready)
           p == a.ready[k]
           r == SubSeq(a.ready, k + 1, n)
<1>1. a.ready \in Seq(REPEATS) BY DEF Advertisers
<1>2. n \in Nat /\ k \in 1..n /\ \A i \in k + 1..n : a.ready[i] \in REPEATS BY <1>1
<1>3. p \in REPEATS BY <1>1
<1>4. p \in 0..INFINITE BY <1>3, PacketNumbers
<1> HIDE DEF n
<1>5. k + 1 \in Int /\ n \in Int BY <1>2
<1>6. r \in Seq(REPEATS) BY <1>2, <1>5, SubSeqProperties
<1>7. Popped(a, k) = [a EXCEPT !.packet = p, !.ready = r, !.popped = TRUE]
  BY DEF Popped, Advertisers, n
<1>8. r = SubSeq(a.ready, k + 1, Len(a.ready)) BY DEF n
<1> HIDE DEF p, r
<1>9. LET b == [a EXCEPT !.packet = p, !.ready = r, !.popped = TRUE] IN
      /\ b \in Advertisers /\ b.packet = p /\ b.ready = r
      /\ b.timer = a.timer /\ b.enabled = a.enabled /\ b.halted = a.halted
  BY <1>4, <1>6 DEF Advertisers
<1>10. p = a.ready[k] BY DEF p
<1> QED BY <1>3, <1>7, <1>8, <1>9, <1>10

\* The loop ends at a packet: nothing is behind the last of them, and all packets
\* that are ready have repeats.
LEMMA FirstKeptIs ==
  ASSUME NEW a \in Advertisers, a.ready # <<>>
  PROVE  FirstKept(a) \in DOMAIN a.ready
<1> DEFINE n == Len(a.ready)
<1>1. a.ready \in Seq(REPEATS) BY DEF Advertisers
<1>2. n \in Nat /\ n \in DOMAIN a.ready /\ DOMAIN a.ready = 1..n BY <1>1
<1>3. SubSeq(a.ready, n + 1, n) = <<>>
  <2>1. n + 1 \in Int /\ n \in Int /\ n < n + 1 BY <1>2
  <2> HIDE DEF n
  <2> QED BY <2>1, SubSeqEmpty
<1>4. /\ Popped(a, n).packet \in REPEATS
      /\ Popped(a, n).ready = <<>>
  BY <1>2, <1>3, PoppedIs
<1>5. Popped(a, n).packet # 0 BY <1>4, PacketNumbers
<1>6. ~ShouldFree(Popped(a, n)) BY <1>4, <1>5 DEF ShouldFree
<1>7. n \in Kept(a) BY <1>2, <1>6 DEF Kept
<1>8. Kept(a) \in SUBSET Nat BY <1>2 DEF Kept
<1>9. \E k \in Kept(a) : \A l \in Kept(a) : k <= l BY <1>7, <1>8, LeastOf
<1>10. FirstKept(a) \in Kept(a) BY <1>9 DEF FirstKept
<1> QED BY <1>10 DEF Kept

\* The packet of the next broadcast: none only if none is ready.
LEMMA FetchedIs ==
  ASSUME NEW a \in Advertisers
  PROVE  LET b == Fetched(a) IN
         /\ b \in Advertisers
         /\ b.packet = NoPacket => ~Works(b)
         /\ b.timer = a.timer /\ b.enabled = a.enabled /\ b.halted = a.halted
<1>1. CASE a.packet # NoPacket /\ ~ShouldFree(a)
  <2>1. Fetched(a) = a BY <1>1 DEF Fetched
  <2> QED BY <1>1, <2>1
<1>2. CASE a.ready # <<>> /\ (a.packet = NoPacket \/ ShouldFree(a))
  <2> DEFINE k == FirstKept(a)
             b == Popped(a, k)
  <2>1. Fetched(a) = b BY <1>2 DEF Fetched
  <2>2. k \in DOMAIN a.ready BY <1>2, FirstKeptIs
  <2> HIDE DEF k
  <2>3. /\ b \in Advertisers /\ b.packet \in REPEATS
        /\ b.timer = a.timer /\ b.enabled = a.enabled /\ b.halted = a.halted
    BY <2>2, PoppedIs
  <2> HIDE DEF b
  <2>4. b.packet # NoPacket BY <2>3, PacketNumbers
  <2> QED BY <2>1, <2>3, <2>4, Zenon
<1>3. CASE ~(a.packet # NoPacket /\ ~ShouldFree(a))
           /\ ~(a.ready # <<>> /\ (a.packet = NoPacket \/ ShouldFree(a)))
  <2>1. a.ready = <<>> BY <1>3
  <2>2. Fetched(a) = [a EXCEPT !.packet = NoPacket] BY <1>3 DEF Fetched
  <2> DEFINE b == [a EXCEPT !.packet = NoPacket]
  <2>3. b \in Advertisers /\ b.packet = NoPacket /\ b.ready = <<>> /\ b.timer = a.timer
        /\ b.enabled = a.enabled /\ b.halted = a.halted
    BY <2>1 DEF Advertisers
  <2> HIDE DEF b
  <2>4. ~Works(b) BY <2>3, PacketNumbers, Zenon DEF Works
  <2>5. Fetched(a) = b BY <2>2 DEF b
  <2> QED BY <2>3, <2>4, <2>5, Zenon
<1> QED BY <1>1, <1>2, <1>3

\* The broadcast of a packet counts it.
LEMMA BroadcastIs ==
  ASSUME NEW a \in Advertisers, a.packet # NoPacket
  PROVE  Broadcast(a) \in Advertisers
<1>1. (a.packet > 0) \in BOOLEAN OBVIOUS
<1> DEFINE c == Asserted(a, a.packet > 0)
<1>2. PICK h \in BOOLEAN : c = [a EXCEPT !.halted = h]
  BY <1>1, AssertedIs
<1>3. c \in Advertisers /\ c.packet = a.packet BY <1>2 DEF Advertisers
<1> HIDE DEF c
<1> DEFINE p == IF c.packet = INFINITE THEN c.packet ELSE c.packet - 1
<1>4. p \in {NoPacket} \union 0..INFINITE
  <2>1. c.packet \in 0..INFINITE BY <1>3 DEF Advertisers
  <2> QED BY <2>1 DEF NoPacket, INFINITE
<1>5. Broadcast(a) = [c EXCEPT !.active = TRUE, !.packet = p]
  BY <1>3 DEF Broadcast, c, Advertisers
<1> HIDE DEF p
<1> QED BY <1>3, <1>4, <1>5 DEF Advertisers

\* The timeout of the timer.
LEMMA TimedOutKeeps ==
  ASSUME NEW a \in Advertisers, a.timer = "IN_CALLBACK"
  PROVE  Attended(TimedOut(a))
<1>1. CASE ~a.enabled
  <2> DEFINE c == [a EXCEPT !.interval = FALSE]
  <2>1. c \in Advertisers /\ c.enabled = a.enabled BY DEF Advertisers
  <2>2. TimedOut(a) = AfterCallback(c) BY <1>1 DEF TimedOut
  <2> HIDE DEF c
  <2> QED BY <1>1, <2>1, <2>2, AfterCallbackIs, Zenon DEF Attended
<1>2. CASE a.enabled /\ (a.active \/ a.pending)
  <2> DEFINE b == [a EXCEPT !.timeout = "has_packet"]
  <2>1. b \in Advertisers /\ b.timeout = "has_packet" /\ b.timeout # "none" BY DEF Advertisers
  <2>2. TimedOut(a) = b BY <1>2 DEF TimedOut
  <2> HIDE DEF b
  <2> QED BY <2>1, <2>2, Zenon DEF Attended
<1>3. CASE a.enabled /\ ~a.active /\ ~a.pending /\ Fetched(a).packet # NoPacket
  <2> DEFINE c == Broadcast(Fetched(a))
             b == [c EXCEPT !.timeout = "has_packet"]
  <2>1. c \in Advertisers BY <1>3, FetchedIs, BroadcastIs
  <2>2. TimedOut(a) = b BY <1>3 DEF TimedOut
  <2> HIDE DEF c
  <2>3. b \in Advertisers /\ b.timeout = "has_packet" /\ b.timeout # "none"
    BY <2>1 DEF Advertisers
  <2> HIDE DEF b
  <2> QED BY <2>2, <2>3, Zenon DEF Attended
<1>4. CASE a.enabled /\ ~(a.active \/ a.pending) /\ Fetched(a).packet = NoPacket
  <2> DEFINE f == Fetched(a)
             b == AfterCallback(f)
  <2>1. f \in Advertisers /\ ~Works(f) BY <1>4, FetchedIs
  <2>2. TimedOut(a) = b BY <1>4 DEF TimedOut
  <2> HIDE DEF f
  <2>3. b \in Advertisers /\ b.timer # "IN_CALLBACK" /\ b.ready = f.ready /\ b.packet = f.packet
    BY <2>1, AfterCallbackIs
  <2> HIDE DEF b
  <2>4. ~Works(b) BY <2>1, <2>3, Zenon DEF Works
  <2> QED BY <2>2, <2>3, <2>4, Zenon DEF Attended
<1> QED BY <1>1, <1>2, <1>3, <1>4

\* The invariant holds at first, and implies what the run checks.
LEMMA AdvertiserInitially == AdvertiserInit => AdvertiserInv
<1> SUFFICES ASSUME AdvertiserInit PROVE AdvertiserInv
  OBVIOUS
<1>1. /\ advertiser \in Advertisers
      /\ advertiser.timer = "UNUSED" /\ advertiser.ready = <<>> /\ advertiser.packet = NoPacket
  BY DEF AdvertiserInit, Advertisers
<1>2. advertiser.timer # "IN_CALLBACK"
  BY <1>1
<1>3. ~Works(advertiser)
  BY <1>1, PacketNumbers, Zenon DEF Works
<1> QED BY <1>1, <1>2, <1>3, Zenon DEF AdvertiserInv, Attended

\* An advertiser that is attended to sends on.
LEMMA AttendedSendsOn == AdvertiserInv => SendsOn
BY Zenon DEF AdvertiserInv, Attended, SendsOn, Idle, Works

\* Every step keeps an advertiser attended to.
LEMMA AdvertiserStep ==
  ASSUME AdvertiserInv, [AdvertiserNext]_advertiser
  PROVE  AdvertiserInv'
<1> DEFINE a == advertiser
           b == advertiser'
<1>0. a \in Advertisers /\ Attended(a)
  BY DEF AdvertiserInv, Attended
<1> SUFFICES Attended(b)
  BY DEF AdvertiserInv, Attended, Works, Advertisers
<1>1. CASE BroadcastComplete
  BY <1>0, <1>1, BroadcastEndedKeeps DEF BroadcastComplete
<1>2. CASE TxCompleteEvent
  <2>1. /\ b \in Advertisers
        /\ b.timer = a.timer /\ b.timeout = a.timeout /\ b.sending = a.sending
        /\ b.enabled = a.enabled /\ b.ready = a.ready /\ b.packet = a.packet
        /\ b.halted = a.halted
    BY <1>0, <1>2 DEF TxCompleteEvent, Advertisers
  <2>2. Works(b) => Works(a) BY <2>1, Zenon DEF Works
  <2> QED BY <1>0, <2>1, <2>2, NothingToAttend, Zenon
<1>3. CASE TimeoutEvent
  <2> DEFINE c == [a EXCEPT !.timer = "IN_CALLBACK", !.popped = FALSE]
  <2>1. c \in Advertisers /\ c.timer = "IN_CALLBACK" BY <1>0 DEF Advertisers
  <2>2. b = TimedOut(c) BY <1>3 DEF TimeoutEvent
  <2> QED BY <2>1, <2>2, TimedOutKeeps
<1>4. CASE SetupNextTimeout
  <2> DEFINE holds == a.timer = "IN_CALLBACK"
             c == Asserted(a, holds)
  <2>1. PICK h \in BOOLEAN : c = [a EXCEPT !.halted = h] /\ (~holds => h)
    <3>1. holds \in BOOLEAN OBVIOUS
    <3> QED BY <1>0, <3>1, AssertedIs
  <2> DEFINE d == [c EXCEPT !.interval = TRUE, !.popped = FALSE]
  <2>2. d \in Advertisers /\ d.interval = TRUE /\ d.timer = a.timer /\ d.halted = h
    BY <1>0, <2>1 DEF Advertisers
  <2>3. b = AfterCallback(d) BY <1>4 DEF SetupNextTimeout
  <2> HIDE DEF d, c
  <2>4. /\ b \in Advertisers /\ b.timer # "IN_CALLBACK" /\ b.halted = h
        /\ holds => b.timer = "SCHEDULED"
    BY <2>2, <2>3, AfterCallbackIs
  <2> QED BY <2>1, <2>4, Zenon DEF Attended
<1>5. CASE TimerRemoved
  <2>1. b \in Advertisers /\ b.timer = "UNUSED"
        /\ b.timeout = a.timeout /\ b.sending = a.sending
        /\ b.enabled = a.enabled /\ b.ready = a.ready /\ b.packet = a.packet
        /\ b.halted = a.halted
    BY <1>0, <1>5 DEF TimerRemoved, Advertisers
  <2>2. a.timer # "SCHEDULED" /\ b.timer # "IN_CALLBACK"
    BY <1>5, <2>1 DEF TimerRemoved
  <2>3. Works(b) => Works(a) BY <2>1, Zenon DEF Works
  <2> QED BY <1>0, <2>1, <2>2, <2>3, Zenon DEF Attended
<1>6. CASE AdvertiserEnable
  <2> DEFINE c == [a EXCEPT !.enabled = TRUE, !.popped = FALSE]
  <2>1. /\ c \in Advertisers
        /\ c.timer = a.timer /\ c.timeout = a.timeout /\ c.sending = a.sending
        /\ c.ready = a.ready /\ c.packet = a.packet /\ c.halted = a.halted
    BY <1>0 DEF Advertisers
  <2>2. b = IF ~a.enabled /\ (c.packet # NoPacket \/ c.ready # <<>>)
            THEN ScheduleFirstTime(c) ELSE c
    BY <1>6 DEF AdvertiserEnable
  <2> HIDE DEF c
  <2>3. CASE ~a.enabled /\ (c.packet # NoPacket \/ c.ready # <<>>)
    <3>1. b \in Advertisers /\ b.timer = "SCHEDULED" /\ b.timer # "IN_CALLBACK"
      BY <2>1, <2>2, <2>3 DEF ScheduleFirstTime, Advertisers
    <3> QED BY <3>1, Zenon DEF Attended
  <2>4. CASE ~a.enabled /\ c.packet = NoPacket /\ c.ready = <<>>
    <3>1. b = c BY <2>2, <2>4
    <3>2. ~Works(c) BY <2>4, PacketNumbers, Zenon DEF Works
    <3>3. c.timer = "IN_CALLBACK" => c.timeout = "has_packet" BY <1>0, <2>1, Zenon DEF Attended
    <3> QED BY <2>1, <3>1, <3>2, <3>3, Zenon DEF Attended
  <2>5. CASE a.enabled
    <3>1. b = c BY <2>2, <2>5
    <3>2. Works(c) => Works(a) BY <2>1, Zenon DEF Works
    <3> QED BY <1>0, <2>1, <2>5, <3>1, <3>2, NothingToAttend, Zenon
  <2> QED BY <2>3, <2>4, <2>5
<1>7. CASE AdvertiserDisable
  <2> DEFINE c == [a EXCEPT !.enabled = FALSE, !.popped = FALSE]
  <2>1. c \in Advertisers /\ c.enabled = FALSE BY <1>0 DEF Advertisers
  <2>2. b = Abort(c) BY <1>7 DEF AdvertiserDisable
  <2> HIDE DEF c
  <2>3. b \in Advertisers /\ b.timer # "IN_CALLBACK" /\ b.enabled = FALSE
    BY <2>1, <2>2, AbortIs
  <2> QED BY <2>3, Zenon DEF Attended
<1>8. ASSUME NEW repeats \in REPEATS, PacketCommit(repeats)
      PROVE  Attended(b)
  <2> DEFINE r == Append(a.ready, repeats)
  <2>1. r \in Seq(REPEATS)
    <3>1. a.ready \in Seq(REPEATS) BY <1>0 DEF Advertisers
    <3> QED BY <3>1
  <2>2. b = [a EXCEPT !.ready = r, !.sending = TRUE, !.popped = FALSE]
    BY <1>8, <1>0 DEF PacketCommit, Advertisers
  <2> HIDE DEF r
  <2>3. b \in Advertisers /\ b.sending = TRUE /\ b.timer = a.timer /\ b.timeout = a.timeout
    BY <1>0, <2>1, <2>2 DEF Advertisers
  <2> QED BY <1>0, <2>3, Zenon DEF Attended
<1>9. CASE PacketSent
  <2> DEFINE c == [a EXCEPT !.sending = FALSE, !.popped = FALSE]
  <2>1. c \in Advertisers /\ c.enabled = a.enabled /\ c.timer = a.timer /\ c.timeout = a.timeout
    BY <1>0 DEF Advertisers
  <2>2. a.timeout = "none" /\ b = IF c.enabled /\ ~IsActive(c) THEN ScheduleFirstTime(c) ELSE c
    BY <1>9 DEF PacketSent
  <2> HIDE DEF c
  <2>3. a.timer # "IN_CALLBACK" BY <1>0, <2>2 DEF Attended
  <2>4. CASE c.enabled /\ ~IsActive(c)
    <3>1. b \in Advertisers /\ b.timer = "SCHEDULED" /\ b.timer # "IN_CALLBACK"
      BY <2>1, <2>2, <2>4 DEF ScheduleFirstTime, Advertisers
    <3> QED BY <3>1, Zenon DEF Attended
  <2>5. CASE c.enabled /\ IsActive(c)
    <3>1. c.timer = "SCHEDULED" BY <2>1, <2>3, <2>5 DEF IsActive
    <3>2. b = c BY <2>2, <2>5
    <3> QED BY <2>1, <2>3, <3>1, <3>2, Zenon DEF Attended
  <2>6. CASE ~c.enabled
    <3>1. b = c BY <2>2, <2>6
    <3> QED BY <2>1, <2>3, <2>6, <3>1, Zenon DEF Attended
  <2> QED BY <2>4, <2>5, <2>6
<1>10. CASE AdvertiserFlush
  <2> DEFINE p == IF a.packet = NoPacket THEN a.packet ELSE 0
             r == <<>>
  <2>1. /\ p \in {NoPacket, 0} /\ p \in {NoPacket} \union 0..INFINITE
        /\ r \in Seq(REPEATS) /\ r = <<>>
    BY DEF INFINITE
  <2>2. b = [a EXCEPT !.ready = r, !.popped = FALSE, !.packet = p]
    BY <1>0, <1>10 DEF AdvertiserFlush, Advertisers
  <2> HIDE DEF p, r
  <2>3. b \in Advertisers /\ b.ready = r /\ b.packet = p /\ b.timer = a.timer
        /\ b.timeout = a.timeout
    BY <1>0, <2>1, <2>2 DEF Advertisers
  <2>4. ~Works(b) BY <2>1, <2>3, PacketNumbers DEF Works
  <2> QED BY <1>0, <2>3, <2>4, Zenon DEF Attended
<1>11. CASE AdvertiserIntervalSet
  <2>1. CASE a.enabled /\ IsActive(a)
    <3>1. b \in Advertisers /\ b.timer = "SCHEDULED" /\ b.timer # "IN_CALLBACK"
      BY <1>0, <1>11, <2>1 DEF AdvertiserIntervalSet, Advertisers
    <3> QED BY <3>1, Zenon DEF Attended
  <2>2. CASE ~(a.enabled /\ IsActive(a))
    <3>1. /\ b \in Advertisers
          /\ b.timer = a.timer /\ b.timeout = a.timeout /\ b.sending = a.sending
          /\ b.enabled = a.enabled /\ b.ready = a.ready /\ b.packet = a.packet
          /\ b.halted = a.halted
      BY <1>0, <1>11, <2>2 DEF AdvertiserIntervalSet, Advertisers
    <3>2. Works(b) => Works(a) BY <3>1, Zenon DEF Works
    <3> QED BY <1>0, <3>1, <3>2, NothingToAttend, Zenon
  <2> QED BY <2>1, <2>2
<1>12. CASE UNCHANGED advertiser
  BY <1>0, <1>12
<1> QED
  BY <1>1, <1>2, <1>3, <1>4, <1>5, <1>6, <1>7, <1>8, <1>9, <1>10, <1>11, <1>12
  DEF AdvertiserNext

(***************************************************************************)
(* An enabled advertiser with anything to send has its timer running,      *)
(* whatever the numbers of repeats and the room in its buffer.             *)
(***************************************************************************)
THEOREM AdvertiserSendsOn == AdvertiserSpec => []SendsOn
<1>1. AdvertiserInv /\ [AdvertiserNext]_advertiser => AdvertiserInv'
  BY AdvertiserStep
<1> QED
  BY <1>1, AdvertiserInitially, AttendedSendsOn, PTL DEF AdvertiserSpec

-----------------------------------------------------------------------------
(* The bearer *)

IsData(p) == p.type \in {"TRANSACTION_START", "TRANSACTION_CONTINUE"}

HasData(b) == \E i \in 1..Len(b.queue) : IsData(b.queue[i])

\* The packet that opens the link is still to be answered, or sent.
Opening(b) ==
  \/ b.state = "LINK_OPENING"
  \/ Len(b.queue) > 0 /\ b.queue[1].type = "LINK_OPEN"

\* A bearer that waits for an acknowledgment, or takes none.
Waits(b) == b.state # "LINK_OPEN" \/ b.buffer = "TX"

(***************************************************************************)
(* What is true of the packets an end has on their way, and of an end.     *)
(***************************************************************************)
Carried(b, n) ==
  \A i \in 1..Len(b.queue) :
    LET p == b.queue[i] IN
    /\ p.link = b.link
    /\ IsData(p) => p.number <= b.out /\ (p.number = b.out => Waits(b))
    /\ p.type = "TRANSACTION_ACK" => p.number < b.in
    /\ p.type = "LINK_OPEN" => i = 1 /\ n = "provisioner"
    /\ b.state = "LINK_OPENING" => p.type = "LINK_OPEN"

Placed(b, n) ==
  /\ n = "provisioner" => b.link = b.links /\ b.state # "LISTEN" /\ (b.state # "IDLE" => b.link # 0)
  /\ n = "provisionee" => b.state # "LINK_OPENING"
  /\ b.state \in {"LISTEN", "LINK_OPENING"} => b.buffer = "UNUSED"
  /\ b.state = "LISTEN" => b.queue = <<>> /\ b.out = 128 /\ b.in = 0
  /\ Opening(b) => b.out = 0 /\ b.in = 128

Own(b, n) == b \in Bearers /\ Carried(b, n) /\ Placed(b, n)

\* The other end expects the next message, or has the one that waits.
Agree(b, c) ==
  b.link = c.link /\ b.link # 0 => c.in = b.out \/ (c.in = b.out + 1 /\ Waits(b))

\* The provisioner's end and the provisionee's.  While the packet that opens the link is
\* on its way the other end, if it has the link already, has sent nothing.
Pair(b, c) ==
  /\ c.link <= b.link
  /\ Agree(b, c) /\ Agree(c, b)
  /\ Opening(b) /\ c.link = b.link
       => c.in = 0 /\ c.out = 128 /\ c.buffer # "TX" /\ ~HasData(c)

\* The inductive invariant.
BearerInv ==
  /\ bearer \in [Nodes -> Bearers]
  /\ \A n \in Nodes : Own(bearer[n], n)
  /\ Pair(bearer["provisioner"], bearer["provisionee"])

-----------------------------------------------------------------------------
\* The fields that the invariant speaks of.
LEMMA BearerTypes ==
  ASSUME NEW b \in Bearers
  PROVE  /\ b.out \in Nat /\ b.in \in Nat /\ b.link \in Nat /\ b.links \in Nat
         /\ b.queue \in Seq(Packet) /\ Len(b.queue) \in Nat
         /\ \A i \in 1..Len(b.queue) :
              b.queue[i] \in Packet /\ b.queue[i].number \in Nat /\ b.queue[i].link \in Nat
<1>1. /\ b.out \in Nat /\ b.in \in Nat /\ b.link \in Nat /\ b.links \in Nat
      /\ b.queue \in Seq(Packet)
  BY DEF Bearers
<1>2. \A i \in 1..Len(b.queue) : b.queue[i] \in Packet
  BY <1>1
<1>3. \A p \in Packet : p.number \in Nat /\ p.link \in Nat
  BY DEF Packet
<1> QED BY <1>1, <1>2, <1>3

\* What a packet says, whether it is the last or sent again.
Alike(p, q) == p.type = q.type /\ p.link = q.link /\ p.number = q.number

\* A queue that keeps packets of another, in their places, and has new ones behind.
Follows(q, r, types, link, number) ==
  \A i \in 1..Len(r) :
    \/ i <= Len(q) /\ Alike(r[i], q[i])
    \/ i > Len(q) /\ r[i].type \in types /\ r[i].link = link /\ r[i].number = number

\* All but the queue, flags and counts.
Rest(b, c) ==
  /\ c.state = b.state /\ c.link = b.link /\ c.buffer = b.buffer /\ c.out = b.out /\ c.in = b.in
  /\ c.links = b.links

(***************************************************************************)
(* A bearer that goes on from another: it may have sent, flushed, and      *)
(* counted.                                                                *)
(***************************************************************************)
LEMMA Onward ==
  ASSUME NEW n \in Nodes, NEW b, Own(b, n), NEW c \in Bearers,
         NEW types \in SUBSET {"LINK_ACK", "LINK_CLOSE", "TRANSACTION_START",
                               "TRANSACTION_CONTINUE", "TRANSACTION_ACK"},
         NEW number \in Nat,
         Follows(b.queue, c.queue, types, b.link, number),
         "TRANSACTION_ACK" \in types => number < c.in,
         "TRANSACTION_START" \in types \/ "TRANSACTION_CONTINUE" \in types
           => number = c.out /\ Waits(c),
         c.link = b.link, c.links = b.links, b.out <= c.out, b.in <= c.in,
         Waits(b) => Waits(c) \/ b.out < c.out \/ ~HasData(b),
         \/ c.state \notin {"LISTEN", "LINK_OPENING"}
         \/ types = {} /\ c.state = b.state /\ c.buffer = b.buffer /\ c.out = b.out /\ c.in = b.in,
         (c.out = b.out /\ c.in = b.in) \/ ~Opening(b),
         c.state # "IDLE" => b.state # "IDLE"
  PROVE  Own(c, n) /\ (Opening(c) => Opening(b))
<1>0. b \in Bearers /\ Carried(b, n) /\ Placed(b, n)
  BY DEF Own
<1>1. Carried(c, n)
  <2> SUFFICES ASSUME NEW i \in 1..Len(c.queue)
               PROVE  LET p == c.queue[i] IN
                      /\ p.link = c.link
                      /\ IsData(p) => p.number <= c.out /\ (p.number = c.out => Waits(c))
                      /\ p.type = "TRANSACTION_ACK" => p.number < c.in
                      /\ p.type = "LINK_OPEN" => i = 1 /\ n = "provisioner"
                      /\ c.state = "LINK_OPENING" => p.type = "LINK_OPEN"
    BY DEF Carried
  <2>1. CASE i <= Len(b.queue) /\ Alike(c.queue[i], b.queue[i])
    <3>1. i \in 1..Len(b.queue) BY <1>0, <2>1, BearerTypes
    <3> DEFINE p == b.queue[i]
    <3>2. /\ p.link = b.link
          /\ IsData(p) => p.number <= b.out /\ (p.number = b.out => Waits(b)) /\ HasData(b)
          /\ p.type = "TRANSACTION_ACK" => p.number < b.in
          /\ p.type = "LINK_OPEN" => i = 1 /\ n = "provisioner"
          /\ b.state = "LINK_OPENING" => p.type = "LINK_OPEN"
      BY <1>0, <3>1 DEF Carried, HasData
    <3>3. c.out \in Nat /\ b.out \in Nat /\ b.in \in Nat /\ c.in \in Nat /\ p.number \in Nat
      BY <1>0, <3>1, BearerTypes
    <3> QED BY <2>1, <3>2, <3>3 DEF Alike, IsData
  <2>2. CASE i > Len(b.queue) /\ c.queue[i].type \in types /\ c.queue[i].link = b.link /\ c.queue[i].number = number
    <3>1. c.state # "LINK_OPENING" BY <2>2
    <3>2. c.out \in Nat BY BearerTypes
    <3> QED BY <2>2, <3>1, <3>2 DEF IsData
  <2> QED BY <2>1, <2>2 DEF Follows
<1>2. Opening(c) => Opening(b)
  BY <1>0, BearerTypes DEF Opening, Follows, Alike
<1>3. Placed(c, n)
  <2>1. c.state = "LISTEN" => c.queue = <<>> /\ c.out = 128 /\ c.in = 0
    <3>1. SUFFICES ASSUME c.state = "LISTEN" PROVE c.queue = <<>> /\ c.out = 128 /\ c.in = 0
      OBVIOUS
    <3>2. b.queue = <<>> /\ types = {} /\ b.out = 128 /\ b.in = 0 BY <1>0, <3>1 DEF Placed
    <3>3. Len(c.queue) = 0 BY <3>2, BearerTypes DEF Follows
    <3>4. c.queue = <<>> BY <3>3, BearerTypes
    <3> QED BY <3>1, <3>2, <3>4
  <2> QED BY <1>0, <1>2, <2>1 DEF Placed
<1> QED BY <1>1, <1>2, <1>3 DEF Own

\* What an end that goes on has of data, it had or has just sent.
LEMMA DataFollows ==
  ASSUME NEW b \in Bearers, NEW c \in Bearers, NEW types, NEW link, NEW number,
         Follows(b.queue, c.queue, types, link, number), HasData(c)
  PROVE  \/ HasData(b)
         \/ "TRANSACTION_START" \in types \/ "TRANSACTION_CONTINUE" \in types
<1>1. PICK i \in 1..Len(c.queue) : IsData(c.queue[i])
  BY DEF HasData
<1>2. i \in Nat /\ Len(b.queue) \in Nat /\ i >= 1
  BY BearerTypes
<1>3. CASE i <= Len(b.queue) /\ Alike(c.queue[i], b.queue[i])
  BY <1>1, <1>2, <1>3 DEF HasData, Alike, IsData
<1>4. CASE c.queue[i].type \in types
  BY <1>1, <1>4 DEF IsData
<1> QED BY <1>3, <1>4 DEF Follows

\* A packet that is followed by another is not the last.
LEMMA OldPackets ==
  ASSUME NEW b \in Bearers
  PROVE  LET old == [i \in DOMAIN b.queue |-> [b.queue[i] EXCEPT !.last = FALSE]] IN
         /\ old \in Seq(Packet) /\ Len(old) = Len(b.queue)
         /\ \A i \in 1..Len(b.queue) : Alike(old[i], b.queue[i])
<1> DEFINE old == [i \in DOMAIN b.queue |-> [b.queue[i] EXCEPT !.last = FALSE]]
<1>1. DOMAIN b.queue = 1..Len(b.queue) BY BearerTypes
<1>2. \A p \in Packet : LET r == [p EXCEPT !.last = FALSE] IN
        r \in Packet /\ r.type = p.type /\ r.link = p.link /\ r.number = p.number
  BY DEF Packet
<1>3. \A i \in 1..Len(b.queue) :
        old[i] = [b.queue[i] EXCEPT !.last = FALSE] /\ b.queue[i] \in Packet
  BY <1>1, BearerTypes
<1>4. \A i \in 1..Len(b.queue) : old[i] \in Packet /\ Alike(old[i], b.queue[i])
  BY <1>2, <1>3 DEF Alike
<1>5. old \in [1..Len(b.queue) -> Packet]
  BY <1>1, <1>4
<1>6. Len(b.queue) \in Nat BY BearerTypes
<1> HIDE DEF old
<1>7. old \in Seq(Packet) /\ Len(old) = Len(b.queue)
  BY <1>5, <1>6
<1> QED BY <1>4, <1>7 DEF old

\* A packet is put behind those that wait, if there is room.
LEMMA SendIs ==
  ASSUME NEW b \in Bearers, NEW number \in Nat, NEW segment \in Nat, NEW repeats \in Nat,
         NEW type \in {"LINK_OPEN", "LINK_ACK", "LINK_CLOSE", "TRANSACTION_ACK"}
  PROVE  LET c == Send(b, type, number, segment, repeats) IN
         /\ c \in Bearers /\ Rest(b, c) /\ Len(c.queue) <= Len(b.queue) + 1
         /\ Follows(b.queue, c.queue, {type}, b.link, number)
<1> DEFINE packet == [type |-> type, link |-> b.link, number |-> number, segment |-> segment,
                      left |-> repeats, last |-> TRUE]
           old == [i \in DOMAIN b.queue |-> [b.queue[i] EXCEPT !.last = FALSE]]
           q == Append(old, packet)
           d == [b EXCEPT !.queue = q]
<1>1. packet \in Packet
  BY BearerTypes DEF Packet
<1>2. /\ old \in Seq(Packet) /\ Len(old) = Len(b.queue)
      /\ \A i \in 1..Len(b.queue) : Alike(old[i], b.queue[i])
  BY OldPackets
<1> HIDE DEF packet, old
<1>3. /\ q \in Seq(Packet) /\ Len(q) = Len(b.queue) + 1 /\ q[Len(q)] = packet
      /\ \A i \in 1..Len(b.queue) : q[i] = old[i]
  BY <1>1, <1>2, BearerTypes
<1> HIDE DEF q
<1>4. d \in Bearers /\ Rest(b, d) /\ d.queue = q
  BY <1>3 DEF Bearers, Rest
<1>5. Follows(b.queue, q, {type}, b.link, number)
  <2>1. packet.type = type /\ packet.link = b.link /\ packet.number = number
    BY DEF packet
  <2> SUFFICES ASSUME NEW i \in 1..Len(q)
               PROVE  \/ i <= Len(b.queue) /\ Alike(q[i], b.queue[i])
                      \/ /\ i > Len(b.queue) /\ q[i].type \in {type} /\ q[i].link = b.link
                         /\ q[i].number = number
    BY DEF Follows
  <2>2. Len(b.queue) \in Nat BY BearerTypes
  <2>3. CASE i <= Len(b.queue)
    BY <1>2, <1>3, <2>2, <2>3
  <2>4. CASE i = Len(q)
    BY <1>3, <2>1, <2>2, <2>4
  <2> QED BY <1>3, <2>2, <2>3, <2>4
<1>6. Send(b, type, number, segment, repeats) = IF CanSend(b) THEN d ELSE b
  BY DEF Send, d, q, old, packet
<1>7. /\ Rest(b, b) /\ Follows(b.queue, b.queue, {type}, b.link, number)
      /\ Len(b.queue) <= Len(b.queue) + 1
  BY BearerTypes DEF Rest, Follows, Alike
<1> HIDE DEF d
<1>8. Len(d.queue) <= Len(b.queue) + 1
  BY <1>3, <1>4, BearerTypes
<1> QED BY <1>4, <1>5, <1>6, <1>7, <1>8

\* A flush leaves at most the packet that is on the air.
LEMMA FlushedIs ==
  ASSUME NEW b \in Bearers, NEW c \in QueueFlushed(b)
  PROVE  /\ c \in Bearers /\ Rest(b, c)
         /\ Follows(b.queue, c.queue, {}, b.link, 0)
<1>1. CASE c = [b EXCEPT !.queue = <<>>]
  <2> DEFINE r == <<>>
  <2>1. r \in Seq(Packet) /\ Len(r) = 0 /\ c = [b EXCEPT !.queue = r]
    BY <1>1
  <2> HIDE DEF r
  <2>2. c \in Bearers /\ Rest(b, c) /\ c.queue = r
    BY <2>1 DEF Bearers, Rest
  <2> QED BY <2>1, <2>2 DEF Follows
<1>2. CASE b.queue # <<>> /\ c = [b EXCEPT !.queue = <<[Head(b.queue) EXCEPT !.left = 1]>>]
  <2> DEFINE p == [b.queue[1] EXCEPT !.left = 1]
             r == <<p>>
  <2>1. 1 \in 1..Len(b.queue) /\ b.queue[1] \in Packet /\ Head(b.queue) = b.queue[1]
    BY <1>2, BearerTypes
  <2>2. p \in Packet /\ Alike(p, b.queue[1])
    BY <2>1 DEF Packet, Alike
  <2>3. c = [b EXCEPT !.queue = r]
    BY <1>2, <2>1
  <2> HIDE DEF p
  <2>4. r \in Seq(Packet) /\ Len(r) = 1 /\ r[1] = p
    BY <2>2
  <2> HIDE DEF r
  <2>5. c \in Bearers /\ Rest(b, c) /\ c.queue = r
    BY <2>3, <2>4 DEF Bearers, Rest
  <2>6. 1 <= Len(b.queue) BY <2>1
  <2>7. ASSUME NEW i \in 1..Len(c.queue)
        PROVE  i <= Len(b.queue) /\ Alike(c.queue[i], b.queue[i])
    <3>0. Len(c.queue) = 1 BY <2>4, <2>5, Zenon
    <3>1. i = 1 BY <3>0
    <3> QED BY <2>2, <2>4, <2>5, <2>6, <3>1
  <2> QED BY <2>5, <2>7 DEF Follows
<1>3. 1..Len(b.queue) # {} => b.queue # <<>>
  BY BearerTypes
<1> QED BY <1>1, <1>2, <1>3 DEF QueueFlushed

\* The segments that are sent carry the number of the message on its way.
LEMMA BufferTxIs ==
  ASSUME NEW b \in Bearers
  PROVE  LET c == BufferTx(b) IN
         /\ c \in Bearers /\ Rest(b, c)
         /\ Follows(b.queue, c.queue, {"TRANSACTION_START", "TRANSACTION_CONTINUE"}, b.link, b.out)
<1> DEFINE waiting == SEGMENTS - b.finished
           room    == TX_BUFFER - Len(b.queue)
           count   == IF waiting < room THEN waiting ELSE room
           Segment(i) ==
             [type |-> IF i = 0 THEN "TRANSACTION_START" ELSE "TRANSACTION_CONTINUE",
              link |-> b.link, number |-> b.out, segment |-> i, left |-> 1,
              last |-> i = b.finished + count - 1]
           old == [i \in DOMAIN b.queue |-> [b.queue[i] EXCEPT !.last = FALSE]]
           new == [i \in 1..count |-> Segment(b.finished + i - 1)]
           q   == old \o new
           d   == [b EXCEPT !.finished = b.finished + count, !.queue = q]
<1>1. BufferTx(b) = IF count <= 0 THEN b ELSE d
  BY DEF BufferTx
<1>2. CASE count <= 0
  <2>1. Rest(b, b) /\ Follows(b.queue, b.queue, {"TRANSACTION_START", "TRANSACTION_CONTINUE"}, b.link, b.out)
    BY DEF Rest, Follows, Alike
  <2> QED BY <1>1, <1>2, <2>1
<1>3. CASE ~(count <= 0)
  <2>1. count \in Nat /\ b.finished \in Nat /\ Len(b.queue) \in Nat /\ b.out \in Nat /\ b.link \in Nat
    <3>1. b.finished \in Nat /\ Len(b.queue) \in Nat BY BearerTypes DEF Bearers
    <3>2. SEGMENTS \in Nat /\ TX_BUFFER \in Nat BY BearerAssumption DEF BearerAssumption
    <3>3. count \in Int BY <3>1, <3>2
    <3> HIDE DEF count
    <3> QED BY <1>3, <3>1, <3>3, BearerTypes
  <2> HIDE DEF count
  <2>2. ASSUME NEW i \in Nat
        PROVE  /\ Segment(i) \in Packet
               /\ Segment(i).type \in {"TRANSACTION_START", "TRANSACTION_CONTINUE"}
               /\ Segment(i).link = b.link /\ Segment(i).number = b.out
    <3> DEFINE type == IF i = 0 THEN "TRANSACTION_START" ELSE "TRANSACTION_CONTINUE"
               last == i = b.finished + count - 1
    <3>1. type \in {"TRANSACTION_START", "TRANSACTION_CONTINUE"} /\ last \in BOOLEAN
      OBVIOUS
    <3>2. Segment(i) = [type |-> type, link |-> b.link, number |-> b.out, segment |-> i,
                        left |-> 1, last |-> last]
      OBVIOUS
    <3> HIDE DEF type, last, Segment
    <3> QED BY <2>1, <3>1, <3>2 DEF Packet
  <2> HIDE DEF Segment
  <2>3. \A i \in 1..count : /\ new[i] \in Packet
                             /\ new[i].type \in {"TRANSACTION_START", "TRANSACTION_CONTINUE"}
                             /\ new[i].link = b.link /\ new[i].number = b.out
    <3> SUFFICES ASSUME NEW i \in 1..count
                 PROVE  /\ new[i] \in Packet
                        /\ new[i].type \in {"TRANSACTION_START", "TRANSACTION_CONTINUE"}
                        /\ new[i].link = b.link /\ new[i].number = b.out
      OBVIOUS
    <3>1. b.finished + i - 1 \in Nat /\ new[i] = Segment(b.finished + i - 1)
      BY <2>1
    <3> HIDE DEF new
    <3> QED BY <2>2, <3>1
  <2>4. new \in [1..count -> Packet]
    BY <2>3
  <2> HIDE DEF new
  <2>5. new \in Seq(Packet) /\ Len(new) = count
    BY <2>1, <2>4
  <2>6. old \in Seq(Packet) /\ Len(old) = Len(b.queue)
        /\ \A i \in 1..Len(b.queue) : Alike(old[i], b.queue[i])
    BY OldPackets
  <2> HIDE DEF old
  <2>7. /\ q \in Seq(Packet) /\ Len(q) = Len(b.queue) + count
        /\ \A i \in 1..Len(q) : q[i] = IF i <= Len(b.queue) THEN old[i] ELSE new[i - Len(b.queue)]
    <3>1. /\ q \in Seq(Packet) /\ Len(q) = Len(old) + Len(new)
          /\ \A i \in 1..Len(old) + Len(new) : q[i] = IF i <= Len(old) THEN old[i] ELSE new[i - Len(old)]
      BY <2>5, <2>6, ConcatProperties
    <3> HIDE DEF q
    <3> QED BY <2>5, <2>6, <3>1
  <2> HIDE DEF q
  <2>8. d \in Bearers /\ Rest(b, d) /\ d.queue = q
    <3>1. b.finished + count \in Nat BY <2>1
    <3> QED BY <2>7, <3>1 DEF Bearers, Rest
  <2> HIDE DEF d
  <2>9. ASSUME NEW i \in 1..Len(q)
        PROVE  \/ i <= Len(b.queue) /\ Alike(q[i], b.queue[i])
               \/ /\ i > Len(b.queue) /\ q[i].type \in {"TRANSACTION_START", "TRANSACTION_CONTINUE"}
                  /\ q[i].link = b.link /\ q[i].number = b.out
    <3>1. CASE i <= Len(b.queue)
      BY <2>1, <2>6, <2>7, <3>1
    <3>2. CASE i > Len(b.queue)
      <4>1. i - Len(b.queue) \in 1..count /\ q[i] = new[i - Len(b.queue)]
        BY <2>1, <2>7, <3>2
      <4> QED BY <2>3, <3>2, <4>1
    <3> QED BY <2>1, <3>1, <3>2
  <2> QED BY <1>1, <1>3, <2>8, <2>9 DEF Follows
<1> QED BY <1>2, <1>3

-----------------------------------------------------------------------------
(* Steps of one end that the other does not notice. *)

\* An end that is as far as it was, and not less patient.
Quiet(b, c) ==
  /\ c.link = b.link /\ c.out = b.out /\ c.in = b.in
  /\ Waits(b) => Waits(c)
  /\ Opening(c) => Opening(b)

\* An end that takes no message to send.
Silent(b, c) ==
  /\ c.buffer = "TX" => b.buffer = "TX"
  /\ HasData(c) => HasData(b) \/ b.buffer = "TX"

\* Flags, timers and counts: nothing the invariant speaks of changes.
LEMMA FieldsKeep ==
  ASSUME NEW n \in Nodes, NEW b, Own(b, n), NEW c \in Bearers, Rest(b, c), c.queue = b.queue
  PROVE  Own(c, n) /\ Quiet(b, c) /\ Silent(b, c)
BY DEF Own, Carried, Placed, Opening, Waits, HasData, Quiet, Silent, Rest

\* The retry timer is stopped.
LEMMA StopKeeps ==
  ASSUME NEW n \in Nodes, NEW b, Own(b, n)
  PROVE  Own(StopIfTx(b), n) /\ Quiet(b, StopIfTx(b)) /\ Silent(b, StopIfTx(b))
<1> DEFINE retry == b.retry /\ b.buffer # "TX"
           c == [b EXCEPT !.retry = retry]
<1>1. b \in Bearers BY DEF Own
<1>2. retry \in BOOLEAN OBVIOUS
<1>3. StopIfTx(b) = c BY <1>1 DEF StopIfTx
<1> HIDE DEF retry
<1>4. c \in Bearers /\ Rest(b, c) /\ c.queue = b.queue
  BY <1>1, <1>2 DEF Bearers, Rest
<1> HIDE DEF c
<1> QED BY <1>3, <1>4, FieldsKeep

\* Two steps that are not noticed make one.
LEMMA Transitive ==
  ASSUME NEW b, NEW c, NEW d, Quiet(b, c), Silent(b, c), Quiet(c, d), Silent(c, d)
  PROVE  Quiet(b, d) /\ Silent(b, d)
BY DEF Quiet, Silent

\* A link that is closed waits for nothing.
LEMMA CloseLinkKeeps ==
  ASSUME NEW n \in Nodes, NEW b, Own(b, n), NEW c \in CloseLink(b)
  PROVE  Own(c, n) /\ Quiet(b, c) /\ Silent(b, c)
<1>1. b \in Bearers BY DEF Own
<1>2. PICK d \in QueueFlushed(b) : c = [d EXCEPT !.buffer = "UNUSED", !.state = "IDLE"]
  BY DEF CloseLink
<1>3. d \in Bearers /\ Rest(b, d) /\ Follows(b.queue, d.queue, {}, b.link, 0)
  BY <1>1, FlushedIs
<1>4. /\ c \in Bearers /\ c.queue = d.queue /\ c.state = "IDLE" /\ c.buffer = "UNUSED"
      /\ c.link = d.link /\ c.links = d.links /\ c.out = d.out /\ c.in = d.in
  BY <1>2, <1>3 DEF Bearers
<1>5. /\ Follows(b.queue, c.queue, {}, b.link, 0)
      /\ c.link = b.link /\ c.links = b.links /\ c.out = b.out /\ c.in = b.in
  BY <1>3, <1>4 DEF Rest
<1>6. Waits(c) BY <1>4 DEF Waits
<1>7. b.out <= c.out /\ b.in <= c.in BY <1>1, <1>5, BearerTypes
<1>8. Own(c, n) /\ (Opening(c) => Opening(b))
  BY <1>4, <1>5, <1>6, <1>7, Onward
<1>9. HasData(c) => HasData(b)
  BY <1>1, <1>4, <1>5, DataFollows
<1> QED BY <1>4, <1>5, <1>6, <1>8, <1>9 DEF Quiet, Silent

\* So does one that is being closed.
LEMMA LinkCloseKeeps ==
  ASSUME NEW n \in Nodes, NEW b, Own(b, n), b.state # "IDLE", NEW c \in LinkClose(b)
  PROVE  Own(c, n) /\ Quiet(b, c) /\ Silent(b, c)
<1>1. b \in Bearers BY DEF Own
<1>2. CASE ~CanSend(b)
  BY <1>2, CloseLinkKeeps DEF LinkClose
<1>3. CASE CanSend(b)
  <2> DEFINE d == Send(b, "LINK_CLOSE", 0, 0, UNACKED_REPEATS)
  <2>1. d \in Bearers /\ Rest(b, d) /\ Follows(b.queue, d.queue, {"LINK_CLOSE"}, b.link, 0)
    BY <1>1, BearerAssumption, SendIs DEF BearerAssumption
  <2>2. c = [d EXCEPT !.state = "LINK_CLOSING"]
    BY <1>3 DEF LinkClose
  <2> HIDE DEF d
  <2>3. /\ c \in Bearers /\ c.queue = d.queue /\ c.state = "LINK_CLOSING" /\ c.buffer = d.buffer
        /\ c.link = d.link /\ c.links = d.links /\ c.out = d.out /\ c.in = d.in
    BY <2>1, <2>2 DEF Bearers
  <2>4. /\ Follows(b.queue, c.queue, {"LINK_CLOSE"}, b.link, 0)
        /\ c.link = b.link /\ c.links = b.links /\ c.out = b.out /\ c.in = b.in
        /\ c.buffer = b.buffer
    BY <2>1, <2>3 DEF Rest
  <2>5. Waits(c) BY <2>3 DEF Waits
  <2>6. b.out <= c.out /\ b.in <= c.in BY <1>1, <2>4, BearerTypes
  <2>7. Own(c, n) /\ (Opening(c) => Opening(b))
    <3> DEFINE types == {"LINK_CLOSE"}
    <3>1. /\ types \in SUBSET {"LINK_ACK", "LINK_CLOSE", "TRANSACTION_START",
                               "TRANSACTION_CONTINUE", "TRANSACTION_ACK"}
          /\ "TRANSACTION_ACK" \notin types /\ "TRANSACTION_START" \notin types
          /\ "TRANSACTION_CONTINUE" \notin types
          /\ Follows(b.queue, c.queue, types, b.link, 0)
      BY <2>4
    <3> HIDE DEF types
    <3> QED BY <2>3, <2>4, <2>5, <2>6, <3>1, Onward
  <2>8. HasData(c) => HasData(b)
    BY <1>1, <2>3, <2>4, DataFollows
  <2> QED BY <2>4, <2>5, <2>7, <2>8 DEF Quiet, Silent
<1> QED BY <1>2, <1>3

\* Sending the segments of a message that waits already.
LEMMA BufferTxKeeps ==
  ASSUME NEW n \in Nodes, NEW b, Own(b, n), b.buffer = "TX"
  PROVE  Own(BufferTx(b), n) /\ Quiet(b, BufferTx(b)) /\ Silent(b, BufferTx(b))
<1> DEFINE c == BufferTx(b)
           types == {"TRANSACTION_START", "TRANSACTION_CONTINUE"}
<1>1. b \in Bearers BY DEF Own
<1>2. c \in Bearers /\ Rest(b, c) /\ Follows(b.queue, c.queue, types, b.link, b.out)
  BY <1>1, BufferTxIs
<1>3. /\ types \in SUBSET {"LINK_ACK", "LINK_CLOSE", "TRANSACTION_START",
                           "TRANSACTION_CONTINUE", "TRANSACTION_ACK"}
      /\ "TRANSACTION_ACK" \notin types
  OBVIOUS
<1>4. Waits(c) /\ b.state \notin {"LISTEN", "LINK_OPENING"}
  BY <1>2 DEF Own, Placed, Rest, Waits
<1> HIDE DEF c, types
<1>5. /\ c.link = b.link /\ c.links = b.links /\ c.out = b.out /\ c.in = b.in
      /\ c.state = b.state /\ c.buffer = b.buffer
  BY <1>2 DEF Rest
<1>6. b.out <= c.out /\ b.in <= c.in /\ b.out \in Nat BY <1>1, <1>5, BearerTypes
<1>7. Own(c, n) /\ (Opening(c) => Opening(b))
  BY <1>2, <1>3, <1>4, <1>5, <1>6, Onward
<1>8. Quiet(b, c) /\ Silent(b, c)
  BY <1>4, <1>5, <1>7 DEF Quiet, Silent
<1> QED BY <1>7, <1>8 DEF c

\* The radio has sent the first packet once.
LEMMA SentOnceKeeps ==
  ASSUME NEW n \in Nodes, NEW b, Own(b, n), b.queue # <<>>
  PROVE  Own(SentOnce(b), n) /\ Quiet(b, SentOnce(b)) /\ Silent(b, SentOnce(b))
<1> DEFINE p == Head(b.queue)
<1>1. /\ b \in Bearers /\ b.queue \in Seq(Packet) /\ Len(b.queue) \in Nat /\ Len(b.queue) > 0
      /\ p = b.queue[1] /\ p \in Packet
  BY BearerTypes DEF Own
<1>2. CASE p.left > 1
  <2> DEFINE r == [p EXCEPT !.left = p.left - 1]
             q == [b.queue EXCEPT ![1] = r]
             c == [b EXCEPT !.queue = q]
  <2>1. r \in Packet /\ Alike(r, p)
    <3>1. p.left - 1 \in Nat BY <1>1, <1>2 DEF Packet
    <3> QED BY <1>1, <3>1 DEF Packet, Alike
  <2>2. SentOnce(b) = c
    <3>1. SentOnce(b) = [b EXCEPT !.queue[1].left = @ - 1] BY <1>2 DEF SentOnce
    <3> QED BY <1>1, <3>1
  <2> HIDE DEF r
  <2>3. /\ q \in Seq(Packet) /\ Len(q) = Len(b.queue)
        /\ \A i \in 1..Len(q) : q[i] = IF i = 1 THEN r ELSE b.queue[i]
    BY <1>1, <2>1
  <2> HIDE DEF q
  <2>4. c \in Bearers /\ Rest(b, c) /\ c.queue = q
    BY <1>1, <2>3 DEF Bearers, Rest
  <2> HIDE DEF c
  <2>5. Follows(b.queue, c.queue, {}, b.link, 0)
    <3>1. ASSUME NEW i \in 1..Len(q) PROVE i <= Len(b.queue) /\ Alike(q[i], b.queue[i])
      BY <1>1, <2>1, <2>3 DEF Alike
    <3> QED BY <2>4, <3>1 DEF Follows
  <2>6. /\ c.link = b.link /\ c.links = b.links /\ c.out = b.out /\ c.in = b.in
        /\ c.state = b.state /\ c.buffer = b.buffer /\ b.out <= c.out /\ b.in <= c.in
    BY <1>1, <2>4, BearerTypes DEF Rest
  <2>7. Own(c, n) /\ (Opening(c) => Opening(b))
    <3> DEFINE types == {}
    <3>1. /\ types \in SUBSET {"LINK_ACK", "LINK_CLOSE", "TRANSACTION_START",
                               "TRANSACTION_CONTINUE", "TRANSACTION_ACK"}
          /\ "TRANSACTION_ACK" \notin types /\ "TRANSACTION_START" \notin types
          /\ "TRANSACTION_CONTINUE" \notin types /\ types = {}
          /\ Follows(b.queue, c.queue, types, b.link, 0)
      BY <2>5
    <3>2. Waits(b) => Waits(c) BY <2>6 DEF Waits
    <3> HIDE DEF types
    <3> QED BY <2>4, <2>6, <3>1, <3>2, Onward
  <2>8. HasData(c) => HasData(b)
    BY <1>1, <2>4, <2>5, DataFollows
  <2>9. Quiet(b, c) /\ Silent(b, c)
    BY <2>6, <2>7, <2>8 DEF Quiet, Silent, Waits
  <2> QED BY <2>2, <2>7, <2>9
<1>3. CASE ~(p.left > 1)
  <2> DEFINE pending == b.queue_empty_pending \/ p.last
             q == Tail(b.queue)
             c == [b EXCEPT !.queue = q, !.queue_empty_pending = pending]
  <2>1. SentOnce(b) = c BY <1>1, <1>3 DEF SentOnce
  <2>2. pending \in BOOLEAN OBVIOUS
  <2>3. /\ q \in Seq(Packet) /\ Len(q) = Len(b.queue) - 1
        /\ \A i \in 1..Len(q) : q[i] = b.queue[i + 1]
    BY <1>1
  <2> HIDE DEF pending, q
  <2>4. c \in Bearers /\ Rest(b, c) /\ c.queue = q
    BY <1>1, <2>2, <2>3 DEF Bearers, Rest
  <2> HIDE DEF c
  <2>5. /\ c.link = b.link /\ c.links = b.links /\ c.out = b.out /\ c.in = b.in
        /\ c.state = b.state /\ c.buffer = b.buffer
    BY <2>4 DEF Rest
  <2>6. ASSUME NEW i \in 1..Len(c.queue)
        PROVE  /\ i + 1 \in 1..Len(b.queue) /\ i + 1 # 1 /\ c.queue[i] = b.queue[i + 1]
    BY <1>1, <2>3, <2>4
  <2>7. Carried(c, n)
    BY <2>5, <2>6 DEF Own, Carried, Waits
  <2>8. ASSUME NEW i \in 1..Len(c.queue) PROVE c.queue[i].type # "LINK_OPEN"
    BY <2>6 DEF Own, Carried
  <2>9. Opening(c) => b.state = "LINK_OPENING"
    BY <2>5, <2>8, <2>4, BearerTypes DEF Opening
  <2>10. Placed(c, n)
    <3>1. b.state # "LISTEN" BY <1>1 DEF Own, Placed
    <3> QED BY <2>5, <2>9, <3>1 DEF Own, Placed, Opening
  <2>11. Quiet(b, c) /\ Silent(b, c)
    BY <2>5, <2>6, <2>9 DEF Quiet, Silent, Waits, Opening, HasData
  <2> QED BY <2>1, <2>4, <2>7, <2>10, <2>11 DEF Own
<1> QED BY <1>2, <1>3

\* An acknowledgment of what was received.
LEMMA SendKeeps ==
  ASSUME NEW n \in Nodes, NEW b, Own(b, n), NEW number \in Nat,
         NEW type \in {"LINK_ACK", "TRANSACTION_ACK"}, type = "TRANSACTION_ACK" => number < b.in,
         b.state = "LINK_OPEN"
  PROVE  LET c == Send(b, type, number, 0, 1) IN
         Own(c, n) /\ Quiet(b, c) /\ Silent(b, c)
<1> DEFINE c == Send(b, type, number, 0, 1)
           types == {type}
<1>1. b \in Bearers BY DEF Own
<1>2. c \in Bearers /\ Rest(b, c) /\ Follows(b.queue, c.queue, types, b.link, number)
  BY <1>1, SendIs
<1>3. /\ types \in SUBSET {"LINK_ACK", "LINK_CLOSE", "TRANSACTION_START",
                           "TRANSACTION_CONTINUE", "TRANSACTION_ACK"}
      /\ "TRANSACTION_START" \notin types /\ "TRANSACTION_CONTINUE" \notin types
      /\ "TRANSACTION_ACK" \in types => number < b.in
  OBVIOUS
<1> HIDE DEF c, types
<1>4. /\ c.link = b.link /\ c.links = b.links /\ c.out = b.out /\ c.in = b.in
      /\ c.state = b.state /\ c.buffer = b.buffer
  BY <1>2 DEF Rest
<1>5. b.out <= c.out /\ b.in <= c.in BY <1>1, <1>4, BearerTypes
<1>6. Waits(b) => Waits(c) BY <1>4 DEF Waits
<1>7. Own(c, n) /\ (Opening(c) => Opening(b))
  BY <1>2, <1>3, <1>4, <1>5, <1>6, Onward
<1>8. HasData(c) => HasData(b)
  BY <1>1, <1>2, <1>3, DataFollows
<1>9. Quiet(b, c) /\ Silent(b, c)
  BY <1>4, <1>6, <1>7, <1>8 DEF Quiet, Silent
<1> QED BY <1>7, <1>9 DEF c

-----------------------------------------------------------------------------
(* The packets of transactions. *)

\* A message was received: its number is the last that was taken.
Counted(b, c, number) ==
  /\ c.link = b.link /\ c.out = b.out /\ c.in = number + 1
  /\ ~Waits(b) /\ ~Opening(c)
  /\ b.in <= number

\* A message of which all segments are there is taken, and acknowledged.
LEMMA ReassembledKeeps ==
  ASSUME NEW n \in Nodes, NEW b, Own(b, n), b.state = "LINK_OPEN", b.buffer # "TX", ~Opening(b),
         NEW number \in Nat, b.in <= number
  PROVE  LET c == Reassembled(b, number) IN
         Own(c, n) /\ (c = b \/ Counted(b, c, number))
<1> DEFINE d == Send(b, "TRANSACTION_ACK", b.in, 0, 1)
           c == [d EXCEPT !.in = number + 1, !.buffer = "UNUSED"]
           types == {"TRANSACTION_ACK"}
<1>1. b \in Bearers /\ b.in \in Nat /\ b.out \in Nat BY BearerTypes DEF Own
<1>2. d \in Bearers /\ Rest(b, d) /\ Follows(b.queue, d.queue, types, b.link, b.in)
  BY <1>1, SendIs
<1>3. Reassembled(b, number) = c \/ Reassembled(b, number) = b
  BY DEF Reassembled, BufferRx, SendTransactionAck
<1> HIDE DEF d
<1>4. /\ c \in Bearers /\ c.queue = d.queue /\ c.state = d.state /\ c.link = d.link
      /\ c.links = d.links /\ c.out = d.out /\ c.in = number + 1 /\ c.buffer = "UNUSED"
  <2>1. number + 1 \in Nat OBVIOUS
  <2> QED BY <1>2, <2>1 DEF Bearers
<1> HIDE DEF c
<1>5. /\ types \in SUBSET {"LINK_ACK", "LINK_CLOSE", "TRANSACTION_START",
                           "TRANSACTION_CONTINUE", "TRANSACTION_ACK"}
      /\ "TRANSACTION_START" \notin types /\ "TRANSACTION_CONTINUE" \notin types
  OBVIOUS
<1> HIDE DEF types
<1>6. /\ c.link = b.link /\ c.links = b.links /\ c.out = b.out /\ c.state = b.state
      /\ Follows(b.queue, c.queue, types, b.link, b.in)
  BY <1>2, <1>4 DEF Rest
<1>7. b.out <= c.out /\ b.in <= c.in /\ b.in < c.in BY <1>1, <1>4, <1>6
<1>8. ~Waits(b) BY DEF Waits
<1>9. Own(c, n) /\ (Opening(c) => Opening(b))
  BY <1>1, <1>4, <1>5, <1>6, <1>7, <1>8, Onward
<1>10. Counted(b, c, number)
  BY <1>4, <1>6, <1>8, <1>9 DEF Counted
<1> QED BY <1>3, <1>9, <1>10

\* Between the segments of a message only the end that takes it changes.
LEMMA ReceivingKeeps ==
  ASSUME NEW n \in Nodes, NEW b, Own(b, n), b.state = "LINK_OPEN", b.buffer # "TX",
         NEW received \in SUBSET Nat
  PROVE  LET c == [b EXCEPT !.buffer = "RX", !.received = received] IN
         /\ Own(c, n) /\ Quiet(b, c) /\ Silent(b, c)
         /\ c.state = "LINK_OPEN" /\ c.buffer # "TX"
<1> DEFINE c == [b EXCEPT !.buffer = "RX", !.received = received]
<1>1. b \in Bearers BY DEF Own
<1>2. /\ c \in Bearers /\ c.queue = b.queue /\ c.state = b.state /\ c.link = b.link
      /\ c.links = b.links /\ c.out = b.out /\ c.in = b.in /\ c.buffer = "RX"
  BY <1>1 DEF Bearers
<1> HIDE DEF c
<1>3. Waits(b) <=> Waits(c)
  BY <1>2 DEF Waits
<1>4. Own(c, n)
  BY <1>2, <1>3 DEF Own, Carried, Placed, Opening
<1>5. Quiet(b, c) /\ Silent(b, c) /\ c.state = "LINK_OPEN" /\ c.buffer # "TX"
  BY <1>2, <1>3 DEF Quiet, Silent, Opening, HasData
<1> QED BY <1>4, <1>5 DEF c

\* A segment that arrives: of the message that is due, or of an earlier one.
LEMMA DataReceivedKeeps ==
  ASSUME NEW n \in Nodes, NEW b, Own(b, n), b.state = "LINK_OPEN", ~Opening(b),
         NEW p \in Packet, NEW c \in {TransactionStart(b, p), TransactionContinue(b, p)}
  PROVE  Own(c, n) /\ ((Quiet(b, c) /\ Silent(b, c)) \/ Counted(b, c, p.number))
<1>0. p.number \in Nat /\ p.segment \in Nat /\ b \in Bearers /\ b.in \in Nat
      /\ b.received \in SUBSET Nat
  BY BearerTypes DEF Packet, Own, Bearers
<1>1. Quiet(b, b) /\ Silent(b, b)
  BY DEF Quiet, Silent
<1>2. CASE c = SendTransactionAck(b, p.number) /\ p.number < b.in
  BY <1>0, <1>2, SendKeeps DEF SendTransactionAck
<1>3. ASSUME NEW received \in SUBSET Nat, p.number >= b.in, b.buffer # "TX",
             c = Reassembled([b EXCEPT !.buffer = "RX", !.received = received], p.number)
      PROVE  Own(c, n) /\ ((Quiet(b, c) /\ Silent(b, c)) \/ Counted(b, c, p.number))
  <2> DEFINE d == [b EXCEPT !.buffer = "RX", !.received = received]
  <2>1. /\ Own(d, n) /\ Quiet(b, d) /\ Silent(b, d)
        /\ d.state = "LINK_OPEN" /\ d.buffer # "TX"
    BY <1>3, ReceivingKeeps
  <2> HIDE DEF d
  <2>2. ~Opening(d) /\ d.in = b.in /\ d.out = b.out /\ d.link = b.link
    BY <2>1 DEF Quiet
  <2>3. Own(c, n) /\ (c = d \/ Counted(d, c, p.number))
    <3>1. c = Reassembled(d, p.number) BY <1>3 DEF d
    <3>2. d.in <= p.number BY <1>0, <1>3, <2>2
    <3> QED BY <1>0, <2>1, <2>2, <3>1, <3>2, ReassembledKeeps
  <2>4. ~Waits(b) BY <1>3 DEF Waits
  <2> QED BY <2>1, <2>2, <2>3, <2>4 DEF Counted
<1>4. CASE c = TransactionStart(b, p)
  <2>1. CASE b.buffer = "UNUSED" /\ p.number >= b.in
    <3> DEFINE received == {0}
    <3>1. c = Reassembled([b EXCEPT !.buffer = "RX", !.received = received], p.number)
      BY <1>0, <1>4, <2>1 DEF TransactionStart
    <3>2. received \in SUBSET Nat /\ b.buffer # "TX"
      BY <2>1
    <3> HIDE DEF received
    <3> QED BY <1>3, <2>1, <3>1, <3>2, Zenon
  <2>2. CASE b.buffer # "RX" /\ p.number < b.in
    <3>1. c = SendTransactionAck(b, p.number)
      BY <1>0, <1>4, <2>2 DEF TransactionStart
    <3> QED BY <1>2, <2>2, <3>1
  <2>3. CASE ~(b.buffer = "UNUSED" /\ p.number >= b.in) /\ ~(b.buffer # "RX" /\ p.number < b.in)
    <3>1. c = b BY <1>4, <2>3 DEF TransactionStart
    <3> QED BY <1>1, <3>1
  <2> QED BY <2>1, <2>2, <2>3
<1>5. CASE c = TransactionContinue(b, p)
  <2>1. CASE b.buffer = "RX" /\ p.number = b.in
    <3> DEFINE received == b.received \union {p.segment}
    <3>1. c = Reassembled([b EXCEPT !.received = received], p.number)
      BY <1>0, <1>5, <2>1 DEF TransactionContinue
    <3>2. [b EXCEPT !.received = received] = [b EXCEPT !.buffer = "RX", !.received = received]
      BY <1>0, <2>1 DEF Bearers
    <3>3. c = Reassembled([b EXCEPT !.buffer = "RX", !.received = received], p.number)
      BY <3>1, <3>2
    <3>4. received \in SUBSET Nat /\ b.buffer # "TX" /\ p.number >= b.in BY <1>0, <2>1
    <3> HIDE DEF received
    <3> QED BY <1>3, <3>3, <3>4, Zenon
  <2>2. CASE b.buffer # "RX" /\ p.number < b.in
    <3>1. c = SendTransactionAck(b, p.number)
      BY <1>0, <1>5, <2>2 DEF TransactionContinue
    <3> QED BY <1>2, <2>2, <3>1
  <2>3. CASE ~(b.buffer = "RX" /\ p.number = b.in) /\ ~(b.buffer # "RX" /\ p.number < b.in)
    <3>1. c = b BY <1>5, <2>3 DEF TransactionContinue
    <3> QED BY <1>1, <3>1
  <2> QED BY <2>1, <2>2, <2>3
<1> QED BY <1>4, <1>5

\* An acknowledgment of the message that is on its way ends it.
Acknowledged(b, c, number) ==
  /\ c.link = b.link /\ c.out = b.out + 1 /\ c.in = b.in
  /\ number = b.out /\ ~Opening(c)

LEMMA AckReceivedKeeps ==
  ASSUME NEW n \in Nodes, NEW b, Own(b, n), b.state = "LINK_OPEN", ~Opening(b),
         NEW p \in Packet, NEW c \in TransactionAck(b, p)
  PROVE  Own(c, n) /\ (c = b \/ Acknowledged(b, c, p.number))
<1>1. b \in Bearers /\ b.out \in Nat /\ b.in \in Nat BY BearerTypes DEF Own
<1>2. CASE c = b
  BY <1>2
<1>3. CASE c # b
  <2>1. p.number = b.out
    BY <1>3 DEF TransactionAck
  <2>2. PICK d \in QueueFlushed(b) :
          c = [d EXCEPT !.retry = FALSE, !.out = d.out + 1, !.buffer = "UNUSED"]
    BY <1>3 DEF TransactionAck
  <2>3. d \in Bearers /\ Rest(b, d) /\ Follows(b.queue, d.queue, {}, b.link, 0)
    BY <1>1, FlushedIs
  <2>4. /\ c \in Bearers /\ c.queue = d.queue /\ c.state = d.state /\ c.buffer = "UNUSED"
        /\ c.link = d.link /\ c.links = d.links /\ c.out = d.out + 1 /\ c.in = d.in
    <3>1. d.out + 1 \in Nat BY <2>3, BearerTypes
    <3> QED BY <2>2, <2>3, <3>1 DEF Bearers
  <2>5. /\ Follows(b.queue, c.queue, {}, b.link, 0) /\ c.state = b.state
        /\ c.link = b.link /\ c.links = b.links /\ c.out = b.out + 1 /\ c.in = b.in
    BY <2>3, <2>4 DEF Rest
  <2>6. b.out <= c.out /\ b.in <= c.in /\ b.out < c.out BY <1>1, <2>5
  <2>7. Own(c, n) /\ (Opening(c) => Opening(b))
    <3> DEFINE types == {}
    <3>1. /\ types \in SUBSET {"LINK_ACK", "LINK_CLOSE", "TRANSACTION_START",
                               "TRANSACTION_CONTINUE", "TRANSACTION_ACK"}
          /\ "TRANSACTION_ACK" \notin types /\ "TRANSACTION_START" \notin types
          /\ "TRANSACTION_CONTINUE" \notin types
          /\ Follows(b.queue, c.queue, types, b.link, 0)
      BY <2>5
    <3> HIDE DEF types
    <3> QED BY <2>4, <2>5, <2>6, <3>1, Onward
  <2> QED BY <2>1, <2>5, <2>7 DEF Acknowledged
<1> QED BY <1>2, <1>3

-----------------------------------------------------------------------------
(* The packets of the link. *)

\* The link is open at the provisionee's end.
Opened(c, n, link) ==
  /\ n = "provisionee" /\ c.link = link /\ c.out = 128 /\ c.in = 0
  /\ c.buffer # "TX" /\ ~HasData(c)

LEMMA LinkOpenKeeps ==
  ASSUME NEW n \in Nodes, NEW b, Own(b, n), NEW p \in Packet
  PROVE  LET c == LinkOpen(b, n, p) IN
         Own(c, n) /\ ((Quiet(b, c) /\ Silent(b, c)) \/ Opened(c, n, p.link))
<1>0. b \in Bearers /\ p.link \in Nat
  BY DEF Own, Packet
<1>1. Quiet(b, b) /\ Silent(b, b)
  BY DEF Quiet, Silent
<1>2. CASE n = "provisionee" /\ b.state = "LISTEN" /\ CanSend(b)
  <2> DEFINE d == [b EXCEPT !.link = p.link]
             e == Send(d, "LINK_ACK", 0, 0, 1)
             c == [e EXCEPT !.state = "LINK_OPEN"]
             types == {"LINK_ACK"}
  <2>1. LinkOpen(b, n, p) = c
    BY <1>2 DEF LinkOpen, SendLinkAck
  <2>2. b.queue = <<>> /\ b.out = 128 /\ b.in = 0 /\ b.buffer = "UNUSED"
    BY <1>2 DEF Own, Placed
  <2>3. /\ d \in Bearers /\ d.link = p.link /\ d.queue = b.queue /\ d.out = b.out /\ d.in = b.in
        /\ d.buffer = b.buffer
    BY <1>0 DEF Bearers
  <2> HIDE DEF d
  <2>4. e \in Bearers /\ Rest(d, e) /\ Follows(d.queue, e.queue, types, d.link, 0)
    BY <2>3, SendIs
  <2> HIDE DEF e
  <2>5. /\ c \in Bearers /\ c.link = e.link /\ c.queue = e.queue /\ c.out = e.out /\ c.in = e.in
        /\ c.buffer = e.buffer /\ c.state = "LINK_OPEN"
    BY <2>4 DEF Bearers
  <2> HIDE DEF c
  <2>6. c.link = p.link /\ c.out = 128 /\ c.in = 0 /\ c.buffer = "UNUSED"
    BY <2>2, <2>3, <2>4, <2>5 DEF Rest
  <2>7. ASSUME NEW i \in 1..Len(c.queue)
        PROVE  c.queue[i].type = "LINK_ACK" /\ c.queue[i].link = p.link
    <3>1. Len(d.queue) = 0 BY <2>2, <2>3
    <3>2. i > Len(d.queue) /\ ~(i <= Len(d.queue)) BY <3>1, <2>5, BearerTypes
    <3>3. i \in 1..Len(e.queue) /\ c.queue[i] = e.queue[i] BY <2>5
    <3> QED BY <2>3, <2>4, <3>2, <3>3 DEF Follows
  <2> HIDE DEF types
  <2>8. Carried(c, n)
    BY <2>5, <2>6, <2>7 DEF Carried, IsData
  <2>9. ~Opening(c)
    BY <2>5, <2>7, BearerTypes DEF Opening
  <2>10. Placed(c, n)
    BY <1>2, <2>5, <2>9 DEF Placed
  <2>11. ~HasData(c)
    BY <2>7 DEF HasData, IsData
  <2> QED BY <1>2, <2>1, <2>5, <2>6, <2>8, <2>10, <2>11 DEF Own, Opened
<1>3. CASE n = "provisionee" /\ b.state = "LINK_OPEN" /\ b.link = p.link /\ b.buffer = "UNUSED"
  <2>1. LinkOpen(b, n, p) = SendLinkAck(b)
    BY <1>3 DEF LinkOpen
  <2> QED BY <1>3, <2>1, SendKeeps DEF SendLinkAck
<1>4. CASE /\ ~(n = "provisionee" /\ b.state = "LISTEN" /\ CanSend(b))
           /\ ~(n = "provisionee" /\ b.state = "LINK_OPEN" /\ b.link = p.link /\ b.buffer = "UNUSED")
  <2>1. LinkOpen(b, n, p) = b
    BY <1>4 DEF LinkOpen
  <2> QED BY <1>1, <2>1
<1> QED BY <1>2, <1>3, <1>4

\* The provisioner's end is open once it has heard of the other's.
Answered(b, c) ==
  /\ Opening(b) /\ c.link = b.link /\ c.out = b.out /\ c.in = b.in

LEMMA LinkAckKeeps ==
  ASSUME NEW n \in Nodes, NEW b, Own(b, n), NEW c \in LinkAck(b)
  PROVE  Own(c, n) /\ ((Quiet(b, c) /\ Silent(b, c)) \/ (n = "provisioner" /\ Answered(b, c)))
<1>1. b \in Bearers BY DEF Own
<1>2. CASE c = b
  BY <1>2 DEF Quiet, Silent
<1>3. CASE c # b
  <2>1. b.state = "LINK_OPENING" /\ n = "provisioner" /\ b.buffer = "UNUSED" /\ Opening(b)
    BY <1>3 DEF LinkAck, Own, Placed, Nodes, Opening
  <2>2. PICK d \in QueueFlushed(b) : c = [d EXCEPT !.state = "LINK_OPEN"]
    BY <1>3 DEF LinkAck
  <2>3. d \in Bearers /\ Rest(b, d) /\ Follows(b.queue, d.queue, {}, b.link, 0)
    BY <1>1, FlushedIs
  <2>4. /\ c \in Bearers /\ c.queue = d.queue /\ c.state = "LINK_OPEN"
        /\ c.link = d.link /\ c.links = d.links /\ c.out = d.out /\ c.in = d.in /\ c.buffer = d.buffer
    BY <2>2, <2>3 DEF Bearers
  <2>5. /\ Follows(b.queue, c.queue, {}, b.link, 0)
        /\ c.link = b.link /\ c.links = b.links /\ c.out = b.out /\ c.in = b.in
    BY <2>3, <2>4 DEF Rest
  <2>6. b.out <= c.out /\ b.in <= c.in BY <1>1, <2>5, BearerTypes
  <2>7. ~HasData(b)
    BY <2>1 DEF HasData, IsData, Own, Carried
  <2>8. Own(c, n)
    <3> DEFINE types == {}
    <3>1. /\ types \in SUBSET {"LINK_ACK", "LINK_CLOSE", "TRANSACTION_START",
                               "TRANSACTION_CONTINUE", "TRANSACTION_ACK"}
          /\ "TRANSACTION_ACK" \notin types /\ "TRANSACTION_START" \notin types
          /\ "TRANSACTION_CONTINUE" \notin types
          /\ Follows(b.queue, c.queue, types, b.link, 0)
      BY <2>5
    <3>2. b.state # "IDLE" BY <2>1
    <3> HIDE DEF types
    <3> QED BY <2>4, <2>5, <2>6, <2>7, <3>1, <3>2, Onward
  <2> QED BY <2>1, <2>5, <2>8 DEF Answered
<1> QED BY <1>2, <1>3

\* The other end says that the link is closed.
LEMMA LinkClosedKeeps ==
  ASSUME NEW n \in Nodes, NEW b, Own(b, n), NEW c \in LinkClosed(b)
  PROVE  Own(c, n) /\ Quiet(b, c) /\ Silent(b, c)
<1>1. CASE c = b
  BY <1>1 DEF Quiet, Silent
<1>2. CASE c \in CloseLink(StopIfTx(b))
  <2>1. Own(StopIfTx(b), n) /\ Quiet(b, StopIfTx(b)) /\ Silent(b, StopIfTx(b))
    BY StopKeeps
  <2>2. Own(c, n) /\ Quiet(StopIfTx(b), c) /\ Silent(StopIfTx(b), c)
    BY <1>2, <2>1, CloseLinkKeeps
  <2> QED BY <2>1, <2>2, Transitive
<1> QED BY <1>1, <1>2 DEF LinkClosed

-----------------------------------------------------------------------------
(* Both ends. *)

\* Any packet that arrives.
LEMMA PacketInKeeps ==
  ASSUME NEW n \in Nodes, NEW b, Own(b, n), NEW p \in Packet, NEW c \in BearerPacketIn(b, n, p),
         IsData(p) \/ p.type = "TRANSACTION_ACK" => b.link # p.link \/ ~Opening(b)
  PROVE  /\ Own(c, n)
         /\ \/ Quiet(b, c) /\ Silent(b, c)
            \/ IsData(p) /\ b.link = p.link /\ Counted(b, c, p.number)
            \/ p.type = "TRANSACTION_ACK" /\ b.link = p.link /\ Acknowledged(b, c, p.number)
            \/ p.type = "LINK_OPEN" /\ Opened(c, n, p.link)
            \/ n = "provisioner" /\ b.link = p.link /\ Answered(b, c)
<1> DEFINE known == b.state # "IDLE" /\ b.link = p.link
           open  == known /\ b.state = "LINK_OPEN"
<1>1. CASE p.type = "LINK_OPEN" /\ c = LinkOpen(b, n, p)
  BY <1>1, LinkOpenKeeps
<1>2. CASE known /\ p.type = "LINK_ACK" /\ c \in LinkAck(b)
  BY <1>2, LinkAckKeeps
<1>3. CASE known /\ p.type = "LINK_CLOSE" /\ c \in LinkClosed(b)
  BY <1>3, LinkClosedKeeps
<1>4. CASE open /\ IsData(p) /\ c \in {TransactionStart(b, p), TransactionContinue(b, p)}
  BY <1>4, DataReceivedKeeps
<1>5. CASE open /\ p.type = "TRANSACTION_ACK" /\ c \in TransactionAck(b, p)
  <2>1. Own(c, n) /\ (c = b \/ Acknowledged(b, c, p.number))
    BY <1>5, AckReceivedKeeps
  <2>2. Quiet(b, b) /\ Silent(b, b) BY DEF Quiet, Silent
  <2> QED BY <1>5, <2>1, <2>2
<1>6. CASE c = b
  <2>1. Quiet(b, b) /\ Silent(b, b) BY DEF Quiet, Silent
  <2> QED BY <1>6, <2>1
<1>7. \/ p.type = "LINK_OPEN" /\ c = LinkOpen(b, n, p)
      \/ known /\ p.type = "LINK_ACK" /\ c \in LinkAck(b)
      \/ known /\ p.type = "LINK_CLOSE" /\ c \in LinkClosed(b)
      \/ open /\ IsData(p) /\ c \in {TransactionStart(b, p), TransactionContinue(b, p)}
      \/ open /\ p.type = "TRANSACTION_ACK" /\ c \in TransactionAck(b, p)
      \/ c = b
  <2>1. CASE p.type = "LINK_OPEN"
    BY <2>1 DEF BearerPacketIn
  <2>2. CASE known /\ p.type = "LINK_ACK"
    BY <2>2 DEF BearerPacketIn
  <2>3. CASE known /\ p.type = "LINK_CLOSE"
    BY <2>3 DEF BearerPacketIn
  <2>4. CASE open /\ p.type = "TRANSACTION_START"
    BY <2>4 DEF BearerPacketIn, IsData
  <2>5. CASE open /\ p.type = "TRANSACTION_CONTINUE"
    BY <2>5 DEF BearerPacketIn, IsData
  <2>6. CASE open /\ p.type = "TRANSACTION_ACK"
    BY <2>6 DEF BearerPacketIn
  <2>7. CASE /\ p.type # "LINK_OPEN" /\ ~(known /\ p.type = "LINK_ACK")
             /\ ~(known /\ p.type = "LINK_CLOSE") /\ ~(open /\ p.type = "TRANSACTION_START")
             /\ ~(open /\ p.type = "TRANSACTION_CONTINUE")
             /\ ~(open /\ p.type = "TRANSACTION_ACK")
    BY <2>7 DEF BearerPacketIn
  <2> QED BY <2>1, <2>2, <2>3, <2>4, <2>5, <2>6, <2>7
<1> QED BY <1>1, <1>2, <1>3, <1>4, <1>5, <1>6, <1>7

\* What an end does unnoticed leaves the two in agreement.
LEMMA QuietPair ==
  ASSUME NEW b \in Bearers, NEW c \in Bearers, Pair(b, c), NEW d
  PROVE  /\ Quiet(b, d) => Pair(d, c)
         /\ Quiet(c, d) /\ Silent(c, d) => Pair(b, d)
BY DEF Pair, Agree, Quiet, Silent

\* The first packet of a queue.
LEMMA FirstPacket ==
  ASSUME NEW n \in Nodes, NEW b, Own(b, n), b.queue # <<>>, NEW p, p = Head(b.queue)
  PROVE  /\ p \in Packet /\ p.number \in Nat /\ p.link = b.link
         /\ IsData(p) => p.number <= b.out /\ (p.number = b.out => Waits(b)) /\ HasData(b)
         /\ p.type = "TRANSACTION_ACK" => p.number < b.in
         /\ p.type = "LINK_OPEN" => Opening(b)
         /\ Opening(b) => n = "provisioner" /\ p.type \in {"LINK_OPEN"}
<1>1. /\ b \in Bearers /\ Len(b.queue) \in Nat /\ Len(b.queue) > 0 /\ 1 \in 1..Len(b.queue)
      /\ p = b.queue[1] /\ p \in Packet /\ p.number \in Nat
  BY BearerTypes DEF Own
<1> QED BY <1>1 DEF Own, Carried, Placed, Opening, HasData, Nodes

\* A packet from the provisioner.
LEMMA FromProvisioner ==
  ASSUME NEW b, Own(b, "provisioner"), NEW q, Own(q, "provisionee"), Pair(b, q),
         b.queue # <<>>, NEW c \in BearerPacketIn(q, "provisionee", Head(b.queue))
  PROVE  Own(c, "provisionee") /\ Pair(b, c)
<1> DEFINE p == Head(b.queue)
<1>1. /\ p \in Packet /\ p.number \in Nat /\ p.link = b.link
      /\ IsData(p) => p.number <= b.out /\ (p.number = b.out => Waits(b))
      /\ p.type = "TRANSACTION_ACK" => p.number < b.in
      /\ p.type = "LINK_OPEN" => Opening(b)
      /\ Opening(b) => p.type = "LINK_OPEN"
  BY FirstPacket DEF Nodes
<1>2. ~Opening(q)
  BY BearerTypes DEF Own, Opening, Placed, Carried
<1>3. /\ b \in Bearers /\ q \in Bearers /\ b.out \in Nat /\ b.in \in Nat /\ b.link \in Nat
      /\ q.out \in Nat /\ q.in \in Nat /\ Placed(b, "provisioner")
  BY BearerTypes DEF Own
<1>4. /\ Own(c, "provisionee")
      /\ \/ Quiet(q, c) /\ Silent(q, c)
         \/ IsData(p) /\ q.link = p.link /\ Counted(q, c, p.number)
         \/ p.type = "TRANSACTION_ACK" /\ q.link = p.link /\ Acknowledged(q, c, p.number)
         \/ p.type = "LINK_OPEN" /\ Opened(c, "provisionee", p.link)
  BY <1>1, <1>2, PacketInKeeps DEF Nodes
<1> SUFFICES Pair(b, c)
  BY <1>4
<1> HIDE DEF p
<1>5. CASE Quiet(q, c) /\ Silent(q, c)
  BY <1>3, <1>5, QuietPair
<1>6. CASE IsData(p) /\ q.link = p.link /\ Counted(q, c, p.number)
  <2>1. ~Opening(b) BY <1>1, <1>6 DEF IsData
  <2>2. /\ q.link = b.link /\ c.link = b.link /\ c.out = q.out /\ c.in = p.number + 1
        /\ ~Waits(q) /\ q.in <= p.number
    BY <1>1, <1>6 DEF Counted
  <2>3. Agree(b, c)
    <3>1. SUFFICES ASSUME b.link # 0 PROVE c.in = b.out + 1 /\ Waits(b)
      BY DEF Agree
    <3>2. q.in = b.out \/ q.in = b.out + 1
      BY <2>2, <3>1 DEF Pair, Agree
    <3>3. p.number <= b.out /\ (p.number = b.out => Waits(b))
      BY <1>1, <1>6
    <3> QED BY <1>1, <1>3, <2>2, <3>2, <3>3
  <2>4. Agree(c, b)
    <3>1. b.link # 0 => b.in = q.out
      BY <2>2 DEF Pair, Agree
    <3> QED BY <2>2, <3>1 DEF Agree
  <2> QED BY <1>3, <2>1, <2>2, <2>3, <2>4 DEF Pair
<1>7. CASE p.type = "TRANSACTION_ACK" /\ q.link = p.link /\ Acknowledged(q, c, p.number)
  <2>1. ~Opening(b) BY <1>1, <1>7
  <2>2. /\ q.link = b.link /\ c.link = b.link /\ c.out = q.out + 1 /\ c.in = q.in
        /\ p.number = q.out /\ p.number < b.in
    BY <1>1, <1>7 DEF Acknowledged
  <2>3. Agree(b, c)
    BY <2>2 DEF Pair, Agree
  <2>4. Agree(c, b)
    <3>1. b.link # 0 => b.in = q.out \/ b.in = q.out + 1
      BY <2>2 DEF Pair, Agree
    <3>2. b.link # 0 => b.in = c.out
      BY <1>3, <2>2, <3>1
    <3> QED BY <2>2, <3>2 DEF Agree
  <2> QED BY <1>3, <2>1, <2>2, <2>3, <2>4 DEF Pair
<1>8. CASE p.type = "LINK_OPEN" /\ Opened(c, "provisionee", p.link)
  <2>1. b.out = 0 /\ b.in = 128 BY <1>1, <1>3, <1>8 DEF Placed
  <2>2. /\ c.link = b.link /\ c.out = 128 /\ c.in = 0 /\ c.buffer # "TX" /\ ~HasData(c)
    BY <1>1, <1>8 DEF Opened
  <2> QED BY <1>3, <2>1, <2>2 DEF Pair, Agree
<1> QED BY <1>4, <1>5, <1>6, <1>7, <1>8

\* A packet from the provisionee.
LEMMA FromProvisionee ==
  ASSUME NEW b, Own(b, "provisioner"), NEW q, Own(q, "provisionee"), Pair(b, q),
         q.queue # <<>>, NEW c \in BearerPacketIn(b, "provisioner", Head(q.queue))
  PROVE  Own(c, "provisioner") /\ Pair(c, q)
<1> DEFINE p == Head(q.queue)
<1>1. /\ p \in Packet /\ p.number \in Nat /\ p.link = q.link
      /\ IsData(p) => p.number <= q.out /\ (p.number = q.out => Waits(q)) /\ HasData(q)
      /\ p.type = "TRANSACTION_ACK" => p.number < q.in
      /\ p.type = "LINK_OPEN" => Opening(q)
      /\ ~Opening(q)
  BY FirstPacket DEF Nodes
<1>2. /\ b \in Bearers /\ q \in Bearers /\ b.out \in Nat /\ b.in \in Nat
      /\ q.out \in Nat /\ q.in \in Nat /\ Placed(b, "provisioner")
  BY BearerTypes DEF Own
<1>3. IsData(p) \/ p.type = "TRANSACTION_ACK" => b.link # p.link \/ ~Opening(b)
  BY <1>1 DEF Pair
<1>4. /\ Own(c, "provisioner")
      /\ \/ Quiet(b, c) /\ Silent(b, c)
         \/ IsData(p) /\ b.link = p.link /\ Counted(b, c, p.number)
         \/ p.type = "TRANSACTION_ACK" /\ b.link = p.link /\ Acknowledged(b, c, p.number)
         \/ b.link = p.link /\ Answered(b, c)
  BY <1>1, <1>3, PacketInKeeps DEF Nodes, Opened
<1> SUFFICES Pair(c, q)
  BY <1>4
<1> HIDE DEF p
<1>5. CASE Quiet(b, c) /\ Silent(b, c)
  BY <1>2, <1>5, QuietPair
<1>6. CASE IsData(p) /\ b.link = p.link /\ Counted(b, c, p.number)
  <2>1. /\ q.link = b.link /\ c.link = b.link /\ c.out = b.out /\ c.in = p.number + 1
        /\ ~Waits(b) /\ b.in <= p.number /\ ~Opening(c)
    BY <1>1, <1>6 DEF Counted
  <2>2. Agree(q, c)
    <3>1. SUFFICES ASSUME q.link # 0 PROVE c.in = q.out + 1 /\ Waits(q)
      BY DEF Agree
    <3>2. b.in = q.out \/ b.in = q.out + 1
      BY <2>1, <3>1 DEF Pair, Agree
    <3>3. p.number <= q.out /\ (p.number = q.out => Waits(q))
      BY <1>1, <1>6
    <3> QED BY <1>1, <1>2, <2>1, <3>2, <3>3
  <2>3. Agree(c, q)
    <3>1. b.link # 0 => q.in = b.out
      BY <2>1 DEF Pair, Agree
    <3> QED BY <2>1, <3>1 DEF Agree
  <2> QED BY <1>2, <2>1, <2>2, <2>3 DEF Pair
<1>7. CASE p.type = "TRANSACTION_ACK" /\ b.link = p.link /\ Acknowledged(b, c, p.number)
  <2>1. /\ q.link = b.link /\ c.link = b.link /\ c.out = b.out + 1 /\ c.in = b.in
        /\ p.number = b.out /\ p.number < q.in /\ ~Opening(c)
    BY <1>1, <1>7 DEF Acknowledged
  <2>2. Agree(q, c)
    BY <2>1 DEF Pair, Agree
  <2>3. Agree(c, q)
    <3>1. b.link # 0 => q.in = b.out \/ q.in = b.out + 1
      BY <2>1 DEF Pair, Agree
    <3>2. b.link # 0 => q.in = c.out
      BY <1>2, <2>1, <3>1
    <3> QED BY <2>1, <3>2 DEF Agree
  <2> QED BY <1>2, <2>1, <2>2, <2>3 DEF Pair
<1>8. CASE b.link = p.link /\ Answered(b, c)
  <2>1. b.out = 0 /\ b.in = 128 BY <1>2, <1>8 DEF Placed, Answered
  <2>2. /\ q.link = b.link /\ c.link = b.link /\ c.out = b.out /\ c.in = b.in /\ Opening(b)
    BY <1>1, <1>8 DEF Answered
  <2>3. q.in = 0 /\ q.out = 128 /\ q.buffer # "TX" /\ ~HasData(q)
    BY <2>2 DEF Pair
  <2>4. Agree(c, q) /\ Agree(q, c)
    BY <2>1, <2>2, <2>3 DEF Agree
  <2> QED BY <1>2, <2>2, <2>3, <2>4 DEF Pair
<1> QED BY <1>4, <1>5, <1>6, <1>7, <1>8

\* A step of one end that the other does not notice.
LEMMA OneEnd ==
  ASSUME BearerInv, NEW n \in Nodes, NEW c, Own(c, n), Quiet(bearer[n], c),
         n = "provisioner" \/ Silent(bearer[n], c), bearer' = [bearer EXCEPT ![n] = c]
  PROVE  BearerInv'
<1>1. /\ bearer \in [Nodes -> Bearers] /\ c \in Bearers
      /\ \A m \in Nodes : bearer'[m] = IF m = n THEN c ELSE bearer[m]
  BY DEF BearerInv, Own
<1>2. bearer' \in [Nodes -> Bearers]
  BY <1>1
<1>3. \A m \in Nodes : Own(bearer'[m], m)
  BY <1>1 DEF BearerInv
<1>4. Pair(bearer'["provisioner"], bearer'["provisionee"])
  <2>1. /\ bearer["provisioner"] \in Bearers /\ bearer["provisionee"] \in Bearers
        /\ Pair(bearer["provisioner"], bearer["provisionee"])
    BY DEF BearerInv, Nodes
  <2>2. CASE n = "provisioner"
    <3>1. Pair(c, bearer["provisionee"]) BY <2>1, <2>2, QuietPair
    <3> QED BY <1>1, <2>2, <3>1 DEF Nodes
  <2>3. CASE n = "provisionee"
    <3>1. Pair(bearer["provisioner"], c) BY <2>1, <2>3, QuietPair
    <3> QED BY <1>1, <2>3, <3>1 DEF Nodes
  <2> QED BY <2>2, <2>3 DEF Nodes
<1> QED BY <1>2, <1>3, <1>4 DEF BearerInv

\* A packet is sent and arrives.
LEMMA ReceivedStep ==
  ASSUME BearerInv, NEW n \in Nodes, Received(n)
  PROVE  BearerInv'
<1> DEFINE m == Peer(n)
<1>1. bearer[n].queue # <<>> BY DEF Received
<1>2. PICK c \in BearerPacketIn(bearer[m], m, Head(bearer[n].queue)) :
        bearer' = [bearer EXCEPT ![n] = SentOnce(bearer[n]), ![m] = c]
  BY DEF Received
<1>3. /\ m \in Nodes /\ m # n /\ bearer \in [Nodes -> Bearers]
      /\ Own(bearer[n], n) /\ Own(bearer[m], m)
      /\ Own(bearer["provisioner"], "provisioner") /\ Own(bearer["provisionee"], "provisionee")
      /\ Pair(bearer["provisioner"], bearer["provisionee"])
  BY DEF BearerInv, Nodes, Peer
<1> DEFINE d == SentOnce(bearer[n])
<1>4. Own(d, n) /\ Quiet(bearer[n], d) /\ Silent(bearer[n], d)
  BY <1>1, <1>3, SentOnceKeeps
<1> HIDE DEF d
<1>5. \A k \in Nodes : bearer'[k] = IF k = n THEN d ELSE c
  BY <1>2, <1>3 DEF Nodes, d
<1>6. CASE n = "provisioner"
  <2>0. m = "provisionee" BY <1>6 DEF Peer
  <2>1. Own(c, "provisionee") /\ Pair(bearer["provisioner"], c)
    BY <1>1, <1>2, <1>3, <1>6, <2>0, FromProvisioner
  <2>2. Pair(d, c)
    BY <1>3, <1>4, <1>6, <2>1, QuietPair DEF Own
  <2>3. bearer'["provisioner"] = d /\ bearer'["provisionee"] = c
    BY <1>5, <1>6 DEF Nodes
  <2>4. \A k \in Nodes : Own(bearer'[k], k)
    BY <1>4, <1>6, <2>1, <2>3 DEF Nodes
  <2>5. bearer' \in [Nodes -> Bearers]
    BY <1>2, <1>3, <1>4, <2>1 DEF Own, d
  <2> QED BY <2>2, <2>3, <2>4, <2>5 DEF BearerInv
<1>7. CASE n = "provisionee"
  <2>0. m = "provisioner" BY <1>7 DEF Peer
  <2>1. Own(c, "provisioner") /\ Pair(c, bearer["provisionee"])
    BY <1>1, <1>2, <1>3, <1>7, <2>0, FromProvisionee
  <2>2. Pair(c, d)
    BY <1>3, <1>4, <1>7, <2>1, QuietPair DEF Own
  <2>3. bearer'["provisioner"] = c /\ bearer'["provisionee"] = d
    BY <1>5, <1>7 DEF Nodes
  <2>4. \A k \in Nodes : Own(bearer'[k], k)
    BY <1>4, <1>7, <2>1, <2>3 DEF Nodes
  <2>5. bearer' \in [Nodes -> Bearers]
    BY <1>2, <1>3, <1>4, <2>1 DEF Own, d
  <2> QED BY <2>2, <2>3, <2>4, <2>5 DEF BearerInv
<1> QED BY <1>6, <1>7 DEF Nodes

\* A message is taken from the upper layer: not from the provisionee's as long as the
\* packet that opens the link is on its way, because the provisioner sends first.
LEMMA TxStep ==
  ASSUME BearerInv, NEW n \in Nodes, Tx(n)
  PROVE  BearerInv'
<1> DEFINE b == bearer[n]
           d == [b EXCEPT !.buffer = "TX", !.finished = 0, !.retry = TRUE]
           c == BufferTx(d)
<1>1. /\ Own(b, n) /\ b \in Bearers /\ b.state = "LINK_OPEN" /\ b.buffer = "UNUSED"
      /\ bearer' = [bearer EXCEPT ![n] = c] /\ bearer \in [Nodes -> Bearers]
  BY DEF BearerInv, Tx, To, Own
<1>2. /\ d \in Bearers /\ d.queue = b.queue /\ d.state = "LINK_OPEN" /\ d.buffer = "TX"
      /\ d.link = b.link /\ d.links = b.links /\ d.out = b.out /\ d.in = b.in
  BY <1>1 DEF Bearers
<1> HIDE DEF d
<1>3. Waits(d) BY <1>2 DEF Waits
<1>4. Own(d, n)
  BY <1>1, <1>2, <1>3 DEF Own, Carried, Placed, Opening
<1>5. Quiet(b, d)
  BY <1>2, <1>3 DEF Quiet, Opening
<1>6. Own(c, n) /\ Quiet(d, c)
  BY <1>2, <1>4, BufferTxKeeps
<1>7. Quiet(b, c)
  BY <1>5, <1>6 DEF Quiet
<1> HIDE DEF c
<1>8. CASE n = "provisioner"
  <2> HIDE DEF b
  <2>1. Quiet(bearer[n], c) BY <1>7 DEF b
  <2> QED BY <1>1, <1>6, <1>8, <2>1, OneEnd
<1>9. CASE n = "provisionee"
  <2> DEFINE p == bearer["provisioner"]
  <2>1. p \in Bearers /\ Own(p, "provisioner") /\ Pair(p, b)
    BY <1>1, <1>9 DEF BearerInv, Nodes
  <2>2. ~(Opening(p) /\ b.link = p.link)
    <3>1. SUFFICES ASSUME Opening(p), b.link = p.link PROVE FALSE
      OBVIOUS
    <3>2. b.in = 0 /\ b.out = 128 BY <2>1, <3>1 DEF Pair
    <3>3. Turn(b, n) = 1
      BY <1>9, <3>2 DEF Turn, StartOf, Peer
    <3>4. 1 \in DOMAIN SCRIPT /\ SCRIPT[1] = "provisionee"
      BY <1>9, <3>3 DEF Tx
    <3>5. SCRIPT # <<>>
      BY <3>4, BearerAssumption DEF BearerAssumption
    <3> QED BY <3>4, <3>5, BearerAssumption DEF BearerAssumption
  <2>3. Pair(p, c)
    BY <1>7, <2>1, <2>2 DEF Pair, Agree, Quiet
  <2>4. bearer' \in [Nodes -> Bearers] /\ \A k \in Nodes : bearer'[k] = IF k = n THEN c ELSE bearer[k]
    BY <1>1, <1>6 DEF Own
  <2>5. \A k \in Nodes : Own(bearer'[k], k)
    BY <1>6, <2>4 DEF BearerInv
  <2>6. Pair(bearer'["provisioner"], bearer'["provisionee"])
    BY <1>9, <2>3, <2>4 DEF Nodes
  <2> QED BY <2>4, <2>5, <2>6 DEF BearerInv
<1> QED BY <1>8, <1>9 DEF Nodes

\* The provisionee listens anew: it has no link.
LEMMA ListenStep ==
  ASSUME BearerInv, Listen
  PROVE  BearerInv'
<1> DEFINE b == bearer["provisionee"]
           p == bearer["provisioner"]
           c == Initialized(b, "provisionee", "LISTEN", 0)
<1>1. /\ b \in Bearers /\ b.queue = <<>> /\ p \in Bearers /\ Pair(p, b)
      /\ bearer' = [bearer EXCEPT !["provisionee"] = c] /\ bearer \in [Nodes -> Bearers]
  BY DEF BearerInv, Listen, Unlinked, To, Own, Nodes
<1>2. c = [b EXCEPT !.state = "LISTEN", !.link = 0, !.buffer = "UNUSED", !.out = 128,
                    !.in = 0, !.links = b.links + 1]
  BY <1>1 DEF Initialized, StartOf, Peer
<1> HIDE DEF c
<1>3. /\ c \in Bearers /\ c.queue = b.queue /\ c.state = "LISTEN" /\ c.link = 0
      /\ c.buffer = "UNUSED" /\ c.out = 128 /\ c.in = 0
  <2>1. b.links + 1 \in Nat BY <1>1, BearerTypes
  <2> QED BY <1>1, <1>2, <2>1 DEF Bearers
<1>4. Len(c.queue) = 0 /\ ~HasData(c) /\ ~Opening(c) /\ c.queue = <<>>
  <2>1. Len(c.queue) = 0 /\ c.queue = <<>> BY <1>1, <1>3
  <2> QED BY <1>3, <2>1 DEF HasData, Opening
<1>5. Own(c, "provisionee")
  BY <1>3, <1>4 DEF Own, Carried, Placed
<1>6. Pair(p, c)
  BY <1>1, <1>3, <1>4, BearerTypes DEF Pair, Agree
<1>7. \A k \in Nodes : bearer'[k] = IF k = "provisionee" THEN c ELSE bearer[k]
  BY <1>1
<1>8. bearer' \in [Nodes -> Bearers] /\ \A k \in Nodes : Own(bearer'[k], k)
  BY <1>1, <1>3, <1>5, <1>7 DEF BearerInv
<1>9. Pair(bearer'["provisioner"], bearer'["provisionee"])
  BY <1>6, <1>7 DEF Nodes
<1> QED BY <1>8, <1>9 DEF BearerInv

\* The provisioner opens a link of its own, with a packet that is the first of its queue.
LEMMA OpenStep ==
  ASSUME BearerInv, Open
  PROVE  BearerInv'
<1> DEFINE b == bearer["provisioner"]
           q == bearer["provisionee"]
           d == Initialized(b, "provisioner", "LINK_OPENING", b.links + 1)
           c == Send(d, "LINK_OPEN", 0, 0, UNACKED_REPEATS)
           types == {"LINK_OPEN"}
<1>1. /\ b \in Bearers /\ b.queue = <<>> /\ q \in Bearers /\ Pair(b, q) /\ b.link = b.links
      /\ bearer' = [bearer EXCEPT !["provisioner"] = c] /\ bearer \in [Nodes -> Bearers]
  BY DEF BearerInv, Open, Unlinked, To, Own, Nodes, Placed
<1>2. d = [b EXCEPT !.state = "LINK_OPENING", !.link = b.links + 1, !.buffer = "UNUSED", !.out = 0,
                    !.in = 128, !.links = b.links + 1]
  BY <1>1 DEF Initialized, StartOf, Peer, Bearers
<1>3. b.links + 1 \in Nat /\ b.links + 1 # 0 /\ b.links \in Nat /\ q.link \in Nat
  BY <1>1, BearerTypes
<1> HIDE DEF d
<1>4. /\ d \in Bearers /\ d.queue = b.queue /\ d.state = "LINK_OPENING" /\ d.link = b.links + 1
      /\ d.links = b.links + 1 /\ d.buffer = "UNUSED" /\ d.out = 0 /\ d.in = 128
  BY <1>1, <1>2, <1>3 DEF Bearers
<1>5. /\ c \in Bearers /\ Rest(d, c) /\ Len(c.queue) <= Len(d.queue) + 1
      /\ Follows(d.queue, c.queue, types, d.link, 0)
  BY <1>4, BearerAssumption, SendIs DEF BearerAssumption
<1> HIDE DEF c
<1>6. /\ c.state = "LINK_OPENING" /\ c.link = b.links + 1 /\ c.links = b.links + 1
      /\ c.buffer = "UNUSED" /\ c.out = 0 /\ c.in = 128
  BY <1>4, <1>5 DEF Rest
<1>7. ASSUME NEW i \in 1..Len(c.queue)
      PROVE  i = 1 /\ c.queue[i].type = "LINK_OPEN" /\ c.queue[i].link = c.link
  <2>1. Len(d.queue) = 0 BY <1>1, <1>4
  <2>2. i = 1 /\ ~(i <= Len(d.queue)) BY <1>5, <2>1, BearerTypes
  <2> QED BY <1>4, <1>5, <1>6, <2>2 DEF Follows
<1>8. Own(c, "provisioner")
  BY <1>3, <1>5, <1>6, <1>7 DEF Own, Carried, Placed, IsData
<1>9. Pair(c, q)
  <2>1. q.link <= b.links /\ b.links \in Nat BY <1>1, <1>3 DEF Pair
  <2>2. q.link <= c.link /\ q.link # c.link BY <1>3, <1>6, <2>1
  <2> QED BY <2>2 DEF Pair, Agree
<1>10. \A k \in Nodes : bearer'[k] = IF k = "provisioner" THEN c ELSE bearer[k]
  BY <1>1
<1>11. bearer' \in [Nodes -> Bearers] /\ \A k \in Nodes : Own(bearer'[k], k)
  BY <1>1, <1>5, <1>8, <1>10 DEF BearerInv
<1>12. Pair(bearer'["provisioner"], bearer'["provisionee"])
  BY <1>9, <1>10 DEF Nodes
<1> QED BY <1>11, <1>12 DEF BearerInv

\* Timers, flags and the upper layer, at one end.
LEMMA EndStep ==
  ASSUME BearerInv, NEW n \in Nodes,
         Lost(n) \/ TxRetry(n) \/ TransactionTimeout(n) \/ AsyncProcess(n) \/ Close(n)
  PROVE  BearerInv'
<1> DEFINE b == bearer[n]
<1>1. Own(b, n) /\ b \in Bearers
  BY DEF BearerInv, Own
<1>2. SUFFICES \E c : /\ Own(c, n) /\ Quiet(b, c) /\ Silent(b, c)
                      /\ bearer' = [bearer EXCEPT ![n] = c]
  BY OneEnd
<1>3. CASE Lost(n)
  <2>1. b.queue # <<>> /\ bearer' = [bearer EXCEPT ![n] = SentOnce(b)]
    BY <1>3 DEF Lost
  <2> QED BY <1>1, <2>1, SentOnceKeeps
<1>4. CASE TxRetry(n)
  <2>1. CASE b.state = "LINK_OPEN" /\ b.buffer = "TX"
    <3> DEFINE d == [b EXCEPT !.finished = 0]
    <3>1. d \in Bearers /\ Rest(b, d) /\ d.queue = b.queue
      BY <1>1 DEF Bearers, Rest
    <3>2. bearer' = [bearer EXCEPT ![n] = BufferTx(d)]
      BY <1>4, <2>1 DEF TxRetry, To
    <3> HIDE DEF d
    <3>3. Own(d, n) /\ Quiet(b, d) /\ Silent(b, d) /\ d.buffer = "TX"
      BY <1>1, <2>1, <3>1, FieldsKeep DEF Rest
    <3>4. Own(BufferTx(d), n) /\ Quiet(d, BufferTx(d)) /\ Silent(d, BufferTx(d))
      BY <3>3, BufferTxKeeps
    <3> QED BY <3>2, <3>3, <3>4, Transitive
  <2>2. CASE ~(b.state = "LINK_OPEN" /\ b.buffer = "TX")
    <3> DEFINE d == [b EXCEPT !.retry = FALSE]
    <3>1. d \in Bearers /\ Rest(b, d) /\ d.queue = b.queue
      BY <1>1 DEF Bearers, Rest
    <3>2. bearer' = [bearer EXCEPT ![n] = d]
      BY <1>4, <2>2 DEF TxRetry, To
    <3> HIDE DEF d
    <3> QED BY <1>1, <3>1, <3>2, FieldsKeep
  <2> QED BY <2>1, <2>2
<1>5. CASE TransactionTimeout(n)
  <2>1. b.state = "LINK_OPEN" /\ b.state # "IDLE" BY <1>5 DEF TransactionTimeout
  <2>2. PICK d \in LinkClose(b) : bearer' = [bearer EXCEPT ![n] = [d EXCEPT !.retry = FALSE]]
    BY <1>5 DEF TransactionTimeout, To
  <2> DEFINE c == [d EXCEPT !.retry = FALSE]
  <2>3. Own(d, n) /\ Quiet(b, d) /\ Silent(b, d)
    BY <1>1, <2>1, LinkCloseKeeps
  <2>4. d \in Bearers BY <2>3 DEF Own
  <2>5. c \in Bearers /\ Rest(d, c) /\ c.queue = d.queue
    BY <2>4 DEF Bearers, Rest
  <2> HIDE DEF c
  <2>6. Own(c, n) /\ Quiet(d, c) /\ Silent(d, c)
    BY <2>3, <2>5, FieldsKeep
  <2>7. bearer' = [bearer EXCEPT ![n] = c] BY <2>2 DEF c
  <2> QED BY <2>3, <2>6, <2>7, Transitive
<1>6. CASE AsyncProcess(n)
  <2> DEFINE d == [b EXCEPT !.queue_empty_pending = FALSE]
  <2>1. PICK c \in QueueEmpty(d) : bearer' = [bearer EXCEPT ![n] = c]
    BY <1>6 DEF AsyncProcess, To
  <2>2. d \in Bearers /\ Rest(b, d) /\ d.queue = b.queue
    BY <1>1 DEF Bearers, Rest
  <2> HIDE DEF d
  <2>3. Own(d, n) /\ Quiet(b, d) /\ Silent(b, d)
    BY <1>1, <2>2, FieldsKeep
  <2>4. Own(c, n) /\ Quiet(d, c) /\ Silent(d, c)
    <3>1. CASE d.state = "LINK_CLOSING"
      <4>1. c \in CloseLink(StopIfTx(d)) BY <2>1, <3>1 DEF QueueEmpty
      <4>2. Own(StopIfTx(d), n) /\ Quiet(d, StopIfTx(d)) /\ Silent(d, StopIfTx(d))
        BY <2>3, StopKeeps
      <4>3. Own(c, n) /\ Quiet(StopIfTx(d), c) /\ Silent(StopIfTx(d), c)
        BY <4>1, <4>2, CloseLinkKeeps
      <4> QED BY <4>2, <4>3, Transitive
    <3>2. CASE d.state # "LINK_CLOSING" /\ d.buffer = "TX"
      <4>1. c = BufferTx(d) BY <2>1, <3>2 DEF QueueEmpty
      <4> QED BY <2>3, <3>2, <4>1, BufferTxKeeps
    <3>3. CASE d.state # "LINK_CLOSING" /\ d.buffer # "TX"
      <4>1. c = d BY <2>1, <3>3 DEF QueueEmpty
      <4> QED BY <2>3, <4>1 DEF Quiet, Silent
    <3> QED BY <3>1, <3>2, <3>3
  <2> QED BY <2>1, <2>3, <2>4, Transitive
<1>7. CASE Close(n)
  <2>1. b.state # "IDLE" /\ \E c \in LinkClose(b) : bearer' = [bearer EXCEPT ![n] = c]
    BY <1>7 DEF Close, To
  <2> QED BY <1>1, <2>1, LinkCloseKeeps
<1> QED BY <1>3, <1>4, <1>5, <1>6, <1>7

\* The provisionee listens no more.
LEMMA ListenStopStep ==
  ASSUME BearerInv, ListenStop
  PROVE  BearerInv'
<1> DEFINE b == bearer["provisionee"]
<1>1. Own(b, "provisionee") /\ b \in Bearers /\ b.state = "LISTEN"
  BY DEF BearerInv, Own, Nodes, ListenStop
<1>2. PICK d \in QueueFlushed(b) :
        bearer' = [bearer EXCEPT !["provisionee"] = [d EXCEPT !.state = "IDLE"]]
  BY DEF ListenStop, To
<1> DEFINE c == [d EXCEPT !.state = "IDLE"]
<1>3. d \in Bearers /\ Rest(b, d)
  BY <1>1, FlushedIs
<1>4. c = [d EXCEPT !.buffer = "UNUSED", !.state = "IDLE"]
  <2>1. d.buffer = "UNUSED" BY <1>1, <1>3 DEF Own, Placed, Rest
  <2> QED BY <1>3, <2>1 DEF Bearers
<1>5. c \in CloseLink(b)
  BY <1>4 DEF CloseLink
<1> HIDE DEF c
<1>6. Own(c, "provisionee") /\ Quiet(b, c) /\ Silent(b, c)
  BY <1>1, <1>5, CloseLinkKeeps DEF Nodes
<1>7. bearer' = [bearer EXCEPT !["provisionee"] = c] BY <1>2 DEF c
<1> QED BY <1>6, <1>7, OneEnd DEF Nodes

\* The invariant holds at first.
LEMMA BearerInitially == BearerInit => BearerInv
<1> SUFFICES ASSUME BearerInit PROVE BearerInv
  OBVIOUS
<1>1. \A n \in Nodes :
        /\ bearer[n] \in Bearers
        /\ bearer[n].state = "IDLE" /\ bearer[n].link = 0 /\ bearer[n].links = 0
        /\ bearer[n].queue = <<>> /\ Len(bearer[n].queue) = 0
  <2> TAKE n \in Nodes
  <2> DEFINE q == <<>>
             r == {}
             out == StartOf(n)
             in == StartOf(Peer(n))
  <2>1. q \in Seq(Packet) /\ Len(q) = 0 /\ q = <<>> /\ r \in SUBSET Nat
    OBVIOUS
  <2>2. out \in Nat /\ in \in Nat
    BY DEF StartOf
  <2>3. bearer[n] = [state |-> "IDLE", link |-> 0, buffer |-> "UNUSED", finished |-> 0, received |-> r,
               out |-> out, in |-> in, queue |-> q,
               queue_empty_pending |-> FALSE, retry |-> FALSE, links |-> 0]
    BY DEF BearerInit
  <2> HIDE DEF q, r, out, in
  <2>4. /\ bearer[n] \in Bearers
        /\ bearer[n].state = "IDLE" /\ bearer[n].link = 0 /\ bearer[n].links = 0
        /\ bearer[n].queue = q
    BY <2>1, <2>2, <2>3 DEF Bearers
  <2> QED BY <2>1, <2>4
<1>2. bearer \in [Nodes -> Bearers]
  BY <1>1 DEF BearerInit
<1>3. \A n \in Nodes : Own(bearer[n], n)
  BY <1>1 DEF Own, Carried, Placed, Opening
<1>4. Pair(bearer["provisioner"], bearer["provisionee"])
  BY <1>1 DEF Pair, Agree, Opening, Nodes
<1> QED BY <1>2, <1>3, <1>4 DEF BearerInv

\* Every step keeps it.
LEMMA BearerStep ==
  ASSUME BearerInv, [BearerNext]_bearer
  PROVE  BearerInv'
<1>1. CASE UNCHANGED bearer
  BY <1>1 DEF BearerInv
<1>2. CASE BearerNext
  <2>1. ASSUME NEW n \in Nodes, Received(n) PROVE BearerInv'
    BY <2>1, ReceivedStep
  <2>2. ASSUME NEW n \in Nodes,
               Lost(n) \/ TxRetry(n) \/ TransactionTimeout(n) \/ AsyncProcess(n) \/ Close(n)
        PROVE  BearerInv'
    BY <2>2, EndStep
  <2>3. ASSUME NEW n \in Nodes, Tx(n) PROVE BearerInv'
    BY <2>3, TxStep
  <2> QED BY <1>2, <2>1, <2>2, <2>3, ListenStep, ListenStopStep, OpenStep DEF BearerNext
<1> QED BY <1>1, <1>2

\* It implies what the run checks.
LEMMA AgreedIsDelivered == BearerInv => DeliveredOnce
<1> SUFFICES ASSUME BearerInv, Linked
             PROVE  \A n \in Nodes : \/ bearer[Peer(n)].in = bearer[n].out
                                     \/ bearer[Peer(n)].in = bearer[n].out + 1 /\ bearer[n].buffer = "TX"
  BY DEF DeliveredOnce
<1> DEFINE p == bearer["provisioner"]
           q == bearer["provisionee"]
<1>0. /\ Nodes = {"provisioner", "provisionee"}
      /\ Peer("provisioner") = "provisionee" /\ Peer("provisionee") = "provisioner"
  BY DEF Nodes, Peer
<1>1. p.state = "LINK_OPEN" /\ q.state = "LINK_OPEN" /\ p.link = q.link
  BY DEF Linked, Nodes
<1>2. p.link # 0
  BY <1>1 DEF BearerInv, Nodes, Own, Placed
<1>3. Agree(p, q) /\ Agree(q, p)
  BY DEF BearerInv, Pair
<1>4. q.in = p.out \/ (q.in = p.out + 1 /\ p.buffer = "TX")
  BY <1>1, <1>2, <1>3 DEF Agree, Waits
<1>5. p.in = q.out \/ (p.in = q.out + 1 /\ q.buffer = "TX")
  BY <1>1, <1>2, <1>3 DEF Agree, Waits
<1>6. ASSUME NEW n \in Nodes
      PROVE  \/ bearer[Peer(n)].in = bearer[n].out
             \/ bearer[Peer(n)].in = bearer[n].out + 1 /\ bearer[n].buffer = "TX"
  <2>1. CASE n = "provisioner" BY <1>0, <1>4, <2>1
  <2>2. CASE n = "provisionee" BY <1>0, <1>5, <2>2
  <2> QED BY <1>0, <2>1, <2>2
<1> QED BY <1>6

(***************************************************************************)
(* Every message is delivered once and in order, for messages of any       *)
(* number of segments, any room and any number of links.                   *)
(***************************************************************************)
THEOREM MessagesDeliveredOnce == BearerSpec => []DeliveredOnce
<1>1. BearerInv /\ [BearerNext]_bearer => BearerInv'
  BY BearerStep
<1> QED
  BY <1>1, BearerInitially, AgreedIsDelivered, PTL DEF BearerSpec
=============================================================================
