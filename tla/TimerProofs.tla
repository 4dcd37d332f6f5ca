---------------------------- MODULE TimerProofs ----------------------------
(***************************************************************************)
(* What is done at times: heartbeats, messages that are sent again, the    *)
(* scheduler of timers, and periodic publication.                          *)
(*                                                                         *)
(* Heartbeats are counted out: what was sent and what is left make up what *)
(* the client asked for.  Counted is that sum, and it is inductive with    *)
(* the types of the fields (Good), for every step that ends in the         *)
(* heartbeat's own record, halts of an assertion included.  The counts and *)
(* periods are powers of two, which a recursive function gives: that it    *)
(* has the values it is defined by is proved first, from the fact that     *)
(* every set of numbers has a least one.                                   *)
(*                                                                         *)
(* The pool of acknowledged messages has a timer while a message is in     *)
(* use, and the timer is that of a message that is.  This much (Watched)   *)
(* holds between two calls only.  Within the timer's callback, which goes  *)
(* through the pool in order and lets other calls into it, Visiting holds: *)
(* the next index is that of a message in use as soon as one in use has    *)
(* been passed.                                                            *)
(*                                                                         *)
(* The scheduler has its events in the lists their states say (Lists),     *)
(* whatever users do in and between callbacks; with its flag down there is *)
(* nothing to add or to remove (Clean), and the hardware timer is that of  *)
(* the first event (Timed).                                                *)
(*                                                                         *)
(* Publications wait in order (Ordered), in the middle of each operation   *)
(* too; that the timer is on for them, and counts (PublishInv), holds      *)
(* behind each.                                                            *)
(***************************************************************************)
EXTENDS Heartbeat, AccessReliable, TimerScheduler, AccessPublish, FiniteSetTheorems, WellFoundedInduction, TLAPS

\* Every set of numbers that is not empty has a least one.
LEMMA LeastNumber ==
  ASSUME NEW T \in SUBSET Nat, T # {}
  PROVE  \E x \in T : \A y \in T : x <= y
<1>1. \E x \in T : \A y \in T : ~(<<y, x>> \in OpToRel(<, Nat))  BY NatLessThanWellFounded, WFMin
<1>2. PICK x \in T : \A y \in T : ~(<<y, x>> \in OpToRel(<, Nat)) BY <1>1
<1>3. ASSUME NEW y \in T PROVE x <= y
  <2>1. ~(<<y, x>> \in OpToRel(<, Nat)) BY <1>2
  <2>2. ~ (y < x) BY <2>1 DEF OpToRel
  <2> QED BY <2>2
<1> QED BY <1>3

-----------------------------------------------------------------------------
(* Powers of two *)

\* What Shift is defined by has a solution, on any number of logarithms.
LEMMA ShiftsExist ==
  ASSUME NEW m \in Nat
  PROVE  \E f : f = [n \in 0..m |-> IF n = 0 THEN 1 ELSE 2 * f[n - 1]]
<1> DEFINE Solved(k) == \E f : f = [n \in 0..k |-> IF n = 0 THEN 1 ELSE 2 * f[n - 1]]
           T == {k \in Nat : ~Solved(k)}
<1>1. ASSUME T # {} PROVE FALSE
  <2>1. PICK k \in T : \A j \in T : k <= j
    <3> HIDE DEF Solved
    <3> QED BY <1>1, LeastNumber
  <2>2. CASE k = 0
    <3> DEFINE f == [n \in 0..k |-> 1]
    <3>1. f = [n \in 0..k |-> IF n = 0 THEN 1 ELSE 2 * f[n - 1]] BY <2>2
    <3>2. Solved(k) BY <3>1
    <3> QED BY <3>2
  <2>3. CASE k # 0
    <3>1. k \in Nat /\ k - 1 \in Nat /\ k - 1 < k BY <2>3
    <3>2. Solved(k - 1)
      <4> HIDE DEF Solved
      <4>1. k - 1 \notin T BY <2>1, <3>1
      <4> QED BY <3>1, <4>1
    <3>3. PICK g : g = [n \in 0..(k - 1) |-> IF n = 0 THEN 1 ELSE 2 * g[n - 1]] BY <3>2
    <3> DEFINE f == [n \in 0..k |-> IF n = k THEN 2 * g[k - 1] ELSE g[n]]
    <3>4. f = [n \in 0..k |-> IF n = 0 THEN 1 ELSE 2 * f[n - 1]]
      <4>1. ASSUME NEW n \in 0..k PROVE f[n] = IF n = 0 THEN 1 ELSE 2 * f[n - 1]
        <5>1. CASE n = k
          <6>1. n # 0 /\ n - 1 \in 0..k /\ n - 1 # k BY <2>3, <3>1, <5>1
          <6>2. f[n - 1] = g[k - 1] BY <5>1, <6>1
          <6> QED BY <5>1, <6>1, <6>2
        <5>2. CASE n # k /\ n = 0
          <6>1. n \in 0..(k - 1) BY <3>1, <5>2
          <6>2. g[n] = 1 BY <3>3, <5>2, <6>1
          <6> QED BY <5>2, <6>2
        <5>3. CASE n # k /\ n # 0
          <6>1. n \in 0..(k - 1) /\ n - 1 \in 0..k /\ n - 1 # k BY <3>1, <5>3
          <6>2. g[n] = 2 * g[n - 1] BY <3>3, <5>3, <6>1
          <6>3. f[n - 1] = g[n - 1] BY <6>1
          <6> QED BY <5>3, <6>2, <6>3
        <5> QED BY <5>1, <5>2, <5>3
      <4> QED BY <4>1
    <3>5. Solved(k) BY <3>4
    <3> QED BY <3>5
  <2> QED BY <2>2, <2>3
<1>2. Solved(m)
  <2> HIDE DEF Solved
  <2> QED BY <1>1
<1> QED BY <1>2

\* Shift is what it is defined by.
LEMMA ShiftIs == Shift = [n \in 0..255 |-> IF n = 0 THEN 1 ELSE 2 * Shift[n - 1]]
<1>0. 255 \in Nat OBVIOUS
<1>1. \E f : f = [n \in 0..255 |-> IF n = 0 THEN 1 ELSE 2 * f[n - 1]] BY <1>0, ShiftsExist, Zenon
<1> QED BY <1>1 DEF Shift

\* Its values are positive numbers.
LEMMA ShiftPositive == \A n \in 0..255 : Shift[n] \in Nat \ {0}
<1> DEFINE T == {n \in Nat : n \in 0..255 /\ Shift[n] \notin Nat \ {0}}
<1>1. ASSUME T # {} PROVE FALSE
  <2>1. PICK n \in T : \A j \in T : n <= j BY <1>1, LeastNumber
  <2>2. n \in 0..255 /\ Shift[n] = IF n = 0 THEN 1 ELSE 2 * Shift[n - 1] BY <2>1, ShiftIs
  <2>3. CASE n = 0 BY <2>1, <2>2, <2>3
  <2>4. CASE n # 0
    <3>1. n - 1 \in 0..255 /\ n - 1 \in Nat /\ ~(n <= n - 1) BY <2>2, <2>4
    <3>2. Shift[n - 1] \in Nat \ {0} BY <2>1, <3>1
    <3>3. Shift[n] = 2 * Shift[n - 1] BY <2>2, <2>4
    <3>4. Shift[n] \in Nat \ {0} BY <3>2, <3>3
    <3> QED BY <2>1, <3>4
  <2> QED BY <2>3, <2>4
<1> QED BY <1>1

-----------------------------------------------------------------------------
(* What the operators do to the state *)

\* The numbers the configuration is measured by.
LEMMA CountTypes ==
  /\ MAX_COUNT \in Nat \ {0} /\ INF_COUNT \in Nat
  /\ \A log \in 0..255 : CountDecode(log) \in Nat /\ PeriodDecode(log) \in Nat
<1>1. MAX_COUNT \in Nat \ {0}
  <2>1. MAX_LOG - 1 \in 0..255 BY HeartbeatAssumption DEF HeartbeatAssumption
  <2> QED BY <2>1, ShiftPositive DEF MAX_COUNT
<1>2. INF_COUNT \in Nat /\ INVALID_COUNT \in Nat /\ INVALID_PERIOD \in Nat
  BY <1>1 DEF INF_COUNT, INVALID_COUNT, INVALID_PERIOD, MAX_PERIOD
<1>3. ASSUME NEW log \in 0..255 PROVE PeriodDecode(log) \in Nat
  <2>1. CASE log \in 1..MAX_LOG
    <3>1. log # 0 /\ log - 1 \in 0..255 BY <2>1, HeartbeatAssumption DEF HeartbeatAssumption
    <3>2. Shift[log - 1] \in Nat BY <3>1, ShiftPositive
    <3> QED BY <2>1, <3>1, <3>2 DEF PeriodDecode
  <2>2. CASE log \notin 1..MAX_LOG
    BY <1>2, <2>2 DEF PeriodDecode
  <2> QED BY <2>1, <2>2
<1>4. ASSUME NEW log \in 0..255 PROVE CountDecode(log) \in Nat
  <2>1. CASE log \in 1..MAX_LOG
    <3>1. log # 0 /\ log - 1 \in 0..255 BY <2>1, HeartbeatAssumption DEF HeartbeatAssumption
    <3>2. Shift[log - 1] \in Nat BY <3>1, ShiftPositive
    <3> QED BY <1>2, <2>1, <3>1, <3>2 DEF CountDecode
  <2>2. CASE log \notin 1..MAX_LOG
    BY <1>2, <2>2 DEF CountDecode
  <2> QED BY <2>1, <2>2
<1> QED BY <1>1, <1>2, <1>3, <1>4

\* Of a publication with a finite count.
Counted(h) ==
  /\ h.asked < INF_COUNT => h.sent + h.pub.count = h.asked
  /\ h.asked = MAX_COUNT => h.pub.count = IF h.sent = 0 THEN MAX_COUNT ELSE INF_COUNT

\* The sum is kept, and every field has its type.
Good(h) == h \in Heartbeats /\ Counted(h)

\* An assertion that fails.
LEMMA Halting == ASSUME NEW h, Good(h) PROVE Good(Halted(h))
BY DEF Good, Heartbeats, Counted, Halted

\* What is sent is counted, both ways.
LEMMA Counting ==
  ASSUME NEW h, Good(h), h.pub.count # 0
  PROVE  Good(CountDecrement(Noted(h)))
<1> DEFINE c == h.pub.count
           n == IF IsFinite(h.asked) /\ h.sent <= h.asked THEN h.sent + 1 ELSE h.sent
           d == IF c # INF_COUNT THEN c - 1 ELSE c
           q == [h EXCEPT !.sent = n, !.pub.count = d]
<1>1. /\ h.sent \in Nat /\ h.asked \in Nat /\ c \in Nat /\ c # 0
      /\ MAX_COUNT \in Nat \ {0} /\ INF_COUNT = MAX_COUNT - 1
      /\ h.asked < INF_COUNT => h.sent + c = h.asked
      /\ h.asked = MAX_COUNT => c = IF h.sent = 0 THEN MAX_COUNT ELSE INF_COUNT
  BY CountTypes DEF Good, Heartbeats, Counted, INF_COUNT
<1>2. n \in Nat /\ d \in Nat BY <1>1
<1>3. h.asked < INF_COUNT => n = h.sent + 1 /\ d = c - 1
  BY <1>1 DEF IsFinite
<1>4. h.asked = MAX_COUNT => n # 0 /\ d = INF_COUNT
  BY <1>1 DEF IsFinite
<1> HIDE DEF c, n, d
<1>5. q \in Heartbeats /\ q.sent = n /\ q.pub.count = d /\ q.asked = h.asked
  BY <1>2 DEF Good, Heartbeats
<1>6. Good(q) BY <1>1, <1>2, <1>3, <1>4, <1>5 DEF Good, Counted
<1>7. CountDecrement(Noted(h)) = q
  BY <1>1 DEF CountDecrement, Noted, Good, Heartbeats, c, n, d
<1> QED BY <1>6, <1>7

\* A heartbeat that is sent, or not.
LEMMA SendingHeartbeats ==
  ASSUME NEW h, Good(h), NEW counted \in BOOLEAN, counted => h.pub.count # 0, NEW s \in Sent(h, counted)
  PROVE  Good(s) /\ s.pub.dst = h.pub.dst
<1>1. s \in {Halted(h), h} \/ (counted /\ s = CountDecrement(Noted(h))) BY DEF Sent
<1>2. Good(s) BY <1>1, Halting, Counting
<1>3. CountDecrement(Noted(h)).pub.dst = h.pub.dst /\ Halted(h).pub.dst = h.pub.dst
  BY DEF CountDecrement, Noted, Halted, Good, Heartbeats
<1> QED BY <1>1, <1>2, <1>3

\* A publication that is to go on, or to stop.
LEMMA Updating ==
  ASSUME NEW h, Good(h)
  PROVE  Good(StateUpdated(h))
<1>1. h \in Heartbeats BY DEF Good
<1>2. OFF \in Nat \cup {OFF} /\ Lesser(h.pub.period, SUB_INTERVAL) \in Nat
  BY HeartbeatAssumption DEF HeartbeatAssumption, Good, Heartbeats, Lesser
<1>3. CASE ~h.pub.dst \/ h.pub.count = 0 \/ h.pub.period = 0
  <2> DEFINE q == [h EXCEPT !.timer = OFF]
  <2>1. StateUpdated(h) = q BY <1>3 DEF StateUpdated
  <2>2. q \in Heartbeats /\ q.pub = h.pub /\ q.asked = h.asked /\ q.sent = h.sent
    BY <1>1, <1>2 DEF Heartbeats
  <2> HIDE DEF q
  <2> QED BY <2>1, <2>2 DEF Good, Counted
<1>4. CASE ~(~h.pub.dst \/ h.pub.count = 0 \/ h.pub.period = 0)
  <2> DEFINE r == Restarted(h)
             l == HandlerAdd(r)
             q == [l EXCEPT !.pendingPub = ~h.listening \/ @]
  <2>1. StateUpdated(h) = q BY <1>4 DEF StateUpdated
  <2>2. r \in Heartbeats /\ r.pub = h.pub /\ r.asked = h.asked /\ r.sent = h.sent
    BY <1>1, <1>2 DEF Heartbeats, Restarted
  <2> HIDE DEF r
  <2>3. l \in Heartbeats /\ l.pub = h.pub /\ l.asked = h.asked /\ l.sent = h.sent
    BY <2>2 DEF Heartbeats, HandlerAdd, Halted
  <2> HIDE DEF l
  <2>4. (~h.listening \/ l.pendingPub) \in BOOLEAN OBVIOUS
  <2>5. q \in Heartbeats /\ q.pub = h.pub /\ q.asked = h.asked /\ q.sent = h.sent
    BY <2>3, <2>4 DEF Heartbeats
  <2> HIDE DEF q
  <2> QED BY <2>1, <2>5 DEF Good, Counted
<1> QED BY <1>3, <1>4

\* The timer is set again, or not.
LEMMA Rescheduling ==
  ASSUME NEW h, Good(h)
  PROVE  Good(Rescheduled(h))
<1> DEFINE t == IF h.pub.count > 0 THEN Lesser(h.remaining, SUB_INTERVAL) ELSE OFF
           q == [h EXCEPT !.timer = t]
<1>1. t \in Nat \cup {OFF}
  BY HeartbeatAssumption DEF HeartbeatAssumption, Good, Heartbeats, Lesser
<1> HIDE DEF t
<1>2. q \in Heartbeats /\ q.pub = h.pub /\ q.asked = h.asked /\ q.sent = h.sent
  BY <1>1 DEF Good, Heartbeats
<1> HIDE DEF q
<1>3. Rescheduled(h) = q BY DEF Rescheduled, q, t
<1> QED BY <1>2, <1>3 DEF Good, Counted

\* Time that has passed, of what remains.
LEMMA Passing ==
  ASSUME NEW h, Good(h)
  PROVE  Good(Passed(h)) /\ Passed(h).pub = h.pub
<1> DEFINE t == h.remaining - Lesser(Lesser(h.pub.period, SUB_INTERVAL), h.remaining)
           q == [h EXCEPT !.remaining = t]
<1>1. t \in Nat
  BY HeartbeatAssumption DEF HeartbeatAssumption, Good, Heartbeats, Lesser
<1>2. Passed(h) = q BY DEF Passed, Good, Heartbeats
<1> HIDE DEF t
<1>3. q \in Heartbeats /\ q.pub = h.pub /\ q.asked = h.asked /\ q.sent = h.sent
  BY <1>1 DEF Good, Heartbeats
<1> HIDE DEF q
<1> QED BY <1>2, <1>3 DEF Good, Counted

-----------------------------------------------------------------------------
(* The steps *)

\* A change of fields that the sum does not count.
LEMMA Otherwise ==
  ASSUME NEW h, Good(h), NEW q \in Heartbeats,
         q.pub.count = h.pub.count, q.asked = h.asked, q.sent = h.sent
  PROVE  Good(q)
BY DEF Good, Counted

\* The timer of the publication.
LEMMA PublicationTimerKeeps == ASSUME Good(heartbeat), PublicationTimerCb PROVE Good(heartbeat')
<1> DEFINE h == heartbeat
           p == Passed(h)
<1>1. CASE heartbeat' = [h EXCEPT !.timer = OFF, !.cut = TRUE]
  <2> DEFINE q == [h EXCEPT !.timer = OFF, !.cut = TRUE]
  <2>1. q \in Heartbeats /\ q.pub.count = h.pub.count /\ q.asked = h.asked /\ q.sent = h.sent
    BY DEF Good, Heartbeats
  <2> QED BY <1>1, <2>1, Otherwise
<1>2. CASE heartbeat' = Halted(h) BY <1>2, Halting
<1>3. Good(p) /\ p.pub = h.pub BY Passing
<1>4. ASSUME IsPublicationRunning(p), NEW s \in Sent(p, TRUE),
             heartbeat' = Rescheduled([s EXCEPT !.remaining = s.pub.period])
      PROVE  Good(heartbeat')
  <2>1. Good(s) BY <1>3, <1>4, SendingHeartbeats DEF IsPublicationRunning
  <2> DEFINE q == [s EXCEPT !.remaining = s.pub.period]
  <2>2. q \in Heartbeats /\ q.pub.count = s.pub.count /\ q.asked = s.asked /\ q.sent = s.sent
    BY <2>1 DEF Good, Heartbeats
  <2>3. Good(q) BY <2>1, <2>2, Otherwise
  <2> QED BY <1>4, <2>3, Rescheduling
<1>5. CASE heartbeat' = Rescheduled(p) BY <1>3, <1>5, Rescheduling
<1> HIDE DEF p
<1>6. \/ heartbeat' = [h EXCEPT !.timer = OFF, !.cut = TRUE]
      \/ heartbeat' = Halted(h)
      \/ IsPublicationRunning(p) /\ \E s \in Sent(p, TRUE) :
                                      heartbeat' = Rescheduled([s EXCEPT !.remaining = s.pub.period])
      \/ heartbeat' = Rescheduled(p)
  BY DEF PublicationTimerCb, p
<1> QED BY <1>1, <1>2, <1>4, <1>5, <1>6

\* A transmission that is complete.
LEMMA CoreEvtKeeps == ASSUME Good(heartbeat), CoreEvt PROVE Good(heartbeat')
<1> DEFINE h == heartbeat
           pub == IF h.key /\ h.pendingPub /\ IsPublicationRunning(h) THEN Sent(h, TRUE) ELSE {h}
           Feat(p) == IF p.key /\ p.pendingFeat /\ p.pub.dst THEN Sent(p, FALSE) ELSE {p}
<1>1. PICK p \in pub : \E f \in Feat(p) :
        heartbeat' = [f EXCEPT !.listening = FALSE, !.pendingPub = FALSE, !.pendingFeat = FALSE]
  BY DEF CoreEvt
<1>2. PICK f \in Feat(p) :
        heartbeat' = [f EXCEPT !.listening = FALSE, !.pendingPub = FALSE, !.pendingFeat = FALSE]
  BY <1>1
<1>3. Good(p)
  <2>1. CASE p = h BY <2>1
  <2>2. CASE IsPublicationRunning(h) /\ p \in Sent(h, TRUE)
    BY <2>2, SendingHeartbeats DEF IsPublicationRunning
  <2> QED BY <1>1, <2>1, <2>2
<1>4. Good(f)
  <2>1. CASE f = p BY <1>3, <2>1
  <2>2. CASE f \in Sent(p, FALSE) BY <1>3, <2>2, SendingHeartbeats
  <2> QED BY <1>2, <2>1, <2>2
<1> DEFINE q == [f EXCEPT !.listening = FALSE, !.pendingPub = FALSE, !.pendingFeat = FALSE]
<1>5. q \in Heartbeats /\ q.pub.count = f.pub.count /\ q.asked = f.asked /\ q.sent = f.sent
  BY <1>4 DEF Good, Heartbeats
<1> QED BY <1>2, <1>4, <1>5, Otherwise

\* A client that sets the publication.
LEMMA PublicationSetKeeps ==
  ASSUME Good(heartbeat), NEW dst \in BOOLEAN, NEW features \in BOOLEAN, NEW log \in COUNT_LOGS,
         NEW period \in PERIOD_LOGS, PublicationSet(dst, log, period, features)
  PROVE  Good(heartbeat')
<1> DEFINE count == IF dst THEN CountDecode(log) ELSE 0
           time == IF dst THEN PeriodDecode(period) ELSE 0
           set == [dst |-> dst, count |-> count, period |-> time, features |-> features]
           c == Changed
           q == [c EXCEPT !.pub = set, !.asked = set.count, !.sent = 0, !.cut = FALSE]
<1>1. count \in Nat /\ time \in Nat
  BY CountTypes, HeartbeatAssumption DEF HeartbeatAssumption
<1>2. heartbeat' = StateUpdated(q) BY DEF PublicationSet
<1> HIDE DEF count, time
<1>3. c \in Heartbeats BY DEF Changed, Good, Heartbeats
<1> HIDE DEF c
<1>4. q \in Heartbeats /\ q.pub.count = count /\ q.asked = count /\ q.sent = 0
  BY <1>1, <1>3 DEF Heartbeats
<1> HIDE DEF q
<1>5. Good(q) BY <1>1, <1>4, CountTypes DEF Good, Counted
<1> QED BY <1>2, <1>5, Updating

\* The other messages of clients, and the changes of the node.
LEMMA ChangesKeep ==
  ASSUME Good(heartbeat),
         \/ \E on \in BOOLEAN, period \in PERIOD_LOGS : SubscriptionSet(on, period)
         \/ PublicationGet \/ SubscriptionGet \/ FeatureChangeTrigger \/ NetkeyChange
  PROVE  Good(heartbeat')
<1>1. Changed \in Heartbeats /\ Changed.pub = heartbeat.pub /\ Changed.asked = heartbeat.asked
      /\ Changed.sent = heartbeat.sent
  BY DEF Changed, Good, Heartbeats
<1>2. ASSUME NEW on \in BOOLEAN, NEW period \in PERIOD_LOGS, SubscriptionSet(on, period) PROVE Good(heartbeat')
  <2> DEFINE c == Changed
             a == [c EXCEPT !.sub.on = FALSE, !.sub.period = 0, !.subTimer = OFF]
             b == [c EXCEPT !.sub = [on |-> TRUE, count |-> 0, period |-> PeriodDecode(period)], !.subTimer = 1]
  <2>1. PeriodDecode(period) \in Nat BY CountTypes, HeartbeatAssumption DEF HeartbeatAssumption
  <2>2. heartbeat' \in {c, a, b} BY <1>2, Zenon DEF SubscriptionSet
  <2> HIDE DEF c
  <2>3. a \in Heartbeats /\ a.pub = c.pub /\ a.asked = c.asked /\ a.sent = c.sent BY <1>1 DEF Heartbeats, c
  <2>4. b \in Heartbeats /\ b.pub = c.pub /\ b.asked = c.asked /\ b.sent = c.sent BY <1>1, <2>1 DEF Heartbeats, c
  <2>5. c.pub = heartbeat.pub /\ c.asked = heartbeat.asked /\ c.sent = heartbeat.sent BY <1>1 DEF c
  <2>6. c \in Heartbeats BY <1>1 DEF c
  <2> HIDE DEF a, b
  <2> QED BY <2>2, <2>3, <2>4, <2>5, <2>6, Otherwise
<1>3. CASE PublicationGet \/ SubscriptionGet
  BY <1>3, Halting DEF PublicationGet, SubscriptionGet
<1>4. CASE NetkeyChange
  <2> DEFINE c == Changed
             q == [c EXCEPT !.key = ~@]
  <2>1. heartbeat' = q BY <1>4 DEF NetkeyChange
  <2> HIDE DEF c
  <2>2. q \in Heartbeats /\ q.pub = c.pub /\ q.asked = c.asked /\ q.sent = c.sent BY <1>1 DEF Heartbeats, c
  <2> HIDE DEF q
  <2> QED BY <1>1, <2>1, <2>2, Otherwise DEF c
<1>5. CASE FeatureChangeTrigger
  <2> DEFINE c == Changed
             l == HandlerAdd(c)
             q == [l EXCEPT !.pendingFeat = ~heartbeat.listening \/ @]
  <2>1. heartbeat' \in {q, c} BY <1>5 DEF FeatureChangeTrigger
  <2> HIDE DEF c
  <2>2. l \in Heartbeats /\ l.pub = c.pub /\ l.asked = c.asked /\ l.sent = c.sent
    BY <1>1 DEF Heartbeats, HandlerAdd, Halted, c
  <2> HIDE DEF l
  <2>3. (~heartbeat.listening \/ l.pendingFeat) \in BOOLEAN OBVIOUS
  <2>4. q \in Heartbeats /\ q.pub = c.pub /\ q.asked = c.asked /\ q.sent = c.sent
    BY <2>2, <2>3 DEF Heartbeats
  <2> HIDE DEF q
  <2> QED BY <1>1, <2>1, <2>4, Otherwise DEF c
<1> QED BY <1>2, <1>3, <1>4, <1>5

\* What the subscription counts, and time.
LEMMA OthersKeep ==
  ASSUME Good(heartbeat), SubscriptionTimerCb \/ OpcodeHandle \/ Tick
  PROVE  Good(heartbeat')
<1> DEFINE h == heartbeat
<1>1. h \in Heartbeats BY DEF Good
<1>2. CASE SubscriptionTimerCb
  <2> DEFINE n == IF h.sub.period < 1 THEN 0 ELSE h.sub.period - 1
             t == IF h.sub.period < 1 THEN OFF ELSE 1
             q == [h EXCEPT !.subTimer = t, !.sub.period = n]
  <2>1. n \in Nat /\ t \in Nat \cup {OFF} BY <1>1 DEF Heartbeats
  <2>2. heartbeat' = q BY <1>1, <1>2 DEF SubscriptionTimerCb, Heartbeats
  <2> HIDE DEF n, t
  <2>3. q \in Heartbeats /\ q.pub = h.pub /\ q.asked = h.asked /\ q.sent = h.sent
    BY <1>1, <2>1 DEF Heartbeats
  <2> HIDE DEF q
  <2> QED BY <2>2, <2>3, Otherwise
<1>3. CASE OpcodeHandle
  <2> DEFINE n == IF h.sub.count < MAX_COUNT THEN h.sub.count + 1 ELSE h.sub.count
             q == [h EXCEPT !.sub.count = n]
  <2>1. n \in Nat BY <1>1 DEF Heartbeats
  <2>2. heartbeat' = q BY <1>1, <1>3 DEF OpcodeHandle, Heartbeats
  <2> HIDE DEF n
  <2>3. q \in Heartbeats /\ q.pub = h.pub /\ q.asked = h.asked /\ q.sent = h.sent
    BY <1>1, <2>1 DEF Heartbeats
  <2> HIDE DEF q
  <2> QED BY <2>2, <2>3, Otherwise
<1>4. CASE Tick
  <2> DEFINE t == IF h.timer = OFF THEN OFF ELSE h.timer - 1
             s == IF h.subTimer = OFF THEN OFF ELSE h.subTimer - 1
             q == [h EXCEPT !.timer = t, !.subTimer = s]
  <2>1. h.timer # 0 /\ h.subTimer # 0 /\ heartbeat' = q BY <1>1, <1>4 DEF Tick, Heartbeats
  <2>2. t \in Nat \cup {OFF} /\ s \in Nat \cup {OFF} BY <1>1, <2>1 DEF Heartbeats, OFF
  <2> HIDE DEF t, s
  <2>3. q \in Heartbeats /\ q.pub = h.pub /\ q.asked = h.asked /\ q.sent = h.sent
    BY <1>1, <2>2 DEF Heartbeats
  <2> HIDE DEF q
  <2> QED BY <2>1, <2>3, Otherwise
<1> QED BY <1>2, <1>3, <1>4

(***************************************************************************)
(* Of a publication that was set with a count below 0xFFFF, what was sent  *)
(* of it and what is left make up the count (config_server.c,              *)
(* heartbeat_publication_count_decrement), whether the transport has       *)
(* memory or not, and whether it is the timer that sends or the end of a   *)
(* transmission.  The one finite count above, 0x10000, is not counted out: *)
(* after the first heartbeat the count is 0xFFFF, without end.             *)
(***************************************************************************)
THEOREM HeartbeatsCountedOut == HeartbeatSpec => []CountedOut
<1> DEFINE Inv == Good(heartbeat)
<1>1. HeartbeatInit => Inv
  BY CountTypes DEF HeartbeatInit, NoPublication, Good, Heartbeats, Counted
<1>2. Inv /\ [HeartbeatNext]_heartbeat => Inv'
  <2> SUFFICES ASSUME Inv, [HeartbeatNext]_heartbeat PROVE Inv' OBVIOUS
  <2>1. CASE UNCHANGED heartbeat BY <2>1
  <2>2. CASE HeartbeatNext
    BY <2>2, PublicationSetKeeps, ChangesKeep, PublicationTimerKeeps, CoreEvtKeeps, OthersKeep DEF HeartbeatNext
  <2> QED BY <2>1, <2>2
<1>3. Inv => CountedOut BY DEF Good, Counted, CountedOut
<1> QED BY <1>1, <1>2, <1>3, PTL DEF HeartbeatSpec

-----------------------------------------------------------------------------
(* The pool of acknowledged messages *)

\* The pool holds what it says, and no assertion has failed.
Tallied(r) == r \in Reliables /\ ~r.halted /\ r.active_count = Cardinality(InUse(r))

\* Between two calls the timer runs for a transfer, if there is one.
Watched(r) ==
  /\ Tallied(r)
  /\ r.timer.on <=> InUse(r) # {}
  /\ InUse(r) # {} => r.next_index \in InUse(r)

\* While the pool is gone through, up to i: the next transfer is one of those
\* visited, and known as soon as one of them is in use, but for a callback that
\* published while it was not.
Visiting(v, i) ==
  /\ Tallied(v.r) /\ v.r.timer.on /\ v.on \in BOOLEAN
  /\ v.on => /\ v.r.next_index = INVALID \/ (v.r.next_index \in InUse(v.r) /\ v.r.next_index <= i)
             /\ (\E j \in InUse(v.r) : j <= i) => v.r.next_index # INVALID \/ v.r.blind
  /\ ~v.on => v.r.next_index \in InUse(v.r)

\* What the loop leaves behind.
NextKnown(r) == r.next_index \in InUse(r) \/ (r.next_index = INVALID /\ r.blind)

\* An assertion failed after a callback that read behind the pool.
FailedBlind(r) == r.halted /\ r.blind

\* The contexts of the pool.
LEMMA PoolFields ==
  ASSUME NEW r \in Reliables
  PROVE  /\ InUse(r) \subseteq Index /\ IsFiniteSet(InUse(r)) /\ Cardinality(InUse(r)) \in Nat
         /\ Cardinality(InUse(r)) = 0 <=> InUse(r) = {}
         /\ INVALID \notin Index /\ Index \in SUBSET Nat /\ Index = 1..COUNT
         /\ \A i \in Index : r.pool[i] \in Transfers
<1>1. COUNT \in Nat BY ReliableAssumption DEF ReliableAssumption
<1>2. IsFiniteSet(Index) BY <1>1, FS_Interval DEF Index
<1>3. InUse(r) \subseteq Index BY DEF InUse
<1>4. IsFiniteSet(InUse(r)) BY <1>2, <1>3, FS_Subset
<1>5. Cardinality(InUse(r)) \in Nat /\ (Cardinality(InUse(r)) = 0 <=> InUse(r) = {})
  BY <1>4, FS_CardinalityType, FS_EmptySet
<1>6. INVALID \notin Index /\ Index \in SUBSET Nat BY <1>1 DEF Index, INVALID
<1> QED BY <1>3, <1>4, <1>5, <1>6 DEF Reliables, Index

\* A context that is given back.
LEMMA GivingBack ==
  ASSUME NEW r, Tallied(r), NEW i \in InUse(r)
  PROVE  LET s == [r EXCEPT !.pool[i] = FreeContext, !.active_count = @ - 1] IN
         /\ Tallied(s) /\ InUse(s) = InUse(r) \ {i} /\ i \notin InUse(s)
         /\ s.timer = r.timer /\ s.next_index = r.next_index /\ s.blind = r.blind
         /\ \A j \in Index : j # i => s.pool[j] = r.pool[j]
<1> DEFINE s == [r EXCEPT !.pool[i] = FreeContext, !.active_count = @ - 1]
<1>1. r \in Reliables /\ r.active_count = Cardinality(InUse(r)) /\ ~r.halted BY DEF Tallied
<1>2. i \in Index /\ IsFiniteSet(InUse(r)) /\ Cardinality(InUse(r)) \in Nat /\ Cardinality(InUse(r)) # 0
  BY <1>1, PoolFields
<1>3. FreeContext \in Transfers /\ ~FreeContext.in_use
  <2>1. MODELS # {} BY ReliableAssumption DEF ReliableAssumption
  <2>2. (CHOOSE m \in MODELS : TRUE) \in MODELS BY <2>1
  <2> QED BY <2>2 DEF FreeContext, Transfers
<1>4. /\ s.pool = [r.pool EXCEPT ![i] = FreeContext] /\ s.active_count = r.active_count - 1
      /\ s.timer = r.timer /\ s.next_index = r.next_index /\ s.halted = r.halted
      /\ s.blind = r.blind
      /\ s \in Reliables
  <2> HIDE DEF FreeContext
  <2>1. r.pool \in [Index -> Transfers] BY <1>1 DEF Reliables
  <2>2. [r.pool EXCEPT ![i] = FreeContext] \in [Index -> Transfers] BY <1>3, <2>1
  <2>3. r.active_count - 1 \in Nat BY <1>1, <1>2
  <2>4. s = [r EXCEPT !.pool = [r.pool EXCEPT ![i] = FreeContext], !.active_count = r.active_count - 1]
    BY <1>1 DEF Reliables
  <2> QED BY <1>1, <2>2, <2>3, <2>4 DEF Reliables
<1> HIDE DEF s
<1>5. \A j \in Index : s.pool[j] = IF j = i THEN FreeContext ELSE r.pool[j]
  BY <1>1, <1>2, <1>4 DEF Reliables
<1>6. InUse(s) = InUse(r) \ {i} BY <1>3, <1>5 DEF InUse
<1>7. Cardinality(InUse(s)) = Cardinality(InUse(r)) - 1 BY <1>2, <1>6, FS_RemoveElement
<1>8. Tallied(s) BY <1>1, <1>4, <1>7 DEF Tallied
<1> QED BY <1>4, <1>5, <1>6, <1>8 DEF s

\* A transfer that is started takes the first context that is free.
LEMMA Starting ==
  ASSUME NEW r, Tallied(r), NEW m \in MODELS, NEW t \in TIMEOUTS, CanTransfer(r, m),
         NEW e \in IsEarliest(r, INTERVAL)
  PROVE  LET s == Add(r, m, t, e)
             i == FirstFree(r)
         IN /\ i \in Index \ InUse(r) /\ \A j \in Index \ InUse(r) : i <= j
            /\ Tallied(s) /\ InUse(s) = InUse(r) \cup {i}
            /\ r.active_count = 0 => s.next_index = i
            /\ s.next_index = i \/ s.next_index = r.next_index
            /\ ReadsBehind(r) => s.blind
            /\ s.timer.on = TRUE \/ (s.timer = r.timer /\ r.active_count # 0)
<1> DEFINE s == Add(r, m, t, e)
           b == r.blind \/ ReadsBehind(r)
           i == FirstFree(r)
           c == [in_use |-> TRUE, model |-> m, timeout |-> t, next |-> INTERVAL, interval |-> INTERVAL]
           added == [r EXCEPT !.pool[i] = c, !.active_count = @ + 1,
                               !.blind = @ \/ ReadsBehind(r)]
<1>1. r \in Reliables /\ r.active_count = Cardinality(InUse(r)) /\ ~r.halted BY DEF Tallied
<1>2. /\ InUse(r) \subseteq Index /\ IsFiniteSet(InUse(r)) /\ Cardinality(InUse(r)) \in Nat
      /\ Index \in SUBSET Nat
  BY <1>1, PoolFields
<1>3. i \in Index \ InUse(r) /\ \A j \in Index \ InUse(r) : i <= j
  <2>1. Index \ InUse(r) # {} /\ Index \ InUse(r) \in SUBSET Nat BY <1>2 DEF CanTransfer
  <2>2. \E x \in Index \ InUse(r) : \A j \in Index \ InUse(r) : x <= j BY <2>1, LeastNumber
  <2> QED BY <2>2 DEF FirstFree
<1> HIDE DEF i
<1>0. b \in BOOLEAN /\ e \in BOOLEAN /\ (r.active_count = 0 => e)
  <2>1. b \in BOOLEAN OBVIOUS
  <2>2. r.active_count = 0 => ~ReadsBehind(r) BY <1>1 DEF ReadsBehind
  <2>3. e \in BOOLEAN BY Zenon DEF IsEarliest
  <2>4. ~ReadsBehind(r) => (e <=> r.active_count = 0 \/ r.pool[r.next_index].next >= INTERVAL)
    BY Zenon DEF IsEarliest
  <2> QED BY <2>1, <2>2, <2>3, <2>4
<1>4. c \in Transfers /\ c.in_use /\ INTERVAL \in Nat
  BY ReliableAssumption DEF ReliableAssumption, Transfers
<1> HIDE DEF c
<1>5. /\ added.pool = [r.pool EXCEPT ![i] = c] /\ added.active_count = r.active_count + 1
      /\ added.timer = r.timer /\ added.next_index = r.next_index /\ added.halted = r.halted
      /\ added.blind = b
      /\ added \in Reliables
  <2>1. r.pool \in [Index -> Transfers] BY <1>1 DEF Reliables
  <2>2. [r.pool EXCEPT ![i] = c] \in [Index -> Transfers] BY <1>3, <1>4, <2>1
  <2>3. r.active_count + 1 \in Nat BY <1>1, <1>2
  <2>4. added = [r EXCEPT !.pool = [r.pool EXCEPT ![i] = c], !.active_count = r.active_count + 1, !.blind = b]
    BY <1>1 DEF Reliables
  <2> HIDE DEF b
  <2> QED BY <1>0, <1>1, <2>2, <2>3, <2>4 DEF Reliables
<1>6. s = IF e
          THEN [added EXCEPT !.next_index = i, !.timer = [on |-> TRUE, due |-> INTERVAL]] ELSE added
  BY DEF Add, i, c
<1> HIDE DEF added, s
<1>7. /\ s \in Reliables /\ s.pool = added.pool /\ s.active_count = r.active_count + 1 /\ ~s.halted
      /\ s.blind = added.blind
      /\ e => s.next_index = i /\ s.timer.on = TRUE
      /\ ~e => s.next_index = r.next_index /\ s.timer = r.timer
  <2> DEFINE timer == [on |-> TRUE, due |-> INTERVAL]
  <2>1. timer \in [on : BOOLEAN, due : Int] /\ timer.on = TRUE BY <1>4
  <2>2. s = IF e THEN [added EXCEPT !.next_index = i, !.timer = timer] ELSE added
    BY <1>6
  <2> HIDE DEF timer
  <2>3. CASE e
    <3>1. s = [added EXCEPT !.next_index = i, !.timer = timer] BY <2>2, <2>3
    <3> QED BY <1>1, <1>3, <1>5, <2>1, <2>3, <3>1 DEF Reliables
  <2>4. CASE ~e BY <1>1, <1>5, <2>2, <2>4
  <2> QED BY <2>3, <2>4
<1>8. \A j \in Index : s.pool[j] = IF j = i THEN c ELSE r.pool[j]
  BY <1>1, <1>3, <1>5, <1>7 DEF Reliables
<1>9. InUse(s) = InUse(r) \cup {i} BY <1>3, <1>4, <1>8 DEF InUse
<1>10. Cardinality(InUse(s)) = Cardinality(InUse(r)) + 1
  <2> DEFINE U == InUse(r)
  <2>1. IsFiniteSet(U) /\ i \notin U BY <1>2, <1>3
  <2>2. InUse(s) = U \cup {i} BY <1>9
  <2> HIDE DEF U
  <2>3. Cardinality(U \cup {i}) = Cardinality(U) + 1 BY <2>1, FS_AddElement
  <2>4. Cardinality(InUse(s)) = Cardinality(U) + 1 BY <2>2, <2>3
  <2> QED BY <2>4 DEF U
<1>11. Tallied(s) BY <1>1, <1>7, <1>10 DEF Tallied
<1>12. ReadsBehind(r) => s.blind BY <1>5, <1>7
<1> QED BY <1>0, <1>3, <1>7, <1>9, <1>11, <1>12 DEF s, i

\* There is an earliest transfer among those in use.
LEMMA NextExists ==
  ASSUME NEW r \in Reliables, InUse(r) # {}
  PROVE  NextIndex(r) \in InUse(r)
<1> DEFINE U(k) == {i \in InUse(r) : i <= k}
           IsNext(i, S) == /\ \A j \in S : r.pool[i].next <= r.pool[j].next
                           /\ \A j \in S : j < i => r.pool[i].next < r.pool[j].next
           Has(k) == U(k) = {} \/ \E i \in U(k) : IsNext(i, U(k))
           T == {k \in Nat : ~Has(k)}
<1>1. /\ COUNT \in Nat /\ InUse(r) \subseteq 1..COUNT
      /\ \A i \in InUse(r) : i \in Nat /\ i # 0 /\ r.pool[i].next \in Int
  BY PoolFields, ReliableAssumption DEF ReliableAssumption, Transfers
<1>2. ASSUME NEW k \in Nat, k # 0, Has(k - 1) PROVE Has(k)
  <2>1. CASE k \notin InUse(r)
    <3>1. U(k) = U(k - 1) BY <1>1, <1>2, <2>1
    <3> QED BY <1>2, <3>1
  <2>2. CASE k \in InUse(r) /\ U(k - 1) = {}
    <3>1. U(k) = {k} BY <1>1, <1>2, <2>2
    <3> QED BY <1>1, <2>2, <3>1
  <2>3. CASE k \in InUse(r) /\ U(k - 1) # {}
    <3>1. PICK i \in U(k - 1) : IsNext(i, U(k - 1)) BY <1>2, <2>3
    <3>2. \A j \in U(k) : j = k \/ j \in U(k - 1) BY <1>1, <1>2
    <3>3. i \in U(k) /\ k \in U(k) /\ i < k BY <1>1, <1>2, <2>3
    <3>4. CASE r.pool[i].next <= r.pool[k].next
      <4>1. IsNext(i, U(k)) BY <1>1, <3>1, <3>2, <3>3, <3>4
      <4> QED BY <3>3, <4>1
    <3>5. CASE ~(r.pool[i].next <= r.pool[k].next)
      <4>1. IsNext(k, U(k)) BY <1>1, <3>1, <3>2, <3>3, <3>5
      <4> QED BY <3>3, <4>1
    <3> QED BY <3>4, <3>5
  <2> QED BY <2>1, <2>2, <2>3
<1>3. Has(0) BY <1>1
<1>4. ASSUME T # {} PROVE FALSE
  <2> HIDE DEF Has
  <2>1. PICK k \in T : \A j \in T : k <= j BY <1>4, LeastNumber
  <2>2. k \in Nat /\ k # 0 /\ k - 1 \in Nat /\ ~(k <= k - 1) BY <1>3, <2>1
  <2>3. Has(k - 1) BY <2>1, <2>2
  <2> QED BY <1>2, <2>1, <2>2, <2>3
<1>5. Has(COUNT) BY <1>1, <1>4
<1>6. U(COUNT) = InUse(r) BY <1>1
<1>7. \E i \in InUse(r) : IsNext(i, InUse(r)) BY <1>5, <1>6
<1> QED BY <1>7 DEF NextIndex

\* RemoveAndReschedule leaves the timer with another transfer, or off.
LEMMA Removing ==
  ASSUME NEW r, Watched(r), NEW i \in InUse(r)
  PROVE  Watched(RemoveAndReschedule(r, i))
<1> DEFINE s == [r EXCEPT !.pool[i] = FreeContext, !.active_count = @ - 1]
           n == NextIndex(s)
<1>1. /\ Tallied(s) /\ InUse(s) = InUse(r) \ {i}
      /\ s.timer = r.timer /\ s.next_index = r.next_index
  <2>1. Tallied(r) BY DEF Watched
  <2> QED BY <2>1, GivingBack
<1>2. RemoveAndReschedule(r, i) =
        CASE s.active_count = 0 -> [s EXCEPT !.timer = Stopped]
          [] s.active_count > 0 /\ r.next_index = i ->
               [s EXCEPT !.next_index = n, !.timer = [on |-> TRUE, due |-> s.pool[n].next]]
          [] OTHER -> s
  BY DEF RemoveAndReschedule
<1> HIDE DEF s, n
<1>3. s \in Reliables /\ s.active_count = Cardinality(InUse(s)) /\ ~s.halted BY <1>1 DEF Tallied
<1>4. s.active_count \in Nat /\ (s.active_count = 0 <=> InUse(s) = {}) /\ InUse(s) \subseteq Index
  BY <1>3, PoolFields
<1>5. CASE s.active_count = 0
  <2> DEFINE c == [s EXCEPT !.timer = Stopped]
  <2>1. RemoveAndReschedule(r, i) = c BY <1>2, <1>5
  <2>2. c \in Reliables /\ c.pool = s.pool /\ ~c.halted /\ c.active_count = s.active_count /\ c.timer.on = FALSE
    <3>1. Stopped \in [on : BOOLEAN, due : Int] /\ Stopped.on = FALSE BY DEF Stopped
    <3> QED BY <1>3, <3>1 DEF Reliables
  <2> HIDE DEF c
  <2>3. InUse(c) = InUse(s) BY <2>2 DEF InUse
  <2>4. Watched(c) BY <1>3, <1>4, <1>5, <2>2, <2>3 DEF Watched, Tallied
  <2> QED BY <2>1, <2>4
<1>6. CASE s.active_count # 0 /\ r.next_index = i
  <2> DEFINE due == s.pool[n].next
             c == [s EXCEPT !.next_index = n, !.timer = [on |-> TRUE, due |-> due]]
  <2>1. RemoveAndReschedule(r, i) = c BY <1>2, <1>4, <1>6
  <2>2. n \in InUse(s) BY <1>3, <1>4, <1>6, NextExists DEF n
  <2>3. due \in Int BY <1>3, <1>4, <2>2, PoolFields DEF Transfers
  <2> HIDE DEF due
  <2>4. c \in Reliables /\ c.pool = s.pool /\ ~c.halted /\ c.active_count = s.active_count
        /\ c.timer.on = TRUE /\ c.next_index = n
    BY <1>3, <1>4, <2>2, <2>3 DEF Reliables
  <2> HIDE DEF c
  <2>5. InUse(c) = InUse(s) BY <2>4 DEF InUse
  <2>6. Watched(c) BY <1>3, <1>4, <1>6, <2>2, <2>4, <2>5 DEF Watched, Tallied
  <2> QED BY <2>1, <2>6
<1>7. CASE s.active_count # 0 /\ r.next_index # i
  <2>1. RemoveAndReschedule(r, i) = s BY <1>2, <1>4, <1>7
  <2>2. Watched(s) BY <1>1, <1>4, <1>7 DEF Watched
  <2> QED BY <2>1, <2>2
<1> QED BY <1>5, <1>6, <1>7

\* The pool s is r with a transfer that has started in the context i.
HasStarted(s, r, i) ==
  /\ i \in Index \ InUse(r) /\ \A j \in Index \ InUse(r) : i <= j
  /\ Tallied(s) /\ InUse(s) = InUse(r) \cup {i}
  /\ r.active_count = 0 => s.next_index = i
  /\ s.next_index = i \/ s.next_index = r.next_index
  /\ ReadsBehind(r) => s.blind
  /\ s.timer.on = TRUE \/ (s.timer = r.timer /\ r.active_count # 0)

\* So for either outcome of is_earliest_timeout.
LEMMA StartingEither ==
  ASSUME NEW r, Tallied(r), NEW m \in MODELS, NEW t \in TIMEOUTS, CanTransfer(r, m), NEW s \in Additions(r, m, t)
  PROVE  HasStarted(s, r, FirstFree(r))
<1>1. PICK e \in IsEarliest(r, INTERVAL) : s = Add(r, m, t, e) BY DEF Additions
<1> DEFINE u == Add(r, m, t, e)
           i == FirstFree(r)
<1>2. /\ i \in Index \ InUse(r) /\ \A j \in Index \ InUse(r) : i <= j
      /\ Tallied(u) /\ InUse(u) = InUse(r) \cup {i}
      /\ r.active_count = 0 => u.next_index = i
      /\ u.next_index = i \/ u.next_index = r.next_index
      /\ ReadsBehind(r) => u.blind
      /\ u.timer.on = TRUE \/ (u.timer = r.timer /\ r.active_count # 0)
  BY Starting, Zenon
<1>3. s = u BY <1>1
<1> HIDE DEF u, i
<1>4. HasStarted(s, r, i) BY <1>2, <1>3, Zenon DEF HasStarted
<1> QED BY <1>4 DEF i

\* What the status callback of a transfer that ended does.
LEMMA CallingBack ==
  ASSUME NEW r, Tallied(r), NEW m \in MODELS, NEW s \in StatusCallback(r, m)
  PROVE  \/ s = r
         \/ \E i \in Index \ InUse(r) :
              /\ \A j \in Index \ InUse(r) : i <= j
              /\ Tallied(s) /\ InUse(s) = InUse(r) \cup {i}
              /\ r.active_count = 0 => s.next_index = i
              /\ s.next_index = i \/ s.next_index = r.next_index
              /\ ReadsBehind(r) => s.blind
              /\ s.timer.on = TRUE \/ (s.timer = r.timer /\ r.active_count # 0)
<1>1. CASE s = r BY <1>1
<1>2. CASE s # r
  <2>1. CanTransfer(r, m) /\ \E t \in TIMEOUTS : s \in Additions(r, m, t) BY <1>2 DEF StatusCallback
  <2>2. PICK t \in TIMEOUTS : s \in Additions(r, m, t) BY <2>1
  <2>3. HasStarted(s, r, FirstFree(r)) BY <2>1, <2>2, StartingEither
  <2> QED BY <2>3 DEF HasStarted
<1> QED BY <1>1, <1>2

\* A visit that ends a transfer, and calls its user, who may start another.
LEMMA EndingVisited ==
  ASSUME NEW r, NEW i \in InUse(r), Visiting([r |-> r, on |-> TRUE], i - 1), NEW s \in Ended(r, i)
  PROVE  Visiting([r |-> s, on |-> TRUE], i)
<1> DEFINE q == [r EXCEPT !.pool[i] = FreeContext, !.active_count = @ - 1]
           m == r.pool[i].model
<1>1. /\ Tallied(r) /\ r.timer.on
      /\ r.next_index = INVALID \/ (r.next_index \in InUse(r) /\ r.next_index <= i - 1)
      /\ (\E j \in InUse(r) : j <= i - 1) => r.next_index # INVALID \/ r.blind
  BY DEF Visiting
<1>2. /\ i \in Index /\ m \in MODELS /\ Index \in SUBSET Nat /\ INVALID \notin Index
      /\ InUse(r) \subseteq Index
  BY <1>1, PoolFields DEF Tallied, Transfers
<1>3. /\ Tallied(q) /\ InUse(q) = InUse(r) \ {i} /\ q.timer = r.timer /\ q.next_index = r.next_index
      /\ q.blind = r.blind
  <2>1. Tallied(r) BY <1>1
  <2> HIDE DEF m
  <2> QED BY <2>1, GivingBack
<1>4. s \in StatusCallback(q, m) BY DEF Ended
<1> HIDE DEF q, m
<1>5. q.next_index = INVALID \/ (q.next_index \in InUse(q) /\ q.next_index <= i)
  <2>1. CASE r.next_index = INVALID BY <1>3, <2>1
  <2>2. CASE r.next_index \in InUse(r) /\ r.next_index <= i - 1
    <3>1. r.next_index \in Nat /\ i \in Nat BY <1>2, <2>2
    <3>2. r.next_index <= i /\ r.next_index # i BY <2>2, <3>1
    <3> QED BY <1>3, <2>2, <3>2
  <2> QED BY <1>1, <2>1, <2>2
<1>6. (\E j \in InUse(q) : j <= i) => q.next_index # INVALID \/ q.blind BY <1>1, <1>2, <1>3
<1>7. q \in Reliables /\ q.active_count = Cardinality(InUse(q)) BY <1>3 DEF Tallied
<1>8. q.active_count = 0 <=> InUse(q) = {} BY <1>7, PoolFields
<1>9. CASE s = q BY <1>1, <1>3, <1>5, <1>6, <1>9 DEF Visiting
<1>10. CASE s # q
  <2>1. PICK k \in Index \ InUse(q) :
          /\ \A j \in Index \ InUse(q) : k <= j
          /\ Tallied(s) /\ InUse(s) = InUse(q) \cup {k}
          /\ q.active_count = 0 => s.next_index = k
          /\ s.next_index = k \/ s.next_index = q.next_index
          /\ ReadsBehind(q) => s.blind
          /\ s.timer.on = TRUE \/ (s.timer = q.timer /\ q.active_count # 0)
    BY <1>2, <1>3, <1>4, <1>10, CallingBack
  <2>2. k <= i BY <1>2, <1>3, <2>1
  <2>3. s.timer.on BY <1>1, <1>3, <2>1
  <2>4. s.next_index = INVALID \/ (s.next_index \in InUse(s) /\ s.next_index <= i)
    BY <1>2, <1>3, <1>5, <2>1, <2>2
  <2>5. s.next_index # INVALID \/ s.blind
    <3>1. CASE s.next_index = k BY <1>2, <2>1, <3>1
    <3>2. CASE s.next_index # k
      <4>1. s.next_index = q.next_index /\ q.active_count # 0 BY <2>1, <3>2
      <4>2. q.active_count > 0 BY <1>7, <4>1, PoolFields
      <4> QED BY <2>1, <4>1, <4>2 DEF ReadsBehind
    <3> QED BY <3>1, <3>2
  <2> QED BY <2>1, <2>3, <2>4, <2>5 DEF Visiting
<1> QED BY <1>9, <1>10

\* The pool s is r with the context i changed to c, and i the next one.
IsNextIn(s, r, i, c) == s = [r EXCEPT !.next_index = i, !.pool[i] = c]

\* A transfer that goes on, with its times changed, is the next one.
LEMMA GoingOn ==
  ASSUME NEW r, Tallied(r), NEW i \in InUse(r), NEW c \in Transfers, c.in_use, NEW s, IsNextIn(s, r, i, c)
  PROVE  Tallied(s) /\ InUse(s) = InUse(r) /\ s.next_index = i /\ s.timer = r.timer
<1>0. s = [r EXCEPT !.next_index = i, !.pool[i] = c] BY DEF IsNextIn
<1>1. r \in Reliables /\ r.active_count = Cardinality(InUse(r)) /\ ~r.halted BY DEF Tallied
<1>2. i \in Index BY <1>1, PoolFields
<1>3. r.pool \in [Index -> Transfers] BY <1>1 DEF Reliables
<1>4. s.pool = [r.pool EXCEPT ![i] = c] BY <1>0, <1>1 DEF Reliables
<1>5. s.pool \in [Index -> Transfers] BY <1>3, <1>4
<1>6. s = [r EXCEPT !.next_index = i, !.pool = s.pool] BY <1>0, <1>1, <1>4 DEF Reliables
<1>7. /\ s \in Reliables /\ s.next_index = i /\ s.timer = r.timer /\ s.active_count = r.active_count
      /\ ~s.halted
  BY <1>1, <1>2, <1>5, <1>6 DEF Reliables
<1>8. \A j \in Index : s.pool[j] = IF j = i THEN c ELSE r.pool[j] BY <1>2, <1>3, <1>4
<1>9. InUse(s) = InUse(r) BY <1>8 DEF InUse
<1> QED BY <1>1, <1>7, <1>9 DEF Tallied

\* A publication that is due, with memory for it or without.
LEMMA Publishing ==
  ASSUME NEW r, Tallied(r), NEW i \in InUse(r), NEW s \in {Published(r, i), NoMemory(r, i)}
  PROVE  Tallied(s) /\ InUse(s) = InUse(r) /\ s.next_index = i /\ s.timer = r.timer
<1>1. r \in Reliables BY DEF Tallied
<1>2. i \in Index /\ r.pool[i] \in Transfers /\ r.pool[i].in_use BY <1>1, PoolFields DEF InUse
<1>3. /\ r.pool[i].next \in Int /\ r.pool[i].interval \in Int /\ r.pool[i].timeout \in Int
      /\ RETRY_DELAY \in Int /\ BACK_OFF_FACTOR \in Int
  BY <1>2, ReliableAssumption DEF ReliableAssumption, Transfers, BACK_OFF_FACTOR
<1>4. CASE s = Published(r, i)
  <2> DEFINE next == Sooner(r.pool[i].next + r.pool[i].interval, r.pool[i].timeout)
             interval == r.pool[i].interval * BACK_OFF_FACTOR
             c == [r.pool[i] EXCEPT !.next = next, !.interval = interval]
  <2>1. next \in Int /\ interval \in Int BY <1>3 DEF Sooner, BACK_OFF_FACTOR
  <2>2. s = [r EXCEPT !.next_index = i, !.pool[i].next = next, !.pool[i].interval = interval]
    BY <1>4 DEF Published
  <2> HIDE DEF next, interval
  <2>3. c \in Transfers /\ c.in_use BY <1>2, <2>1 DEF Transfers
  <2>4. IsNextIn(s, r, i, c) BY <1>1, <1>2, <2>2 DEF Reliables, Transfers, IsNextIn
  <2> HIDE DEF c
  <2> QED BY <2>3, <2>4, GoingOn
<1>5. CASE s = NoMemory(r, i)
  <2> DEFINE next == r.pool[i].next + RETRY_DELAY
             c == [r.pool[i] EXCEPT !.next = next]
  <2>1. next \in Int BY <1>3
  <2>2. s = [r EXCEPT !.next_index = i, !.pool[i].next = next] BY <1>5 DEF NoMemory
  <2> HIDE DEF next
  <2>3. c \in Transfers /\ c.in_use BY <1>2, <2>1 DEF Transfers
  <2>4. IsNextIn(s, r, i, c) BY <1>1, <1>2, <2>2 DEF Reliables, Transfers, IsNextIn
  <2> HIDE DEF c
  <2> QED BY <2>3, <2>4, GoingOn
<1> QED BY <1>4, <1>5

\* Each visit keeps it, for one place more.
LEMMA VisitOne ==
  ASSUME NEW i \in Index, NEW v, v = [r |-> v.r, on |-> v.on], Visiting(v, i - 1), NEW w \in Visited(v, i)
  PROVE  w = [r |-> w.r, on |-> w.on] /\ Visiting(w, i)
<1> DEFINE r == v.r
           c == r.pool[i]
<1>1. Tallied(r) /\ r.timer.on /\ v.on \in BOOLEAN BY DEF Visiting
<1>2. /\ InUse(r) \subseteq Index /\ Index \in SUBSET Nat /\ INVALID \notin Index
      /\ c \in Transfers /\ i \in Nat /\ (c.in_use <=> i \in InUse(r)) /\ c.in_use \in BOOLEAN
  BY <1>1, PoolFields DEF Tallied, InUse, Transfers
<1>3. CASE ~v.on
  <2>1. w = v BY <1>3 DEF Visited
  <2> QED BY <1>3, <2>1 DEF Visiting
<1>4. CASE v.on
  <2>1. v = [r |-> r, on |-> TRUE] BY <1>1, <1>4
  <2>2. /\ r.next_index = INVALID \/ (r.next_index \in InUse(r) /\ r.next_index <= i - 1)
        /\ (\E j \in InUse(r) : j <= i - 1) => r.next_index # INVALID \/ r.blind
    BY <1>4 DEF Visiting
  <2>3. CASE ~c.in_use
    <3>1. w = v BY <2>3 DEF Visited
    <3>2. i \notin InUse(r) BY <1>2, <2>3
    <3>3. r.next_index = INVALID \/ (r.next_index \in InUse(r) /\ r.next_index <= i)
      <4>1. r.next_index \in InUse(r) => r.next_index \in Nat BY <1>2
      <4> QED BY <1>2, <2>2, <4>1
    <3>4. (\E j \in InUse(r) : j <= i) => r.next_index # INVALID \/ r.blind
      <4>1. \A j \in InUse(r) : j \in Nat /\ j # i BY <1>2, <3>2
      <4>2. \A j \in InUse(r) : j <= i => j <= i - 1 BY <1>2, <4>1
      <4> QED BY <2>2, <4>2
    <3> HIDE DEF c
    <3> QED BY <1>1, <1>4, <3>1, <3>3, <3>4 DEF Visiting
  <2>4. CASE c.in_use /\ TimeOver(c.timeout)
    <3>1. PICK s \in Ended(r, i) : w = [r |-> s, on |-> TRUE] BY <1>4, <2>4 DEF Visited
    <3>2. Visiting(w, i) BY <1>2, <2>1, <2>4, <3>1, EndingVisited
    <3> QED BY <3>1, <3>2
  <2>5. CASE c.in_use /\ ~TimeOver(c.timeout) /\ TimeOver(c.next)
    <3>1. PICK s \in {Published(r, i), NoMemory(r, i)}, on \in BOOLEAN : w = [r |-> s, on |-> on]
      BY <1>4, <2>5 DEF Visited
    <3>2. Tallied(s) /\ InUse(s) = InUse(r) /\ s.next_index = i /\ s.timer = r.timer
      BY <1>1, <1>2, <2>5, Publishing
    <3>3. i \in InUse(s) /\ i # INVALID /\ i <= i BY <1>2, <2>5, <3>2
    <3>4. w.r = s /\ w.on = on BY <3>1
    <3>5. Visiting(w, i) BY <1>1, <3>2, <3>3, <3>4 DEF Visiting
    <3> QED BY <3>1, <3>5
  <2>6. CASE c.in_use /\ ~TimeOver(c.timeout) /\ ~TimeOver(c.next)
    <3>1. w = [r |-> Tracked(r, i), on |-> TRUE] BY <1>4, <2>6 DEF Visited
    <3>2. w.r = Tracked(r, i) /\ w.on = TRUE BY <3>1
    <3>3. CASE Tracked(r, i) = r
      <4>1. r.next_index # INVALID
        <5>1. CASE r.next_index # INVALID BY <5>1
        <5>2. CASE r.next_index = INVALID
          <6>1. Tracked(r, i) = [r EXCEPT !.next_index = i] BY <5>2 DEF Tracked
          <6>2. Tracked(r, i).next_index = i BY <1>1, <6>1 DEF Tallied, Reliables
          <6> QED BY <1>2, <3>3, <6>2
        <5> QED BY <5>1, <5>2
      <4> QED BY <1>1, <1>2, <2>2, <3>1, <3>2, <3>3, <4>1 DEF Visiting
    <3>4. CASE Tracked(r, i) # r
      <4>1. Tracked(r, i) = [r EXCEPT !.next_index = i] BY <3>4 DEF Tracked
      <4> DEFINE s == [r EXCEPT !.next_index = i]
      <4>2. s \in Reliables /\ s.next_index = i /\ s.pool = r.pool /\ s.timer = r.timer
            /\ s.active_count = r.active_count /\ s.halted = r.halted
        BY <1>1, <1>2 DEF Tallied, Reliables
      <4> HIDE DEF s
      <4>3. InUse(s) = InUse(r) BY <4>2 DEF InUse
      <4>4. Tallied(s) BY <1>1, <4>2, <4>3 DEF Tallied
      <4>5. w.r = s BY <3>2, <4>1 DEF s
      <4>6. i \in InUse(s) /\ i # INVALID /\ i <= i BY <1>2, <2>6, <4>3
      <4>7. Visiting(w, i) BY <1>1, <3>2, <4>2, <4>4, <4>5, <4>6 DEF Visiting
      <4> QED BY <3>1, <3>2, <4>7
    <3> QED BY <3>3, <3>4
  <2> QED BY <2>3, <2>4, <2>5, <2>6
<1> QED BY <1>1, <1>3, <1>4

\* A run of the loop over the first m places of the pool.
IsVisitOf(f, m, b) == f = [n \in 0..m |-> IF n = 0 THEN b ELSE VisitedIn(f[n - 1], n)]

\* The loop over the pool has a run of any length.
LEMMA VisitsExist ==
  ASSUME NEW b, NEW m \in Nat
  PROVE  \E f : IsVisitOf(f, m, b)
<1> DEFINE Runs(k) == \E f : IsVisitOf(f, k, b)
           T == {k \in Nat : ~Runs(k)}
<1>1. ASSUME T # {} PROVE FALSE
  <2>1. PICK k \in T : \A j \in T : k <= j
    <3> HIDE DEF Runs
    <3> QED BY <1>1, LeastNumber
  <2>2. CASE k = 0
    <3> DEFINE f == [n \in 0..k |-> b]
    <3>1. f = [n \in 0..k |-> IF n = 0 THEN b ELSE VisitedIn(f[n - 1], n)] BY <2>2
    <3>2. Runs(k) BY <3>1 DEF IsVisitOf
    <3> QED BY <3>2
  <2>3. CASE k # 0
    <3>1. k \in Nat /\ k - 1 \in Nat /\ k - 1 < k BY <2>3
    <3>2. Runs(k - 1)
      <4> HIDE DEF Runs
      <4>1. k - 1 \notin T BY <2>1, <3>1
      <4> QED BY <3>1, <4>1
    <3>3. PICK g : g = [n \in 0..(k - 1) |-> IF n = 0 THEN b ELSE VisitedIn(g[n - 1], n)]
      BY <3>2 DEF IsVisitOf
    <3> DEFINE f == [n \in 0..k |-> IF n = k THEN VisitedIn(g[k - 1], k) ELSE g[n]]
    <3>4. f = [n \in 0..k |-> IF n = 0 THEN b ELSE VisitedIn(f[n - 1], n)]
      <4>1. ASSUME NEW n \in 0..k PROVE f[n] = IF n = 0 THEN b ELSE VisitedIn(f[n - 1], n)
        <5>1. CASE n = k
          <6>1. n # 0 /\ n - 1 \in 0..k /\ n - 1 # k BY <2>3, <3>1, <5>1
          <6>2. f[n - 1] = g[k - 1] BY <5>1, <6>1
          <6> QED BY <5>1, <6>1, <6>2
        <5>2. CASE n # k /\ n = 0
          <6>1. n \in 0..(k - 1) BY <3>1, <5>2
          <6>2. g[n] = b BY <3>3, <5>2, <6>1
          <6> QED BY <5>2, <6>2
        <5>3. CASE n # k /\ n # 0
          <6>1. n \in 0..(k - 1) /\ n - 1 \in 0..k /\ n - 1 # k BY <3>1, <5>3
          <6>2. g[n] = VisitedIn(g[n - 1], n) BY <3>3, <5>3, <6>1
          <6>3. f[n - 1] = g[n - 1] BY <6>1
          <6> QED BY <5>3, <6>2, <6>3
        <5> QED BY <5>1, <5>2, <5>3
      <4> QED BY <4>1
    <3>5. Runs(k) BY <3>4 DEF IsVisitOf
    <3> QED BY <3>5
  <2> QED BY <2>2, <2>3
<1>2. Runs(m)
  <2> HIDE DEF Runs
  <2> QED BY <1>1
<1> QED BY <1>2

\* PoolVisited is the end of such a run.
LEMMA PoolRun ==
  ASSUME NEW r
  PROVE  \E f : /\ f = [n \in 0..COUNT |-> IF n = 0 THEN {Unvisited(r)} ELSE VisitedIn(f[n - 1], n)]
                /\ PoolVisited(r) = {v.r : v \in f[COUNT]}
<1> DEFINE Run(f) == f = [n \in 0..COUNT |-> IF n = 0 THEN {Unvisited(r)} ELSE VisitedIn(f[n - 1], n)]
           c == CHOOSE f : Run(f)
<1>1. \E f : Run(f)
  <2>1. COUNT \in Nat BY ReliableAssumption DEF ReliableAssumption
  <2>2. \E f : IsVisitOf(f, COUNT, {Unvisited(r)}) BY <2>1, VisitsExist
  <2> QED BY <2>2 DEF IsVisitOf
<1>2. PoolVisited(r) = {v.r : v \in c[COUNT]} BY DEF PoolVisited
<1>3. Run(c)
  <2> HIDE DEF Run
  <2> QED BY <1>1
<1> QED BY <1>2, <1>3

\* After the loop a transfer that is in use is the next one, or a callback read
\* behind the pool.
LEMMA PoolKeeps ==
  ASSUME NEW r, Watched(r), r.timer.on, NEW s \in PoolVisited(r)
  PROVE  Tallied(s) /\ s.timer.on /\ (InUse(s) # {} => NextKnown(s))
<1> DEFINE Fine(v, i) == v = [r |-> v.r, on |-> v.on] /\ Visiting(v, i)
<1>1. PICK f : /\ f = [n \in 0..COUNT |-> IF n = 0 THEN {Unvisited(r)} ELSE VisitedIn(f[n - 1], n)]
               /\ PoolVisited(r) = {v.r : v \in f[COUNT]}
  BY PoolRun
<1>2. COUNT \in Nat /\ Index = 1..COUNT BY ReliableAssumption DEF ReliableAssumption, Index
<1>3. \A v \in f[0] : Fine(v, 0)
  <2> DEFINE q == [r EXCEPT !.next_index = INVALID, !.blind = FALSE]
  <2>1. f[0] = {Unvisited(r)} BY <1>1, <1>2
  <2>2. Tallied(r) BY DEF Watched
  <2>3. q \in Reliables /\ q.next_index = INVALID /\ q.pool = r.pool /\ q.timer = r.timer
        /\ q.active_count = r.active_count /\ q.halted = r.halted
    BY <2>2 DEF Tallied, Reliables
  <2>4. Unvisited(r) = [r |-> q, on |-> TRUE] BY DEF Unvisited
  <2> HIDE DEF q
  <2>5. InUse(q) = InUse(r) BY <2>3 DEF InUse
  <2>6. Tallied(q) BY <2>2, <2>3, <2>5 DEF Tallied
  <2>7. \A j \in InUse(q) : ~(j <= 0) BY <1>2, <2>3, PoolFields
  <2>8. Visiting([r |-> q, on |-> TRUE], 0) BY <2>3, <2>6, <2>7 DEF Visiting
  <2> QED BY <2>1, <2>4, <2>8
<1>4. ASSUME NEW n \in Nat, n # 0, n <= COUNT, \A v \in f[n - 1] : Fine(v, n - 1)
      PROVE  \A w \in f[n] : Fine(w, n)
  <2>1. n \in 0..COUNT /\ n \in Index BY <1>2, <1>4
  <2>2. f[n] = VisitedIn(f[n - 1], n) BY <1>1, <1>4, <2>1
  <2> SUFFICES ASSUME NEW w \in f[n] PROVE Fine(w, n) OBVIOUS
  <2>3. PICK v \in f[n - 1] : w \in Visited(v, n) BY <2>2 DEF VisitedIn
  <2>4. Fine(v, n - 1) BY <1>4, <2>3
  <2> QED BY <2>1, <2>3, <2>4, VisitOne
<1> DEFINE All(n) == \A v \in f[n] : Fine(v, n)
           T == {n \in Nat : n <= COUNT /\ ~All(n)}
<1>5. ASSUME T # {} PROVE FALSE
  <2>1. All(0) BY <1>3
  <2>2. \A n \in Nat : n # 0 /\ n <= COUNT /\ All(n - 1) => All(n) BY <1>4
  <2> HIDE DEF All
  <2>3. PICK n \in T : \A j \in T : n <= j BY <1>5, LeastNumber
  <2>4. n \in Nat /\ n # 0 /\ n - 1 \in Nat /\ n <= COUNT /\ n - 1 <= COUNT /\ ~(n <= n - 1)
    BY <1>2, <2>1, <2>3
  <2>5. All(n - 1) BY <2>3, <2>4
  <2> QED BY <2>2, <2>3, <2>4, <2>5
<1>6. All(COUNT)
  <2> HIDE DEF All
  <2> QED BY <1>2, <1>5
<1>7. PICK v \in f[COUNT] : s = v.r BY <1>1
<1>8. Visiting(v, COUNT) BY <1>6, <1>7
<1>9. Tallied(s) /\ s.timer.on BY <1>7, <1>8 DEF Visiting
<1>10. \A j \in InUse(s) : j <= COUNT BY <1>2, <1>9, PoolFields DEF Tallied
<1>11. InUse(s) # {} => NextKnown(s)
  <2> SUFFICES ASSUME InUse(s) # {} PROVE NextKnown(s) OBVIOUS
  <2>1. \E j \in InUse(s) : j <= COUNT BY <1>10
  <2> QED BY <1>7, <1>8, <2>1 DEF Visiting, NextKnown
<1> QED BY <1>9, <1>11

\* The periodic timer goes on, or stops with the last transfer, or an assertion
\* fails that read behind the pool.
LEMMA Continuing ==
  ASSUME NEW r, Tallied(r), r.timer.on, InUse(r) # {} => NextKnown(r)
  PROVE  Watched(GoesOn(r)) \/ FailedBlind(GoesOn(r))
<1>1. r \in Reliables /\ r.active_count = Cardinality(InUse(r)) /\ ~r.halted BY DEF Tallied
<1>2. /\ r.active_count = 0 <=> InUse(r) = {}
      /\ InUse(r) \subseteq Index /\ INVALID \notin Index
  BY <1>1, PoolFields
<1>3. CASE r.active_count = 0
  <2> DEFINE c == [r EXCEPT !.timer = Stopped]
  <2>1. GoesOn(r) = c BY <1>3 DEF GoesOn
  <2>2. c \in Reliables /\ c.pool = r.pool /\ ~c.halted /\ c.active_count = r.active_count /\ c.timer.on = FALSE
    <3>1. Stopped \in [on : BOOLEAN, due : Int] /\ Stopped.on = FALSE BY DEF Stopped
    <3> QED BY <1>1, <3>1 DEF Reliables
  <2> HIDE DEF c
  <2>3. InUse(c) = InUse(r) BY <2>2 DEF InUse
  <2>4. Watched(c) BY <1>1, <1>2, <1>3, <2>2, <2>3 DEF Watched, Tallied
  <2> QED BY <2>1, <2>4
<1>6. CASE r.active_count # 0 /\ r.next_index = INVALID
  <2> DEFINE c == [r EXCEPT !.halted = TRUE]
  <2>1. GoesOn(r) = c BY <1>6 DEF GoesOn
  <2>2. r.blind BY <1>2, <1>6 DEF NextKnown
  <2>3. c.halted = TRUE /\ c.blind = r.blind BY <1>1 DEF Reliables
  <2> HIDE DEF c
  <2> QED BY <2>1, <2>2, <2>3 DEF FailedBlind
<1>7. r.active_count # 0 /\ r.next_index # INVALID => r.next_index \in InUse(r) BY <1>2 DEF NextKnown
<1>4. CASE r.active_count # 0 /\ r.next_index # INVALID /\ r.timer.due > 0
  <2>1. GoesOn(r) = r BY <1>2, <1>4 DEF GoesOn
  <2> QED BY <1>2, <1>4, <1>7, <2>1 DEF Watched
<1>5. CASE r.active_count # 0 /\ r.next_index # INVALID /\ ~(r.timer.due > 0)
  <2> DEFINE due == r.timer.due
             next == r.pool[r.next_index].next
             interval == IF next = 0 THEN 1 ELSE Abs(next)
             Passes(k) == /\ due + k * interval > 0
                          /\ \A j \in 1..(k - 1) : due + j * interval <= 0
             steps == CHOOSE k \in 1..(1 - due) : Passes(k)
             c == [r EXCEPT !.timer.due = @ + steps * interval]
  <2>1. r.next_index # INVALID /\ r.next_index \in Index BY <1>2, <1>5, <1>7
  <2>2. GoesOn(r) = c BY <1>5, <2>1 DEF GoesOn
  <2>3. due \in Int /\ due <= 0 BY <1>1, <1>5 DEF Reliables
  <2>4. next \in Int BY <1>1, <2>1, PoolFields DEF Transfers
  <2> HIDE DEF next, due
  <2>5. interval \in Nat /\ interval >= 1 BY <2>4 DEF Abs
  <2> HIDE DEF interval
  <2>6. \E k \in 1..(1 - due) : Passes(k)
    <3> DEFINE T == {k \in Nat : due + k * interval > 0}
    <3>1. 1 - due \in Nat /\ 1 - due >= 1 BY <2>3
    <3>2. (1 - due) * interval >= 1 - due
      <4> DEFINE a == 1 - due
      <4>1. a \in Nat BY <3>1
      <4> HIDE DEF a
      <4>2. a * interval = a + a * (interval - 1) BY <2>5, <4>1
      <4>3. interval - 1 \in Nat BY <2>5
      <4>4. a * (interval - 1) \in Nat BY <4>1, <4>3
      <4>5. a * interval \in Nat BY <2>5, <4>1
      <4>6. a * interval >= a BY <4>1, <4>2, <4>4, <4>5
      <4> QED BY <4>6 DEF a
    <3>3. (1 - due) * interval \in Int BY <2>5, <3>1
    <3>4. due + (1 - due) * interval > 0 BY <2>3, <3>1, <3>2, <3>3
    <3>5. 1 - due \in T BY <3>1, <3>4
    <3>6. PICK k \in T : \A j \in T : k <= j
      <4>1. T # {} /\ T \in SUBSET Nat BY <3>5
      <4> HIDE DEF T
      <4> QED BY <4>1, LeastNumber
    <3>7. k \in Nat /\ k <= 1 - due /\ due + k * interval > 0 BY <3>5, <3>6
    <3>8. k # 0 BY <2>3, <2>5, <3>7
    <3>9. k \in 1..(1 - due) BY <3>1, <3>7, <3>8
    <3>10. ASSUME NEW j \in 1..(k - 1) PROVE due + j * interval <= 0
      <4>1. j \in Nat /\ ~(k <= j) BY <3>7
      <4>2. ~(due + j * interval > 0) BY <3>6, <4>1
      <4>3. j * interval \in Int BY <2>5, <4>1
      <4> QED BY <2>3, <4>2, <4>3
    <3> QED BY <3>7, <3>9, <3>10
  <2>7. steps \in 1..(1 - due)
    <3> HIDE DEF Passes
    <3> QED BY <2>6
  <2> HIDE DEF steps
  <2>8. steps \in Int BY <2>3, <2>7
  <2>9. steps * interval \in Int BY <2>5, <2>8
  <2> DEFINE by == steps * interval
  <2>10. c = [r EXCEPT !.timer.due = @ + by] OBVIOUS
  <2> HIDE DEF c
  <2>11. by \in Int BY <2>9
  <2> HIDE DEF by
  <2>12. r.timer.due + by \in Int BY <2>3, <2>11 DEF due
  <2> DEFINE timer == [r.timer EXCEPT !.due = r.timer.due + by]
  <2>13. timer \in [on : BOOLEAN, due : Int] /\ timer.on = r.timer.on BY <1>1, <2>12 DEF Reliables
  <2>14. c = [r EXCEPT !.timer = timer] BY <1>1, <2>10 DEF Reliables
  <2> HIDE DEF timer
  <2>15. /\ c \in Reliables /\ c.pool = r.pool /\ c.next_index = r.next_index
         /\ c.active_count = r.active_count /\ c.halted = r.halted /\ c.timer.on
    BY <1>1, <2>13, <2>14 DEF Reliables
  <2>16. InUse(c) = InUse(r) BY <2>15 DEF InUse
  <2>17. Watched(c) BY <1>1, <1>2, <1>5, <1>7, <2>15, <2>16 DEF Watched, Tallied
  <2> QED BY <2>2, <2>17
<1> QED BY <1>3, <1>4, <1>5, <1>6

\* PublishReliable keeps it: between two calls nothing behind the pool is read.
LEMMA PublishWatched ==
  ASSUME NEW r, Watched(r), NEW m \in MODELS, NEW t \in TIMEOUTS, CanTransfer(r, m), NEW s \in Additions(r, m, t)
  PROVE  Watched(s)
<1> DEFINE i == FirstFree(r)
<1>1. /\ Tallied(r) /\ (r.timer.on <=> InUse(r) # {})
      /\ InUse(r) # {} => r.next_index \in InUse(r)
  BY DEF Watched
<1>2. r.active_count = 0 <=> InUse(r) = {} BY <1>1, PoolFields DEF Tallied
<1>3. HasStarted(s, r, i) BY <1>1, StartingEither
<1>4. /\ Tallied(s) /\ InUse(s) = InUse(r) \cup {i}
      /\ r.active_count = 0 => s.next_index = i
      /\ s.next_index = i \/ s.next_index = r.next_index
      /\ s.timer.on = TRUE \/ (s.timer = r.timer /\ r.active_count # 0)
  BY <1>3 DEF HasStarted
<1> HIDE DEF i
<1>5. s.timer.on BY <1>1, <1>2, <1>4
<1>6. s.next_index \in InUse(s) /\ InUse(s) # {} BY <1>1, <1>2, <1>4
<1> QED BY <1>4, <1>5, <1>6 DEF Watched

\* So does a status callback between two calls.
LEMMA CallbackWatched ==
  ASSUME NEW r, Watched(r), NEW m \in MODELS, NEW s \in StatusCallback(r, m)
  PROVE  Watched(s)
<1>1. CASE s = r BY <1>1
<1>2. CASE s # r
  <2>1. CanTransfer(r, m) /\ \E t \in TIMEOUTS : s \in Additions(r, m, t) BY <1>2 DEF StatusCallback
  <2> QED BY <2>1, PublishWatched
<1> QED BY <1>1, <1>2

\* CancelAll leaves an empty pool and no timer.
LEMMA CancellingAll ==
  ASSUME NEW r, Watched(r)
  PROVE  Watched([r EXCEPT !.active_count = 0, !.timer = Stopped,
                           !.pool = [i \in Index |-> FreeContext]])
<1> DEFINE s == [r EXCEPT !.active_count = 0, !.timer = Stopped,
                          !.pool = [i \in Index |-> FreeContext]]
<1>1. r \in Reliables /\ ~r.halted BY DEF Watched, Tallied
<1>2. FreeContext \in Transfers /\ FreeContext.in_use = FALSE
  <2>1. (CHOOSE m \in MODELS : TRUE) \in MODELS BY ReliableAssumption DEF ReliableAssumption
  <2> QED BY <2>1 DEF FreeContext, Transfers
<1>3. Stopped \in [on : BOOLEAN, due : Int] /\ Stopped.on = FALSE BY DEF Stopped
<1>4. /\ s \in Reliables /\ s.active_count = 0 /\ s.timer.on = FALSE /\ ~s.halted
      /\ s.pool = [i \in Index |-> FreeContext]
  BY <1>1, <1>2, <1>3 DEF Reliables
<1> HIDE DEF s
<1>5. InUse(s) = {} BY <1>2, <1>4 DEF InUse
<1>6. Cardinality(InUse(s)) = 0 BY <1>5, FS_EmptySet
<1>7. Watched(s) BY <1>4, <1>5, <1>6 DEF Watched, Tallied
<1> QED BY <1>7 DEF s

\* A tick changes times only.
LEMMA Ticking ==
  ASSUME NEW r, Watched(r)
  PROVE  Watched([r EXCEPT !.timer.due = @ - 1, !.pool = [i \in Index |-> Aged(r.pool[i])]])
<1> DEFINE pool == [i \in Index |-> Aged(r.pool[i])]
           timer == [r.timer EXCEPT !.due = @ - 1]
           s == [r EXCEPT !.timer = timer, !.pool = pool]
<1>1. r \in Reliables BY DEF Watched, Tallied
<1>2. ASSUME NEW c \in Transfers PROVE Aged(c) \in Transfers /\ Aged(c).in_use = c.in_use
  <2> DEFINE next == c.next - 1
             timeout == c.timeout - 1
  <2>1. next \in Int /\ timeout \in Int BY DEF Transfers
  <2>2. Aged(c) = IF c.in_use THEN [c EXCEPT !.next = next, !.timeout = timeout] ELSE c BY DEF Aged
  <2> HIDE DEF next, timeout
  <2>3. /\ [c EXCEPT !.next = next, !.timeout = timeout] \in Transfers
        /\ [c EXCEPT !.next = next, !.timeout = timeout].in_use = c.in_use
    BY <2>1 DEF Transfers
  <2> QED BY <2>2, <2>3
<1>3. timer \in [on : BOOLEAN, due : Int] /\ timer.on = r.timer.on BY <1>1 DEF Reliables
<1>4. pool \in [Index -> Transfers] /\ \A i \in Index : pool[i].in_use = r.pool[i].in_use
  BY <1>1, <1>2, PoolFields
<1> HIDE DEF pool
<1>5. s = [r EXCEPT !.timer.due = @ - 1, !.pool = pool]
  <2> DEFINE due == r.timer.due - 1
  <2>1. timer = [r.timer EXCEPT !.due = due] OBVIOUS
  <2>2. [r EXCEPT !.timer.due = @ - 1, !.pool = pool] = [r EXCEPT !.timer.due = due, !.pool = pool]
    OBVIOUS
  <2> HIDE DEF due
  <2> QED BY <1>1, <2>1, <2>2 DEF Reliables
<1> HIDE DEF timer
<1>6. /\ s \in Reliables /\ s.pool = pool /\ s.timer = timer /\ s.halted = r.halted
      /\ s.active_count = r.active_count /\ s.next_index = r.next_index
  BY <1>1, <1>3, <1>4 DEF Reliables
<1> HIDE DEF s
<1>7. InUse(s) = InUse(r) BY <1>4, <1>6 DEF InUse
<1>8. Watched(s) BY <1>3, <1>6, <1>7 DEF Watched, Tallied
<1> QED BY <1>5, <1>8 DEF pool

\* The callback of the timer goes on or stops, and asserts nothing false unless a
\* callback read behind the pool.
LEMMA Calling ==
  ASSUME NEW r, Watched(r), r.timer.on, NEW s \in PoolVisited(Ensured(r, r.active_count > 0))
  PROVE  Watched(GoesOn(s)) \/ FailedBlind(GoesOn(s))
<1>1. r \in Reliables /\ Tallied(r) /\ InUse(r) # {} BY DEF Watched, Tallied
<1>2. r.active_count > 0
  <2>1. r.active_count \in Nat /\ r.active_count # 0 BY <1>1, PoolFields DEF Tallied, Reliables
  <2> QED BY <2>1
<1>3. Ensured(r, r.active_count > 0) = r BY <1>1, <1>2 DEF Ensured, Reliables
<1>4. Tallied(s) /\ s.timer.on /\ (InUse(s) # {} => NextKnown(s)) BY <1>3, PoolKeeps
<1> QED BY <1>4, Continuing

\* The pool is empty at first.
LEMMA ReliableStarts ==
  ASSUME ReliableInit
  PROVE  Watched(reliable)
<1>1. FreeContext \in Transfers /\ FreeContext.in_use = FALSE
  <2>1. (CHOOSE m \in MODELS : TRUE) \in MODELS BY ReliableAssumption DEF ReliableAssumption
  <2> QED BY <2>1 DEF FreeContext, Transfers
<1>2. Stopped \in [on : BOOLEAN, due : Int] /\ Stopped.on = FALSE BY DEF Stopped
<1>3. 1 \in Index BY ReliableAssumption DEF ReliableAssumption, Index
<1>4. /\ reliable \in Reliables /\ ~reliable.halted /\ reliable.active_count = 0
      /\ reliable.timer.on = FALSE /\ reliable.pool = [i \in Index |-> FreeContext]
  BY <1>1, <1>2, <1>3 DEF ReliableInit, Reliables
<1>5. InUse(reliable) = {} BY <1>1, <1>4 DEF InUse
<1>6. Cardinality(InUse(reliable)) = 0 BY <1>5, FS_EmptySet
<1> QED BY <1>4, <1>5, <1>6 DEF Watched, Tallied

\* The inductive invariant: the timer watches, until an assertion fails that the
\* condition of TimerWatches speaks of.
ReliableInv == Watched(reliable) \/ FailedBlind(reliable)

\* Every action keeps it.
LEMMA ReliableStep ==
  ASSUME ReliableInv, [ReliableNext]_reliable
  PROVE  ReliableInv'
<1> SUFFICES Watched(reliable') \/ FailedBlind(reliable') BY DEF ReliableInv
<1>0. CASE UNCHANGED reliable BY <1>0 DEF ReliableInv
<1> SUFFICES ASSUME ReliableNext, Watched(reliable) PROVE Watched(reliable') \/ FailedBlind(reliable')
  BY <1>0 DEF ReliableInv, FailedBlind, ReliableNext, ReliableTimerCb, ReliableTick
<1>1. ASSUME NEW m \in MODELS, NEW t \in TIMEOUTS, PublishReliable(m, t) PROVE Watched(reliable')
  BY <1>1, PublishWatched DEF PublishReliable
<1>2. ASSUME NEW m \in MODELS, MessageRx(m) PROVE Watched(reliable')
  <2>1. PICK i \in InUse(reliable) :
          reliable' \in StatusCallback(RemoveAndReschedule(reliable, i), m)
    BY <1>2 DEF MessageRx, ContextOf
  <2>2. Watched(RemoveAndReschedule(reliable, i)) BY Removing
  <2> QED BY <2>1, <2>2, CallbackWatched
<1>3. ASSUME NEW m \in MODELS, Cancel(m) PROVE Watched(reliable')
  <2>1. PICK i \in InUse(reliable) : reliable' = RemoveAndReschedule(reliable, i)
    BY <1>3 DEF Cancel, ContextOf
  <2> QED BY <2>1, Removing
<1>4. CASE CancelAll BY <1>4, CancellingAll DEF CancelAll
<1>5. CASE ReliableTimerCb
  <2>1. PICK s \in PoolVisited(Ensured(reliable, reliable.active_count > 0)) : reliable' = GoesOn(s)
    BY <1>5 DEF ReliableTimerCb
  <2>2. reliable.timer.on BY <1>5 DEF ReliableTimerCb
  <2> QED BY <2>1, <2>2, Calling
<1>6. CASE ReliableTick BY <1>6, Ticking DEF ReliableTick
<1> QED BY <1>1, <1>2, <1>3, <1>4, <1>5, <1>6 DEF ReliableNext

\* TimerWatches: for any pool, models, intervals and timeouts, while a transfer
\* is in use the timer of access_reliable.c runs for one that is, and no assertion
\* fails unless a status callback published while the timer knew no next index
\* and others were active.
THEOREM TransfersWatched == ReliableSpec => []TimerWatches
<1>1. ReliableInit => ReliableInv BY ReliableStarts DEF ReliableInv
<1>2. ReliableInv /\ [ReliableNext]_reliable => ReliableInv' BY ReliableStep
<1>3. ReliableInv => TimerWatches
  BY DEF ReliableInv, FailedBlind, Watched, Tallied, TimerWatches
<1> QED BY <1>1, <1>2, <1>3, PTL DEF ReliableSpec

-----------------------------------------------------------------------------
(* The timer scheduler *)

\* An event is in a list.
OnList(list, e) == \E i \in 1..Len(list) : list[i] = e

Once(list) == \A i, j \in 1..Len(list) : list[i] = list[j] => i = j

\* What waits to fire is in order, but for what was changed.
Sorted(evt, list) ==
  \A i, j \in 1..Len(list) :
    i < j /\ evt[list[i]].state = "QUEUED" /\ evt[list[j]].state = "QUEUED"
      => evt[list[i]].time <= evt[list[j]].time

FireStates == {"QUEUED", "RESCHEDULED", "ABORTED"}

AddStates == {"ADDED", "IGNORED"}

DirtyEvents(evt) == {e \in EVENTS : IsDirty(evt[e].state)}

\* The dirty events are counted.
Tallies(evt, dirty) == IsFiniteSet(DirtyEvents(evt)) /\ dirty = Cardinality(DirtyEvents(evt))

\* The lists hold what the states say.
Lists(s) ==
  /\ s \in Schedulers /\ ~s.halted
  /\ \A e \in EVENTS : OnList(s.fire, e) <=> s.evt[e].state \in FireStates
  /\ \A e \in EVENTS : OnList(s.add, e) <=> s.evt[e].state \in AddStates
  /\ Once(s.fire) /\ Once(s.add)
  /\ Tallies(s.evt, s.dirty)
  /\ Sorted(s.evt, s.fire)

\* The handler has nothing to do.
Clean(s) == Lists(s) /\ s.add = <<>> /\ DirtyEvents(s.evt) = {}

\* The hardware timer is on for the first event.
Timed(s) ==
  s.fire # <<>> => s.hw.on /\ (s.evt[s.fire[1]].time > 0 => s.hw.left <= s.evt[s.fire[1]].time)

\* The inductive invariant.
SchedulerInv(s) == Lists(s) /\ (s.calling = NoEvent /\ ~s.flag => Clean(s) /\ Timed(s))

\* One event is changed, and what else of the lists is given.
IsChanged(t, s, e, v, fire, add, dirty) ==
  /\ t \in Schedulers /\ t.halted = s.halted
  /\ t.evt = [s.evt EXCEPT ![e] = v]
  /\ t.fire = fire /\ t.add = add /\ t.dirty = dirty

\* The parts of a scheduler.
LEMMA SchedulerParts ==
  ASSUME NEW s \in Schedulers
  PROVE  /\ s.evt \in [EVENTS -> [state : EventStates, time : Int]]
         /\ \A e \in EVENTS : s.evt[e].state \in EventStates /\ s.evt[e].time \in Int
                              /\ s.evt[e] = [state |-> s.evt[e].state, time |-> s.evt[e].time]
         /\ s.fire \in Seq(EVENTS) /\ Len(s.fire) \in Nat
         /\ s.add \in Seq(EVENTS) /\ Len(s.add) \in Nat
         /\ \A i \in 1..Len(s.fire) : s.fire[i] \in EVENTS
         /\ \A i \in 1..Len(s.add) : s.add[i] \in EVENTS
         /\ s.dirty \in Nat /\ s.flag \in BOOLEAN /\ s.halted \in BOOLEAN
         /\ s.hw \in [on : BOOLEAN, left : Int]
BY DEF Schedulers

\* What is changed and what is not.
LEMMA ChangedParts ==
  ASSUME NEW s \in Schedulers, NEW e \in EVENTS, NEW v, NEW t, NEW fire, NEW add, NEW dirty,
         IsChanged(t, s, e, v, fire, add, dirty)
  PROVE  /\ t.evt[e] = v /\ v.state \in EventStates /\ v.time \in Int
         /\ \A d \in EVENTS : d # e => t.evt[d] = s.evt[d]
<1>1. t \in Schedulers /\ t.evt = [s.evt EXCEPT ![e] = v] BY DEF IsChanged
<1>2. t.evt[e] = v /\ \A d \in EVENTS : d # e => t.evt[d] = s.evt[d] BY <1>1, SchedulerParts
<1> QED BY <1>1, <1>2, SchedulerParts

\* A list is in order as long as what is queued of it stays as it is.
LEMMA StillSorted ==
  ASSUME NEW s \in Schedulers, Sorted(s.evt, s.fire), NEW evt,
         \A i \in 1..Len(s.fire) :
           evt[s.fire[i]] = s.evt[s.fire[i]] \/ evt[s.fire[i]].state # "QUEUED"
  PROVE  Sorted(evt, s.fire)
<1> SUFFICES ASSUME NEW i \in 1..Len(s.fire), NEW j \in 1..Len(s.fire), i < j,
                    evt[s.fire[i]].state = "QUEUED", evt[s.fire[j]].state = "QUEUED"
             PROVE  evt[s.fire[i]].time <= evt[s.fire[j]].time
  BY DEF Sorted
<1>1. evt[s.fire[i]] = s.evt[s.fire[i]] /\ evt[s.fire[j]] = s.evt[s.fire[j]] OBVIOUS
<1>2. s.evt[s.fire[i]].state = "QUEUED" /\ s.evt[s.fire[j]].state = "QUEUED" BY <1>1
<1>3. s.evt[s.fire[i]].time <= s.evt[s.fire[j]].time BY <1>2 DEF Sorted
<1> QED BY <1>1, <1>3

\* The count of dirty events when the state of one changes.
LEMMA Tallying ==
  ASSUME NEW s \in Schedulers, Tallies(s.evt, s.dirty), NEW e \in EVENTS, NEW t \in Schedulers,
         \A d \in EVENTS : d # e => t.evt[d] = s.evt[d]
  PROVE  /\ (IsDirty(s.evt[e].state) <=> IsDirty(t.evt[e].state)) => Tallies(t.evt, s.dirty)
         /\ ~IsDirty(s.evt[e].state) /\ IsDirty(t.evt[e].state) => Tallies(t.evt, s.dirty + 1)
         /\ IsDirty(s.evt[e].state) /\ ~IsDirty(t.evt[e].state) => Tallies(t.evt, s.dirty - 1)
<1> DEFINE D == DirtyEvents(s.evt)
           E == DirtyEvents(t.evt)
<1>1. IsFiniteSet(D) /\ s.dirty = Cardinality(D) /\ s.dirty \in Nat BY SchedulerParts DEF Tallies
<1>2. (IsDirty(s.evt[e].state) <=> IsDirty(t.evt[e].state)) => E = D BY DEF DirtyEvents
<1>3. ASSUME ~IsDirty(s.evt[e].state), IsDirty(t.evt[e].state) PROVE Tallies(t.evt, s.dirty + 1)
  <2>1. E = D \cup {e} /\ e \notin D BY <1>3 DEF DirtyEvents
  <2> HIDE DEF D, E
  <2>2. IsFiniteSet(D \cup {e}) /\ Cardinality(D \cup {e}) = Cardinality(D) + 1
    BY <1>1, <2>1, FS_AddElement
  <2>3. IsFiniteSet(E) /\ s.dirty + 1 = Cardinality(E) BY <1>1, <2>1, <2>2
  <2> QED BY <2>3 DEF Tallies, E
<1>4. ASSUME IsDirty(s.evt[e].state), ~IsDirty(t.evt[e].state) PROVE Tallies(t.evt, s.dirty - 1)
  <2>1. E = D \ {e} /\ e \in D BY <1>4 DEF DirtyEvents
  <2> HIDE DEF D, E
  <2>2. IsFiniteSet(D \ {e}) /\ Cardinality(D \ {e}) = Cardinality(D) - 1
    BY <1>1, <2>1, FS_RemoveElement
  <2>3. IsFiniteSet(E) /\ s.dirty - 1 = Cardinality(E) BY <1>1, <2>1, <2>2
  <2> QED BY <2>3 DEF Tallies, E
<1>5. E = D => Tallies(t.evt, s.dirty) BY <1>1 DEF Tallies
<1> QED BY <1>2, <1>3, <1>4, <1>5

\* The state of an event changes, and the list it is in does not.
LEMMA Changing ==
  ASSUME NEW s, Lists(s), NEW e \in EVENTS, NEW v, NEW t, NEW dirty,
         IsChanged(t, s, e, v, s.fire, s.add, dirty), Tallies(t.evt, dirty),
         v.state \in FireStates <=> s.evt[e].state \in FireStates,
         v.state \in AddStates <=> s.evt[e].state \in AddStates,
         v.state # "QUEUED"
  PROVE  Lists(t)
<1>1. s \in Schedulers /\ t \in Schedulers /\ ~t.halted BY DEF Lists, IsChanged
<1>2. /\ t.fire = s.fire /\ t.add = s.add /\ t.dirty = dirty /\ t.evt[e] = v
      /\ \A d \in EVENTS : d # e => t.evt[d] = s.evt[d]
  BY <1>1, ChangedParts DEF IsChanged
<1>3. /\ \A d \in EVENTS : OnList(t.fire, d) <=> t.evt[d].state \in FireStates
      /\ \A d \in EVENTS : OnList(t.add, d) <=> t.evt[d].state \in AddStates
  BY <1>2 DEF Lists
<1>4. Once(t.fire) /\ Once(t.add) BY <1>2 DEF Lists
<1>5. Sorted(t.evt, t.fire)
  <2>1. \A i \in 1..Len(s.fire) :
          t.evt[s.fire[i]] = s.evt[s.fire[i]] \/ t.evt[s.fire[i]].state # "QUEUED"
    BY <1>1, <1>2, SchedulerParts
  <2>2. Sorted(s.evt, s.fire) BY DEF Lists
  <2> QED BY <1>1, <1>2, <2>1, <2>2, StillSorted
<1> QED BY <1>1, <1>2, <1>3, <1>4, <1>5 DEF Lists

\* What is put in front of a list.
LEMMA Prepending ==
  ASSUME NEW S, NEW list \in Seq(S), NEW e \in S
  PROVE  LET l == <<e>> \o list IN
         /\ l \in Seq(S) /\ Len(l) = Len(list) + 1 /\ l[1] = e
         /\ \A i \in 1..Len(list) : l[i + 1] = list[i]
         /\ \A d \in S : OnList(l, d) <=> OnList(list, d) \/ d = e
         /\ Once(list) /\ ~OnList(list, e) => Once(l)
<1> DEFINE l == <<e>> \o list
<1>1. /\ l \in Seq(S) /\ Len(list) \in Nat /\ Len(l) = Len(list) + 1 /\ l[1] = e
      /\ \A i \in 2..Len(l) : l[i] = list[i - 1]
  OBVIOUS
<1> HIDE DEF l
<1>2. \A i \in 1..Len(list) : l[i + 1] = list[i]
  <2> TAKE i \in 1..Len(list)
  <2>1. i + 1 \in 2..Len(l) /\ (i + 1) - 1 = i BY <1>1
  <2> QED BY <1>1, <2>1
<1>3. ASSUME NEW d \in S PROVE OnList(l, d) <=> OnList(list, d) \/ d = e
  <2>1. ASSUME NEW i \in 1..Len(l), l[i] = d PROVE OnList(list, d) \/ d = e
    <3>1. CASE i = 1 BY <1>1, <2>1, <3>1
    <3>2. CASE i # 1
      <4>1. i \in 2..Len(l) /\ i - 1 \in 1..Len(list) BY <1>1, <3>2
      <4> QED BY <1>1, <2>1, <4>1 DEF OnList
    <3> QED BY <3>1, <3>2
  <2>2. ASSUME NEW i \in 1..Len(list), list[i] = d PROVE OnList(l, d)
    <3>1. i + 1 \in 1..Len(l) BY <1>1
    <3> QED BY <1>2, <2>2, <3>1 DEF OnList
  <2>3. d = e => OnList(l, d)
    <3>1. 1 \in 1..Len(l) BY <1>1
    <3> QED BY <1>1, <3>1 DEF OnList
  <2> QED BY <2>1, <2>2, <2>3 DEF OnList
<1>4. ASSUME Once(list), ~OnList(list, e) PROVE Once(l)
  <2> SUFFICES ASSUME NEW i \in 1..Len(l), NEW j \in 1..Len(l), l[i] = l[j] PROVE i = j
    BY DEF Once
  <2>1. \A k \in 1..Len(l) : k = 1 \/ (k - 1 \in 1..Len(list) /\ l[k] = list[k - 1])
    <3> TAKE k \in 1..Len(l)
    <3>1. CASE k # 1
      <4>1. k \in 2..Len(l) /\ k - 1 \in 1..Len(list) BY <1>1, <3>1
      <4> QED BY <1>1, <4>1
    <3> QED BY <3>1
  <2>2. \A k \in 1..Len(list) : list[k] # e BY <1>4 DEF OnList
  <2>3. CASE i = 1 \/ j = 1 BY <1>1, <2>1, <2>2, <2>3
  <2>4. CASE i # 1 /\ j # 1
    <3>1. i - 1 = j - 1 BY <1>4, <2>1, <2>4 DEF Once
    <3> QED BY <3>1
  <2> QED BY <2>3, <2>4
<1> QED BY <1>1, <1>2, <1>3, <1>4 DEF l

\* An event that is in no list goes to the add list.
LEMMA AddingToList ==
  ASSUME NEW s, Lists(s), NEW e \in EVENTS, s.evt[e].state \in {"UNUSED", "IN_CALLBACK"},
         NEW v, v.state = "ADDED", NEW t, IsChanged(t, s, e, v, s.fire, <<e>> \o s.add, s.dirty)
  PROVE  Lists(t)
<1>1. s \in Schedulers /\ t \in Schedulers /\ ~t.halted BY DEF Lists, IsChanged
<1>2. /\ t.fire = s.fire /\ t.add = <<e>> \o s.add /\ t.dirty = s.dirty /\ t.evt[e] = v
      /\ \A d \in EVENTS : d # e => t.evt[d] = s.evt[d]
  BY <1>1, ChangedParts DEF IsChanged
<1>3. s.add \in Seq(EVENTS) BY <1>1, SchedulerParts
<1>4. ~OnList(s.add, e) /\ ~OnList(s.fire, e) /\ Once(s.add) BY DEF Lists, FireStates, AddStates
<1>5. Once(t.add) /\ \A d \in EVENTS : OnList(t.add, d) <=> OnList(s.add, d) \/ d = e
  BY <1>2, <1>3, <1>4, Prepending
<1>6. /\ \A d \in EVENTS : OnList(t.fire, d) <=> t.evt[d].state \in FireStates
      /\ \A d \in EVENTS : OnList(t.add, d) <=> t.evt[d].state \in AddStates
  BY <1>2, <1>4, <1>5 DEF Lists, FireStates, AddStates
<1>7. Tallies(t.evt, t.dirty)
  <2>1. ~IsDirty(s.evt[e].state) /\ ~IsDirty(t.evt[e].state) BY <1>2 DEF IsDirty
  <2>2. Tallies(s.evt, s.dirty) BY DEF Lists
  <2> QED BY <1>1, <1>2, <2>1, <2>2, Tallying
<1>8. Sorted(t.evt, t.fire)
  <2>1. \A i \in 1..Len(s.fire) : t.evt[s.fire[i]] = s.evt[s.fire[i]]
    BY <1>1, <1>2, <1>4, SchedulerParts DEF OnList
  <2>2. Sorted(s.evt, s.fire) BY DEF Lists
  <2> QED BY <1>1, <1>2, <2>1, <2>2, StillSorted
<1>9. Once(t.fire) BY <1>2 DEF Lists
<1> QED BY <1>1, <1>5, <1>6, <1>7, <1>8, <1>9 DEF Lists

\* What is left without the element at a place of a list.
LEMMA RemovingAt ==
  ASSUME NEW S, NEW list \in Seq(S), NEW k \in 1..Len(list)
  PROVE  LET l == RemovedAt(list, k) IN
         /\ l \in Seq(S) /\ Len(l) = Len(list) - 1
         /\ \A i \in 1..Len(l) : l[i] = IF i < k THEN list[i] ELSE list[i + 1]
<1> DEFINE l == RemovedAt(list, k)
           a == SubSeq(list, 1, k - 1)
           b == SubSeq(list, k + 1, Len(list))
<1>1. l = a \o b BY DEF RemovedAt
<1>2. Len(list) \in Nat /\ k \in Nat /\ 1 <= k /\ k <= Len(list) OBVIOUS
<1> HIDE DEF l
<1>3. a \in Seq(S) /\ Len(a) = k - 1 /\ \A i \in 1..(k - 1) : a[i] = list[i] BY <1>2
<1>4. b \in Seq(S) /\ Len(b) = Len(list) - k /\ \A i \in 1..(Len(list) - k) : b[i] = list[k + i]
  BY <1>2
<1> HIDE DEF a, b
<1>5. l \in Seq(S) /\ Len(l) = Len(list) - 1 BY <1>1, <1>2, <1>3, <1>4
<1>6. \A i \in 1..Len(l) : l[i] = IF i < k THEN list[i] ELSE list[i + 1]
  <2> TAKE i \in 1..Len(l)
  <2>1. CASE i < k
    <3>1. i \in 1..Len(a) /\ i \in 1..(k - 1) BY <1>2, <1>3, <1>5, <2>1
    <3>2. l[i] = a[i] BY <1>1, <1>3, <1>4, <3>1
    <3> QED BY <1>3, <2>1, <3>1, <3>2
  <2>2. CASE ~(i < k)
    <3> DEFINE j == i - (k - 1)
    <3>1. j \in 1..(Len(list) - k) /\ k + j = i + 1 /\ i = Len(a) + j /\ j \in 1..Len(b)
      BY <1>2, <1>3, <1>4, <1>5, <2>2
    <3> HIDE DEF j
    <3>2. l[i] = b[j] BY <1>1, <1>3, <1>4, <3>1
    <3> QED BY <1>4, <2>2, <3>1, <3>2
  <2> QED BY <2>1, <2>2
<1> QED BY <1>5, <1>6 DEF l

\* The place of an element of a list.
LEMMA TakingOut ==
  ASSUME NEW S, NEW list \in Seq(S), NEW e \in S, OnList(list, e), Once(list)
  PROVE  LET l == TakenOut(list, e) IN
         /\ l \in Seq(S) /\ Once(l)
         /\ \A d \in S : OnList(l, d) <=> OnList(list, d) /\ d # e
         /\ \E k \in 1..Len(list) :
              /\ Len(l) = Len(list) - 1 /\ list[k] = e
              /\ \A i \in 1..Len(l) : l[i] = IF i < k THEN list[i] ELSE list[i + 1]
<1> DEFINE l == TakenOut(list, e)
           k == CHOOSE i \in DOMAIN list : list[i] = e
<1>1. k \in 1..Len(list) /\ list[k] = e BY DEF OnList
<1>2. l = RemovedAt(list, k) BY DEF TakenOut
<1>3. Len(list) \in Nat OBVIOUS
<1> HIDE DEF k, l
<1>4. k \in Nat /\ 1 <= k /\ k <= Len(list) BY <1>1, <1>3
<1>7. /\ l \in Seq(S) /\ Len(l) = Len(list) - 1
      /\ \A i \in 1..Len(l) : l[i] = IF i < k THEN list[i] ELSE list[i + 1]
  BY <1>1, <1>2, RemovingAt
<1>8. \A i \in 1..Len(l) : l[i] = IF i < k THEN list[i] ELSE list[i + 1] BY <1>7
<1>9. Once(l)
  <2> SUFFICES ASSUME NEW i \in 1..Len(l), NEW j \in 1..Len(l), l[i] = l[j] PROVE i = j BY DEF Once
  <2> DEFINE at(n) == IF n < k THEN n ELSE n + 1
  <2>1. at(i) \in 1..Len(list) /\ at(j) \in 1..Len(list) BY <1>3, <1>4, <1>7
  <2>2. l[i] = list[at(i)] /\ l[j] = list[at(j)] BY <1>8
  <2>3. at(i) = at(j) BY <2>1, <2>2 DEF Once
  <2> QED BY <1>4, <2>3
<1>10. ASSUME NEW d \in S PROVE OnList(l, d) <=> OnList(list, d) /\ d # e
  <2>1. ASSUME NEW i \in 1..Len(l), l[i] = d PROVE OnList(list, d) /\ d # e
    <3> DEFINE at == IF i < k THEN i ELSE i + 1
    <3>1. at \in 1..Len(list) /\ at # k BY <1>3, <1>4, <1>7
    <3>2. list[at] = d BY <1>8, <2>1
    <3> HIDE DEF at
    <3>3. d # e BY <1>1, <3>1, <3>2 DEF Once
    <3> QED BY <3>1, <3>2, <3>3 DEF OnList
  <2>2. ASSUME NEW i \in 1..Len(list), list[i] = d, d # e PROVE OnList(l, d)
    <3>1. i # k BY <1>1, <2>2
    <3>2. CASE i < k
      <4>1. i \in 1..Len(l) BY <1>3, <1>4, <1>7, <3>2
      <4> QED BY <1>8, <2>2, <3>2, <4>1 DEF OnList
    <3>3. CASE i > k
      <4>1. i - 1 \in 1..Len(l) /\ ~(i - 1 < k) /\ (i - 1) + 1 = i BY <1>3, <1>4, <1>7, <3>3
      <4> QED BY <1>8, <2>2, <4>1 DEF OnList
    <3> QED BY <1>4, <3>1, <3>2, <3>3
  <2> QED BY <2>1, <2>2 DEF OnList
<1> QED BY <1>1, <1>7, <1>8, <1>9, <1>10 DEF l

\* What is put in at a place of a list.
LEMMA InsertingAt ==
  ASSUME NEW S, NEW list \in Seq(S), NEW e \in S, NEW k \in 1..(Len(list) + 1)
  PROVE  LET l == InsertedAt(list, k, e) IN
         /\ l \in Seq(S) /\ Len(l) = Len(list) + 1
         /\ \A i \in 1..Len(l) : l[i] = IF i < k THEN list[i] ELSE IF i = k THEN e ELSE list[i - 1]
         /\ \A d \in S : OnList(l, d) <=> OnList(list, d) \/ d = e
         /\ Once(list) /\ ~OnList(list, e) => Once(l)
<1> DEFINE l == InsertedAt(list, k, e)
           a == SubSeq(list, 1, k - 1)
           b == SubSeq(list, k, Len(list))
           c == <<e>> \o b
<1>1. Len(list) \in Nat /\ k \in Nat /\ 1 <= k /\ k <= Len(list) + 1 OBVIOUS
<1>2. a \in Seq(S) /\ Len(a) = k - 1 /\ \A i \in 1..(k - 1) : a[i] = list[i] BY <1>1
<1>3. /\ b \in Seq(S) /\ Len(b) = Len(list) - k + 1
      /\ \A i \in 1..(Len(list) - k + 1) : b[i] = list[k + i - 1]
  BY <1>1
<1>4. l = (a \o <<e>>) \o b BY DEF InsertedAt
<1> HIDE DEF a, b, l
<1>5. /\ a \o <<e>> \in Seq(S) /\ Len(a \o <<e>>) = k /\ (a \o <<e>>)[k] = e
      /\ \A i \in 1..(k - 1) : (a \o <<e>>)[i] = a[i]
  BY <1>1, <1>2
<1> DEFINE g == a \o <<e>>
<1> HIDE DEF g
<1>6. l = g \o b /\ g \in Seq(S) /\ Len(g) = k /\ g[k] = e /\ \A i \in 1..(k - 1) : g[i] = list[i]
  BY <1>2, <1>4, <1>5 DEF g
<1>7. l \in Seq(S) /\ Len(l) = Len(list) + 1
  <2>1. g \in Seq(S) /\ b \in Seq(S) BY <1>3, <1>6
  <2>2. g \o b \in Seq(S) /\ Len(g \o b) = Len(g) + Len(b) BY <2>1
  <2> QED BY <1>1, <1>3, <1>6, <2>2
<1>8. \A i \in 1..Len(l) : l[i] = IF i < k THEN list[i] ELSE IF i = k THEN e ELSE list[i - 1]
  <2> TAKE i \in 1..Len(l)
  <2>1. CASE i <= k
    <3>1. i \in 1..Len(g) /\ (i < k => i \in 1..(k - 1)) BY <1>1, <1>6, <1>7, <2>1
    <3>2. l[i] = g[i] BY <1>3, <1>6, <3>1
    <3> QED BY <1>1, <1>6, <2>1, <3>1, <3>2
  <2>2. CASE ~(i <= k)
    <3> DEFINE j == i - k
    <3>1. j \in 1..(Len(list) - k + 1) /\ k + j - 1 = i - 1 /\ i = Len(g) + j /\ j \in 1..Len(b)
      BY <1>1, <1>3, <1>6, <1>7, <2>2
    <3> HIDE DEF j
    <3>2. (g \o b)[Len(g) + j] = b[j] BY <1>3, <1>6, <3>1
    <3>3. b[j] = list[i - 1] BY <1>3, <3>1
    <3>4. ~(i < k) /\ i # k BY <1>1, <2>2
    <3> QED BY <1>6, <3>1, <3>2, <3>3, <3>4
  <2> QED BY <2>1, <2>2
<1>9. ASSUME NEW d \in S PROVE OnList(l, d) <=> OnList(list, d) \/ d = e
  <2>1. ASSUME NEW i \in 1..Len(l), l[i] = d PROVE OnList(list, d) \/ d = e
    <3>1. CASE i < k
      <4>1. i \in 1..Len(list) BY <1>1, <1>7, <3>1
      <4> QED BY <1>8, <2>1, <3>1, <4>1 DEF OnList
    <3>2. CASE i > k
      <4>1. i - 1 \in 1..Len(list) /\ ~(i < k) /\ i # k BY <1>1, <1>7, <3>2
      <4> QED BY <1>8, <2>1, <4>1 DEF OnList
    <3>3. CASE i = k BY <1>1, <1>8, <2>1, <3>3
    <3> QED BY <1>1, <3>1, <3>2, <3>3
  <2>2. ASSUME NEW i \in 1..Len(list), list[i] = d PROVE OnList(l, d)
    <3>1. CASE i < k
      <4>1. i \in 1..Len(l) BY <1>1, <1>7
      <4> QED BY <1>8, <2>2, <3>1, <4>1 DEF OnList
    <3>2. CASE ~(i < k)
      <4>1. i + 1 \in 1..Len(l) /\ (i + 1) - 1 = i /\ ~(i + 1 < k) /\ i + 1 # k BY <1>1, <1>7, <3>2
      <4> QED BY <1>8, <2>2, <4>1 DEF OnList
    <3> QED BY <3>1, <3>2
  <2>3. d = e => OnList(l, d)
    <3>1. k \in 1..Len(l) /\ ~(k < k) BY <1>1, <1>7
    <3> QED BY <1>8, <3>1 DEF OnList
  <2> QED BY <2>1, <2>2, <2>3 DEF OnList
<1>10. ASSUME Once(list), ~OnList(list, e) PROVE Once(l)
  <2> SUFFICES ASSUME NEW i \in 1..Len(l), NEW j \in 1..Len(l), l[i] = l[j] PROVE i = j BY DEF Once
  <2> DEFINE at(n) == IF n < k THEN n ELSE n - 1
  <2>1. /\ i # k => at(i) \in 1..Len(list) /\ l[i] = list[at(i)]
        /\ j # k => at(j) \in 1..Len(list) /\ l[j] = list[at(j)]
        /\ l[k] = e
    BY <1>1, <1>7, <1>8
  <2>2. \A n \in 1..Len(list) : list[n] # e BY <1>10 DEF OnList
  <2>3. CASE i = k \/ j = k BY <2>1, <2>2, <2>3
  <2>4. CASE i # k /\ j # k
    <3>1. at(i) = at(j) BY <1>10, <2>1, <2>4 DEF Once
    <3> QED BY <1>1, <1>7, <2>4, <3>1
  <2> QED BY <2>3, <2>4
<1> QED BY <1>7, <1>8, <1>9, <1>10 DEF l

\* What fires is in order, and nothing of it is dirty, before an event is put in.
Missing(s, e) ==
  /\ s \in Schedulers /\ ~s.halted /\ s.evt[e].state = "QUEUED" /\ ~OnList(s.fire, e)
  /\ \A d \in EVENTS : OnList(s.fire, d) \/ d = e <=> s.evt[d].state \in FireStates
  /\ \A d \in EVENTS : OnList(s.add, d) <=> s.evt[d].state \in AddStates
  /\ Once(s.fire) /\ Once(s.add)
  /\ Tallies(s.evt, s.dirty) /\ DirtyEvents(s.evt) = {}
  /\ Sorted(s.evt, s.fire)

\* What fires is in order when nothing of it is dirty.
LEMMA QueuedInOrder ==
  ASSUME NEW s \in Schedulers, Sorted(s.evt, s.fire), DirtyEvents(s.evt) = {},
         \A d \in EVENTS : OnList(s.fire, d) => s.evt[d].state \in FireStates
  PROVE  /\ \A i \in 1..Len(s.fire) : s.evt[s.fire[i]].state = "QUEUED"
         /\ \A i, j \in 1..Len(s.fire) :
              i <= j => s.evt[s.fire[i]].time <= s.evt[s.fire[j]].time
<1>1. ASSUME NEW i \in 1..Len(s.fire) PROVE s.evt[s.fire[i]].state = "QUEUED"
  <2>1. s.fire[i] \in EVENTS /\ OnList(s.fire, s.fire[i]) BY SchedulerParts DEF OnList
  <2> QED BY <2>1 DEF DirtyEvents, IsDirty, FireStates
<1>2. ASSUME NEW i \in 1..Len(s.fire), NEW j \in 1..Len(s.fire), i <= j
      PROVE  s.evt[s.fire[i]].time <= s.evt[s.fire[j]].time
  <2>1. s.fire[i] \in EVENTS /\ s.evt[s.fire[i]].time \in Int BY SchedulerParts
  <2>2. CASE i = j BY <2>1, <2>2
  <2>3. CASE i # j
    <3>1. i < j BY <1>2, <2>3, SchedulerParts
    <3> QED BY <1>1, <3>1 DEF Sorted
  <2> QED BY <2>2, <2>3
<1> QED BY <1>1, <1>2

\* The place is between what is not younger and what is not older.
LEMMA PlaceSplits ==
  ASSUME NEW s \in Schedulers, NEW e \in EVENTS,
         \A i, j \in 1..Len(s.fire) : i <= j => s.evt[s.fire[i]].time <= s.evt[s.fire[j]].time
  PROVE  /\ Place(s, e) \in 1..(Len(s.fire) + 1)
         /\ \A i \in 1..Len(s.fire) :
              IF i < Place(s, e) THEN s.evt[s.fire[i]].time <= s.evt[e].time
              ELSE s.evt[e].time <= s.evt[s.fire[i]].time
<1> DEFINE n == Len(s.fire)
           k == Place(s, e)
           at(i) == s.evt[s.fire[i]].time
           time == s.evt[e].time
<1>1. n \in Nat /\ time \in Int /\ (s.fire = <<>> <=> n = 0) BY SchedulerParts
<1>2. \A i \in 1..n : at(i) \in Int BY SchedulerParts
<1>3. \A i, j \in 1..n : i <= j => at(i) <= at(j) OBVIOUS
<1>4. CASE s.fire = <<>> \/ Older(s, e, s.fire[1])
  <2>1. k = 1 BY <1>4 DEF Place
  <2>2. n = 0 \/ time < at(1) BY <1>1, <1>4 DEF Older
  <2> HIDE DEF n, k, at, time
  <2>3. ASSUME NEW i \in 1..n PROVE ~(i < k) /\ time <= at(i)
    <3>1. 1 \in 1..n /\ 1 <= i /\ time < at(1) BY <1>1, <2>2
    <3>2. at(1) <= at(i) /\ at(1) \in Int /\ at(i) \in Int BY <1>2, <1>3, <3>1
    <3> QED BY <1>1, <2>1, <3>1, <3>2
  <2>4. k \in 1..(n + 1) BY <1>1, <2>1
  <2> QED BY <2>3, <2>4 DEF n, k, at, time
<1>5. CASE ~(s.fire = <<>> \/ Older(s, e, s.fire[1]))
  <2> DEFINE IsPlace(p) == /\ \A i \in 2..(p - 1) : Older(s, s.fire[i], e)
                           /\ p <= n => ~Older(s, s.fire[p], e)
             T == {p \in 2..(n + 1) : p <= n => ~Older(s, s.fire[p], e)}
  <2>1. n >= 1 /\ ~(time < at(1)) BY <1>1, <1>5 DEF Older
  <2>2. n + 1 \in T BY <1>1, <2>1
  <2>3. T \in SUBSET Nat BY <1>1
  <2>4. PICK p \in T : \A q \in T : p <= q BY <2>2, <2>3, LeastNumber
  <2>5. p \in 2..(n + 1) /\ IsPlace(p)
    <3>1. p \in 2..(n + 1) /\ (p <= n => ~Older(s, s.fire[p], e)) BY <2>4
    <3>2. ASSUME NEW i \in 2..(p - 1) PROVE Older(s, s.fire[i], e)
      <4>1. i \in 2..(n + 1) /\ ~(p <= i) BY <1>1, <3>1
      <4> QED BY <2>4, <4>1
    <3> QED BY <3>1, <3>2
  <2>6. k = CHOOSE q \in 2..(n + 1) : IsPlace(q) BY <1>5 DEF Place
  <2>7. k \in 2..(n + 1) /\ IsPlace(k) BY <2>5, <2>6
  <2>8. /\ k \in 2..(n + 1)
        /\ \A i \in 2..(k - 1) : at(i) < time
        /\ k <= n => ~(at(k) < time)
    BY <2>7 DEF Older
  <2> HIDE DEF n, k, at, time, T, IsPlace
  <2>9. ASSUME NEW i \in 1..n PROVE IF i < k THEN at(i) <= time ELSE time <= at(i)
    <3>1. CASE i < k
      <4>1. CASE i = 1 BY <1>1, <1>2, <2>1, <3>1, <4>1
      <4>2. CASE i # 1
        <5>1. i \in 2..(k - 1) BY <1>1, <2>8, <3>1, <4>2
        <5> QED BY <1>1, <1>2, <2>8, <3>1, <5>1
      <4> QED BY <4>1, <4>2
    <3>2. CASE ~(i < k)
      <4>1. k \in 1..n /\ k <= i BY <1>1, <2>8, <3>2
      <4>2. at(k) <= at(i) /\ ~(at(k) < time) /\ at(k) \in Int /\ at(i) \in Int
        BY <1>2, <1>3, <2>8, <4>1
      <4> QED BY <1>1, <3>2, <4>2
    <3> QED BY <3>1, <3>2
  <2>10. k \in 1..(n + 1) BY <1>1, <2>8
  <2> QED BY <2>9, <2>10 DEF n, k, at, time
<1> QED BY <1>4, <1>5

\* The event that is missing is put in its place.
LEMMA Inserting ==
  ASSUME NEW s, NEW e \in EVENTS, Missing(s, e)
  PROVE  Lists(AddEvt(s, e)) /\ AddEvt(s, e).add = s.add /\ DirtyEvents(AddEvt(s, e).evt) = {}
<1> DEFINE k == Place(s, e)
           l == InsertedAt(s.fire, k, e)
           t == AddEvt(s, e)
<1>1. s \in Schedulers /\ s.fire \in Seq(EVENTS) /\ Len(s.fire) \in Nat BY SchedulerParts DEF Missing
<1>2. /\ \A i \in 1..Len(s.fire) : s.evt[s.fire[i]].state = "QUEUED"
      /\ \A i, j \in 1..Len(s.fire) : i <= j => s.evt[s.fire[i]].time <= s.evt[s.fire[j]].time
  BY <1>1, QueuedInOrder DEF Missing
<1>3. /\ k \in 1..(Len(s.fire) + 1)
      /\ \A i \in 1..Len(s.fire) : IF i < k THEN s.evt[s.fire[i]].time <= s.evt[e].time
                                   ELSE s.evt[e].time <= s.evt[s.fire[i]].time
  BY <1>1, <1>2, PlaceSplits
<1> HIDE DEF k
<1>4. /\ l \in Seq(EVENTS) /\ Len(l) = Len(s.fire) + 1
      /\ \A i \in 1..Len(l) : l[i] = IF i < k THEN s.fire[i] ELSE IF i = k THEN e ELSE s.fire[i - 1]
      /\ \A d \in EVENTS : OnList(l, d) <=> OnList(s.fire, d) \/ d = e
      /\ Once(s.fire) /\ ~OnList(s.fire, e) => Once(l)
  BY <1>1, <1>3, InsertingAt
<1> HIDE DEF l
<1>5. t = [s EXCEPT !.fire = l] BY DEF AddEvt, l, k
<1>6. t \in Schedulers BY <1>1, <1>4, <1>5 DEF Schedulers
<1>7. t.evt = s.evt /\ t.fire = l /\ t.add = s.add /\ t.dirty = s.dirty /\ t.halted = s.halted
  BY <1>1, <1>5 DEF Schedulers
<1> HIDE DEF t
<1>8. Sorted(s.evt, l)
  <2> SUFFICES ASSUME NEW i \in 1..Len(l), NEW j \in 1..Len(l), i < j
               PROVE  s.evt[l[i]].time <= s.evt[l[j]].time
    BY DEF Sorted
  <2>1. CASE i < k /\ j < k
    <3>1. i \in 1..Len(s.fire) /\ j \in 1..Len(s.fire) /\ i <= j BY <1>1, <1>3, <1>4, <2>1
    <3> QED BY <1>2, <1>4, <2>1, <3>1
  <2>2. CASE i < k /\ j = k
    <3>1. i \in 1..Len(s.fire) /\ ~(k < k) BY <1>1, <1>3, <1>4, <2>2
    <3> QED BY <1>3, <1>4, <2>2, <3>1
  <2>3. CASE i < k /\ j > k
    <3>1. i \in 1..Len(s.fire) /\ j - 1 \in 1..Len(s.fire) /\ i <= j - 1 /\ ~(j < k) /\ j # k
      BY <1>1, <1>3, <1>4, <2>3
    <3>2. l[i] = s.fire[i] /\ l[j] = s.fire[j - 1] BY <1>4, <2>3, <3>1
    <3> QED BY <1>2, <3>1, <3>2
  <2>4. CASE i = k /\ j > k
    <3>1. j - 1 \in 1..Len(s.fire) /\ ~(j - 1 < k) /\ ~(j < k) /\ j # k /\ ~(k < k)
      BY <1>1, <1>3, <1>4, <2>4
    <3>2. l[i] = e /\ l[j] = s.fire[j - 1] BY <1>4, <2>4, <3>1
    <3> QED BY <1>3, <3>1, <3>2
  <2>5. CASE i > k /\ j > k
    <3>1. /\ i - 1 \in 1..Len(s.fire) /\ j - 1 \in 1..Len(s.fire) /\ i - 1 <= j - 1
          /\ ~(j < k) /\ j # k /\ ~(i < k) /\ i # k
      BY <1>1, <1>3, <1>4, <2>5
    <3>2. l[i] = s.fire[i - 1] /\ l[j] = s.fire[j - 1] BY <1>4, <3>1
    <3> QED BY <1>2, <3>1, <3>2
  <2> QED BY <1>1, <1>3, <1>4, <2>1, <2>2, <2>3, <2>4, <2>5
<1>9. Lists(t) BY <1>4, <1>6, <1>7, <1>8 DEF Missing, Lists
<1>10. DirtyEvents(t.evt) = {} BY <1>7 DEF Missing
<1> QED BY <1>7, <1>9, <1>10 DEF t

\* Only the lists and the events matter.
LEMMA Frame ==
  ASSUME NEW s, Lists(s), NEW t \in Schedulers, t.evt = s.evt, t.fire = s.fire, t.add = s.add,
         t.dirty = s.dirty, t.halted = s.halted
  PROVE  Lists(t)
BY DEF Lists

\* The state of an event is set.
LEMMA SettingEvent ==
  ASSUME NEW s \in Schedulers, NEW e \in EVENTS, NEW state \in EventStates
  PROVE  IsChanged(SetEvent(s, e, state), s, e, [state |-> state, time |-> s.evt[e].time],
                   s.fire, s.add, s.dirty)
<1> DEFINE v == [state |-> state, time |-> s.evt[e].time]
           evt == [s.evt EXCEPT ![e] = v]
           t == SetEvent(s, e, state)
<1>1. s.evt[e] \in [state : EventStates, time : Int] BY SchedulerParts
<1>2. [s.evt[e] EXCEPT !.state = state] = v BY <1>1
<1>3. t = [s EXCEPT !.evt = evt] BY <1>2 DEF SetEvent, Schedulers
<1>4. v \in [state : EventStates, time : Int] BY <1>1
<1>5. evt \in [EVENTS -> [state : EventStates, time : Int]] BY <1>4, SchedulerParts
<1> HIDE DEF evt, t
<1>6. t \in Schedulers BY <1>3, <1>5 DEF Schedulers
<1>7. t.evt = evt /\ t.halted = s.halted /\ t.fire = s.fire /\ t.add = s.add /\ t.dirty = s.dirty
  BY <1>3 DEF Schedulers
<1> QED BY <1>6, <1>7 DEF IsChanged, evt, t

\* The time of an event is set.
LEMMA SettingTime ==
  ASSUME NEW s \in Schedulers, NEW e \in EVENTS, NEW time \in Int
  PROVE  IsChanged([s EXCEPT !.evt[e].time = time], s, e,
                   [state |-> s.evt[e].state, time |-> time], s.fire, s.add, s.dirty)
<1> DEFINE v == [state |-> s.evt[e].state, time |-> time]
           evt == [s.evt EXCEPT ![e] = v]
           t == [s EXCEPT !.evt[e].time = time]
<1>1. s.evt[e] \in [state : EventStates, time : Int] BY SchedulerParts
<1>2. [s.evt[e] EXCEPT !.time = time] = v BY <1>1
<1>3. t = [s EXCEPT !.evt = evt] BY <1>2 DEF Schedulers
<1>4. v \in [state : EventStates, time : Int] BY <1>1
<1>5. evt \in [EVENTS -> [state : EventStates, time : Int]] BY <1>4, SchedulerParts
<1> HIDE DEF evt, t
<1>6. t \in Schedulers BY <1>3, <1>5 DEF Schedulers
<1>7. t.evt = evt /\ t.halted = s.halted /\ t.fire = s.fire /\ t.add = s.add /\ t.dirty = s.dirty
  BY <1>3 DEF Schedulers
<1> QED BY <1>6, <1>7 DEF IsChanged, evt, t

\* An event that is in no list goes to the add list, and the others stay as they are.
LEMMA ToAddListKeeps ==
  ASSUME NEW s, Lists(s), NEW e \in EVENTS, s.evt[e].state \in {"UNUSED", "IN_CALLBACK"}
  PROVE  /\ Lists(ToAddList(s, e)) /\ ToAddList(s, e).evt[e].state = "ADDED"
         /\ \A d \in EVENTS : d # e => ToAddList(s, e).evt[d] = s.evt[d]
<1> DEFINE v == [state |-> "ADDED", time |-> s.evt[e].time]
           u == SetEvent(s, e, "ADDED")
           t == ToAddList(s, e)
           add == <<e>> \o s.add
<1>1. s \in Schedulers /\ ~s.halted BY DEF Lists
<1>2. IsChanged(u, s, e, v, s.fire, s.add, s.dirty) BY <1>1, SettingEvent DEF EventStates
<1>3. u \in Schedulers /\ ~u.halted /\ u.add = s.add BY <1>1, <1>2 DEF IsChanged
<1>4. t = [[u EXCEPT !.halted = @ \/ ~(EventState(s, e) \in {"UNUSED", "IN_CALLBACK"})]
             EXCEPT !.add = add]
  BY <1>3 DEF ToAddList, Asserts, Schedulers
<1> HIDE DEF u, t
<1>5. t = [u EXCEPT !.add = add]
  <2>1. (u.halted \/ ~(EventState(s, e) \in {"UNUSED", "IN_CALLBACK"})) = u.halted
    BY <1>3 DEF EventState, Schedulers
  <2>2. [u EXCEPT !.halted = @ \/ ~(EventState(s, e) \in {"UNUSED", "IN_CALLBACK"})] = u
    BY <1>3, <2>1 DEF Schedulers
  <2> QED BY <1>4, <2>2
<1>6. add \in Seq(EVENTS) BY <1>1, SchedulerParts
<1> HIDE DEF add
<1>7. t \in Schedulers BY <1>3, <1>5, <1>6 DEF Schedulers
<1>8. t.evt = u.evt /\ t.fire = u.fire /\ t.add = add /\ t.dirty = u.dirty /\ t.halted = u.halted
  BY <1>3, <1>5 DEF Schedulers
<1>9. IsChanged(t, s, e, v, s.fire, <<e>> \o s.add, s.dirty)
  BY <1>2, <1>7, <1>8 DEF IsChanged, add
<1>10. t.evt[e] = v /\ \A d \in EVENTS : d # e => t.evt[d] = s.evt[d] BY <1>1, <1>9, ChangedParts
<1>11. v.state = "ADDED" OBVIOUS
<1> HIDE DEF v
<1>12. Lists(t) BY <1>9, <1>11, AddingToList
<1> QED BY <1>10, <1>11, <1>12 DEF t

\* What is dirty and counted leaves the fire list.
LEMMA CleanedKeeps ==
  ASSUME NEW t, Lists(t), NEW e \in EVENTS
  PROVE  /\ Lists(Cleaned(t, e))
         /\ DirtyEvents(Cleaned(t, e).evt) \subseteq DirtyEvents(t.evt) \ {e}
<1>1. t \in Schedulers /\ Tallies(t.evt, t.dirty) /\ t.dirty \in Nat /\ ~t.halted
  BY SchedulerParts DEF Lists
<1>2. CASE t.dirty = 0 \/ ~IsDirty(EventState(t, e))
  <2>1. Cleaned(t, e) = t BY <1>2 DEF Cleaned, IsDirty
  <2>2. CASE t.dirty = 0
    <3>1. DirtyEvents(t.evt) = {} BY <1>1, <2>2, FS_EmptySet DEF Tallies
    <3> QED BY <2>1, <3>1
  <2>3. CASE ~IsDirty(EventState(t, e)) BY <2>1, <2>3 DEF DirtyEvents, EventState
  <2> QED BY <1>2, <2>2, <2>3
<1>3. CASE t.dirty # 0 /\ IsDirty(EventState(t, e))
  <2> DEFINE l == TakenOut(t.fire, e)
             v == [state |-> "UNUSED", time |-> t.evt[e].time]
             w == SetEvent(t, e, "UNUSED")
             u == [w EXCEPT !.fire = TakenOut(@, e), !.dirty = @ - 1]
             n == t.dirty - 1
  <2>1. t.fire \in Seq(EVENTS) /\ Len(t.fire) \in Nat /\ n \in Nat BY <1>1, <1>3, SchedulerParts
  <2>2. t.evt[e].state \in {"RESCHEDULED", "ABORTED"} BY <1>3 DEF IsDirty, EventState
  <2>3. OnList(t.fire, e) /\ Once(t.fire) BY <2>2 DEF Lists, FireStates
  <2>4. /\ l \in Seq(EVENTS) /\ Once(l)
        /\ \A d \in EVENTS : OnList(l, d) <=> OnList(t.fire, d) /\ d # e
    BY <2>1, <2>3, TakingOut
  <2>5. PICK k \in 1..Len(t.fire) :
          /\ Len(l) = Len(t.fire) - 1 /\ t.fire[k] = e
          /\ \A i \in 1..Len(l) : l[i] = IF i < k THEN t.fire[i] ELSE t.fire[i + 1]
    BY <2>1, <2>3, TakingOut
  <2> HIDE DEF l
  <2>6. IsChanged(w, t, e, v, t.fire, t.add, t.dirty) BY <1>1, SettingEvent DEF EventStates
  <2>7. /\ w \in Schedulers /\ w.evt = [t.evt EXCEPT ![e] = v] /\ w.halted = t.halted
        /\ w.fire = t.fire /\ w.add = t.add /\ w.dirty = t.dirty
    BY <2>6 DEF IsChanged
  <2>8. w.evt[e] = v /\ \A d \in EVENTS : d # e => w.evt[d] = t.evt[d] BY <1>1, <2>6, ChangedParts
  <2> HIDE DEF w
  <2>9. u = [w EXCEPT !.fire = l, !.dirty = n] BY <2>7 DEF l
  <2> HIDE DEF u, n
  <2>10. u \in Schedulers BY <2>1, <2>4, <2>7, <2>9 DEF Schedulers
  <2>11. u.evt = w.evt /\ u.fire = l /\ u.add = t.add /\ u.dirty = n /\ ~u.halted
    BY <1>1, <2>7, <2>9 DEF Schedulers
  <2>12. v.state = "UNUSED" /\ ~IsDirty(v.state) BY DEF IsDirty
  <2> HIDE DEF v
  <2>13. u.evt[e] = v /\ \A d \in EVENTS : d # e => u.evt[d] = t.evt[d] BY <2>8, <2>11
  <2>14. DirtyEvents(u.evt) = DirtyEvents(t.evt) \ {e} BY <2>12, <2>13 DEF DirtyEvents
  <2>15. Lists(u)
    <3>1. Tallies(u.evt, u.dirty)
      <4>1. IsDirty(t.evt[e].state) /\ ~IsDirty(u.evt[e].state) BY <1>3, <2>12, <2>13 DEF EventState
      <4>2. Tallies(u.evt, t.dirty - 1) BY <1>1, <2>10, <2>13, <4>1, Tallying
      <4> QED BY <2>11, <4>2 DEF n
    <3>2. /\ \A d \in EVENTS : OnList(u.fire, d) <=> u.evt[d].state \in FireStates
          /\ \A d \in EVENTS : OnList(u.add, d) <=> u.evt[d].state \in AddStates
      BY <2>2, <2>4, <2>11, <2>12, <2>13 DEF Lists, FireStates, AddStates
    <3>3. Sorted(u.evt, u.fire)
      <4> SUFFICES ASSUME NEW i \in 1..Len(l), NEW j \in 1..Len(l), i < j,
                          u.evt[l[i]].state = "QUEUED", u.evt[l[j]].state = "QUEUED"
                   PROVE  u.evt[l[i]].time <= u.evt[l[j]].time
        BY <2>11 DEF Sorted
      <4> DEFINE at(m) == IF m < k THEN m ELSE m + 1
      <4>1. at(i) \in 1..Len(t.fire) /\ at(j) \in 1..Len(t.fire) /\ at(i) < at(j) BY <2>1, <2>5
      <4>2. l[i] = t.fire[at(i)] /\ l[j] = t.fire[at(j)] BY <2>5
      <4> HIDE DEF at
      <4>3. l[i] \in EVENTS /\ l[j] \in EVENTS BY <1>1, <4>1, <4>2, SchedulerParts
      <4>4. l[i] # e /\ l[j] # e BY <2>12, <2>13
      <4>5. u.evt[l[i]] = t.evt[l[i]] /\ u.evt[l[j]] = t.evt[l[j]] BY <2>13, <4>3, <4>4
      <4>6. Sorted(t.evt, t.fire) BY DEF Lists
      <4> QED BY <4>1, <4>2, <4>5, <4>6 DEF Sorted
    <3>4. Once(u.fire) /\ Once(u.add) BY <2>4, <2>11 DEF Lists
    <3> QED BY <2>10, <2>11, <3>1, <3>2, <3>3, <3>4 DEF Lists
  <2>16. CASE EventState(t, e) = "ABORTED"
    <3>1. Cleaned(t, e) = u BY <1>3, <2>16 DEF Cleaned, u, w
    <3> QED BY <2>14, <2>15, <3>1
  <2>17. CASE EventState(t, e) = "RESCHEDULED"
    <3>1. Cleaned(t, e) = ToAddList(u, e) BY <1>3, <2>17 DEF Cleaned, u, w
    <3>2. /\ Lists(ToAddList(u, e)) /\ ToAddList(u, e).evt[e].state = "ADDED"
          /\ \A d \in EVENTS : d # e => ToAddList(u, e).evt[d] = u.evt[d]
      BY <2>12, <2>13, <2>15, ToAddListKeeps
    <3>3. DirtyEvents(ToAddList(u, e).evt) = DirtyEvents(t.evt) \ {e}
      BY <2>13, <3>2 DEF DirtyEvents, IsDirty
    <3> QED BY <3>1, <3>2, <3>3
  <2> QED BY <2>2, <2>16, <2>17 DEF EventState
<1> QED BY <1>2, <1>3

\* What is left of a list without its first.
LEMMA Popping ==
  ASSUME NEW S, NEW list \in Seq(S), list # <<>>, Once(list)
  PROVE  LET e == Head(list)
             l == Tail(list)
         IN  /\ e \in S /\ e = list[1] /\ OnList(list, e)
             /\ l \in Seq(S) /\ Len(l) = Len(list) - 1 /\ Once(l)
             /\ \A i \in 1..Len(l) : l[i] = list[i + 1] /\ i + 1 \in 1..Len(list)
             /\ \A d \in S : OnList(l, d) <=> OnList(list, d) /\ d # e
<1> DEFINE e == Head(list)
           l == Tail(list)
<1>1. /\ Len(list) \in Nat /\ Len(list) >= 1 /\ e \in S /\ e = list[1]
      /\ l \in Seq(S) /\ Len(l) = Len(list) - 1 /\ \A i \in 1..Len(l) : l[i] = list[i + 1]
  OBVIOUS
<1> HIDE DEF e, l
<1>2. OnList(list, e)
  <2>1. 1 \in 1..Len(list) BY <1>1
  <2> QED BY <1>1, <2>1 DEF OnList
<1>3. \A i \in 1..Len(l) : i + 1 \in 1..Len(list) BY <1>1
<1>4. Once(l)
  <2> SUFFICES ASSUME NEW i \in 1..Len(l), NEW j \in 1..Len(l), l[i] = l[j] PROVE i = j BY DEF Once
  <2>1. i + 1 = j + 1 BY <1>1, <1>3 DEF Once
  <2> QED BY <2>1
<1>5. ASSUME NEW d \in S, NEW i \in 1..Len(l), l[i] = d PROVE OnList(list, d) /\ d # e
  <2>1. i + 1 \in 1..Len(list) /\ 1 \in 1..Len(list) /\ i + 1 # 1 BY <1>1
  <2> QED BY <1>1, <1>5, <2>1 DEF OnList, Once
<1>6. ASSUME NEW d \in S, NEW i \in 1..Len(list), list[i] = d, d # e PROVE OnList(l, d)
  <2>1. i # 1 BY <1>1, <1>6
  <2>2. i - 1 \in 1..Len(l) /\ (i - 1) + 1 = i BY <1>1, <2>1
  <2> QED BY <1>1, <1>6, <2>2 DEF OnList
<1> QED BY <1>1, <1>2, <1>3, <1>4, <1>5, <1>6 DEF OnList, e, l

\* The first of the add list is put in its place, or is ignored.
LEMMA PlacedKeeps ==
  ASSUME NEW t, Lists(t), DirtyEvents(t.evt) = {}, t.add # <<>>
  PROVE  /\ Lists(Placed(t)) /\ DirtyEvents(Placed(t).evt) = {}
         /\ Len(Placed(t).add) = Len(t.add) - 1
<1> DEFINE e == Head(t.add)
           add == Tail(t.add)
           u == [t EXCEPT !.add = Tail(@)]
<1>1. t \in Schedulers /\ ~t.halted /\ t.add \in Seq(EVENTS) /\ Len(t.add) \in Nat
  BY SchedulerParts DEF Lists
<1>2. Once(t.add) BY DEF Lists
<1>3. /\ e \in EVENTS /\ OnList(t.add, e) /\ add \in Seq(EVENTS) /\ Len(add) = Len(t.add) - 1
      /\ Once(add) /\ \A d \in EVENTS : OnList(add, d) <=> OnList(t.add, d) /\ d # e
  BY <1>1, <1>2, Popping
<1> HIDE DEF e, add
<1>4. t.evt[e].state \in AddStates /\ ~OnList(t.fire, e) BY <1>3 DEF Lists, AddStates, FireStates
<1>5. Once(add) /\ \A d \in EVENTS : OnList(add, d) <=> OnList(t.add, d) /\ d # e BY <1>3
<1>6. u = [t EXCEPT !.add = add] BY <1>1 DEF add
<1> HIDE DEF u
<1>7. u \in Schedulers BY <1>1, <1>3, <1>6 DEF Schedulers
<1>8. u.evt = t.evt /\ u.fire = t.fire /\ u.add = add /\ u.dirty = t.dirty /\ ~u.halted
  BY <1>1, <1>6 DEF Schedulers
<1>9. CASE EventState(t, e) = "IGNORED"
  <2> DEFINE v == [state |-> "UNUSED", time |-> t.evt[e].time]
             w == SetEvent(u, e, "UNUSED")
  <2>1. Placed(t) = w BY <1>9 DEF Placed, e, u
  <2>2. IsChanged(w, u, e, v, u.fire, u.add, u.dirty)
    BY <1>3, <1>7, <1>8, SettingEvent DEF EventStates
  <2>3. w \in Schedulers /\ ~w.halted /\ w.fire = t.fire /\ w.add = add /\ w.dirty = t.dirty
    BY <1>8, <2>2 DEF IsChanged
  <2>4. w.evt[e] = v /\ \A d \in EVENTS : d # e => w.evt[d] = t.evt[d]
    BY <1>3, <1>7, <1>8, <2>2, ChangedParts
  <2>5. v.state = "UNUSED" OBVIOUS
  <2> HIDE DEF v, w
  <2>6. /\ \A d \in EVENTS : OnList(w.fire, d) <=> w.evt[d].state \in FireStates
        /\ \A d \in EVENTS : OnList(w.add, d) <=> w.evt[d].state \in AddStates
    BY <1>4, <1>5, <2>3, <2>4, <2>5 DEF Lists, FireStates, AddStates
  <2>7. DirtyEvents(w.evt) = DirtyEvents(t.evt)
    BY <1>4, <2>4, <2>5 DEF DirtyEvents, IsDirty, AddStates
  <2>8. Tallies(w.evt, w.dirty) BY <2>3, <2>7 DEF Lists, Tallies
  <2>9. Sorted(w.evt, w.fire)
    <3>1. \A i \in 1..Len(t.fire) : w.evt[t.fire[i]] = t.evt[t.fire[i]]
      BY <1>1, <1>4, <2>4, SchedulerParts DEF OnList
    <3>2. Sorted(t.evt, t.fire) BY DEF Lists
    <3> QED BY <1>1, <2>3, <3>1, <3>2, StillSorted
  <2>10. Lists(w) BY <1>5, <2>3, <2>6, <2>8, <2>9 DEF Lists
  <2> QED BY <1>3, <2>1, <2>3, <2>7, <2>10
<1>10. CASE EventState(t, e) # "IGNORED"
  <2> DEFINE v == [state |-> "QUEUED", time |-> t.evt[e].time]
             a == Asserts(u, EventState(t, e) = "ADDED")
             w == SetEvent(a, e, "QUEUED")
  <2>1. Placed(t) = AddEvt(w, e) BY <1>10 DEF Placed, e, u
  <2>2. EventState(t, e) = "ADDED" BY <1>4, <1>10 DEF AddStates, EventState
  <2>3. a = u
    <3>1. a = [u EXCEPT !.halted = @] BY <1>7, <1>8, <2>2 DEF Asserts, Schedulers
    <3> QED BY <1>7, <3>1 DEF Schedulers
  <2>4. IsChanged(w, u, e, v, u.fire, u.add, u.dirty)
    BY <1>3, <1>7, <1>8, <2>3, SettingEvent DEF EventStates
  <2>5. w \in Schedulers /\ ~w.halted /\ w.fire = t.fire /\ w.add = add /\ w.dirty = t.dirty
    BY <1>8, <2>4 DEF IsChanged
  <2>6. w.evt[e] = v /\ \A d \in EVENTS : d # e => w.evt[d] = t.evt[d]
    BY <1>3, <1>7, <1>8, <2>4, ChangedParts
  <2>7. v.state = "QUEUED" OBVIOUS
  <2> HIDE DEF v, w, a
  <2>8. /\ \A d \in EVENTS : OnList(w.fire, d) \/ d = e <=> w.evt[d].state \in FireStates
        /\ \A d \in EVENTS : OnList(w.add, d) <=> w.evt[d].state \in AddStates
    BY <1>4, <1>5, <2>5, <2>6, <2>7 DEF Lists, FireStates, AddStates
  <2>9. DirtyEvents(w.evt) = DirtyEvents(t.evt)
    BY <1>4, <2>6, <2>7 DEF DirtyEvents, IsDirty, AddStates
  <2>10. Tallies(w.evt, w.dirty) BY <2>5, <2>9 DEF Lists, Tallies
  <2>11. Sorted(w.evt, w.fire)
    <3>1. \A i \in 1..Len(t.fire) : w.evt[t.fire[i]] = t.evt[t.fire[i]]
      BY <1>1, <1>4, <2>6, SchedulerParts DEF OnList
    <3>2. Sorted(t.evt, t.fire) BY DEF Lists
    <3> QED BY <1>1, <2>5, <3>1, <3>2, StillSorted
  <2>12. Missing(w, e)
    <3>1. Once(w.fire) /\ Once(w.add) /\ ~OnList(w.fire, e) BY <1>4, <1>5, <2>5 DEF Lists
    <3> QED BY <1>3, <2>5, <2>6, <2>7, <2>8, <2>9, <2>10, <2>11, <3>1 DEF Missing
  <2>13. /\ Lists(AddEvt(w, e)) /\ AddEvt(w, e).add = w.add
         /\ DirtyEvents(AddEvt(w, e).evt) = {}
    BY <1>3, <2>12, Inserting
  <2> QED BY <1>3, <2>1, <2>5, <2>13
<1> QED BY <1>9, <1>10

\* A turn of the loop over the fire list, and of that over the add list.
Turn(t, list, n, cleaning) == IF cleaning THEN Cleaned(t, list[n]) ELSE Placed(t)

\* The first m turns of a loop.
IsLoopOf(f, m, b, list, cleaning) ==
  f = [n \in 0..m |-> IF n = 0 THEN b ELSE Turn(f[n - 1], list, n, cleaning)]

\* A loop can take any number of turns.
LEMMA LoopsExist ==
  ASSUME NEW b, NEW list, NEW cleaning, NEW m \in Nat
  PROVE  \E f : IsLoopOf(f, m, b, list, cleaning)
<1> DEFINE Runs(k) == \E f : IsLoopOf(f, k, b, list, cleaning)
           T == {k \in Nat : ~Runs(k)}
<1>1. ASSUME T # {} PROVE FALSE
  <2>1. PICK k \in T : \A j \in T : k <= j
    <3> HIDE DEF Runs
    <3> QED BY <1>1, LeastNumber
  <2>2. CASE k = 0
    <3> DEFINE f == [n \in 0..k |-> b]
    <3>1. f = [n \in 0..k |-> IF n = 0 THEN b ELSE Turn(f[n - 1], list, n, cleaning)] BY <2>2
    <3>2. Runs(k) BY <3>1 DEF IsLoopOf
    <3> QED BY <3>2
  <2>3. CASE k # 0
    <3>1. k \in Nat /\ k - 1 \in Nat /\ k - 1 < k BY <2>3
    <3>2. Runs(k - 1)
      <4> HIDE DEF Runs
      <4>1. k - 1 \notin T BY <2>1, <3>1
      <4> QED BY <3>1, <4>1
    <3>3. PICK g : g = [n \in 0..(k - 1) |-> IF n = 0 THEN b ELSE Turn(g[n - 1], list, n, cleaning)]
      BY <3>2 DEF IsLoopOf
    <3> DEFINE f == [n \in 0..k |-> IF n = k THEN Turn(g[k - 1], list, k, cleaning) ELSE g[n]]
    <3>4. f = [n \in 0..k |-> IF n = 0 THEN b ELSE Turn(f[n - 1], list, n, cleaning)]
      <4>1. ASSUME NEW n \in 0..k
            PROVE  f[n] = IF n = 0 THEN b ELSE Turn(f[n - 1], list, n, cleaning)
        <5>1. CASE n = k
          <6>1. n # 0 /\ n - 1 \in 0..k /\ n - 1 # k BY <2>3, <3>1, <5>1
          <6>2. f[n - 1] = g[k - 1] BY <5>1, <6>1
          <6> QED BY <5>1, <6>1, <6>2
        <5>2. CASE n # k /\ n = 0
          <6>1. n \in 0..(k - 1) BY <3>1, <5>2
          <6>2. g[n] = b BY <3>3, <5>2, <6>1
          <6> QED BY <5>2, <6>2
        <5>3. CASE n # k /\ n # 0
          <6>1. n \in 0..(k - 1) /\ n - 1 \in 0..k /\ n - 1 # k BY <3>1, <5>3
          <6>2. g[n] = Turn(g[n - 1], list, n, cleaning) BY <3>3, <5>3, <6>1
          <6>3. f[n - 1] = g[n - 1] BY <6>1
          <6> QED BY <5>3, <6>2, <6>3
        <5> QED BY <5>1, <5>2, <5>3
      <4> QED BY <4>1
    <3>5. Runs(k) BY <3>4 DEF IsLoopOf
    <3> QED BY <3>5
  <2> QED BY <2>2, <2>3
<1>2. Runs(m)
  <2> HIDE DEF Runs
  <2> QED BY <1>1
<1> QED BY <1>2

\* The loop over the fire list leaves nothing of it dirty.
LEMMA DirtyProcessed ==
  ASSUME NEW s, Lists(s)
  PROVE  Lists(ProcessDirty(s)) /\ DirtyEvents(ProcessDirty(s).evt) = {}
<1> DEFINE m == Len(s.fire)
           Rest(n) == {s.fire[j] : j \in (n + 1)..m}
           Run(f) == f = [i \in 0..m |-> IF i = 0 THEN s ELSE Cleaned(f[i - 1], s.fire[i])]
           c == CHOOSE f : Run(f)
<1>1. s \in Schedulers /\ m \in Nat /\ \A i \in 1..m : s.fire[i] \in EVENTS
  BY SchedulerParts DEF Lists
<1>2. ProcessDirty(s) = c[m] BY DEF ProcessDirty
<1>3. Run(c)
  <2>1. PICK f : IsLoopOf(f, m, s, s.fire, TRUE)
    <3> HIDE DEF m
    <3> QED BY <1>1, LoopsExist
  <2>2. Run(f) BY <2>1 DEF IsLoopOf, Turn
  <2> HIDE DEF Run
  <2> QED BY <2>2
<1> DEFINE All(n) == Lists(c[n]) /\ DirtyEvents(c[n].evt) \subseteq Rest(n)
           T == {n \in Nat : n <= m /\ ~All(n)}
<1> HIDE DEF c
<1>4. All(0)
  <2>1. c[0] = s BY <1>1, <1>3
  <2>2. ASSUME NEW e \in DirtyEvents(s.evt) PROVE e \in Rest(0)
    <3>1. e \in EVENTS /\ s.evt[e].state \in FireStates BY DEF DirtyEvents, IsDirty, FireStates
    <3>2. OnList(s.fire, e) BY <3>1 DEF Lists
    <3> QED BY <3>2 DEF OnList
  <2> QED BY <2>1, <2>2
<1>5. ASSUME NEW n \in Nat, n # 0, n <= m, All(n - 1) PROVE All(n)
  <2>1. n \in 0..m /\ n \in 1..m /\ s.fire[n] \in EVENTS BY <1>1, <1>5
  <2>2. c[n] = Cleaned(c[n - 1], s.fire[n]) BY <1>3, <1>5, <2>1
  <2> DEFINE t == c[n - 1]
             e == s.fire[n]
  <2>3. Lists(t) /\ e \in EVENTS BY <1>5, <2>1
  <2> HIDE DEF t, e
  <2>4. Lists(Cleaned(t, e)) /\ DirtyEvents(Cleaned(t, e).evt) \subseteq DirtyEvents(t.evt) \ {e}
    BY <2>3, CleanedKeeps
  <2>5. Rest(n - 1) \ {e} \subseteq Rest(n)
    <3> SUFFICES ASSUME NEW j \in ((n - 1) + 1)..m, s.fire[j] # e PROVE s.fire[j] \in Rest(n)
      OBVIOUS
    <3>1. j # n BY DEF e
    <3>2. j \in (n + 1)..m BY <1>1, <3>1
    <3> QED BY <3>2
  <2> HIDE DEF Rest
  <2>6. DirtyEvents(t.evt) \subseteq Rest(n - 1) BY <1>5 DEF t
  <2> QED BY <2>2, <2>4, <2>5, <2>6 DEF t, e
<1>6. ASSUME T # {} PROVE FALSE
  <2>1. \A n \in Nat : n # 0 /\ n <= m /\ All(n - 1) => All(n) BY <1>5
  <2> HIDE DEF All
  <2>2. PICK n \in T : \A j \in T : n <= j BY <1>6, LeastNumber
  <2>3. n \in Nat /\ n # 0 /\ n - 1 \in Nat /\ n <= m /\ n - 1 <= m /\ ~(n <= n - 1)
    BY <1>1, <1>4, <2>2
  <2>4. All(n - 1) BY <2>2, <2>3
  <2> QED BY <2>1, <2>2, <2>3, <2>4
<1>7. All(m)
  <2> HIDE DEF All
  <2> QED BY <1>1, <1>6
<1>8. Rest(m) = {} BY <1>1
<1> QED BY <1>2, <1>7, <1>8

\* The loop over the add list leaves nothing of it.
LEMMA AddListProcessed == ASSUME NEW s, Lists(s), DirtyEvents(s.evt) = {} PROVE Clean(ProcessAddList(s))
<1> DEFINE m == Len(s.add)
           Run(f) == f = [i \in 0..m |-> IF i = 0 THEN s ELSE Placed(f[i - 1])]
           c == CHOOSE f : Run(f)
<1>1. s \in Schedulers /\ m \in Nat BY SchedulerParts DEF Lists
<1>2. ProcessAddList(s) = c[m] BY DEF ProcessAddList
<1>3. Run(c)
  <2>1. PICK f : IsLoopOf(f, m, s, s.add, FALSE)
    <3> HIDE DEF m
    <3> QED BY <1>1, LoopsExist
  <2>2. Run(f) BY <2>1 DEF IsLoopOf, Turn
  <2> HIDE DEF Run
  <2> QED BY <2>2
<1> DEFINE All(n) == Lists(c[n]) /\ DirtyEvents(c[n].evt) = {} /\ Len(c[n].add) = m - n
           T == {n \in Nat : n <= m /\ ~All(n)}
<1> HIDE DEF c
<1>4. All(0)
  <2>1. c[0] = s BY <1>1, <1>3
  <2> QED BY <1>1, <2>1
<1>5. ASSUME NEW n \in Nat, n # 0, n <= m, All(n - 1) PROVE All(n)
  <2>1. n \in 0..m BY <1>1, <1>5
  <2>2. c[n] = Placed(c[n - 1]) BY <1>3, <1>5, <2>1
  <2> DEFINE t == c[n - 1]
  <2>3. Lists(t) /\ DirtyEvents(t.evt) = {} /\ Len(t.add) = m - (n - 1) BY <1>5
  <2> HIDE DEF t
  <2>4. t.add # <<>>
    <3>1. t.add \in Seq(EVENTS) /\ Len(t.add) > 0 BY <1>1, <1>5, <2>3, SchedulerParts DEF Lists
    <3> QED BY <3>1
  <2>5. /\ Lists(Placed(t)) /\ DirtyEvents(Placed(t).evt) = {}
        /\ Len(Placed(t).add) = Len(t.add) - 1
    BY <2>3, <2>4, PlacedKeeps
  <2>6. Len(t.add) - 1 = m - n BY <1>1, <2>3
  <2> QED BY <2>2, <2>5, <2>6 DEF t
<1>6. ASSUME T # {} PROVE FALSE
  <2>1. \A n \in Nat : n # 0 /\ n <= m /\ All(n - 1) => All(n) BY <1>5
  <2> HIDE DEF All
  <2>2. PICK n \in T : \A j \in T : n <= j BY <1>6, LeastNumber
  <2>3. n \in Nat /\ n # 0 /\ n - 1 \in Nat /\ n <= m /\ n - 1 <= m /\ ~(n <= n - 1)
    BY <1>1, <1>4, <2>2
  <2>4. All(n - 1) BY <2>2, <2>3
  <2> QED BY <2>1, <2>2, <2>3, <2>4
<1>7. All(m)
  <2> HIDE DEF All
  <2> QED BY <1>1, <1>6
<1>8. c[m].add = <<>>
  <2>1. c[m] \in Schedulers BY <1>7 DEF Lists
  <2>2. c[m].add \in Seq(EVENTS) /\ Len(c[m].add) = 0 BY <1>1, <1>7, <2>1, SchedulerParts
  <2> QED BY <2>2
<1> QED BY <1>2, <1>7, <1>8 DEF Clean

\* With nothing due the hardware timer is set up, and else the next callback runs.
LEMMA FiredKeeps == ASSUME NEW s, Clean(s) PROVE SchedulerInv(Fired(s))
<1> DEFINE t == Fired(s)
<1>1. s \in Schedulers /\ ~s.halted /\ Lists(s) /\ s.add = <<>> /\ DirtyEvents(s.evt) = {}
  BY DEF Clean, Lists
<1>2. s.fire \in Seq(EVENTS) /\ Len(s.fire) \in Nat BY <1>1, SchedulerParts
<1>3. CASE ~Due(s)
  <2>1. CASE s.fire = <<>>
    <3>1. t = [s EXCEPT !.calling = NoEvent] BY <1>3, <2>1 DEF Fired, SetupTimeout
    <3>2. /\ t \in Schedulers /\ t.evt = s.evt /\ t.fire = s.fire /\ t.add = s.add
          /\ t.dirty = s.dirty /\ t.halted = s.halted
      BY <1>1, <3>1 DEF Schedulers
    <3> HIDE DEF t
    <3>3. Lists(t) BY <1>1, <3>2, Frame
    <3>4. Clean(t) /\ Timed(t) BY <1>1, <2>1, <3>2, <3>3 DEF Clean, Timed
    <3> QED BY <3>3, <3>4 DEF SchedulerInv, t
  <2>2. CASE s.fire # <<>>
    <3> DEFINE time == s.evt[s.fire[1]].time
               hw == [on |-> TRUE, left |-> IF time > 0 THEN time ELSE 1]
    <3>1. t = [s EXCEPT !.hw = hw, !.calling = NoEvent]
      BY <1>1, <1>3, <2>2 DEF Fired, SetupTimeout, Schedulers
    <3>2. time \in Int
      <4>1. 1 \in 1..Len(s.fire) BY <1>2, <2>2
      <4> QED BY <1>1, <4>1, SchedulerParts
    <3> HIDE DEF time
    <3>3. hw \in [on : BOOLEAN, left : Int] /\ hw.on /\ (time > 0 => hw.left = time) BY <3>2
    <3> HIDE DEF hw
    <3>4. /\ t \in Schedulers /\ t.evt = s.evt /\ t.fire = s.fire /\ t.add = s.add
          /\ t.dirty = s.dirty /\ t.halted = s.halted /\ t.hw = hw
      BY <1>1, <3>1, <3>3 DEF Schedulers
    <3> HIDE DEF t
    <3>5. Lists(t) BY <1>1, <3>4, Frame
    <3>6. Timed(t) BY <3>2, <3>3, <3>4 DEF Timed, time
    <3>7. Clean(t) BY <1>1, <3>4, <3>5 DEF Clean
    <3> QED BY <3>5, <3>6, <3>7 DEF SchedulerInv, t
  <2> QED BY <2>1, <2>2
<1>4. CASE Due(s)
  <2> DEFINE e == Head(s.fire)
             l == Tail(s.fire)
             v == [state |-> "IN_CALLBACK", time |-> s.evt[e].time]
             w == SetEvent(s, e, "IN_CALLBACK")
  <2>1. s.fire # <<>> /\ Once(s.fire) BY <1>1, <1>4 DEF Due, Lists
  <2>2. /\ e \in EVENTS /\ OnList(s.fire, e) /\ l \in Seq(EVENTS) /\ Len(l) = Len(s.fire) - 1
        /\ Once(l) /\ \A d \in EVENTS : OnList(l, d) <=> OnList(s.fire, d) /\ d # e
        /\ \A i \in 1..Len(l) : l[i] = s.fire[i + 1] /\ i + 1 \in 1..Len(s.fire)
    BY <1>2, <2>1, Popping
  <2>3. s.evt[e].state = "QUEUED"
    BY <1>1, <2>2 DEF Lists, FireStates, DirtyEvents, IsDirty
  <2>4. IsChanged(w, s, e, v, s.fire, s.add, s.dirty) BY <1>1, <2>2, SettingEvent DEF EventStates
  <2>5. w \in Schedulers /\ ~w.halted /\ w.fire = s.fire /\ w.add = s.add /\ w.dirty = s.dirty
    BY <1>1, <2>4 DEF IsChanged
  <2>6. w.evt[e] = v /\ \A d \in EVENTS : d # e => w.evt[d] = s.evt[d]
    BY <1>1, <2>2, <2>4, ChangedParts
  <2>7. t = [Asserts(w, TRUE) EXCEPT !.fire = l, !.calling = e]
    BY <1>4, <2>3, <2>5 DEF Fired, Asserts, EventState, Schedulers
  <2>8. v.state = "IN_CALLBACK" OBVIOUS
  <2> HIDE DEF e, l, v, w
  <2>9. t = [w EXCEPT !.fire = l, !.calling = e] BY <2>5, <2>7 DEF Asserts, Schedulers
  <2> HIDE DEF t
  <2>10. t \in Schedulers BY <2>2, <2>5, <2>9 DEF Schedulers
  <2>11. /\ t.evt = w.evt /\ t.fire = l /\ t.add = <<>> /\ t.dirty = s.dirty /\ ~t.halted
         /\ t.calling = e
    BY <1>1, <2>5, <2>9 DEF Schedulers
  <2>12. /\ \A d \in EVENTS : OnList(t.fire, d) <=> t.evt[d].state \in FireStates
         /\ \A d \in EVENTS : OnList(t.add, d) <=> t.evt[d].state \in AddStates
    BY <1>1, <2>2, <2>3, <2>6, <2>8, <2>11 DEF Lists, FireStates, AddStates
  <2>13. DirtyEvents(t.evt) = DirtyEvents(s.evt) BY <2>3, <2>6, <2>8, <2>11 DEF DirtyEvents, IsDirty
  <2>14. Tallies(t.evt, t.dirty) BY <1>1, <2>11, <2>13 DEF Lists, Tallies
  <2>15. Once(t.add) BY <1>1, <2>11 DEF Lists
  <2>16. Sorted(t.evt, t.fire)
    <3> SUFFICES ASSUME NEW i \in 1..Len(l), NEW j \in 1..Len(l), i < j
                 PROVE  t.evt[l[i]].time <= t.evt[l[j]].time
      BY <2>11 DEF Sorted
    <3>1. /\ i + 1 \in 1..Len(s.fire) /\ j + 1 \in 1..Len(s.fire) /\ i + 1 <= j + 1
          /\ l[i] = s.fire[i + 1] /\ l[j] = s.fire[j + 1]
      BY <2>2
    <3>2. s.evt[s.fire[i + 1]].time <= s.evt[s.fire[j + 1]].time
      BY <1>1, <3>1, QueuedInOrder DEF Lists
    <3>3. l[i] \in EVENTS /\ l[j] \in EVENTS BY <2>2
    <3>4. OnList(l, l[i]) /\ OnList(l, l[j]) BY DEF OnList
    <3>5. l[i] # e /\ l[j] # e BY <2>2, <3>3, <3>4
    <3> QED BY <2>6, <2>11, <3>1, <3>2, <3>3, <3>5
  <2>17. Lists(t) BY <2>2, <2>10, <2>11, <2>12, <2>14, <2>15, <2>16 DEF Lists
  <2>18. t.calling # NoEvent BY <2>2, <2>11, SchedulerAssumption DEF SchedulerAssumption
  <2> QED BY <2>17, <2>18 DEF SchedulerInv, t
<1> QED BY <1>3, <1>4

\* A periodic event goes back into the fire list.
LEMMA ReaddedKeeps == ASSUME NEW s, Clean(s), NEW e \in EVENTS PROVE Clean(Readded(s, e))
<1> DEFINE ahead == PERIOD - ((-s.evt[e].time) % PERIOD)
           x == s.evt[e].time
<1>1. s \in Schedulers /\ ~s.halted /\ Lists(s) /\ s.add = <<>> /\ DirtyEvents(s.evt) = {}
  BY DEF Clean, Lists
<1>2. CASE EventState(s, e) # "IN_CALLBACK"
  <2>1. Readded(s, e) = s BY <1>2 DEF Readded
  <2> QED BY <2>1
<1>3. CASE EventState(s, e) = "IN_CALLBACK" /\ e \notin PERIODIC
  <2> DEFINE v == [state |-> "UNUSED", time |-> s.evt[e].time]
             t == SetEvent(s, e, "UNUSED")
  <2>1. Readded(s, e) = t BY <1>3 DEF Readded
  <2>2. IsChanged(t, s, e, v, s.fire, s.add, s.dirty) BY <1>1, SettingEvent DEF EventStates
  <2>3. t.evt[e] = v /\ \A d \in EVENTS : d # e => t.evt[d] = s.evt[d]
    BY <1>1, <2>2, ChangedParts
  <2>4. v.state = "UNUSED" OBVIOUS
  <2> HIDE DEF v, t
  <2>5. DirtyEvents(t.evt) = DirtyEvents(s.evt)
    BY <1>3, <2>3, <2>4 DEF DirtyEvents, IsDirty, EventState
  <2>6. Tallies(t.evt, s.dirty) BY <1>1, <2>5 DEF Lists, Tallies
  <2>7. /\ v.state \in FireStates <=> s.evt[e].state \in FireStates
        /\ v.state \in AddStates <=> s.evt[e].state \in AddStates
        /\ v.state # "QUEUED"
    BY <1>3, <2>4 DEF FireStates, AddStates, EventState
  <2>8. Lists(t) BY <1>1, <2>2, <2>6, <2>7, Changing
  <2>9. t.add = <<>> BY <1>1, <2>2 DEF IsChanged
  <2> QED BY <1>1, <2>1, <2>5, <2>8, <2>9 DEF Clean
<1>4. CASE EventState(s, e) = "IN_CALLBACK" /\ e \in PERIODIC
  <2> DEFINE v == [state |-> "QUEUED", time |-> ahead]
             evt == [s.evt EXCEPT ![e] = v]
             w == [s EXCEPT !.evt[e] = v]
  <2>1. Readded(s, e) = AddEvt(w, e) BY <1>4 DEF Readded
  <2>2. ahead \in Int
    <3>1. x \in Int /\ PERIOD \in Nat \ {0}
      BY <1>1, SchedulerParts, SchedulerAssumption DEF SchedulerAssumption
    <3> HIDE DEF x
    <3>2. (-x) % PERIOD \in Int BY <3>1
    <3> QED BY <3>1, <3>2 DEF x
  <2> HIDE DEF ahead
  <2>3. v \in [state : EventStates, time : Int] /\ v.state = "QUEUED" BY <2>2 DEF EventStates
  <2> HIDE DEF v
  <2>4. evt \in [EVENTS -> [state : EventStates, time : Int]] BY <1>1, <2>3, SchedulerParts
  <2>5. evt[e] = v /\ \A d \in EVENTS : d # e => evt[d] = s.evt[d] BY <1>1, SchedulerParts
  <2>6. w = [s EXCEPT !.evt = evt] BY <1>1 DEF Schedulers
  <2> HIDE DEF evt, w
  <2>7. /\ w \in Schedulers /\ w.evt = evt /\ w.fire = s.fire /\ w.add = s.add
        /\ w.dirty = s.dirty /\ w.halted = s.halted
    BY <1>1, <2>4, <2>6 DEF Schedulers
  <2>8. ~OnList(s.fire, e) BY <1>1, <1>4 DEF Lists, EventState, FireStates
  <2>9. /\ \A d \in EVENTS : OnList(w.fire, d) \/ d = e <=> w.evt[d].state \in FireStates
        /\ \A d \in EVENTS : OnList(w.add, d) <=> w.evt[d].state \in AddStates
    BY <1>1, <1>4, <2>3, <2>5, <2>7 DEF Lists, EventState, FireStates, AddStates
  <2>10. DirtyEvents(w.evt) = DirtyEvents(s.evt)
    BY <1>4, <2>3, <2>5, <2>7 DEF DirtyEvents, IsDirty, EventState
  <2>11. Tallies(w.evt, w.dirty) BY <1>1, <2>7, <2>10 DEF Lists, Tallies
  <2>12. Sorted(w.evt, w.fire)
    <3> SUFFICES ASSUME NEW i \in 1..Len(s.fire), NEW j \in 1..Len(s.fire), i < j
                 PROVE  w.evt[s.fire[i]].time <= w.evt[s.fire[j]].time
      BY <2>7 DEF Sorted
    <3>1. s.fire[i] \in EVENTS /\ s.fire[j] \in EVENTS BY <1>1, SchedulerParts
    <3>2. s.fire[i] # e /\ s.fire[j] # e BY <2>8 DEF OnList
    <3>3. s.evt[s.fire[i]].time <= s.evt[s.fire[j]].time
      <4>1. i <= j BY <1>1, SchedulerParts
      <4> QED BY <1>1, <4>1, QueuedInOrder DEF Lists
    <3> QED BY <2>5, <2>7, <3>1, <3>2, <3>3
  <2>13. Missing(w, e)
    <3>1. Once(w.fire) /\ Once(w.add) BY <1>1, <2>7 DEF Lists
    <3>2. w.evt[e].state = "QUEUED" BY <2>3, <2>5, <2>7
    <3> QED BY <1>1, <2>7, <2>8, <2>9, <2>10, <2>11, <2>12, <3>1, <3>2 DEF Missing
  <2>14. /\ Lists(AddEvt(w, e)) /\ AddEvt(w, e).add = w.add
         /\ DirtyEvents(AddEvt(w, e).evt) = {}
    BY <2>13, Inserting
  <2> QED BY <1>1, <2>1, <2>7, <2>14 DEF Clean
<1> QED BY <1>2, <1>3, <1>4

\* The handler, from its start or after a callback.
LEMMA HandlerKeeps ==
  ASSUME SchedulerInv(scheduler), FlagEventCb \/ CallbackReturns
  PROVE  SchedulerInv(scheduler')
<1> DEFINE s == scheduler
<1>1. Lists(s) /\ s \in Schedulers BY DEF SchedulerInv, Lists
<1>2. CASE FlagEventCb
  <2> DEFINE t == [s EXCEPT !.flag = FALSE]
  <2>1. /\ t \in Schedulers /\ t.evt = s.evt /\ t.fire = s.fire /\ t.add = s.add
        /\ t.dirty = s.dirty /\ t.halted = s.halted
    BY <1>1 DEF Schedulers
  <2>2. s' = Fired(ProcessAddList(ProcessDirty(t))) BY <1>2 DEF FlagEventCb
  <2> HIDE DEF t
  <2>3. Lists(t) BY <1>1, <2>1, Frame
  <2>4. Clean(ProcessAddList(ProcessDirty(t))) BY <2>3, DirtyProcessed, AddListProcessed
  <2> QED BY <2>2, <2>4, FiredKeeps
<1>3. CASE CallbackReturns
  <2>1. s.calling \in EVENTS BY <1>1, <1>3 DEF CallbackReturns, Schedulers
  <2>2. s' = Fired(Readded(ProcessAddList(ProcessDirty(s)), s.calling)) BY <1>3 DEF CallbackReturns
  <2>3. Clean(ProcessAddList(ProcessDirty(s))) BY <1>1, DirtyProcessed, AddListProcessed
  <2>4. Clean(Readded(ProcessAddList(ProcessDirty(s)), s.calling)) BY <2>1, <2>3, ReaddedKeeps
  <2> QED BY <2>2, <2>4, FiredKeeps
<1> QED BY <1>2, <1>3

\* The handler is asked for when an event is scheduled.
LEMMA ScheduleKeeps ==
  ASSUME SchedulerInv(scheduler), NEW e \in EVENTS, NEW delay \in DELAYS, TimerSchSchedule(e, delay)
  PROVE  SchedulerInv(scheduler')
<1> DEFINE s == scheduler
           v == [state |-> s.evt[e].state, time |-> delay]
           u == [s EXCEPT !.evt[e].time = delay]
           w == ToAddList(u, e)
           t == TimerSchedule(s, e, delay)
<1>1. Lists(s) /\ s \in Schedulers /\ delay \in Int
  BY SchedulerAssumption DEF SchedulerInv, Lists, SchedulerAssumption
<1>2. s' = t /\ s.evt[e].state \in {"UNUSED", "IN_CALLBACK"} BY DEF TimerSchSchedule, EventState
<1>3. IsChanged(u, s, e, v, s.fire, s.add, s.dirty) BY <1>1, SettingTime
<1>4. t = [w EXCEPT !.flag = TRUE] BY DEF TimerSchedule
<1>5. v.state = s.evt[e].state OBVIOUS
<1> HIDE DEF v, u, w, t
<1>6. u \in Schedulers /\ u.evt[e] = v /\ \A d \in EVENTS : d # e => u.evt[d] = s.evt[d]
  BY <1>1, <1>3, ChangedParts DEF IsChanged
<1>7. Lists(u)
  <2>1. Tallies(u.evt, s.dirty)
    <3>1. IsDirty(s.evt[e].state) <=> IsDirty(u.evt[e].state) BY <1>5, <1>6
    <3>2. Tallies(s.evt, s.dirty) BY <1>1 DEF Lists
    <3> QED BY <1>1, <1>6, <3>1, <3>2, Tallying
  <2>2. v.state # "QUEUED" BY <1>2, <1>5
  <2> QED BY <1>1, <1>3, <1>5, <2>1, <2>2, Changing
<1>8. Lists(w) BY <1>2, <1>5, <1>6, <1>7, ToAddListKeeps DEF w
<1>9. /\ t \in Schedulers /\ t.evt = w.evt /\ t.fire = w.fire /\ t.add = w.add
      /\ t.dirty = w.dirty /\ t.halted = w.halted /\ t.flag
  BY <1>4, <1>8 DEF Lists, Schedulers
<1>10. Lists(t) BY <1>8, <1>9, Frame
<1> QED BY <1>2, <1>9, <1>10 DEF SchedulerInv

\* An event of the fire list is marked, and counted if it is not dirty already.
LEMMA Marking ==
  ASSUME NEW s, Lists(s), NEW e \in EVENTS, NEW state \in {"RESCHEDULED", "ABORTED"},
         s.evt[e].state \in FireStates, NEW t \in Schedulers,
         t.evt = SetEvent(s, e, state).evt, t.fire = s.fire, t.add = s.add, t.halted = s.halted,
         t.dirty = s.dirty + (IF IsDirty(s.evt[e].state) THEN 0 ELSE 1)
  PROVE  Lists(t)
<1> DEFINE v == [state |-> state, time |-> s.evt[e].time]
           w == SetEvent(s, e, state)
<1>1. s \in Schedulers /\ s.dirty \in Nat /\ Tallies(s.evt, s.dirty) BY SchedulerParts DEF Lists
<1>2. IsChanged(w, s, e, v, s.fire, s.add, s.dirty) BY <1>1, SettingEvent DEF EventStates
<1>3. w.evt = [s.evt EXCEPT ![e] = v] BY <1>2 DEF IsChanged
<1>4. v.state = state OBVIOUS
<1> HIDE DEF v, w
<1>5. IsChanged(t, s, e, v, s.fire, s.add, t.dirty) BY <1>3 DEF IsChanged, w
<1>6. t.evt[e] = v /\ \A d \in EVENTS : d # e => t.evt[d] = s.evt[d] BY <1>1, <1>5, ChangedParts
<1>7. IsDirty(t.evt[e].state) BY <1>4, <1>6 DEF IsDirty
<1>8. Tallies(t.evt, t.dirty)
  <2>1. CASE IsDirty(s.evt[e].state)
    <3>1. t.dirty = s.dirty BY <1>1, <2>1
    <3> QED BY <1>1, <1>6, <1>7, <2>1, <3>1, Tallying
  <2>2. CASE ~IsDirty(s.evt[e].state)
    <3>1. t.dirty = s.dirty + 1 BY <2>2
    <3> QED BY <1>1, <1>6, <1>7, <2>2, <3>1, Tallying
  <2> QED BY <2>1, <2>2
<1>9. /\ v.state \in FireStates <=> s.evt[e].state \in FireStates
      /\ v.state \in AddStates <=> s.evt[e].state \in AddStates
      /\ v.state # "QUEUED"
  BY <1>4 DEF FireStates, AddStates
<1> QED BY <1>5, <1>8, <1>9, Changing

\* An abort of an event that is in no list, or in the add list.
LEMMA Dropping ==
  ASSUME NEW s, SchedulerInv(s), NEW e \in EVENTS, NEW state \in {"UNUSED", "IGNORED"},
         s.evt[e].state \in (IF state = "UNUSED" THEN {"UNUSED", "IN_CALLBACK"} ELSE {"ADDED"})
  PROVE  SchedulerInv(SetEvent(s, e, state))
<1> DEFINE v == [state |-> state, time |-> s.evt[e].time]
           t == SetEvent(s, e, state)
<1>1. Lists(s) /\ s \in Schedulers /\ s.dirty \in Nat /\ Tallies(s.evt, s.dirty)
  BY SchedulerParts DEF SchedulerInv, Lists
<1>2. IsChanged(t, s, e, v, s.fire, s.add, s.dirty) BY <1>1, SettingEvent DEF EventStates
<1>3. t \in Schedulers /\ t.fire = s.fire /\ t.add = s.add /\ t.evt[e] = v
      /\ \A d \in EVENTS : d # e => t.evt[d] = s.evt[d]
  BY <1>1, <1>2, ChangedParts DEF IsChanged
<1>4. t.flag = s.flag /\ t.calling = s.calling /\ t.hw = s.hw BY <1>1 DEF SetEvent, Schedulers
<1>5. v.state = state OBVIOUS
<1> HIDE DEF v, t
<1>6. ~IsDirty(s.evt[e].state) /\ ~IsDirty(t.evt[e].state) BY <1>3, <1>5 DEF IsDirty
<1>7. Tallies(t.evt, s.dirty) BY <1>1, <1>3, <1>6, Tallying
<1>8. /\ v.state \in FireStates <=> s.evt[e].state \in FireStates
      /\ v.state \in AddStates <=> s.evt[e].state \in AddStates
      /\ v.state # "QUEUED"
  BY <1>5 DEF FireStates, AddStates
<1>9. Lists(t) BY <1>1, <1>2, <1>7, <1>8, Changing
<1>10. ASSUME s.calling = NoEvent, ~s.flag PROVE Clean(t) /\ Timed(t)
  <2>1. Clean(s) /\ Timed(s) BY <1>10 DEF SchedulerInv
  <2>2. DirtyEvents(t.evt) = DirtyEvents(s.evt) BY <1>3, <1>6 DEF DirtyEvents
  <2>3. Clean(t) BY <1>3, <1>9, <2>1, <2>2 DEF Clean
  <2>4. CASE s.fire = <<>> BY <1>3, <2>3, <2>4 DEF Timed
  <2>5. CASE s.fire # <<>>
    <3>1. 1 \in 1..Len(s.fire) /\ s.fire[1] \in EVENTS
      <4>1. s.fire \in Seq(EVENTS) BY <1>1, SchedulerParts
      <4> QED BY <2>5, <4>1
    <3>2. OnList(s.fire, s.fire[1]) BY <3>1 DEF OnList
    <3>3. s.evt[s.fire[1]].state \in FireStates BY <1>1, <3>1, <3>2 DEF Lists
    <3>4. s.fire[1] # e BY <3>3 DEF FireStates
    <3> QED BY <1>3, <1>4, <2>1, <2>3, <3>1, <3>4 DEF Timed
  <2> QED BY <2>4, <2>5
<1> QED BY <1>4, <1>9, <1>10 DEF SchedulerInv, t

\* An abort keeps the lists.
LEMMA AbortKeeps ==
  ASSUME SchedulerInv(scheduler), NEW e \in EVENTS, TimerSchAbort(e)
  PROVE  SchedulerInv(scheduler')
<1> DEFINE s == scheduler
           t == TimerAbort(s, e)
<1>1. Lists(s) /\ s \in Schedulers /\ s.dirty \in Nat /\ s.evt[e].state \in EventStates
  BY SchedulerParts DEF SchedulerInv, Lists
<1>2. s' = t /\ s.evt[e].state # "IGNORED" BY DEF TimerSchAbort, EventState
<1>3. CASE s.evt[e].state \in {"IN_CALLBACK", "UNUSED"}
  <2>1. t = SetEvent(s, e, "UNUSED") BY <1>3 DEF TimerAbort, EventState
  <2> QED BY <1>2, <1>3, <2>1, Dropping
<1>4. CASE s.evt[e].state = "ADDED"
  <2>1. t = SetEvent(s, e, "IGNORED") BY <1>4 DEF TimerAbort, EventState
  <2> QED BY <1>2, <1>4, <2>1, Dropping
<1>5. CASE s.evt[e].state \in FireStates
  <2> DEFINE w == SetEvent(s, e, "ABORTED")
             n == s.dirty + (IF IsDirty(s.evt[e].state) THEN 0 ELSE 1)
  <2>1. /\ w \in Schedulers /\ w.fire = s.fire /\ w.add = s.add /\ w.halted = s.halted
        /\ w.dirty = s.dirty
    BY <1>1, SettingEvent DEF IsChanged, EventStates
  <2>2. t = [w EXCEPT !.flag = TRUE, !.dirty = n]
    BY <1>5, <2>1 DEF TimerAbort, EventState, FireStates
  <2>3. n \in Nat BY <1>1
  <2> HIDE DEF t, w, n
  <2>4. /\ t \in Schedulers /\ t.evt = w.evt /\ t.fire = s.fire /\ t.add = s.add
        /\ t.halted = s.halted /\ t.dirty = n /\ t.flag
    BY <2>1, <2>2, <2>3 DEF Schedulers
  <2>5. Lists(t) BY <1>1, <1>5, <2>4, Marking DEF w, n
  <2> QED BY <1>2, <2>4, <2>5 DEF SchedulerInv
<1> QED BY <1>1, <1>2, <1>3, <1>4, <1>5 DEF EventStates, FireStates

\* So does a change of the time.
LEMMA RescheduleKeeps ==
  ASSUME SchedulerInv(scheduler), NEW e \in EVENTS, NEW delay \in DELAYS,
         TimerSchReschedule(e, delay)
  PROVE  SchedulerInv(scheduler')
<1> DEFINE s == scheduler
           moved == CASE EventState(s, e) \in {"UNUSED", "IN_CALLBACK"} -> ToAddList(s, e)
                      [] EventState(s, e) \in {"ADDED", "IGNORED"} -> SetEvent(s, e, "ADDED")
                      [] OTHER -> [SetEvent(s, e, "RESCHEDULED") EXCEPT
                                     !.dirty = @ + (IF IsDirty(EventState(s, e)) THEN 0 ELSE 1)]
           timed == [moved EXCEPT !.evt[e].time = delay]
           t == TimerReschedule(s, e, delay)
<1>1. /\ Lists(s) /\ s \in Schedulers /\ s.dirty \in Nat /\ s.evt[e].state \in EventStates
      /\ delay \in Int /\ Tallies(s.evt, s.dirty)
  BY SchedulerParts, SchedulerAssumption DEF SchedulerInv, Lists, SchedulerAssumption
<1>2. s' = t BY DEF TimerSchReschedule
<1>3. t = [moved EXCEPT !.evt[e].time = delay, !.flag = TRUE] BY DEF TimerReschedule
<1>4. Lists(moved) /\ moved.evt[e].state \in {"ADDED", "RESCHEDULED"}
  <2>1. CASE s.evt[e].state \in {"UNUSED", "IN_CALLBACK"}
    <3>1. moved = ToAddList(s, e) BY <2>1 DEF EventState
    <3> HIDE DEF moved
    <3> QED BY <1>1, <2>1, <3>1, ToAddListKeeps
  <2>2. CASE s.evt[e].state \in AddStates
    <3> DEFINE v == [state |-> "ADDED", time |-> s.evt[e].time]
    <3>1. moved = SetEvent(s, e, "ADDED") BY <2>2 DEF EventState, AddStates
    <3> HIDE DEF moved
    <3>2. IsChanged(moved, s, e, v, s.fire, s.add, s.dirty)
      BY <1>1, <3>1, SettingEvent DEF EventStates
    <3>3. v.state = "ADDED" OBVIOUS
    <3> HIDE DEF v
    <3>4. moved \in Schedulers /\ moved.evt[e] = v
          /\ \A d \in EVENTS : d # e => moved.evt[d] = s.evt[d]
      BY <1>1, <3>2, ChangedParts DEF IsChanged
    <3>5. ~IsDirty(s.evt[e].state) /\ ~IsDirty(moved.evt[e].state)
      BY <2>2, <3>3, <3>4 DEF IsDirty, AddStates
    <3>6. Tallies(moved.evt, s.dirty) BY <1>1, <3>4, <3>5, Tallying
    <3>7. /\ v.state \in FireStates <=> s.evt[e].state \in FireStates
          /\ v.state \in AddStates <=> s.evt[e].state \in AddStates
          /\ v.state # "QUEUED"
      BY <2>2, <3>3 DEF FireStates, AddStates
    <3>8. Lists(moved) BY <1>1, <3>2, <3>6, <3>7, Changing
    <3> QED BY <3>3, <3>4, <3>8
  <2>3. CASE s.evt[e].state \in FireStates
    <3> DEFINE w == SetEvent(s, e, "RESCHEDULED")
               v == [state |-> "RESCHEDULED", time |-> s.evt[e].time]
               n == s.dirty + (IF IsDirty(s.evt[e].state) THEN 0 ELSE 1)
    <3>1. IsChanged(w, s, e, v, s.fire, s.add, s.dirty) BY <1>1, SettingEvent DEF EventStates
    <3>2. /\ w \in Schedulers /\ w.fire = s.fire /\ w.add = s.add /\ w.halted = s.halted
          /\ w.dirty = s.dirty
      BY <3>1 DEF IsChanged
    <3>3. w.evt[e] = v BY <1>1, <3>1, ChangedParts
    <3>4. v.state = "RESCHEDULED" OBVIOUS
    <3>5. moved = [w EXCEPT !.dirty = n] BY <2>3, <3>2 DEF EventState, FireStates
    <3>6. n \in Nat BY <1>1
    <3> HIDE DEF moved, w, v, n
    <3>7. /\ moved \in Schedulers /\ moved.evt = w.evt /\ moved.fire = s.fire
          /\ moved.add = s.add /\ moved.halted = s.halted /\ moved.dirty = n
      BY <3>2, <3>5, <3>6 DEF Schedulers
    <3>8. Lists(moved) BY <1>1, <2>3, <3>7, Marking DEF w, n
    <3> QED BY <3>3, <3>4, <3>7, <3>8
  <2> QED BY <1>1, <2>1, <2>2, <2>3 DEF EventStates, FireStates, AddStates
<1> HIDE DEF moved
<1>5. moved \in Schedulers /\ Tallies(moved.evt, moved.dirty) BY <1>4 DEF Lists
<1> DEFINE v == [state |-> moved.evt[e].state, time |-> delay]
<1>6. IsChanged(timed, moved, e, v, moved.fire, moved.add, moved.dirty) BY <1>1, <1>5, SettingTime
<1>7. v.state = moved.evt[e].state OBVIOUS
<1>8. t = [timed EXCEPT !.flag = TRUE] BY <1>3
<1> HIDE DEF v, timed, t
<1>9. timed \in Schedulers /\ timed.evt[e] = v
      /\ \A d \in EVENTS : d # e => timed.evt[d] = moved.evt[d]
  BY <1>5, <1>6, ChangedParts DEF IsChanged
<1>10. Tallies(timed.evt, moved.dirty)
  <2>1. IsDirty(moved.evt[e].state) <=> IsDirty(timed.evt[e].state) BY <1>7, <1>9
  <2> QED BY <1>5, <1>9, <2>1, Tallying
<1>11. v.state # "QUEUED" BY <1>4, <1>7
<1>12. Lists(timed) BY <1>4, <1>6, <1>7, <1>10, <1>11, Changing
<1>13. /\ t \in Schedulers /\ t.evt = timed.evt /\ t.fire = timed.fire /\ t.add = timed.add
       /\ t.dirty = timed.dirty /\ t.halted = timed.halted /\ t.flag
  BY <1>8, <1>9 DEF Schedulers
<1>14. Lists(t) BY <1>12, <1>13, Frame
<1> QED BY <1>2, <1>13, <1>14 DEF SchedulerInv

\* The hardware timer asks for the handler.
LEMMA TimerCbKeeps == ASSUME SchedulerInv(scheduler), TimerCb PROVE SchedulerInv(scheduler')
<1> DEFINE t == [scheduler EXCEPT !.hw.on = FALSE, !.flag = TRUE]
           hw == [scheduler.hw EXCEPT !.on = FALSE]
<1>1. Lists(scheduler) /\ scheduler \in Schedulers BY DEF SchedulerInv, Lists
<1>2. hw \in [on : BOOLEAN, left : Int] BY <1>1, SchedulerParts
<1>3. t = [scheduler EXCEPT !.hw = hw, !.flag = TRUE] BY <1>1 DEF Schedulers
<1> HIDE DEF hw
<1>4. scheduler' = t BY DEF TimerCb
<1> HIDE DEF t
<1>5. /\ t \in Schedulers /\ t.evt = scheduler.evt /\ t.fire = scheduler.fire
      /\ t.add = scheduler.add /\ t.dirty = scheduler.dirty /\ t.halted = scheduler.halted /\ t.flag
  BY <1>1, <1>2, <1>3 DEF Schedulers
<1>6. Lists(t) BY <1>1, <1>5, Frame
<1> QED BY <1>4, <1>5, <1>6 DEF SchedulerInv

\* Time passes alike for all that is in a list, and for the hardware timer.
LEMMA SchedulerTickKeeps == ASSUME SchedulerInv(scheduler), SchedulerTick PROVE SchedulerInv(scheduler')
<1> DEFINE s == scheduler
           left == s.hw.left - 1
           hw == [s.hw EXCEPT !.left = @ - 1]
           evt == [e \in EVENTS |-> AgedEvent(s.evt[e])]
           t == [s EXCEPT !.hw.left = @ - 1, !.evt = evt]
<1>1. /\ Lists(s) /\ s \in Schedulers /\ Clean(s) /\ Timed(s) /\ s.add = <<>>
      /\ DirtyEvents(s.evt) = {}
  BY DEF SchedulerTick, SchedulerInv, Lists, Clean
<1>2. s' = t BY DEF SchedulerTick
<1>3. hw \in [on : BOOLEAN, left : Int] /\ hw.on = s.hw.on /\ hw.left = s.hw.left - 1
      /\ s.hw.left \in Int
  <2> DEFINE x == s.hw
  <2>1. x \in [on : BOOLEAN, left : Int] BY <1>1, SchedulerParts
  <2> HIDE DEF x
  <2>2. /\ [x EXCEPT !.left = @ - 1] \in [on : BOOLEAN, left : Int]
        /\ [x EXCEPT !.left = @ - 1].on = x.on /\ [x EXCEPT !.left = @ - 1].left = x.left - 1
        /\ x.left \in Int
    BY <2>1
  <2> QED BY <2>2 DEF x
<1>4. t = [s EXCEPT !.hw = hw, !.evt = evt] BY <1>1 DEF Schedulers
<1>5. ASSUME NEW e \in EVENTS
      PROVE  /\ AgedEvent(s.evt[e]) \in [state : EventStates, time : Int]
             /\ AgedEvent(s.evt[e]).state = s.evt[e].state
             /\ s.evt[e].state # "UNUSED" => AgedEvent(s.evt[e]).time = s.evt[e].time - 1
  <2>1. s.evt[e] \in [state : EventStates, time : Int] BY <1>1, SchedulerParts
  <2> DEFINE x == s.evt[e]
  <2> HIDE DEF x
  <2>2. x \in [state : EventStates, time : Int] BY <2>1 DEF x
  <2>3. /\ AgedEvent(x) \in [state : EventStates, time : Int]
        /\ AgedEvent(x).state = x.state
        /\ x.state # "UNUSED" => AgedEvent(x).time = x.time - 1
    BY <2>2 DEF AgedEvent
  <2> QED BY <2>3 DEF x
<1>6. /\ evt \in [EVENTS -> [state : EventStates, time : Int]]
      /\ \A e \in EVENTS : /\ evt[e].state = s.evt[e].state
                           /\ s.evt[e].state # "UNUSED" => evt[e].time = s.evt[e].time - 1
  BY <1>5
<1> HIDE DEF hw, evt, t
<1>7. /\ t \in Schedulers /\ t.evt = evt /\ t.fire = s.fire /\ t.add = s.add /\ t.dirty = s.dirty
      /\ t.halted = s.halted /\ t.hw = hw /\ t.flag = s.flag /\ t.calling = s.calling
  BY <1>1, <1>3, <1>4, <1>6 DEF Schedulers
<1>8. DirtyEvents(t.evt) = DirtyEvents(s.evt) BY <1>6, <1>7 DEF DirtyEvents
<1>9. Tallies(t.evt, t.dirty) BY <1>1, <1>7, <1>8 DEF Lists, Tallies
<1>10. /\ \A e \in EVENTS : OnList(t.fire, e) <=> t.evt[e].state \in FireStates
       /\ \A e \in EVENTS : OnList(t.add, e) <=> t.evt[e].state \in AddStates
  BY <1>1, <1>6, <1>7 DEF Lists
<1>11. \A i \in 1..Len(s.fire) :
         /\ s.fire[i] \in EVENTS /\ s.evt[s.fire[i]].time \in Int
         /\ evt[s.fire[i]].time = s.evt[s.fire[i]].time - 1
  <2> TAKE i \in 1..Len(s.fire)
  <2>1. s.fire[i] \in EVENTS /\ s.evt[s.fire[i]].time \in Int BY <1>1, SchedulerParts
  <2>2. s.evt[s.fire[i]].state = "QUEUED" BY <1>1, QueuedInOrder DEF Lists
  <2> QED BY <1>6, <2>1, <2>2
<1>12. Sorted(t.evt, t.fire)
  <2> SUFFICES ASSUME NEW i \in 1..Len(s.fire), NEW j \in 1..Len(s.fire), i < j
               PROVE  evt[s.fire[i]].time <= evt[s.fire[j]].time
    BY <1>7 DEF Sorted
  <2>1. s.evt[s.fire[i]].time <= s.evt[s.fire[j]].time
    <3>1. i <= j BY <1>1, SchedulerParts
    <3> QED BY <1>1, <3>1, QueuedInOrder DEF Lists
  <2> DEFINE a == s.evt[s.fire[i]].time
             b == s.evt[s.fire[j]].time
  <2>2. a \in Int /\ b \in Int /\ a <= b /\ evt[s.fire[i]].time = a - 1 /\ evt[s.fire[j]].time = b - 1
    BY <1>11, <2>1
  <2> HIDE DEF a, b
  <2> QED BY <2>2
<1>13. Lists(t) /\ Clean(t)
  <2>1. Once(t.fire) /\ Once(t.add) /\ ~t.halted BY <1>1, <1>7 DEF Lists
  <2>2. Lists(t) BY <1>7, <1>9, <1>10, <1>12, <2>1 DEF Lists
  <2> QED BY <1>1, <1>7, <1>8, <2>2 DEF Clean
<1>14. Timed(t)
  <2>1. CASE s.fire = <<>> BY <1>7, <2>1 DEF Timed
  <2>2. CASE s.fire # <<>>
    <3>1. 1 \in 1..Len(s.fire)
      <4>1. s.fire \in Seq(EVENTS) BY <1>1, SchedulerParts
      <4> QED BY <2>2, <4>1
    <3> DEFINE a == s.evt[s.fire[1]].time
               b == evt[s.fire[1]].time
    <3>2. a \in Int /\ b = a - 1 BY <1>11, <3>1
    <3>3. s.hw.on /\ (a > 0 => s.hw.left <= a) BY <1>1, <2>2 DEF Timed
    <3> HIDE DEF a, b
    <3>4. hw.on /\ (b > 0 => hw.left <= b) BY <1>3, <3>2, <3>3
    <3> QED BY <1>7, <3>4 DEF Timed, b
  <2> QED BY <2>1, <2>2
<1> QED BY <1>2, <1>13, <1>14 DEF SchedulerInv

\* The scheduler starts with nothing to do.
LEMMA SchedulerStarts == ASSUME SchedulerInit PROVE SchedulerInv(scheduler)
<1> DEFINE s == scheduler
           evt == [e \in EVENTS |-> [state |-> "UNUSED", time |-> 0]]
           hw == [on |-> FALSE, left |-> 0]
<1>1. s = [evt |-> evt, fire |-> <<>>, add |-> <<>>, dirty |-> 0, flag |-> FALSE, hw |-> hw,
           calling |-> NoEvent, halted |-> FALSE]
  BY DEF SchedulerInit, NoEvent
<1>2. evt \in [EVENTS -> [state : EventStates, time : Int]]
      /\ \A e \in EVENTS : evt[e].state = "UNUSED"
  BY DEF EventStates
<1>3. hw \in [on : BOOLEAN, left : Int] OBVIOUS
<1> HIDE DEF evt, hw
<1>4. s \in Schedulers BY <1>1, <1>2, <1>3 DEF Schedulers
<1>5. s.evt = evt /\ s.fire = <<>> /\ s.add = <<>> /\ s.dirty = 0 /\ ~s.halted BY <1>1
<1>6. DirtyEvents(s.evt) = {} BY <1>2, <1>5 DEF DirtyEvents, IsDirty
<1>7. Tallies(s.evt, s.dirty) BY <1>5, <1>6, FS_EmptySet DEF Tallies
<1>8. \A e \in EVENTS : ~OnList(<<>>, e) BY DEF OnList
<1>9. Once(<<>>) /\ Sorted(s.evt, <<>>) BY DEF Once, Sorted
<1>10. Lists(s) BY <1>2, <1>4, <1>5, <1>7, <1>8, <1>9 DEF Lists, FireStates, AddStates
<1> QED BY <1>5, <1>6, <1>10 DEF SchedulerInv, Clean, Timed

\* Every step keeps the invariant.
LEMMA SchedulerStep ==
  ASSUME SchedulerInv(scheduler), [SchedulerNext]_scheduler
  PROVE  SchedulerInv(scheduler')
<1>1. ASSUME NEW e \in EVENTS, NEW delay \in DELAYS, TimerSchSchedule(e, delay)
      PROVE  SchedulerInv(scheduler')
  BY <1>1, ScheduleKeeps
<1>2. ASSUME NEW e \in EVENTS, NEW delay \in DELAYS, TimerSchReschedule(e, delay)
      PROVE  SchedulerInv(scheduler')
  BY <1>2, RescheduleKeeps
<1>3. ASSUME NEW e \in EVENTS, TimerSchAbort(e) PROVE SchedulerInv(scheduler')
  BY <1>3, AbortKeeps
<1>4. CASE FlagEventCb BY <1>4, HandlerKeeps
<1>5. CASE CallbackReturns BY <1>5, HandlerKeeps
<1>6. CASE TimerCb BY <1>6, TimerCbKeeps
<1>7. CASE SchedulerTick BY <1>7, SchedulerTickKeeps
<1>8. CASE UNCHANGED scheduler BY <1>8
<1> QED BY <1>1, <1>2, <1>3, <1>4, <1>5, <1>6, <1>7, <1>8 DEF SchedulerNext

\* The invariant says that no event is missed.
LEMMA SchedulerFinds == ASSUME SchedulerInv(scheduler) PROVE NothingIsMissed
<1> DEFINE s == scheduler
           InState(S) == {e \in EVENTS : EventState(s, e) \in S}
<1>1. Lists(s) /\ s \in Schedulers /\ ~s.halted BY DEF SchedulerInv, Lists
<1>2. /\ s.fire \in Seq(EVENTS) /\ s.add \in Seq(EVENTS)
      /\ DOMAIN s.fire = 1..Len(s.fire) /\ DOMAIN s.add = 1..Len(s.add)
  BY <1>1, SchedulerParts
<1>3. /\ \A i \in 1..Len(s.fire) : s.fire[i] \in EVENTS
      /\ \A i \in 1..Len(s.add) : s.add[i] \in EVENTS
  BY <1>1, SchedulerParts
<1>4. Range(s.fire) = InState({"QUEUED", "RESCHEDULED", "ABORTED"})
  BY <1>1, <1>2, <1>3 DEF Range, Lists, OnList, EventState, FireStates
<1>5. Range(s.add) = InState({"ADDED", "IGNORED"})
  BY <1>1, <1>2, <1>3 DEF Range, Lists, OnList, EventState, AddStates
<1>6. IsInjective(s.fire) /\ IsInjective(s.add) BY <1>1, <1>2 DEF IsInjective, Lists, Once
<1>7. s.dirty = Cardinality(InState({"RESCHEDULED", "ABORTED"}))
  <2>1. DirtyEvents(s.evt) = InState({"RESCHEDULED", "ABORTED"})
    BY DEF DirtyEvents, IsDirty, EventState
  <2> QED BY <1>1, <2>1 DEF Lists, Tallies
<1>8. ASSUME s.calling = NoEvent, ~s.flag
      PROVE  /\ s.add = <<>> /\ s.dirty = 0
             /\ \A i, j \in DOMAIN s.fire :
                  i < j => s.evt[s.fire[i]].time <= s.evt[s.fire[j]].time
             /\ s.fire # <<>> => s.hw.on /\ (s.evt[s.fire[1]].time > 0 =>
                                               s.hw.left <= s.evt[s.fire[1]].time)
  <2>1. Clean(s) /\ Timed(s) BY <1>8 DEF SchedulerInv
  <2>2. s.add = <<>> /\ DirtyEvents(s.evt) = {} BY <2>1 DEF Clean
  <2>3. s.dirty = 0 BY <1>1, <2>2, FS_EmptySet DEF Lists, Tallies
  <2>4. \A i, j \in 1..Len(s.fire) : i <= j => s.evt[s.fire[i]].time <= s.evt[s.fire[j]].time
    BY <1>1, <2>2, QueuedInOrder DEF Lists
  <2>5. \A i, j \in DOMAIN s.fire : i < j => s.evt[s.fire[i]].time <= s.evt[s.fire[j]].time
    BY <1>2, <2>4
  <2> QED BY <2>1, <2>2, <2>3, <2>5 DEF Timed
<1> QED BY <1>1, <1>4, <1>5, <1>6, <1>7, <1>8 DEF NothingIsMissed

\* No event is lost.
THEOREM EventsNotMissed == SchedulerSpec => []NothingIsMissed
<1>1. SchedulerInit => SchedulerInv(scheduler) BY SchedulerStarts
<1>2. SchedulerInv(scheduler) /\ [SchedulerNext]_scheduler => SchedulerInv(scheduler)'
  BY SchedulerStep
<1>3. SchedulerInv(scheduler) => NothingIsMissed BY SchedulerFinds
<1> QED BY <1>1, <1>2, <1>3, PTL DEF SchedulerSpec

-----------------------------------------------------------------------------
(* Periodic publication *)

\* Publications are in order, each once, and those of models with a period.
InRow(list) ==
  \A i, j \in 1..Len(list) : i < j => list[i].target <= list[j].target /\ list[i].model # list[j].model

Wanted(list, period) == \A i \in 1..Len(list) : period[list[i].model].num # 0

Ordered(p) == p \in Publications /\ InRow(p.list) /\ Wanted(p.list, p.period)

\* The inductive invariant.
PublishInv(p) ==
  /\ Ordered(p)
  /\ (p.timer.on <=> p.list # <<>>)
  /\ (p.list # <<>> => p.running)

\* The parts of publications.
LEMMA PublishParts ==
  ASSUME NEW p \in Publications
  PROVE  /\ p.list \in Seq(Waiting) /\ Len(p.list) \in Nat
         /\ (p.list = <<>> <=> Len(p.list) = 0)
         /\ \A i \in 1..Len(p.list) :
              p.list[i] \in Waiting /\ p.list[i].model \in PUBLISHERS /\ p.list[i].target \in Int
         /\ p.period \in [PUBLISHERS -> [res : Nat, num : Nat]]
         /\ \A m \in PUBLISHERS : p.period[m].res \in Nat /\ p.period[m].num \in Nat
         /\ p.running \in BOOLEAN /\ p.res \in Nat /\ p.asked \in SUBSET PUBLISHERS /\ p.changes \in Nat
         /\ p.timer \in [on : BOOLEAN, left : Int] /\ p.timer.on \in BOOLEAN /\ p.timer.left \in Int
<1>1. /\ p.list \in Seq(Waiting) /\ p.period \in [PUBLISHERS -> [res : Nat, num : Nat]]
      /\ p.running \in BOOLEAN /\ p.res \in Nat /\ p.asked \in SUBSET PUBLISHERS /\ p.changes \in Nat
      /\ p.timer \in [on : BOOLEAN, left : Int]
  BY DEF Publications
<1>2. Len(p.list) \in Nat /\ (p.list = <<>> <=> Len(p.list) = 0)
      /\ \A i \in 1..Len(p.list) : p.list[i] \in Waiting
  BY <1>1
<1>3. \A w \in Waiting : w.model \in PUBLISHERS /\ w.target \in Int BY DEF Waiting
<1>4. \A m \in PUBLISHERS : p.period[m].res \in Nat /\ p.period[m].num \in Nat BY <1>1
<1>5. p.timer.on \in BOOLEAN /\ p.timer.left \in Int BY <1>1
<1> QED BY <1>1, <1>2, <1>3, <1>4, <1>5

\* Only the list is new, of the fields that Ordered is about.
HasList(q, p, list) == q \in Publications /\ q.list = list /\ q.period = p.period

\* Counting on keeps the order.
LEMMA CountingOn ==
  ASSUME NEW p, Ordered(p), NEW units \in Int
  PROVE  LET q == CountedOn(p, units) IN
         /\ Ordered(q) /\ (q.list = <<>> <=> p.list = <<>>)
         /\ q.timer = p.timer /\ q.running = p.running
<1> DEFINE q == CountedOn(p, units)
           l == [i \in DOMAIN p.list |-> [p.list[i] EXCEPT !.target = NotFurther(@ - units)]]
<1>1. p \in Publications /\ InRow(p.list) /\ Wanted(p.list, p.period) BY DEF Ordered
<1>2. BEHIND \in Int BY PublishAssumption DEF PublishAssumption
<1>3. ASSUME NEW x \in Int PROVE NotFurther(x - units) \in Int BY <1>2 DEF NotFurther
<1>4. ASSUME NEW x \in Int, NEW y \in Int, x <= y PROVE NotFurther(x - units) <= NotFurther(y - units)
  BY <1>2, <1>4 DEF NotFurther
<1>5. DOMAIN p.list = 1..Len(p.list) /\ Len(p.list) \in Nat BY <1>1, PublishParts
<1>6. ASSUME NEW i \in 1..Len(p.list)
      PROVE  /\ l[i] \in Waiting /\ l[i].model = p.list[i].model
             /\ l[i].target = NotFurther(p.list[i].target - units)
  BY <1>1, <1>3, <1>5, PublishParts DEF Waiting
<1>7. l \in Seq(Waiting) /\ Len(l) = Len(p.list)
  <2>1. l \in [1..Len(p.list) -> Waiting] BY <1>5, <1>6
  <2> HIDE DEF l
  <2> QED BY <1>5, <2>1
<1>8. q = [p EXCEPT !.list = l] BY DEF CountedOn
<1> HIDE DEF l
<1>9. HasList(q, p, l) /\ q.timer = p.timer /\ q.running = p.running
  BY <1>1, <1>7, <1>8 DEF HasList, Publications
<1>10. InRow(l)
  <2> SUFFICES ASSUME NEW i \in 1..Len(l), NEW j \in 1..Len(l), i < j
               PROVE  l[i].target <= l[j].target /\ l[i].model # l[j].model
    BY DEF InRow
  <2>1. p.list[i].target <= p.list[j].target /\ p.list[i].model # p.list[j].model
    BY <1>1, <1>7 DEF InRow
  <2>2. p.list[i].target \in Int /\ p.list[j].target \in Int BY <1>1, <1>7, PublishParts
  <2> QED BY <1>4, <1>6, <1>7, <2>1, <2>2
<1>11. Wanted(l, p.period) BY <1>1, <1>6, <1>7 DEF Wanted
<1>12. l = <<>> <=> p.list = <<>> BY <1>1, <1>7, PublishParts
<1> HIDE DEF q
<1> QED BY <1>9, <1>10, <1>11, <1>12 DEF HasList, Ordered, q

\* The place of a target is behind those that are not later.
LEMMA BehindSplits ==
  ASSUME NEW list \in Seq(Waiting), NEW target \in Int
  PROVE  LET k == BehindEarlier(list, target) IN
         /\ k \in 1..(Len(list) + 1)
         /\ \A i \in 1..(k - 1) : list[i].target <= target
         /\ k <= Len(list) => target < list[k].target
<1> DEFINE n == Len(list)
           IsPlace(k) == /\ \A i \in 1..(k - 1) : list[i].target <= target
                         /\ k <= n => target < list[k].target
           T == {k \in 1..(n + 1) : k <= n => target < list[k].target}
<1>1. n \in Nat /\ \A i \in 1..n : list[i].target \in Int
  <2>1. n \in Nat /\ \A i \in 1..n : list[i] \in Waiting OBVIOUS
  <2>2. \A w \in Waiting : w.target \in Int BY DEF Waiting
  <2> HIDE DEF n
  <2> QED BY <2>1, <2>2
<1> HIDE DEF n
<1>2. n + 1 \in T /\ T \in SUBSET Nat BY <1>1
<1>3. PICK k \in T : \A j \in T : k <= j
  <2> HIDE DEF T
  <2> QED BY <1>2, LeastNumber
<1>4. ASSUME NEW i \in 1..(k - 1) PROVE list[i].target <= target
  <2>1. k \in 1..(n + 1) /\ i \in 1..n /\ i \in 1..(n + 1) /\ ~(k <= i) BY <1>1, <1>3
  <2>2. i \notin T BY <1>3, <2>1
  <2>3. ~(target < list[i].target) /\ list[i].target \in Int BY <1>1, <2>1, <2>2
  <2> QED BY <2>3
<1>5. k \in 1..(n + 1) /\ IsPlace(k) BY <1>3, <1>4
<1>6. BehindEarlier(list, target) = CHOOSE j \in 1..(n + 1) : IsPlace(j) BY DEF BehindEarlier, n
<1> HIDE DEF IsPlace
<1>7. BehindEarlier(list, target) \in 1..(n + 1) /\ IsPlace(BehindEarlier(list, target)) BY <1>5, <1>6
<1> QED BY <1>7 DEF n, IsPlace

\* A model with a period that is not in the list is added to it in order.
LEMMA AddingToRow ==
  ASSUME NEW p, Ordered(p), NEW m \in PUBLISHERS, ~IsIn(p.list, m), p.period[m].num # 0
  PROVE  LET q == AddToList(p, m) IN
         /\ Ordered(q) /\ q.list # <<>> /\ q.timer = p.timer /\ q.running = p.running
         /\ IsFirst(q, m) \/ p.list # <<>>
<1> DEFINE q == AddToList(p, m)
           target == p.period[m].res * p.period[m].num
           e == [model |-> m, target |-> target]
           k == BehindEarlier(p.list, target)
           l == InsertedAt(p.list, k, e)
<1>1. p \in Publications /\ InRow(p.list) /\ Wanted(p.list, p.period) BY DEF Ordered
<1>2. target \in Int BY <1>1, PublishParts
<1>3. q = [p EXCEPT !.list = l] BY DEF AddToList
<1> HIDE DEF target
<1>4. e \in Waiting /\ e.model = m /\ e.target = target BY <1>2 DEF Waiting
<1>5. /\ k \in 1..(Len(p.list) + 1)
      /\ \A i \in 1..(k - 1) : p.list[i].target <= target
      /\ k <= Len(p.list) => target < p.list[k].target
  BY <1>1, <1>2, BehindSplits, PublishParts
<1>6. Len(p.list) \in Nat /\ p.list \in Seq(Waiting) BY <1>1, PublishParts
<1> HIDE DEF e, k
<1>7. /\ l \in Seq(Waiting) /\ Len(l) = Len(p.list) + 1
      /\ \A i \in 1..Len(l) : l[i] = IF i < k THEN p.list[i] ELSE IF i = k THEN e ELSE p.list[i - 1]
  BY <1>4, <1>5, <1>6, InsertingAt
<1> HIDE DEF l
<1>8. HasList(q, p, l) /\ q.timer = p.timer /\ q.running = p.running
  BY <1>1, <1>3, <1>7 DEF HasList, Publications
<1>9. ASSUME NEW i \in 1..Len(p.list)
      PROVE  IF i < k THEN p.list[i].target <= target ELSE target <= p.list[i].target
  <2>1. CASE i < k BY <1>5, <1>6, <2>1
  <2>2. CASE ~(i < k)
    <3>1. k \in 1..Len(p.list) /\ k <= i BY <1>5, <1>6, <2>2
    <3>2. target < p.list[k].target BY <1>5, <3>1
    <3>3. p.list[k].target <= p.list[i].target
      <4>1. CASE k = i BY <1>1, <3>1, <4>1, PublishParts
      <4>2. CASE k # i
        <5>1. k < i BY <3>1, <4>2
        <5> QED BY <1>1, <3>1, <5>1 DEF InRow
      <4> QED BY <4>1, <4>2
    <3>4. p.list[k].target \in Int /\ p.list[i].target \in Int BY <1>1, <3>1, PublishParts
    <3> QED BY <1>2, <2>2, <3>2, <3>3, <3>4
  <2> QED BY <2>1, <2>2
<1>10. \A i \in 1..Len(p.list) : p.list[i].model # m
  BY <1>6 DEF IsIn
<1>11. InRow(l)
  <2> SUFFICES ASSUME NEW i \in 1..Len(l), NEW j \in 1..Len(l), i < j
               PROVE  l[i].target <= l[j].target /\ l[i].model # l[j].model
    BY DEF InRow
  <2> DEFINE at(n) == IF n < k THEN n ELSE n - 1
  <2>1. /\ i # k => at(i) \in 1..Len(p.list) /\ l[i] = p.list[at(i)]
        /\ j # k => at(j) \in 1..Len(p.list) /\ l[j] = p.list[at(j)]
        /\ i # k /\ j # k => at(i) < at(j)
        /\ i = k => l[i] = e /\ ~(at(j) < k)
        /\ j = k => l[j] = e /\ at(i) < k
    <3>1. i \in Nat /\ j \in Nat /\ k \in Nat /\ 1 <= k /\ k <= Len(p.list) + 1
          /\ 1 <= i /\ i <= Len(p.list) + 1 /\ 1 <= j /\ j <= Len(p.list) + 1
      BY <1>5, <1>6, <1>7
    <3>2. i # k => at(i) \in 1..Len(p.list) BY <1>6, <3>1
    <3>3. j # k => at(j) \in 1..Len(p.list) BY <1>6, <3>1
    <3>7. (i # k => l[i] = p.list[at(i)]) /\ (j # k => l[j] = p.list[at(j)]) BY <1>7, <3>1
    <3>4. i # k /\ j # k => at(i) < at(j) BY <3>1
    <3>5. i = k => l[i] = e /\ ~(at(j) < k) BY <1>7, <3>1
    <3>6. j = k => l[j] = e /\ at(i) < k BY <1>7, <3>1
    <3> QED BY <3>2, <3>3, <3>4, <3>5, <3>6, <3>7
  <2>2. i # k \/ j # k OBVIOUS
  <2> HIDE DEF at
  <2>3. CASE i = k
    <3>1. at(j) \in 1..Len(p.list) /\ l[j] = p.list[at(j)] /\ ~(at(j) < k) BY <2>1, <2>2, <2>3
    <3> QED BY <1>4, <1>9, <1>10, <2>1, <2>3, <3>1
  <2>4. CASE j = k
    <3>1. at(i) \in 1..Len(p.list) /\ l[i] = p.list[at(i)] /\ at(i) < k BY <2>1, <2>2, <2>4
    <3> QED BY <1>4, <1>9, <1>10, <2>1, <2>4, <3>1
  <2>5. CASE i # k /\ j # k BY <1>1, <2>1, <2>5 DEF InRow
  <2> QED BY <2>3, <2>4, <2>5
<1>12. Wanted(l, p.period)
  <2> SUFFICES ASSUME NEW i \in 1..Len(l) PROVE p.period[l[i].model].num # 0 BY DEF Wanted
  <2>1. CASE i = k BY <1>4, <1>7, <2>1
  <2>2. CASE i < k
    <3>1. i \in 1..Len(p.list) /\ l[i] = p.list[i] BY <1>5, <1>6, <1>7, <2>2
    <3> QED BY <1>1, <3>1 DEF Wanted
  <2>3. CASE i > k
    <3>1. i - 1 \in 1..Len(p.list) /\ l[i] = p.list[i - 1] BY <1>5, <1>6, <1>7, <2>3
    <3> QED BY <1>1, <3>1 DEF Wanted
  <2> QED BY <1>5, <2>1, <2>2, <2>3
<1>13. l # <<>> BY <1>6, <1>7
<1>14. (l # <<>> /\ l[1].model = m) \/ p.list # <<>>
  <2>1. CASE p.list # <<>> BY <2>1
  <2>2. CASE p.list = <<>>
    <3>1. Len(p.list) = 0 BY <2>2
    <3>2. k = 1 /\ 1 \in 1..Len(l) BY <1>5, <1>7, <3>1
    <3> QED BY <1>4, <1>7, <1>13, <3>2
  <2> QED BY <2>1, <2>2
<1> HIDE DEF q
<1> QED BY <1>8, <1>11, <1>12, <1>13, <1>14 DEF HasList, Ordered, IsFirst, q

\* A publication that leaves the list leaves the others in order.
LEMMA LeavingRow ==
  ASSUME NEW p, Ordered(p), NEW k \in 1..Len(p.list)
  PROVE  LET l == RemovedAt(p.list, k) IN
         /\ l \in Seq(Waiting) /\ InRow(l) /\ Wanted(l, p.period) /\ ~IsIn(l, p.list[k].model)
         /\ k # 1 => l # <<>> /\ l[1] = p.list[1]
         /\ Len(l) = Len(p.list) - 1
<1> DEFINE l == RemovedAt(p.list, k)
<1>1. p \in Publications /\ InRow(p.list) /\ Wanted(p.list, p.period) BY DEF Ordered
<1>2. Len(p.list) \in Nat /\ p.list \in Seq(Waiting) BY <1>1, PublishParts
<1>3. /\ l \in Seq(Waiting) /\ Len(l) = Len(p.list) - 1
      /\ \A i \in 1..Len(l) : l[i] = IF i < k THEN p.list[i] ELSE p.list[i + 1]
  BY <1>2, RemovingAt
<1> HIDE DEF l
<1> DEFINE at(n) == IF n < k THEN n ELSE n + 1
<1>4. ASSUME NEW i \in 1..Len(l)
      PROVE  at(i) \in 1..Len(p.list) /\ at(i) # k /\ l[i] = p.list[at(i)]
  BY <1>2, <1>3
<1>5. ASSUME NEW i \in 1..Len(l), NEW j \in 1..Len(l), i < j PROVE at(i) < at(j)
  <2>1. i \in Nat /\ j \in Nat BY <1>3
  <2> QED BY <1>2, <1>5, <2>1
<1>6. k # 1 => 1 \in 1..Len(l) /\ at(1) = 1 BY <1>2, <1>3
<1> HIDE DEF at
<1>7. InRow(l)
  <2> SUFFICES ASSUME NEW i \in 1..Len(l), NEW j \in 1..Len(l), i < j
               PROVE  l[i].target <= l[j].target /\ l[i].model # l[j].model
    BY DEF InRow
  <2>1. at(i) < at(j) BY <1>5
  <2> QED BY <1>1, <1>4, <2>1 DEF InRow
<1>8. Wanted(l, p.period) BY <1>1, <1>4 DEF Wanted
<1>9. ~IsIn(l, p.list[k].model)
  <2> SUFFICES ASSUME NEW i \in 1..Len(l), l[i].model = p.list[k].model PROVE FALSE
    BY <1>3 DEF IsIn
  <2>1. at(i) \in 1..Len(p.list) /\ at(i) # k /\ p.list[at(i)].model = p.list[k].model BY <1>4
  <2>2. at(i) < k \/ k < at(i) BY <1>2, <2>1
  <2> QED BY <1>1, <2>1, <2>2 DEF InRow
<1>10. k # 1 => l # <<>> /\ l[1] = p.list[1] BY <1>4, <1>6
<1> QED BY <1>3, <1>7, <1>8, <1>9, <1>10 DEF l

\* The turns of a loop that begins with a.
AreTurns(f, S, F, a, m) == f \in [0..m -> S] /\ f = [n \in 0..m |-> IF n = 0 THEN a ELSE F[f[n - 1]]]

\* A loop can take any number of turns in S.
LEMMA TurnsExist ==
  ASSUME NEW S, NEW F \in [S -> S], NEW a \in S, NEW m \in Nat
  PROVE  \E f : AreTurns(f, S, F, a, m)
<1> DEFINE Runs(k) == \E f : AreTurns(f, S, F, a, k)
           T == {k \in Nat : ~Runs(k)}
<1>1. ASSUME T # {} PROVE FALSE
  <2>1. PICK k \in T : \A j \in T : k <= j
    <3> HIDE DEF Runs
    <3> QED BY <1>1, LeastNumber
  <2>2. CASE k = 0
    <3> DEFINE f == [n \in 0..k |-> a]
    <3>1. f \in [0..k -> S] /\ f = [n \in 0..k |-> IF n = 0 THEN a ELSE F[f[n - 1]]] BY <2>2
    <3>2. Runs(k) BY <3>1 DEF AreTurns
    <3> QED BY <3>2
  <2>3. CASE k # 0
    <3>1. k \in Nat /\ k - 1 \in Nat /\ k - 1 < k BY <2>3
    <3>2. Runs(k - 1)
      <4> HIDE DEF Runs
      <4>1. k - 1 \notin T BY <2>1, <3>1
      <4> QED BY <3>1, <4>1
    <3>3. PICK g \in [0..(k - 1) -> S] :
            g = [n \in 0..(k - 1) |-> IF n = 0 THEN a ELSE F[g[n - 1]]]
      BY <3>2 DEF AreTurns
    <3> DEFINE f == [n \in 0..k |-> IF n = k THEN F[g[k - 1]] ELSE g[n]]
    <3>4. F[g[k - 1]] \in S BY <3>1, <3>3
    <3>5. f \in [0..k -> S]
      <4> SUFFICES ASSUME NEW n \in 0..k, n # k PROVE g[n] \in S BY <3>4
      <4>1. n \in 0..(k - 1) BY <3>1
      <4> QED BY <3>3, <4>1
    <3>6. ASSUME NEW n \in 0..k PROVE f[n] = IF n = 0 THEN a ELSE F[f[n - 1]]
      <4>1. CASE n = k
        <5>1. n # 0 /\ n - 1 \in 0..k /\ n - 1 # k BY <2>3, <3>1, <4>1
        <5>2. f[n - 1] = g[k - 1] BY <4>1, <5>1
        <5> QED BY <4>1, <5>1, <5>2
      <4>2. CASE n # k /\ n = 0
        <5>1. n \in 0..(k - 1) BY <3>1, <4>2
        <5>2. g[n] = a BY <3>3, <4>2, <5>1
        <5> QED BY <4>2, <5>2
      <4>3. CASE n # k /\ n # 0
        <5>1. n \in 0..(k - 1) /\ n - 1 \in 0..k /\ n - 1 # k BY <3>1, <4>3
        <5>2. g[n] = F[g[n - 1]] BY <3>3, <4>3, <5>1
        <5>3. f[n - 1] = g[n - 1] BY <5>1
        <5> QED BY <4>3, <5>2, <5>3
      <4> QED BY <4>1, <4>2, <4>3
    <3>7. f = [n \in 0..k |-> IF n = 0 THEN a ELSE F[f[n - 1]]] BY <3>6
    <3>8. Runs(k) BY <3>5, <3>7 DEF AreTurns
    <3> QED BY <3>8
  <2> QED BY <2>2, <2>3
<1>2. Runs(m)
  <2> HIDE DEF Runs
  <2> QED BY <1>1
<1> QED BY <1>2

\* The timer is scheduled anew for what waits.
LEMMA SchedulingPublish ==
  ASSUME NEW p, Ordered(p), p.list # <<>> \/ p.running \/ ~p.timer.on, NEW q, q \in ScheduleTimer(p)
  PROVE  PublishInv(q)
<1> DEFINE c == IF p.running THEN CountedOn(p, Elapsed(p)) ELSE p
<1>1. p \in Publications /\ UNIT \in Nat \ {0}
  BY PublishAssumption DEF Ordered, PublishAssumption
<1>2. Elapsed(p) \in Int
  <2>1. p.res \in Nat /\ p.timer.left \in Int BY <1>1, PublishParts
  <2>2. p.res * UNIT \in Int BY <1>1, <2>1
  <2> DEFINE e == p.res * UNIT - p.timer.left
  <2>3. e \in Int BY <2>1, <2>2
  <2>4. Elapsed(p) = IF p.res = 1 /\ 2 * e > UNIT THEN 1 ELSE e \div UNIT BY DEF Elapsed
  <2> HIDE DEF e
  <2> QED BY <1>1, <2>3, <2>4
<1>3. /\ Ordered(c) /\ (c.list = <<>> <=> p.list = <<>>)
      /\ c.timer = p.timer /\ c.running = p.running
  BY <1>2, CountingOn
<1>4. q \in IF c.list # <<>>
            THEN {[c EXCEPT !.res = r, !.running = TRUE,
                            !.timer = [on |-> TRUE, left |-> r * UNIT]] : r \in NextResolutions(c)}
            ELSE {[c EXCEPT !.timer.on = @ /\ ~c.running]}
  BY Zenon DEF ScheduleTimer
<1> HIDE DEF c
<1>5. c \in Publications BY <1>3 DEF Ordered
<1>6. CASE c.list # <<>>
  <2>1. PICK r \in NextResolutions(c) :
          q = [c EXCEPT !.res = r, !.running = TRUE, !.timer = [on |-> TRUE, left |-> r * UNIT]]
    BY <1>4, <1>6, Zenon
  <2>2. r \in Nat
    <3>1. 1 \in 1..Len(c.list) BY <1>5, <1>6, PublishParts
    <3>2. c.list[1].model \in PUBLISHERS BY <1>5, <3>1, PublishParts
    <3>3. c.period[c.list[1].model].res \in Nat /\ c.res \in Nat /\ c.list[1].target \in Int
      BY <1>5, <3>1, <3>2, PublishParts
    <3> DEFINE res == c.period[c.list[1].model].res
               whole == (c.list[1].target \div c.res) % (res \div c.res) = 0
    <3>4. NextResolutions(c) = CASE res <= c.res -> {res}
                                 [] res > c.res /\ c.list[1].target < 0 -> {res, c.res}
                                 [] res > c.res /\ c.list[1].target >= 0 -> {IF whole THEN res ELSE c.res}
      BY DEF NextResolutions
    <3> HIDE DEF res, whole
    <3>5. res \in Nat BY <3>3 DEF res
    <3>6. res <= c.res \/ (res > c.res /\ c.list[1].target < 0)
          \/ (res > c.res /\ c.list[1].target >= 0)
      BY <3>3, <3>5
    <3> QED BY <3>3, <3>4, <3>5, <3>6
  <2>3. r * UNIT \in Int BY <1>1, <2>2
  <2> DEFINE timer == [on |-> TRUE, left |-> r * UNIT]
  <2>4. timer \in [on : BOOLEAN, left : Int] /\ timer.on = TRUE BY <2>3
  <2> HIDE DEF timer
  <2>5. q = [c EXCEPT !.res = r, !.running = TRUE, !.timer = timer] BY <2>1 DEF timer
  <2>6. /\ q \in Publications /\ q.list = c.list /\ q.period = c.period
        /\ q.timer = timer /\ q.running = TRUE
    BY <1>5, <2>2, <2>4, <2>5 DEF Publications
  <2> QED BY <1>3, <1>6, <2>4, <2>6 DEF PublishInv, Ordered
<1>7. CASE c.list = <<>>
  <2>1. q = [c EXCEPT !.timer.on = @ /\ ~c.running] BY <1>4, <1>7
  <2>2. /\ q \in Publications /\ q.list = c.list /\ q.period = c.period
        /\ q.timer.on = (c.timer.on /\ ~c.running)
    BY <1>5, <2>1 DEF Publications
  <2>3. ~(c.timer.on /\ ~c.running) BY <1>3, <1>7
  <2> QED BY <1>3, <1>7, <2>2, <2>3 DEF PublishInv, Ordered
<1>8. c.list # <<>> \/ c.list = <<>> OBVIOUS
<1> QED BY <1>6, <1>7, <1>8

\* A turn of the loop over what is due.
LEMMA TriggeringFirst ==
  ASSUME NEW p, Ordered(p)
  PROVE  LET q == TriggeredFirst(p) IN
         Ordered(q) /\ q.timer = p.timer /\ q.running = p.running
<1>1. p \in Publications /\ InRow(p.list) /\ Wanted(p.list, p.period) BY DEF Ordered
<1>2. CASE p.list = <<>> \/ p.list[1].target > 0
  <2>1. TriggeredFirst(p) = p BY <1>2 DEF TriggeredFirst
  <2> QED BY <2>1
<1>3. CASE ~(p.list = <<>> \/ p.list[1].target > 0)
  <2> DEFINE m == p.list[1].model
             t == [p EXCEPT !.list = Tail(@), !.asked = @ \union {m}]
  <2>1. TriggeredFirst(p) = AddToList(t, m) BY <1>3 DEF TriggeredFirst
  <2>2. 1 \in 1..Len(p.list) /\ Len(p.list) \in Nat /\ p.list # <<>> BY <1>1, <1>3, PublishParts
  <2>3. m \in PUBLISHERS /\ p.period[m].num # 0 BY <1>1, <2>2, PublishParts DEF Wanted
  <2>4. RemovedAt(p.list, 1) = Tail(p.list)
    <3>1. p.list \in Seq(Waiting) BY <1>1, PublishParts
    <3>2. /\ Tail(p.list) \in Seq(Waiting) /\ Len(Tail(p.list)) = Len(p.list) - 1
          /\ \A i \in 1..(Len(p.list) - 1) : Tail(p.list)[i] = p.list[i + 1]
      BY <2>2, <3>1
    <3>3. /\ RemovedAt(p.list, 1) \in Seq(Waiting)
          /\ Len(RemovedAt(p.list, 1)) = Len(p.list) - 1
          /\ \A i \in 1..(Len(p.list) - 1) : RemovedAt(p.list, 1)[i] = p.list[i + 1]
      <4> DEFINE l == RemovedAt(p.list, 1)
      <4>1. /\ l \in Seq(Waiting) /\ Len(l) = Len(p.list) - 1
            /\ \A i \in 1..Len(l) : l[i] = IF i < 1 THEN p.list[i] ELSE p.list[i + 1]
        BY <2>2, <3>1, RemovingAt
      <4> HIDE DEF l
      <4> QED BY <2>2, <4>1 DEF l
    <3> DEFINE a == Tail(p.list)
               b == RemovedAt(p.list, 1)
    <3> HIDE DEF a, b
    <3>4. a \in Seq(Waiting) /\ b \in Seq(Waiting) /\ Len(a) = Len(b)
          /\ \A i \in 1..Len(a) : a[i] = b[i]
      BY <2>2, <3>2, <3>3 DEF a, b
    <3>5. a = b BY <3>4
    <3> QED BY <3>5 DEF a, b
  <2>5. /\ Tail(p.list) \in Seq(Waiting) /\ InRow(Tail(p.list)) /\ Wanted(Tail(p.list), p.period)
        /\ ~IsIn(Tail(p.list), m)
    BY <2>2, <2>4, LeavingRow
  <2>6. p.asked \union {m} \in SUBSET PUBLISHERS BY <1>1, <2>3, PublishParts
  <2>7. HasList(t, p, Tail(p.list)) /\ t.timer = p.timer /\ t.running = p.running
    BY <1>1, <2>5, <2>6 DEF HasList, Publications
  <2> HIDE DEF m, t
  <2>8. Ordered(t) /\ ~IsIn(t.list, m) /\ t.period[m].num # 0 BY <2>3, <2>5, <2>7 DEF Ordered, HasList
  <2> QED BY <2>1, <2>3, <2>7, <2>8, AddingToRow
<1> QED BY <1>2, <1>3

\* The loop over what is due.
LEMMA Triggering ==
  ASSUME NEW p, Ordered(p)
  PROVE  LET q == Triggered(p) IN
         Ordered(q) /\ q.timer = p.timer /\ q.running = p.running
<1> DEFINE a == [p EXCEPT !.asked = {}]
           n == Len(p.list)
           S == {q \in Publications : Ordered(q) /\ q.timer = p.timer /\ q.running = p.running}
           F == [q \in S |-> TriggeredFirst(q)]
           Run(f) == f = [i \in 0..n |-> IF i = 0 THEN a ELSE TriggeredFirst(f[i - 1])]
           c == CHOOSE f : Run(f)
<1>1. p \in Publications /\ n \in Nat BY PublishParts DEF Ordered
<1>2. a \in S
  <2>1. HasList(a, p, p.list) /\ a.timer = p.timer /\ a.running = p.running
    BY <1>1 DEF HasList, Publications
  <2> HIDE DEF a
  <2> QED BY <2>1 DEF HasList, Ordered
<1>3. F \in [S -> S]
  <2> SUFFICES ASSUME NEW q \in S PROVE TriggeredFirst(q) \in S OBVIOUS
  <2>1. Ordered(q) /\ q.timer = p.timer /\ q.running = p.running OBVIOUS
  <2>2. /\ Ordered(TriggeredFirst(q)) /\ TriggeredFirst(q).timer = p.timer
        /\ TriggeredFirst(q).running = p.running
    BY <2>1, TriggeringFirst
  <2> QED BY <2>2 DEF Ordered
<1>4. Triggered(p) = c[n] BY DEF Triggered
<1>5. ASSUME NEW q \in S PROVE F[q] = TriggeredFirst(q) OBVIOUS
<1> HIDE DEF S, F, a, n
<1>6. PICK f \in [0..n -> S] : f = [i \in 0..n |-> IF i = 0 THEN a ELSE F[f[i - 1]]]
  <2>1. \E f : AreTurns(f, S, F, a, n) BY <1>1, <1>2, <1>3, TurnsExist
  <2> QED BY <2>1 DEF AreTurns
<1>7. Run(f)
  <2>1. ASSUME NEW i \in 0..n PROVE f[i] = IF i = 0 THEN a ELSE TriggeredFirst(f[i - 1])
    <3>1. CASE i = 0 BY <1>6, <3>1
    <3>2. CASE i # 0
      <4>1. i - 1 \in 0..n BY <1>1, <3>2
      <4>2. f[i - 1] \in S BY <1>6, <4>1
      <4>3. f[i] = F[f[i - 1]] BY <1>6, <3>2
      <4> QED BY <1>5, <3>2, <4>2, <4>3
    <3> QED BY <3>1, <3>2
  <2> QED BY <1>6, <2>1
<1>8. Run(c)
  <2> HIDE DEF Run
  <2> QED BY <1>7
<1> HIDE DEF c
<1> DEFINE T == {i \in Nat : i <= n /\ c[i] \notin S}
<1>9. ASSUME T # {} PROVE FALSE
  <2>1. PICK i \in T : \A j \in T : i <= j BY <1>9, LeastNumber
  <2>2. i \in Nat /\ i <= n /\ i \in 0..n /\ c[i] \notin S BY <1>1, <2>1
  <2>3. i # 0 BY <1>2, <1>8, <2>2
  <2>4. i - 1 \in Nat /\ i - 1 <= n /\ ~(i <= i - 1) BY <1>1, <2>2, <2>3
  <2>5. c[i - 1] \in S BY <2>1, <2>4
  <2>6. c[i] = TriggeredFirst(c[i - 1]) BY <1>8, <2>2, <2>3
  <2>7. F[c[i - 1]] \in S BY <1>3, <2>5
  <2> QED BY <1>5, <2>2, <2>5, <2>6, <2>7
<1>10. c[n] \in S BY <1>1, <1>9
<1> QED BY <1>4, <1>10 DEF S

\* A publication whose period is set.
LEMMA PeriodSetKeeps ==
  ASSUME NEW p, PublishInv(p), NEW m \in PUBLISHERS, NEW res \in Nat, NEW num \in Nat,
         NEW r \in PeriodSet(p, m, res, num)
  PROVE  PublishInv(r)
<1> DEFINE left == RemoveFromList(p, m)
           q == [left EXCEPT !.period[m] = [res |-> res, num |-> num]]
           added == AddToList(q, m)
<1>1. Ordered(p) /\ p \in Publications BY DEF PublishInv, Ordered
<1>2. /\ Ordered(left) /\ ~IsIn(left.list, m) /\ left.period = p.period
      /\ left.timer = p.timer /\ left.running = p.running
      /\ ~IsFirst(p, m) => (left.list = <<>> <=> p.list = <<>>)
      /\ left.list # <<>> => p.list # <<>>
  <2>1. CASE ~IsIn(p.list, m)
    <3>1. left = p BY <2>1 DEF RemoveFromList
    <3> QED BY <1>1, <2>1, <3>1
  <2>2. CASE IsIn(p.list, m)
    <3> DEFINE k == CHOOSE i \in DOMAIN p.list : p.list[i].model = m
               l == RemovedAt(p.list, k)
    <3>1. k \in DOMAIN p.list /\ p.list[k].model = m BY <2>2 DEF IsIn
    <3>2. left = [p EXCEPT !.list = l] BY <2>2 DEF RemoveFromList
    <3> HIDE DEF k
    <3>3. k \in 1..Len(p.list) BY <1>1, <3>1, PublishParts
    <3>4. /\ l \in Seq(Waiting) /\ InRow(l) /\ Wanted(l, p.period) /\ ~IsIn(l, m)
          /\ k # 1 => l # <<>> /\ l[1] = p.list[1]
      BY <1>1, <3>1, <3>3, LeavingRow
    <3> HIDE DEF l
    <3>5. HasList(left, p, l) /\ left.timer = p.timer /\ left.running = p.running
      BY <1>1, <3>2, <3>4 DEF HasList, Publications
    <3>6. p.list # <<>> BY <1>1, <3>3, PublishParts
    <3>7. k = 1 => IsFirst(p, m) BY <3>1, <3>6 DEF IsFirst
    <3> HIDE DEF left
    <3>8. Ordered(left) /\ left.list = l /\ left.period = p.period
      BY <3>4, <3>5 DEF HasList, Ordered
    <3> QED BY <3>4, <3>5, <3>6, <3>7, <3>8
  <2> QED BY <2>1, <2>2
<1> HIDE DEF left
<1>3. [res |-> res, num |-> num] \in [res : Nat, num : Nat] OBVIOUS
<1>4. left \in Publications /\ InRow(left.list) /\ Wanted(left.list, left.period)
  BY <1>2 DEF Ordered
<1>5. /\ q \in Publications /\ q.list = left.list /\ q.timer = p.timer /\ q.running = p.running
      /\ q.period = [left.period EXCEPT ![m] = [res |-> res, num |-> num]]
  BY <1>2, <1>3, <1>4 DEF Publications
<1> HIDE DEF q
<1>6. /\ q.period[m].num = num
      /\ \A d \in PUBLISHERS : d # m => q.period[d] = left.period[d]
  BY <1>4, <1>5, PublishParts
<1>7. Ordered(q) /\ ~IsIn(q.list, m)
  <2>1. ASSUME NEW i \in 1..Len(q.list) PROVE q.period[q.list[i].model].num # 0
    <3>1. q.list[i].model \in PUBLISHERS BY <1>5, PublishParts
    <3>2. q.list[i].model # m
      <4>1. i \in DOMAIN left.list BY <1>4, <1>5, PublishParts
      <4> QED BY <1>2, <1>5, <4>1 DEF IsIn
    <3>3. left.period[left.list[i].model].num # 0 BY <1>4, <1>5 DEF Wanted
    <3> QED BY <1>5, <1>6, <3>1, <3>2, <3>3
  <2> QED BY <1>2, <1>4, <1>5, <2>1 DEF Ordered, Wanted
<1>8. num # 0 => /\ Ordered(added) /\ added.list # <<>> /\ added.timer = p.timer
                 /\ added.running = p.running /\ (IsFirst(added, m) \/ q.list # <<>>)
  BY <1>5, <1>6, <1>7, AddingToRow
<1>9. PeriodSet(p, m, res, num) =
        CASE num # 0 /\ IsFirst(added, m) -> ScheduleTimer(added)
          [] num # 0 /\ ~IsFirst(added, m) -> {added}
          [] num = 0 /\ IsFirst(p, m) -> ScheduleTimer(q)
          [] OTHER -> {q}
  BY DEF PeriodSet, q, left
<1> HIDE DEF added
<1>10. (p.timer.on <=> p.list # <<>>) /\ (p.list # <<>> => p.running) BY DEF PublishInv
<1>11. CASE num # 0 /\ IsFirst(added, m)
  <2>1. r \in ScheduleTimer(added) BY <1>9, <1>11
  <2> QED BY <1>8, <1>11, <2>1, SchedulingPublish
<1>12. CASE num # 0 /\ ~IsFirst(added, m)
  <2>1. r = added BY <1>9, <1>12
  <2>2. p.list # <<>> BY <1>2, <1>5, <1>8, <1>12
  <2> QED BY <1>8, <1>10, <1>12, <2>1, <2>2 DEF PublishInv
<1>13. CASE num = 0 /\ IsFirst(p, m)
  <2>1. r \in ScheduleTimer(q) BY <1>9, <1>13
  <2>2. p.running BY <1>10, <1>13 DEF IsFirst
  <2> QED BY <1>5, <1>7, <2>1, <2>2, SchedulingPublish
<1>14. CASE num = 0 /\ ~IsFirst(p, m)
  <2>1. r = q BY <1>9, <1>14
  <2>2. q.list = <<>> <=> p.list = <<>> BY <1>2, <1>5, <1>14
  <2> QED BY <1>5, <1>7, <1>10, <2>1, <2>2 DEF PublishInv
<1> QED BY <1>11, <1>12, <1>13, <1>14

\* A step of the resolution is over.
LEMMA TimerTickKeeps == ASSUME PublishInv(publish), PublishTimerTick PROVE PublishInv(publish')
<1> DEFINE counted == CountedOn(publish, publish.res)
           stopped == [counted EXCEPT !.running = FALSE, !.timer.on = FALSE]
<1>1. Ordered(publish) /\ publish \in Publications /\ publish.res \in Int
  BY PublishParts DEF PublishInv, Ordered
<1>2. Ordered(counted) BY <1>1, CountingOn
<1>3. publish' \in ScheduleTimer(Triggered(stopped)) BY DEF PublishTimerTick
<1> HIDE DEF counted
<1>4. counted \in Publications BY <1>2 DEF Ordered
<1>5. HasList(stopped, counted, counted.list) /\ stopped.timer.on = FALSE
  BY <1>4 DEF HasList, Publications
<1> HIDE DEF stopped
<1>6. Ordered(stopped) BY <1>2, <1>5 DEF HasList, Ordered
<1>7. Ordered(Triggered(stopped)) /\ ~Triggered(stopped).timer.on BY <1>5, <1>6, Triggering
<1> QED BY <1>3, <1>7, SchedulingPublish

\* The calls and the time.
LEMMA PublishStep ==
  ASSUME PublishInv(publish), [PublishNext]_publish
  PROVE  PublishInv(publish')
<1>1. Ordered(publish) /\ publish \in Publications BY DEF PublishInv, Ordered
<1>2. ASSUME NEW m \in PUBLISHERS, NEW res \in RESOLUTIONS, NEW num \in STEPS \union {0},
             AccessPublishPeriodSet(m, res, num)
      PROVE  PublishInv(publish')
  <2> DEFINE p == [publish EXCEPT !.changes = @ + 1, !.asked = {}]
  <2>1. publish' \in PeriodSet(p, m, res, num) BY <1>2 DEF AccessPublishPeriodSet
  <2> DEFINE changes == publish.changes + 1
  <2>5. changes \in Nat /\ {} \in SUBSET PUBLISHERS BY <1>1, PublishParts
  <2>6. p = [publish EXCEPT !.changes = changes, !.asked = {}] OBVIOUS
  <2> HIDE DEF p, changes
  <2>2. /\ HasList(p, publish, publish.list) /\ p.timer = publish.timer
        /\ p.running = publish.running
    BY <1>1, <2>5, <2>6 DEF HasList, Publications
  <2>3. PublishInv(p) BY <2>2 DEF HasList, PublishInv, Ordered
  <2>4. res \in Nat /\ num \in Nat BY PublishAssumption DEF PublishAssumption
  <2> QED BY <2>1, <2>3, <2>4, PeriodSetKeeps
<1>3. CASE PublishTimerTick BY <1>3, TimerTickKeeps
<1>4. CASE PublishTick
  <2>1. publish' = [publish EXCEPT !.timer.left = NotFurther(@ - 1), !.asked = {}]
    BY <1>4 DEF PublishTick
  <2>2. NotFurther(publish.timer.left - 1) \in Int
    BY <1>1, PublishParts, PublishAssumption DEF NotFurther, PublishAssumption
  <2>3. HasList(publish', publish, publish.list) /\ publish'.timer.on = publish.timer.on
        /\ publish'.running = publish.running
    BY <1>1, <2>1, <2>2 DEF HasList, Publications
  <2> QED BY <2>3 DEF HasList, PublishInv, Ordered
<1>5. CASE UNCHANGED publish BY <1>5
<1> QED BY <1>2, <1>3, <1>4, <1>5 DEF PublishNext

\* Publications wait in the order of their targets, and the timer runs for them.
THEOREM PublicationsInOrder == PublishSpec => []FirstIsNext
<1>1. PublishInit => PublishInv(publish)
  <2> SUFFICES ASSUME PublishInit PROVE PublishInv(publish) OBVIOUS
  <2>1. publish \in Publications /\ publish.list = <<>> /\ ~publish.timer.on
    BY DEF PublishInit, Publications
  <2> QED BY <2>1 DEF PublishInv, Ordered, InRow, Wanted
<1>2. PublishInv(publish) /\ [PublishNext]_publish => PublishInv(publish)' BY PublishStep
<1>3. PublishInv(publish) => FirstIsNext
  <2> SUFFICES ASSUME PublishInv(publish) PROVE FirstIsNext OBVIOUS
  <2>1. /\ publish \in Publications /\ InRow(publish.list)
        /\ Wanted(publish.list, publish.period) /\ (publish.timer.on <=> publish.list # <<>>)
    BY DEF PublishInv, Ordered
  <2>2. DOMAIN publish.list = 1..Len(publish.list) BY <2>1, PublishParts
  <2>3. \A i \in DOMAIN publish.list : publish.list[i].model \in PUBLISHERS
                                       /\ publish.period[publish.list[i].model].num # 0
    BY <2>1, <2>2, PublishParts DEF Wanted
  <2> QED BY <2>1, <2>2, <2>3 DEF FirstIsNext, InRow
<1> QED BY <1>1, <1>2, <1>3, PTL DEF PublishSpec
=============================================================================
