------------------------------ MODULE Heartbeat ------------------------------
(***************************************************************************)
(* Heartbeats (heartbeat.c, with the publication state and the messages of *)
(* config_server.c): a node publishes heartbeats every period until a      *)
(* count is used up, and one whenever a feature changes; and it counts     *)
(* those that it is told to listen to.                                     *)
(*                                                                         *)
(* Times are in seconds.  MAX_LOG stands for 0x11: counts and periods are  *)
(* powers of two up to that logarithm.  The one feature is the relay.      *)
(***************************************************************************)
EXTENDS Integers

CONSTANTS
  MAX_LOG,             \* HEARTBEAT_MAX_COUNT_LOG and HEARTBEAT_MAX_PERIOD_LOG
  SUB_INTERVAL,        \* HEARTBEAT_PUBLISH_SUB_INTERVAL_S
  COUNT_LOGS,          \* the count logarithms that clients ask for
  PERIOD_LOGS,         \* the period logarithms that clients ask for
  HEARTBEAT_CHANGES    \* bound: messages of clients, and changes of features and keys

ASSUME HeartbeatAssumption ==
  /\ MAX_LOG \in 1..255 /\ SUB_INTERVAL \in Nat
  /\ COUNT_LOGS \subseteq 0..255 /\ PERIOD_LOGS \subseteq 0..255

VARIABLE heartbeat

\* 1 << n: a logarithm is one byte of a message.
Shift[n \in 0..255] == IF n = 0 THEN 1 ELSE 2 * Shift[n - 1]

MAX_COUNT == Shift[MAX_LOG - 1]

INF_COUNT == MAX_COUNT - 1

\* 0xFF; the logarithms between MAX_LOG and this one are not valid.
INF_COUNT_LOG == MAX_LOG + 2

INVALID_COUNT == 4 * MAX_COUNT

MAX_PERIOD == MAX_COUNT

INVALID_PERIOD == 4 * MAX_PERIOD

OFF == -1

NoPublication == [dst |-> FALSE, count |-> 0, period |-> 0, features |-> FALSE]

HeartbeatInit ==
  heartbeat = [pub |-> NoPublication, remaining |-> 0, timer |-> OFF,
               pendingPub |-> FALSE, pendingFeat |-> FALSE, listening |-> FALSE,
               sub |-> [on |-> FALSE, count |-> 0, period |-> 0], subTimer |-> OFF,
               key |-> TRUE, halted |-> FALSE, changes |-> 0,
               asked |-> 0, sent |-> 0, cut |-> FALSE]

\* The type of what the node keeps.
Heartbeats ==
  [pub : [dst : BOOLEAN, count : Nat, period : Nat, features : BOOLEAN],
   remaining : Nat, timer : Nat \cup {OFF}, pendingPub : BOOLEAN, pendingFeat : BOOLEAN,
   listening : BOOLEAN, sub : [on : BOOLEAN, count : Nat, period : Nat],
   subTimer : Nat \cup {OFF}, key : BOOLEAN, halted : BOOLEAN, changes : Nat,
   asked : Nat, sent : Nat, cut : BOOLEAN]

Lesser(a, b) == IF a < b THEN a ELSE b

CountDecode(log) ==
  CASE log = 0 -> 0
    [] log \in 1..MAX_LOG -> Shift[log - 1]
    [] log = INF_COUNT_LOG -> INF_COUNT
    [] OTHER -> INVALID_COUNT

PeriodDecode(log) ==
  CASE log = 0 -> 0
    [] log \in 1..MAX_LOG -> Shift[log - 1]
    [] OTHER -> INVALID_PERIOD

\* A number of heartbeats that a client may ask for.  The largest one is beyond the
\* number that stands for no end.
IsFinite(count) == count <= MAX_COUNT /\ count # INF_COUNT

\* The count can be said in a status message; of any other the encoding asserts.
Encodable(count) == count < MAX_COUNT \/ count = INF_COUNT

Halted(h) == [h EXCEPT !.halted = TRUE]

IsPublicationRunning(h) == h.pub.dst /\ h.pub.count # 0

\* Mutant: the last one is not counted.
CountDecrementButLast(h) ==
  IF h.pub.count \notin {0, 1, INF_COUNT} THEN [h EXCEPT !.pub.count = @ - 1] ELSE h

CountDecrement(h) ==
  IF h.pub.count \notin {0, INF_COUNT} THEN [h EXCEPT !.pub.count = @ - 1] ELSE h

\* The handler goes to the end of the list of event handlers, where it may be once.
HandlerAdd(h) == IF h.listening THEN Halted(h) ELSE [h EXCEPT !.listening = TRUE]

\* "sent" follows a finite count, up to one more than that.
Noted(h) ==
  IF IsFinite(h.asked) /\ h.sent <= h.asked THEN [h EXCEPT !.sent = @ + 1] ELSE h

\* Mutant: a heartbeat that found no memory is counted.
SentOrCounted(h, counted) ==
  IF h.pub.count = 0 /\ ~h.pub.features THEN {Halted(h)}
  ELSE {IF counted THEN CountDecrement(h) ELSE h,
        IF counted
        THEN CountDecrement(Noted(h))
        ELSE h}

\* A heartbeat is sent, when the transport has memory for it, and counted when
\* it is a periodical one.
Sent(h, counted) ==
  IF h.pub.count = 0 /\ ~h.pub.features THEN {Halted(h)}
  ELSE {h, IF counted THEN CountDecrement(Noted(h)) ELSE h}

Restarted(h) ==
  [h EXCEPT !.remaining = h.pub.period, !.timer = Lesser(h.pub.period, SUB_INTERVAL)]

\* heartbeat_publication_state_updated; the caller has looked the key up.
StateUpdated(h) ==
  IF ~h.pub.dst \/ h.pub.count = 0 \/ h.pub.period = 0
  THEN [h EXCEPT !.timer = OFF]
  ELSE [HandlerAdd(Restarted(h)) EXCEPT !.pendingPub = ~h.listening \/ @]

-----------------------------------------------------------------------------
(* Timers and events *)

Works == ~heartbeat.halted

\* The period, or the part of it that the timer takes, is over.
Passed(h) ==
  [h EXCEPT !.remaining = @ - Lesser(Lesser(h.pub.period, SUB_INTERVAL), @)]

Rescheduled(h) ==
  [h EXCEPT !.timer = IF h.pub.count > 0 THEN Lesser(h.remaining, SUB_INTERVAL) ELSE OFF]

PublicationTimerCb ==
  LET h == heartbeat
      p == Passed(h)
  IN  /\ Works /\ h.timer = 0
      /\ \/ ~h.key /\ heartbeat' = [h EXCEPT !.timer = OFF, !.cut = TRUE]
         \/ h.key /\ h.remaining = 0 /\ heartbeat' = Halted(h)
         \/ /\ h.key /\ h.remaining > 0
            /\ IF p.remaining = 0 /\ IsPublicationRunning(p)
               THEN \E s \in Sent(p, TRUE) :
                      heartbeat' = Rescheduled([s EXCEPT !.remaining = s.pub.period])
               ELSE heartbeat' = Rescheduled(p)

(***************************************************************************)
(* A transmission of the node is complete, of whatever it was: what is     *)
(* pending is sent, and the handler leaves the list.                       *)
(***************************************************************************)
CoreEvt ==
  LET h == heartbeat
      pub == IF h.key /\ h.pendingPub /\ IsPublicationRunning(h) THEN Sent(h, TRUE) ELSE {h}
      Feat(p) == IF p.key /\ p.pendingFeat /\ p.pub.dst THEN Sent(p, FALSE) ELSE {p}
  IN  /\ Works /\ h.listening
      /\ \E p \in pub : \E f \in Feat(p) :
           heartbeat' = [f EXCEPT !.listening = FALSE, !.pendingPub = FALSE,
                                  !.pendingFeat = FALSE]

SubscriptionTimerCb ==
  /\ Works /\ heartbeat.subTimer = 0
  /\ heartbeat' = IF heartbeat.sub.period < 1
                  THEN [heartbeat EXCEPT !.subTimer = OFF, !.sub.period = 0]
                  ELSE [heartbeat EXCEPT !.subTimer = 1, !.sub.period = @ - 1]

\* A second passes; timers are called in time.
Tick ==
  /\ Works
  /\ heartbeat.timer # 0 /\ heartbeat.subTimer # 0
  /\ {heartbeat.timer, heartbeat.subTimer} # {OFF}
  /\ heartbeat' = [heartbeat EXCEPT !.timer = IF @ = OFF THEN OFF ELSE @ - 1,
                                    !.subTimer = IF @ = OFF THEN OFF ELSE @ - 1]

\* A heartbeat of the source that the node listens to.
OpcodeHandle ==
  /\ Works /\ heartbeat.sub.on /\ heartbeat.sub.period > 0
  /\ heartbeat' = [heartbeat EXCEPT !.sub.count = IF @ < MAX_COUNT THEN @ + 1 ELSE @]

-----------------------------------------------------------------------------
(* Messages of configuration clients, and changes of the node *)

Changed ==
  [heartbeat EXCEPT !.changes = @ + 1]

CanChange == Works /\ heartbeat.changes < HEARTBEAT_CHANGES

PublicationSet(dst, log, period, features) ==
  LET count == CountDecode(log)
      set == [dst |-> dst, count |-> IF dst THEN count ELSE 0,
              period |-> IF dst THEN PeriodDecode(period) ELSE 0, features |-> features]
  IN  /\ CanChange /\ heartbeat.key
      /\ ~(count > MAX_COUNT /\ count < INF_COUNT) /\ PeriodDecode(period) <= MAX_PERIOD
      /\ heartbeat' = StateUpdated([Changed EXCEPT !.pub = set, !.asked = set.count,
                                                   !.sent = 0, !.cut = FALSE])

PublicationGet ==
  /\ CanChange
  /\ heartbeat' = IF Encodable(heartbeat.pub.count) THEN heartbeat ELSE Halted(heartbeat)

\* A period that is not valid changes nothing.
SubscriptionSet(on, period) ==
  /\ CanChange
  /\ heartbeat' =
       CASE PeriodDecode(period) > MAX_PERIOD -> Changed
         [] PeriodDecode(period) <= MAX_PERIOD /\ (~on \/ PeriodDecode(period) = 0) ->
              [Changed EXCEPT !.sub.on = FALSE, !.sub.period = 0, !.subTimer = OFF]
         [] OTHER ->
              [Changed EXCEPT !.sub = [on |-> TRUE, count |-> 0, period |-> PeriodDecode(period)],
                              !.subTimer = 1]

SubscriptionGet ==
  /\ CanChange
  /\ heartbeat' = IF Encodable(heartbeat.sub.count) THEN heartbeat ELSE Halted(heartbeat)

\* The relay is switched on or off.
FeatureChangeTrigger ==
  /\ CanChange
  /\ heartbeat' = IF heartbeat.key /\ heartbeat.pub.features /\ heartbeat.pub.dst
                  THEN [HandlerAdd(Changed) EXCEPT !.pendingFeat = ~heartbeat.listening \/ @]
                  ELSE Changed

\* The key of the publication is deleted, or added again.
NetkeyChange ==
  /\ CanChange
  /\ heartbeat' = [Changed EXCEPT !.key = ~@]

HeartbeatNext ==
  \/ \E dst, features \in BOOLEAN, log \in COUNT_LOGS, period \in PERIOD_LOGS :
       PublicationSet(dst, log, period, features)
  \/ \E on \in BOOLEAN, period \in PERIOD_LOGS : SubscriptionSet(on, period)
  \/ PublicationGet \/ SubscriptionGet
  \/ FeatureChangeTrigger \/ NetkeyChange
  \/ PublicationTimerCb \/ SubscriptionTimerCb \/ CoreEvt \/ OpcodeHandle
  \/ Tick

HeartbeatSpec == HeartbeatInit /\ [][HeartbeatNext]_heartbeat

(***************************************************************************)
(* Time passes, timers are called, and the transport has memory time and   *)
(* again when the timer asks for it.                                       *)
(***************************************************************************)
Publishes == PublicationTimerCb /\ heartbeat'.sent # heartbeat.sent

HeartbeatFairSpec ==
  /\ HeartbeatSpec
  /\ WF_heartbeat(Tick) /\ WF_heartbeat(PublicationTimerCb) /\ WF_heartbeat(SubscriptionTimerCb)
  /\ SF_heartbeat(Publishes)

-----------------------------------------------------------------------------
(***************************************************************************)
(* Of a publication that was set with a count below 0xFFFF, what was sent  *)
(* of it, by the timer or when a transmission was complete, and what is    *)
(* left make up the count.  Of the largest count, 0x10000, the first       *)
(* heartbeat leaves 0xFFFF, which stands for no end.                       *)
(***************************************************************************)
CountedOut ==
  LET h == heartbeat IN
  /\ h.asked < INF_COUNT => h.sent + h.pub.count = h.asked
  /\ h.asked = MAX_COUNT => h.pub.count = IF h.sent = 0 THEN MAX_COUNT ELSE INF_COUNT

(***************************************************************************)
(* A periodical publication with a count below 0xFFFF ends, unless an      *)
(* assertion fails before, or its key was away when the timer looked for   *)
(* it.  One with the largest count does not end: SentAsAsked.              *)
(***************************************************************************)
EndedOrCut ==
  LET h == heartbeat IN
  h.halted \/ ~h.key \/ h.cut \/ h.pub.period = 0 \/ h.asked >= INF_COUNT \/ h.pub.count = 0

PublicationEnds == []<>EndedOrCut

(***************************************************************************)
(* "Number of heartbeat messages to be sent." (config_messages.h:367): no  *)
(* more are sent than a client asked for.  It does not hold.               *)
(***************************************************************************)
SentAsAsked == IsFinite(heartbeat.asked) => heartbeat.sent <= heartbeat.asked
=============================================================================
