---------------------------- MODULE AccessPublish ----------------------------
(***************************************************************************)
(* Periodic publication (access_publish.c): the models that publish wait   *)
(* in a list for a count of 100 ms units, which one timer moves on in      *)
(* steps of a resolution.                                                  *)
(*                                                                         *)
(* The code uses no more of the count than its differences with targets,   *)
(* so that targets are kept relative to it: adding to the count takes from *)
(* every target.                                                           *)
(***************************************************************************)
EXTENDS Integers, Subsequences

CONSTANTS
  PUBLISHERS,       \* models with a publication callback
  RESOLUTIONS,      \* step resolutions, in 100 ms units
  STEPS,            \* the step numbers other than 0 that are asked for
  UNIT,             \* 100 ms, in ticks of the model
  PERIOD_CHANGES,   \* bound: calls of access_publish_period_set
  BEHIND            \* bound: a time that is further past counts as this one

ASSUME PublishAssumption ==
  RESOLUTIONS \subseteq Nat \ {0} /\ STEPS \subseteq Nat \ {0} /\ UNIT \in Nat \ {0} /\ BEHIND \in Nat

VARIABLE publish

PublishInit ==
  publish = [list |-> <<>>, period |-> [m \in PUBLISHERS |-> [res |-> 1, num |-> 0]],
             running |-> FALSE, timer |-> [on |-> FALSE, left |-> 0], res |-> 1,
             asked |-> {}, changes |-> 0]

\* The type of the publications and their timer.
Waiting == [model : PUBLISHERS, target : Int]

Publications ==
  [list : Seq(Waiting), period : [PUBLISHERS -> [res : Nat, num : Nat]], running : BOOLEAN,
   timer : [on : BOOLEAN, left : Int], res : Nat, asked : SUBSET PUBLISHERS, changes : Nat]

NotFurther(x) == IF x < -BEHIND THEN -BEHIND ELSE x

CountedOn(p, units) ==
  [p EXCEPT !.list =
     [i \in DOMAIN p.list |-> [p.list[i] EXCEPT !.target = NotFurther(@ - units)]]]

\* A new target comes behind those that are not later.
BehindEarlier(list, target) ==
  CHOOSE k \in 1..(Len(list) + 1) :
    /\ \A i \in 1..(k - 1) : list[i].target <= target
    /\ k <= Len(list) => target < list[k].target

AddToList(p, m) ==
  LET target == p.period[m].res * p.period[m].num
  IN  [p EXCEPT !.list = InsertedAt(@, BehindEarlier(@, target), [model |-> m, target |-> target])]

IsIn(list, m) == \E i \in DOMAIN list : list[i].model = m

RemoveFromList(p, m) ==
  IF IsIn(p.list, m)
  THEN [p EXCEPT !.list = RemovedAt(@, CHOOSE i \in DOMAIN @ : @[i].model = m)]
  ELSE p

\* What schedule_publication_timer adds to the count for the step it cuts short.
Elapsed(p) ==
  LET elapsed == p.res * UNIT - p.timer.left
  IN  IF p.res = 1 /\ 2 * elapsed > UNIT THEN 1 ELSE elapsed \div UNIT

(***************************************************************************)
(* calculate_next_timestamp: a finer step is taken at once, a coarser one  *)
(* when the steps that are left make whole coarse ones.  The number of     *)
(* steps to a target that is past is an unsigned one, and may be anything. *)
(***************************************************************************)
NextResolutions(p) ==
  LET head == p.list[1]
      res == p.period[head.model].res
      remaining == head.target \div p.res
  IN  CASE res <= p.res -> {res}
        [] res > p.res /\ head.target < 0 -> {res, p.res}
        [] res > p.res /\ head.target >= 0 ->
             {IF remaining % (res \div p.res) = 0 THEN res ELSE p.res}

\* With an empty list the timer stops, and is still said to be running.
ScheduleTimer(p) ==
  LET c == IF p.running THEN CountedOn(p, Elapsed(p)) ELSE p
  IN  IF c.list # <<>>
      THEN {[c EXCEPT !.res = r, !.running = TRUE,
                      !.timer = [on |-> TRUE, left |-> r * UNIT]] : r \in NextResolutions(c)}
      ELSE {[c EXCEPT !.timer.on = @ /\ ~c.running]}

\* Mutant: the publication is not added again.
TriggeredOnce(p) ==
  IF p.list = <<>> \/ p.list[1].target > 0 THEN p
  ELSE [p EXCEPT !.list = Tail(@), !.asked = @ \union {p.list[1].model}]

(***************************************************************************)
(* A publication that is due leaves the list, its callback is called, and  *)
(* it is added again.  A callback does not set the period of its own model *)
(* here: with the period 0 it would be due again for ever, and with any    *)
(* other it would be in the list twice.  As no publication is due again at *)
(* once, there are no more turns than publications.                        *)
(***************************************************************************)
TriggeredFirst(p) ==
  IF p.list = <<>> \/ p.list[1].target > 0 THEN p
  ELSE LET m == p.list[1].model
       IN  AddToList([p EXCEPT !.list = Tail(@), !.asked = @ \union {m}], m)

Triggered(p) ==
  LET upto[i \in 0..Len(p.list)] ==
        IF i = 0 THEN [p EXCEPT !.asked = {}] ELSE TriggeredFirst(upto[i - 1])
  IN  upto[Len(p.list)]

\* The timer is called at the end of a step.  Both values are bound once, since
\* an argument would be evaluated wherever it is used.
PublishTimerTick ==
  /\ publish.timer.on /\ publish.timer.left <= 0
  /\ \E counted \in {[CountedOn(publish, publish.res) EXCEPT !.running = FALSE, !.timer.on = FALSE]} :
       \E triggered \in {Triggered(counted)} : publish' \in ScheduleTimer(triggered)

IsFirst(p, m) == p.list # <<>> /\ p.list[1].model = m

\* Mutant: the first event is removed, and the timer is left alone.
PeriodSetKeepsTimer(p, m, res, num) ==
  LET q == [RemoveFromList(p, m) EXCEPT !.period[m] = [res |-> res, num |-> num]]
      added == AddToList(q, m)
  IN  IF num # 0 /\ IsFirst(added, m) THEN ScheduleTimer(added)
      ELSE IF num # 0 THEN {added} ELSE {q}

PeriodSet(p, m, res, num) ==
  LET q == [RemoveFromList(p, m) EXCEPT !.period[m] = [res |-> res, num |-> num]]
      added == AddToList(q, m)
  IN  CASE num # 0 /\ IsFirst(added, m) -> ScheduleTimer(added)
        [] num # 0 /\ ~IsFirst(added, m) -> {added}
        [] num = 0 /\ IsFirst(p, m) -> ScheduleTimer(q)
        [] OTHER -> {q}

AccessPublishPeriodSet(m, res, num) ==
  /\ publish.changes < PERIOD_CHANGES
  /\ publish' \in PeriodSet([publish EXCEPT !.changes = @ + 1, !.asked = {}], m, res, num)

\* Time passes, a tick beyond a timer that is due.
PublishTick ==
  /\ publish.timer.on => publish.timer.left >= 0
  /\ publish' = [publish EXCEPT !.timer.left = NotFurther(@ - 1), !.asked = {}]

PublishNext ==
  \/ \E m \in PUBLISHERS, res \in RESOLUTIONS, num \in STEPS \union {0} :
       AccessPublishPeriodSet(m, res, num)
  \/ PublishTimerTick
  \/ PublishTick

PublishSpec == PublishInit /\ [][PublishNext]_publish

\* Time passes, and a timer that is due is called.
PublishFairSpec == PublishSpec /\ WF_publish(PublishTick) /\ WF_publish(PublishTimerTick)

-----------------------------------------------------------------------------
(***************************************************************************)
(* The publications that wait are those with a period, each once and in    *)
(* the order of their targets, and the timer runs while there is one.      *)
(***************************************************************************)
FirstIsNext ==
  LET list == publish.list IN
  /\ \A i, j \in DOMAIN list : i < j => list[i].target <= list[j].target
                                        /\ list[i].model # list[j].model
  /\ {list[i].model : i \in DOMAIN list} \subseteq {m \in PUBLISHERS : publish.period[m].num # 0}
  /\ publish.timer.on <=> list # <<>>

\* A model has been asked to publish just now, or has no period.
AskedOrOff(m) == publish.period[m].num = 0 \/ m \in publish.asked
=============================================================================
