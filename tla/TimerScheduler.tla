--------------------------- MODULE TimerScheduler ---------------------------
(***************************************************************************)
(* The timer scheduler (timer_scheduler.c): the fire list of queued        *)
(* events, the list of those to be added, events that were changed while   *)
(* they are in the fire list, and the flag and the hardware timer that     *)
(* bring the bearer event handler to look at them.                         *)
(*                                                                         *)
(* Users call it from the main loop, between two runs of the handler, or   *)
(* in the callbacks of events.  Times are counted from now.                *)
(***************************************************************************)
EXTENDS Integers, Functions, Subsequences

CONSTANTS
  EVENTS,           \* timer events
  PERIOD,           \* the interval of a periodic event
  PERIODIC,         \* the events that have it: the others are single-shot
  DELAYS            \* times from now to which events are set

NoEvent == "none"   \* no callback is running

ASSUME SchedulerAssumption ==
  /\ NoEvent \notin EVENTS
  /\ PERIOD \in Nat \ {0} /\ DELAYS \subseteq Int

VARIABLE scheduler

SchedulerInit ==
  scheduler = [evt |-> [e \in EVENTS |-> [state |-> "UNUSED", time |-> 0]],
               fire |-> <<>>, add |-> <<>>, dirty |-> 0, flag |-> FALSE,
               hw |-> [on |-> FALSE, left |-> 0], calling |-> NoEvent, halted |-> FALSE]

\* The type of the lists with their events.
EventStates == {"UNUSED", "ADDED", "QUEUED", "RESCHEDULED", "ABORTED", "IGNORED", "IN_CALLBACK"}

Schedulers ==
  [evt : [EVENTS -> [state : EventStates, time : Int]], fire : Seq(EVENTS), add : Seq(EVENTS),
   dirty : Nat, flag : BOOLEAN, hw : [on : BOOLEAN, left : Int],
   calling : EVENTS \cup {NoEvent}, halted : BOOLEAN]

EventState(s, e) == s.evt[e].state

SetEvent(s, e, state) == [s EXCEPT !.evt[e].state = state]

Asserts(s, holds) == [s EXCEPT !.halted = @ \/ ~holds]

IsDirty(state) == state \in {"RESCHEDULED", "ABORTED"}

(***************************************************************************)
(* The lists.                                                              *)
(***************************************************************************)
Older(s, e, f) == s.evt[e].time < s.evt[f].time

TakenOut(list, e) == RemovedAt(list, CHOOSE i \in DOMAIN list : list[i] = e)

\* At the head, if it is older than the head, else behind those that are older
\* than it, and at least behind the head.
Place(s, e) ==
  IF s.fire = <<>> \/ Older(s, e, s.fire[1]) THEN 1
  ELSE CHOOSE k \in 2..(Len(s.fire) + 1) :
         /\ \A i \in 2..(k - 1) : Older(s, s.fire[i], e)
         /\ k <= Len(s.fire) => ~Older(s, s.fire[k], e)

AddEvt(s, e) == [s EXCEPT !.fire = InsertedAt(@, Place(s, e), e)]

ToAddList(s, e) ==
  [Asserts(SetEvent(s, e, "ADDED"), EventState(s, e) \in {"UNUSED", "IN_CALLBACK"})
     EXCEPT !.add = <<e>> \o @]

\* What is dirty leaves the fire list, as long as any is counted, and what was
\* rescheduled goes to the add list.
Cleaned(t, e) ==
  LET u == [SetEvent(t, e, "UNUSED") EXCEPT !.fire = TakenOut(@, e), !.dirty = @ - 1]
  IN  CASE t.dirty = 0 \/ ~IsDirty(EventState(t, e)) -> t
        [] t.dirty # 0 /\ EventState(t, e) = "ABORTED" -> u
        [] t.dirty # 0 /\ EventState(t, e) = "RESCHEDULED" -> ToAddList(u, e)

ProcessDirty(s) ==
  LET upto[i \in 0..Len(s.fire)] == IF i = 0 THEN s ELSE Cleaned(upto[i - 1], s.fire[i])
  IN  upto[Len(s.fire)]

\* The first of the add list is put in its place, unless it is ignored.
Placed(t) ==
  LET e == Head(t.add)
      u == [t EXCEPT !.add = Tail(@)]
  IN  IF EventState(t, e) = "IGNORED" THEN SetEvent(u, e, "UNUSED")
      ELSE AddEvt(SetEvent(Asserts(u, EventState(t, e) = "ADDED"), e, "QUEUED"), e)

ProcessAddList(s) ==
  LET upto[i \in 0..Len(s.add)] == IF i = 0 THEN s ELSE Placed(upto[i - 1])
  IN  upto[Len(s.add)]

(***************************************************************************)
(* The interface.                                                          *)
(***************************************************************************)
TimerSchedule(s, e, delay) == [ToAddList([s EXCEPT !.evt[e].time = delay], e) EXCEPT !.flag = TRUE]

\* Mutant: every abort of an event in the fire list counts it.
TimerAbortCounts(s, e) ==
  CASE EventState(s, e) \in {"IN_CALLBACK", "UNUSED"} -> SetEvent(s, e, "UNUSED")
    [] EventState(s, e) \in {"ADDED", "IGNORED"} -> SetEvent(s, e, "IGNORED")
    [] OTHER -> [SetEvent(s, e, "ABORTED") EXCEPT !.flag = TRUE, !.dirty = @ + 1]

\* An event that is ignored already is taken for one of the fire list.
TimerAbort(s, e) ==
  CASE EventState(s, e) \in {"IN_CALLBACK", "UNUSED"} -> SetEvent(s, e, "UNUSED")
    [] EventState(s, e) = "ADDED" -> SetEvent(s, e, "IGNORED")
    [] OTHER -> [SetEvent(s, e, "ABORTED") EXCEPT
                   !.flag = TRUE, !.dirty = @ + (IF IsDirty(EventState(s, e)) THEN 0 ELSE 1)]

TimerReschedule(s, e, delay) ==
  LET t == CASE EventState(s, e) \in {"UNUSED", "IN_CALLBACK"} -> ToAddList(s, e)
             [] EventState(s, e) \in {"ADDED", "IGNORED"} -> SetEvent(s, e, "ADDED")
             [] OTHER -> [SetEvent(s, e, "RESCHEDULED") EXCEPT
                            !.dirty = @ + (IF IsDirty(EventState(s, e)) THEN 0 ELSE 1)]
  IN  [t EXCEPT !.evt[e].time = delay, !.flag = TRUE]

(***************************************************************************)
(* The handler, with a step for each callback.                             *)
(***************************************************************************)
Due(s) == s.fire # <<>> /\ s.evt[s.fire[1]].time <= 0

SetupTimeout(s) ==
  IF s.fire = <<>> THEN s
  ELSE [s EXCEPT !.hw = [on |-> TRUE, left |-> IF s.evt[s.fire[1]].time > 0
                                               THEN s.evt[s.fire[1]].time ELSE 1]]

\* The next callback of fire_timers, or the end of the handler.
Fired(s) ==
  IF ~Due(s) THEN [SetupTimeout(s) EXCEPT !.calling = NoEvent]
  ELSE LET e == Head(s.fire)
       IN  [Asserts(SetEvent(s, e, "IN_CALLBACK"), EventState(s, e) = "QUEUED")
              EXCEPT !.fire = Tail(@), !.calling = e]

\* An event that was not added in its callback is, if it is periodic, at the
\* first multiple of its interval that is ahead.
Readded(s, e) ==
  LET ahead == PERIOD - ((-s.evt[e].time) % PERIOD)
  IN  CASE EventState(s, e) # "IN_CALLBACK" -> s
        [] EventState(s, e) = "IN_CALLBACK" /\ e \notin PERIODIC -> SetEvent(s, e, "UNUSED")
        [] OTHER -> AddEvt([s EXCEPT !.evt[e] = [state |-> "QUEUED", time |-> ahead]], e)

FlagEventCb ==
  /\ scheduler.calling = NoEvent /\ scheduler.flag
  /\ scheduler' = Fired(ProcessAddList(ProcessDirty([scheduler EXCEPT !.flag = FALSE])))

CallbackReturns ==
  /\ scheduler.calling # NoEvent
  /\ scheduler' = Fired(Readded(ProcessAddList(ProcessDirty(scheduler)), scheduler.calling))

-----------------------------------------------------------------------------
\* Users schedule an event that is not in use, or in its own callback.
TimerSchSchedule(e, delay) ==
  /\ EventState(scheduler, e) \in {"UNUSED", "IN_CALLBACK"}
  /\ scheduler' = TimerSchedule(scheduler, e, delay)

\* They do not abort an event twice before it has been added.
TimerSchAbort(e) ==
  /\ EventState(scheduler, e) # "IGNORED"
  /\ scheduler' = TimerAbort(scheduler, e)

TimerSchReschedule(e, delay) == scheduler' = TimerReschedule(scheduler, e, delay)

TimerCb ==
  /\ scheduler.hw.on /\ scheduler.hw.left <= 0
  /\ scheduler' = [scheduler EXCEPT !.hw.on = FALSE, !.flag = TRUE]

AgedEvent(event) == IF event.state = "UNUSED" THEN event ELSE [event EXCEPT !.time = @ - 1]

\* Time passes, but not while the handler has something to do.
SchedulerTick ==
  /\ scheduler.calling = NoEvent /\ ~scheduler.flag
  /\ scheduler.hw.on /\ scheduler.hw.left > 0
  /\ scheduler' = [scheduler EXCEPT
       !.hw.left = @ - 1, !.evt = [e \in EVENTS |-> AgedEvent(scheduler.evt[e])]]

SchedulerNext ==
  \/ \E e \in EVENTS, delay \in DELAYS :
       TimerSchSchedule(e, delay) \/ TimerSchReschedule(e, delay)
  \/ \E e \in EVENTS : TimerSchAbort(e)
  \/ FlagEventCb
  \/ CallbackReturns
  \/ TimerCb
  \/ SchedulerTick

SchedulerSpec == SchedulerInit /\ [][SchedulerNext]_scheduler

-----------------------------------------------------------------------------
(***************************************************************************)
(* Every event is in the list its state says, once; the count of changed   *)
(* events is that of the fire list; and with anything left to do the       *)
(* handler is on its way, or the hardware timer, no later than the first   *)
(* event of a sorted list.                                                 *)
(***************************************************************************)
NothingIsMissed ==
  LET s == scheduler
      InState(S) == {e \in EVENTS : EventState(s, e) \in S}
  IN  /\ ~s.halted
      /\ Range(s.fire) = InState({"QUEUED", "RESCHEDULED", "ABORTED"})
      /\ Range(s.add) = InState({"ADDED", "IGNORED"})
      /\ IsInjective(s.fire) /\ IsInjective(s.add)
      /\ s.dirty = Cardinality(InState({"RESCHEDULED", "ABORTED"}))
      /\ s.calling = NoEvent /\ ~s.flag =>
           /\ s.add = <<>> /\ s.dirty = 0
           /\ \A i, j \in DOMAIN s.fire : i < j => s.evt[s.fire[i]].time <= s.evt[s.fire[j]].time
           /\ s.fire # <<>> => s.hw.on /\ (s.evt[s.fire[1]].time > 0 =>
                                             s.hw.left <= s.evt[s.fire[1]].time)
=============================================================================
