---------------------------- MODULE AccessReliable ----------------------------
(***************************************************************************)
(* Acknowledged messages of the access layer (access_reliable.c): a pool   *)
(* of transfers, each published again and again until its reply arrives or *)
(* its time is over, and the one timer that all of them share.             *)
(*                                                                         *)
(* Times are counted from now, so that a tick takes one from each of them. *)
(***************************************************************************)
EXTENDS Integers, FiniteSets

CONSTANTS
  MODELS,           \* access models that publish reliably
  COUNT,            \* ACCESS_RELIABLE_TRANSFER_COUNT
  INTERVAL,         \* calculate_interval of a message
  RETRY_DELAY,      \* ACCESS_RELIABLE_RETRY_DELAY
  TIMEOUTS,         \* the timeouts users ask for
  LATE              \* bound: how late the scheduler calls the timer

ASSUME ReliableAssumption ==
  /\ MODELS # {} /\ COUNT \in Nat \ {0}
  /\ INTERVAL \in Nat /\ RETRY_DELAY \in Nat /\ TIMEOUTS \subseteq Nat

VARIABLE reliable

BACK_OFF_FACTOR == 2

Index == 1..COUNT

INVALID == 0        \* ACCESS_RELIABLE_INDEX_INVALID

FreeContext ==
  [in_use |-> FALSE, model |-> CHOOSE m \in MODELS : TRUE,
   timeout |-> 0, next |-> 0, interval |-> 0]

\* The type of the pool with its timer.
Transfers ==
  [in_use : BOOLEAN, model : MODELS, timeout : Int, next : Int, interval : Int]

Reliables ==
  [pool : [Index -> Transfers], active_count : Nat, next_index : Index \cup {INVALID},
   timer : [on : BOOLEAN, due : Int], blind : BOOLEAN, halted : BOOLEAN]

Stopped == [on |-> FALSE, due |-> 0]

ReliableInit ==
  reliable = [pool |-> [i \in Index |-> FreeContext], active_count |-> 0,
              next_index |-> 1, timer |-> Stopped,
              blind |-> FALSE, halted |-> FALSE]

InUse(r) == {i \in Index : r.pool[i].in_use}

\* A time is over when it is reached: ACCESS_RELIABLE_TIMEOUT_MARGIN is less
\* than a unit.
TimeOver(time) == time <= 0

Ensured(r, holds) == [r EXCEPT !.halted = @ \/ ~holds]

ContextOf(r, m) == {i \in InUse(r) : r.pool[i].model = m}

FirstFree(r) == CHOOSE i \in Index \ InUse(r) : \A j \in Index \ InUse(r) : i <= j

CanTransfer(r, m) == InUse(r) # Index /\ ContextOf(r, m) = {}

\* The timer knows no next index while its callback goes through the pool, and
\* is_earliest_timeout reads pool[0xFFFF], far behind the end.
ReadsBehind(r) == r.active_count > 0 /\ r.next_index = INVALID

\* What lies behind the pool decides either way.
IsEarliest(r, next) ==
  {earliest \in BOOLEAN :
     ~ReadsBehind(r) => (earliest <=> r.active_count = 0 \/ r.pool[r.next_index].next >= next)}

Add(r, m, timeout, earliest) ==
  LET i == FirstFree(r)
      c == [in_use |-> TRUE, model |-> m, timeout |-> timeout,
            next |-> INTERVAL, interval |-> INTERVAL]
      added == [r EXCEPT !.pool[i] = c, !.active_count = @ + 1, !.blind = @ \/ ReadsBehind(r)]
  IN  IF earliest
      THEN [added EXCEPT !.next_index = i, !.timer = [on |-> TRUE, due |-> INTERVAL]]
      ELSE added

\* The new transfer, for each outcome of is_earliest_timeout.
Additions(r, m, timeout) == {Add(r, m, timeout, e) : e \in IsEarliest(r, INTERVAL)}

\* The status callback of a model, without a new message or with one.
StatusCallback(r, m) ==
  {r} \union (IF CanTransfer(r, m) THEN UNION {Additions(r, m, t) : t \in TIMEOUTS} ELSE {})

\* The transfer with the earliest next timeout.  There is no difference of
\* ACCESS_RELIABLE_TIMEOUT_MAX between two of them.
NextIndex(r) ==
  CHOOSE i \in InUse(r) : /\ \A j \in InUse(r) : r.pool[i].next <= r.pool[j].next
                         /\ \A j \in InUse(r) : j < i => r.pool[i].next < r.pool[j].next

\* Mutant: the timer goes on without a next transfer.
RemoveOnly(r, i) ==
  LET s == [r EXCEPT !.pool[i] = FreeContext, !.active_count = @ - 1]
  IN  IF s.active_count = 0 THEN [s EXCEPT !.timer = Stopped] ELSE s

RemoveAndReschedule(r, i) ==
  LET s == [r EXCEPT !.pool[i] = FreeContext, !.active_count = @ - 1]
      n == NextIndex(s)
  IN  CASE s.active_count = 0 -> [s EXCEPT !.timer = Stopped]
        [] s.active_count > 0 /\ r.next_index = i ->
             [s EXCEPT !.next_index = n, !.timer = [on |-> TRUE, due |-> s.pool[n].next]]
        [] OTHER -> s

(***************************************************************************)
(* The timer: the pool is gone through in order.  For each transfer that   *)
(* is still in use, its end, its next publication, or neither.             *)
(***************************************************************************)
Ended(r, i) ==
  StatusCallback([r EXCEPT !.pool[i] = FreeContext, !.active_count = @ - 1],
                 r.pool[i].model)

Sooner(a, b) == IF a < b THEN a ELSE b

\* The publication is due again after a longer interval, and no later than the
\* end of the transfer.
Published(r, i) ==
  [r EXCEPT !.next_index = i,
            !.pool[i].next = Sooner(@ + r.pool[i].interval, r.pool[i].timeout),
            !.pool[i].interval = @ * BACK_OFF_FACTOR]

\* Mutant: the end of the transfer moves with its next publication.
NoMemoryExtends(r, i) ==
  [r EXCEPT !.next_index = i, !.pool[i].next = @ + RETRY_DELAY,
            !.pool[i].timeout = @ + RETRY_DELAY]

NoMemory(r, i) == [r EXCEPT !.next_index = i, !.pool[i].next = @ + RETRY_DELAY]

Tracked(r, i) ==
  IF r.next_index = INVALID \/ r.pool[i].next < r.pool[r.next_index].next
  THEN [r EXCEPT !.next_index = i] ELSE r

\* Without memory the rest of the pool is left for the next time.
Visited(v, i) ==
  LET r == v.r
      c == r.pool[i]
      Goes(S) == {[r |-> s, on |-> TRUE] : s \in S}
  IN  CASE ~v.on \/ ~c.in_use -> {v}
        [] v.on /\ c.in_use /\ TimeOver(c.timeout) -> Goes(Ended(r, i))
        [] v.on /\ c.in_use /\ ~TimeOver(c.timeout) /\ TimeOver(c.next) ->
             Goes({Published(r, i)}) \union {[r |-> NoMemory(r, i), on |-> FALSE]}
        [] OTHER -> Goes({Tracked(r, i)})

VisitedIn(views, i) == UNION {Visited(v, i) : v \in views}

Unvisited(r) == [r |-> [r EXCEPT !.next_index = INVALID, !.blind = FALSE], on |-> TRUE]

PoolVisited(r) ==
  LET upto[i \in 0..COUNT] ==
        IF i = 0 THEN {Unvisited(r)} ELSE VisitedIn(upto[i - 1], i)
  IN  {v.r : v \in upto[COUNT]}

Abs(x) == IF x < 0 THEN -x ELSE x

\* A periodic timer goes on from when it was due, in steps of its interval, a
\* difference that has no sign, unless the callback scheduled it.  A unit is many
\* microseconds: the interval of exactly 0, which would stop it, is left out.
GoesOn(r) ==
  IF r.active_count = 0 THEN [r EXCEPT !.timer = Stopped]
  ELSE IF r.next_index = INVALID THEN [r EXCEPT !.halted = TRUE]
  ELSE IF r.timer.due > 0 THEN r
  ELSE LET next == r.pool[r.next_index].next
           interval == IF next = 0 THEN 1 ELSE Abs(next)
           steps == CHOOSE k \in 1..(1 - r.timer.due) :
                      /\ r.timer.due + k * interval > 0
                      /\ \A j \in 1..(k - 1) : r.timer.due + j * interval <= 0
       IN  [r EXCEPT !.timer.due = @ + steps * interval]

ReliableTimerCb ==
  /\ ~reliable.halted /\ reliable.timer.on /\ reliable.timer.due <= 0
  /\ reliable' \in {GoesOn(r) : r \in PoolVisited(Ensured(reliable, reliable.active_count > 0))}

(***************************************************************************)
(* The functions of the interface.                                         *)
(***************************************************************************)
\* The first publication may also find no memory: the transfer starts anyway.
PublishReliable(m, timeout) ==
  /\ CanTransfer(reliable, m)
  /\ reliable' \in Additions(reliable, m, timeout)

MessageRx(m) ==
  /\ ContextOf(reliable, m) # {}
  /\ \E i \in ContextOf(reliable, m) :
       reliable' \in StatusCallback(RemoveAndReschedule(reliable, i), m)

Cancel(m) ==
  \E i \in ContextOf(reliable, m) : reliable' = RemoveAndReschedule(reliable, i)

\* The next index stays as it is.
CancelAll ==
  /\ reliable.active_count > 0
  /\ reliable' = [reliable EXCEPT !.active_count = 0, !.timer = Stopped,
                                  !.pool = [i \in Index |-> FreeContext]]

Aged(c) == IF c.in_use THEN [c EXCEPT !.next = @ - 1, !.timeout = @ - 1] ELSE c

\* Time passes, up to LATE units beyond what the timer waits for.
ReliableTick ==
  /\ ~reliable.halted /\ reliable.timer.on /\ reliable.timer.due > -LATE
  /\ reliable' = [reliable EXCEPT !.timer.due = @ - 1,
                                  !.pool = [i \in Index |-> Aged(reliable.pool[i])]]

\* An assertion that fails stops the device.
ReliableNext ==
  \/ /\ ~reliable.halted
     /\ \/ \E m \in MODELS :
             (\E t \in TIMEOUTS : PublishReliable(m, t)) \/ MessageRx(m) \/ Cancel(m)
        \/ CancelAll
  \/ ReliableTimerCb
  \/ ReliableTick

ReliableSpec == ReliableInit /\ [][ReliableNext]_reliable

\* Time passes, and a timer that is due is called.
ReliableFairSpec == ReliableSpec /\ WF_reliable(ReliableTick) /\ WF_reliable(ReliableTimerCb)

-----------------------------------------------------------------------------
(***************************************************************************)
(* The count is that of the contexts in use, and while there is one the    *)
(* timer runs for one of them: an overdue transfer is never left without   *)
(* anything that would end it.  The assertions hold on the condition that  *)
(* no status callback publishes while the timer knows no next index and    *)
(* others are active: `blind' says that one did in this run of the timer.  *)
(***************************************************************************)
TimerWatches ==
  /\ reliable.halted => reliable.blind
  /\ ~reliable.halted =>
       /\ reliable.active_count = Cardinality(InUse(reliable))
       /\ reliable.timer.on <=> InUse(reliable) # {}
       /\ InUse(reliable) # {} => reliable.next_index \in InUse(reliable)

\* A user may start a new transfer in the status callback of the last one
\* (access_reliable.c:107): no assertion fails whatever the callbacks do.  It does
\* not hold.
CallbacksMayPublish == ~reliable.halted

\* A model has no transfer, or one that has just been started.
NoneOrNew(m) ==
  \A i \in ContextOf(reliable, m) :
    reliable.pool[i].next = INTERVAL /\ reliable.pool[i].timeout \in TIMEOUTS

\* Every transfer ends, by its reply, its timeout or its cancellation: time and
\* again each model has none, or one that has just been started by the callback
\* of the last, unless the assertion of TimerWatches' condition stopped the device.
TransfersEnd == \A m \in MODELS : []<>(NoneOrNew(m) \/ reliable.halted)
=============================================================================
