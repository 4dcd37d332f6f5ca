--------------------------- MODULE NetStateProofs ---------------------------
(***************************************************************************)
(* What holds of the network state for every value of the constants: the   *)
(* type invariant of the whole specification, power cycles and resets      *)
(* included, and, within one power cycle, the freshness of the pairs of    *)
(* IV index and sequence number that the node encrypts with, and what the  *)
(* lock promises its holders.                                              *)
(*                                                                         *)
(* Every function of net_state.c is an operator on ram values, so there is *)
(* one lemma per operator and the proof for an action composes the lemmas  *)
(* of the operators it calls.                                              *)
(***************************************************************************)
EXTENDS NetState, TLAPS

USE NetStateAssumption DEF NetStateAssumption

-----------------------------------------------------------------------------
(* Types *)

\* The actions that net_state.c hands to the flash manager are well formed.
LEMMA ActionTypes ==
  /\ \A op \in Ops : OpAction(op) \in Action
  /\ \A n \in Nat : SeqnumAction(n) \in Action
  /\ \A s \in Ram : IvAction(s) \in Action
BY DEF Action, OpAction, SeqnumAction, IvAction, Ops, IvStates, Ram

\* Registering a memory listener keeps the RAM state well formed.
LEMMA RegisterType ==
  ASSUME NEW s \in Ram, NEW l \in Listeners
  PROVE  Register(s, l) \in Ram
<1>1. s.listeners \in Seq(Listeners)
  BY DEF Ram
<1>2. Append(s.listeners, l) \in Seq(Listeners)
  BY <1>1
<1>3. [s EXCEPT !.listeners = Append(s.listeners, l)] \in Ram
  BY <1>2 DEF Ram, IvStates
<1> QED
  BY <1>3 DEF Register

\* Queueing a flash action keeps the RAM state well formed.
LEMMA EnqueueType ==
  ASSUME NEW s \in Ram, NEW a \in Action
  PROVE  Enqueue(s, a) \in Ram
<1>1. s.queue \in Seq(Action)
  BY DEF Ram
<1>2. Append(s.queue, a) \in Seq(Action)
  BY <1>1
<1>3. [s EXCEPT !.queue = Append(s.queue, a)] \in Ram
  BY <1>2 DEF Ram, IvStates
<1> QED
  BY <1>3 DEF Enqueue

\* seqnum_block_allocate keeps the RAM state well formed.
LEMMA SeqnumBlockAllocateType ==
  ASSUME NEW s \in Ram
  PROVE  SeqnumBlockAllocate(s) \in Ram
<1> DEFINE next_block == s.seqnum_max + BLOCK_SIZE
<1>1. next_block \in Nat
  BY DEF Ram
<1>2. Enqueue(s, SeqnumAction(next_block)) \in Ram
  BY <1>1, ActionTypes, EnqueueType
<1>3. [Enqueue(s, SeqnumAction(next_block)) EXCEPT !.allocating = TRUE] \in Ram
  BY <1>2 DEF Ram, IvStates
<1>4. Register(s, "seqnum_block_allocate") \in Ram
  BY RegisterType DEF Listeners
<1> QED
  BY <1>3, <1>4 DEF SeqnumBlockAllocate

\* flash_store_iv_index keeps the RAM state well formed.
LEMMA FlashStoreIvIndexType ==
  ASSUME NEW s \in Ram
  PROVE  FlashStoreIvIndex(s) \in Ram
BY ActionTypes, EnqueueType, RegisterType DEF FlashStoreIvIndex, Listeners

\* Starting the sequence numbers over keeps the RAM state well formed.
LEMMA SeqnumRestartType ==
  ASSUME NEW s \in Ram
  PROVE  SeqnumRestart(s) \in Ram
<1>1. [s EXCEPT !.seqnum = 0, !.seqnum_max = 0] \in Ram
  BY DEF Ram, IvStates
<1> QED
  BY <1>1, FlashStoreIvIndexType, SeqnumBlockAllocateType DEF SeqnumRestart

\* net_state_iv_update_start keeps the RAM state well formed.
LEMMA IvUpdateStartType ==
  ASSUME NEW s \in Ram
  PROVE  IvUpdateStart(s) \in Ram
<1>1. s.iv + 1 \in Nat
  BY DEF Ram
<1>2. \A n \in Nat :
        [s EXCEPT !.state = "in_progress", !.timeout = 0, !.iv = n] \in Ram
  BY DEF Ram, IvStates
<1>3. [s EXCEPT !.state = "in_progress", !.timeout = 0, !.iv = @ + 1] \in Ram
  BY <1>1, <1>2
<1> QED
  BY <1>3, FlashStoreIvIndexType DEF IvUpdateStart

\* iv_update_trigger_if_pending keeps the RAM state well formed.
LEMMA TriggerIfPendingType ==
  ASSUME NEW s \in Ram
  PROVE  TriggerIfPending(s) \in Ram
<1> DEFINE cleared == [s EXCEPT !.pending = FALSE]
<1>1. cleared \in Ram
  BY DEF Ram
<1>2. [cleared EXCEPT !.state = "normal", !.timeout = 0] \in Ram
  BY <1>1 DEF Ram, IvStates
<1>3. IvUpdateEnd(cleared) \in Ram
  BY <1>2, SeqnumRestartType DEF IvUpdateEnd
<1>4. IvUpdateStart(cleared) \in Ram
  BY <1>1, IvUpdateStartType
<1> QED
  BY <1>3, <1>4 DEF TriggerIfPending

\* net_state_iv_index_lock keeps the RAM state well formed; an unlock needs a
\* holder, as its assertion says (net_state.c:543).
LEMMA LockTypes ==
  ASSUME NEW s \in Ram
  PROVE  /\ IvIndexLock(s) \in Ram
         /\ s.lock_count > 0 => IvIndexUnlock(s) \in Ram
<1>1. s.lock_count + 1 \in Nat /\ (s.lock_count > 0 => s.lock_count - 1 \in Nat)
  BY DEF Ram
<1>2. \A n \in Nat : [s EXCEPT !.locked = TRUE, !.lock_count = n] \in Ram
  BY DEF Ram, IvStates
<1>3. \A n \in Nat : [s EXCEPT !.lock_count = n] \in Ram
  BY DEF Ram, IvStates
<1>4. IvIndexLock(s) \in Ram
  BY <1>1, <1>2 DEF IvIndexLock
<1>5. s.lock_count > 0 => [s EXCEPT !.lock_count = @ - 1] \in Ram
  BY <1>1, <1>3, Zenon
<1>6. TriggerIfPending([s EXCEPT !.lock_count = 0, !.locked = FALSE]) \in Ram
  <2>1. [s EXCEPT !.lock_count = 0, !.locked = FALSE] \in Ram
    BY DEF Ram, IvStates
  <2> QED
    BY <2>1, TriggerIfPendingType
<1> QED
  BY <1>4, <1>5, <1>6, Zenon DEF IvIndexUnlock

\* net_state_seqnum_alloc keeps the RAM state well formed.
LEMMA SeqnumAllocType ==
  ASSUME NEW s \in Ram
  PROVE  SeqnumAlloc(s) \in Ram
<1> DEFINE asked == [s EXCEPT !.pending = TRUE]
<1>1. asked \in Ram
  BY DEF Ram
<1>2. TriggerIfPending(asked) \in Ram
  BY <1>1, TriggerIfPendingType
<1>3. \A t \in Ram : SeqnumBlockAllocate(t) \in Ram
  BY SeqnumBlockAllocateType
<1>4. \A t \in Ram : [t EXCEPT !.seqnum = @ + 1] \in Ram
  <2>1. \A t \in Ram : t.seqnum + 1 \in Nat
    BY DEF Ram
  <2>2. \A t \in Ram, n \in Nat : [t EXCEPT !.seqnum = n] \in Ram
    BY DEF Ram, IvStates
  <2> QED
    BY <2>1, <2>2
<1> QED
  BY <1>1, <1>2, <1>3, <1>4 DEF SeqnumAlloc

\* The minute timer keeps the RAM state well formed: no counter underflows.
LEMMA TimerHandlerType ==
  ASSUME NEW s \in Ram
  PROVE  TimerHandler(s) \in Ram
<1>1. [s EXCEPT !.pending = TRUE] \in Ram
  BY DEF Ram, IvStates
<1>2. \A t \in Ram : TriggerIfPending(t) \in Ram
  BY TriggerIfPendingType
<1>3. \A t \in Ram : [t EXCEPT !.timeout = @ + 1] \in Ram
  <2>1. \A t \in Ram : t.timeout + 1 \in Nat
    BY DEF Ram
  <2>2. \A t \in Ram, n \in Nat : [t EXCEPT !.timeout = n] \in Ram
    BY DEF Ram, IvStates
  <2> QED
    BY <2>1, <2>2
<1>4. \A t \in Ram : t.ivr_timeout > 0 => [t EXCEPT !.ivr_timeout = @ - 1] \in Ram
  <2>1. \A t \in Ram : t.ivr_timeout > 0 => t.ivr_timeout - 1 \in Nat
    BY DEF Ram
  <2>2. \A t \in Ram, n \in Nat : [t EXCEPT !.ivr_timeout = n] \in Ram
    BY DEF Ram, IvStates
  <2> QED
    BY <2>1, <2>2, Zenon
<1> QED
  BY <1>1, <1>2, <1>3, <1>4 DEF TimerHandler

\* net_state_beacon_received keeps the RAM state well formed.
LEMMA BeaconType ==
  ASSUME NEW s \in Ram, NEW i \in Nat, NEW u \in BOOLEAN
  PROVE  Beacon(s, i, u) \in Ram
<1>1. [s EXCEPT !.iv = i, !.timeout = 0, !.ivr_timeout = IV_RECOVERY_TIMEOUT,
                !.pending = FALSE] \in Ram
  BY DEF Ram, IvStates
<1>2. IvRecover(s, i) \in Ram
  BY <1>1, SeqnumRestartType DEF IvRecover
<1>3. [s EXCEPT !.pending = TRUE] \in Ram
  BY DEF Ram, IvStates
<1>4. AskAndTrigger(s) \in Ram
  BY <1>3, TriggerIfPendingType DEF AskAndTrigger
<1> QED
  BY <1>2, <1>4 DEF Beacon

\* net_state_reset keeps the RAM state well formed.
LEMMA NetStateResetType ==
  ASSUME NEW s \in Ram
  PROVE  NetStateReset(s) \in Ram
<1> DEFINE first == Enqueue(s, OpAction("invalidate_seqnum"))
           both  == Enqueue(first, OpAction("invalidate_iv_index"))
<1>1. first \in Ram
  BY ActionTypes, EnqueueType DEF Ops
<1>2. both \in Ram
  BY <1>1, ActionTypes, EnqueueType DEF Ops
<1>3. [both EXCEPT !.seqnum = 0, !.seqnum_max = 0, !.iv = 0, !.state = "normal",
                   !.pending = FALSE, !.locked = FALSE, !.timeout = 0,
                   !.ivr_timeout = 0] \in Ram
  BY <1>2 DEF Ram, IvStates
<1>4. /\ Register(s, "net_state_reset") \in Ram
      /\ Register(first, "net_state_reset") \in Ram
  BY <1>1, RegisterType DEF Listeners
<1> QED
  BY <1>3, <1>4 DEF NetStateReset

\* A boot ends in a well-formed RAM state, whatever the flash holds.
LEMMA RecoverType ==
  ASSUME NEW f \in Flash
  PROVE  Recover(f) \in Ram
<1>1. BlankRam \in Ram
  BY DEF BlankRam, Ram, IvStates
<1>2. \A n \in Nat : [BlankRam EXCEPT !.iv = f.iv, !.state = f.state,
                                      !.seqnum = n, !.seqnum_max = n] \in Ram
  BY <1>1 DEF Ram, Flash
<1>3. f.seqnum \in Nat /\ 0 \in Nat
  BY DEF Flash
<1> QED
  BY <1>1, <1>2, <1>3, FlashStoreIvIndexType, SeqnumBlockAllocateType DEF Recover

\* Writing an action's entry leaves well-formed entries in flash.
LEMMA WrittenType ==
  ASSUME NEW f \in Flash, NEW a \in Action
  PROVE  Written(f, a) \in Flash
BY DEF Written, Flash, Action, Ops

\* flash_write_complete keeps the RAM state well formed.
LEMMA WriteCompleteType ==
  ASSUME NEW s \in Ram, NEW a \in Action
  PROVE  WriteComplete(s, a) \in Ram
BY DEF WriteComplete, Ram, Action

\* Freeing the head of the queue and telling the listeners of the room keeps
\* the RAM state well formed.
LEMMA FreePacketBufferType ==
  ASSUME NEW s \in Ram, s.queue # <<>>
  PROVE  FreePacketBuffer(s) \in Ram
<1> DEFINE ls    == s.listeners
           freed == [s EXCEPT !.queue = Tail(@), !.listeners = <<>>, !.writing = FALSE]
<1>1. freed \in Ram
  <2>1. s.queue \in Seq(Action) /\ Tail(s.queue) \in Seq(Action)
    BY DEF Ram
  <2>2. <<>> \in Seq(Listeners)
    OBVIOUS
  <2> QED
    BY <2>1, <2>2 DEF Ram
<1>2. ls \in Seq(Listeners)
  BY DEF Ram
<1>3. ASSUME NEW t \in Ram, NEW l \in Listeners
      PROVE  Notify(t, l) \in Ram
  BY <1>3, SeqnumBlockAllocateType, FlashStoreIvIndexType, NetStateResetType
     DEF Notify, Listeners
<1>4. ASSUME NEW t \in Ram, NEW n \in Nat \ {0}
      PROVE  NotifyNth(t, ls, n) \in Ram
  BY <1>2, <1>3, <1>4 DEF NotifyNth
<1> DEFINE a == NotifyNth(freed, ls, 1)
           b == NotifyNth(a, ls, 2)
           c == NotifyNth(b, ls, 3)
<1>5. c = FreePacketBuffer(s)
  BY DEF FreePacketBuffer
<1> HIDE DEF ls, freed
<1>6. a \in Ram
  BY <1>1, <1>4
<1>7. b \in Ram
  BY <1>4, <1>6
<1>8. c \in Ram
  BY <1>4, <1>7
<1> QED
  BY <1>5, <1>8

-----------------------------------------------------------------------------
(* How the transmit IV index and the sequence number move *)

\* An update in progress has raised the IV index, so the index it transmits on
\* is a natural number; the same goes for what is stored of it.
IvPositive(x) == x.state = "in_progress" => x.iv >= 1

Sound(s) == IvPositive(s) /\ \A i \in DOMAIN s.queue : IvPositive(s.queue[i])

\* No reset waits for room in the action queue.
NoReset(s) == \A i \in DOMAIN s.listeners : s.listeners[i] # "net_state_reset"

\* From s to t neither the IV index, the update state nor the number changed.
Keeps(s, t) ==
  /\ t.iv = s.iv /\ t.state = s.state /\ t.seqnum = s.seqnum
  /\ NoReset(s) => NoReset(t)

\* From s to t the next pair to be given did not go back.
Advances(s, t) ==
  /\ TxIv(t) > TxIv(s) \/ (TxIv(t) = TxIv(s) /\ t.seqnum >= s.seqnum)
  /\ NoReset(s) => NoReset(t)

\* The transmit IV index does not wrap below zero (net_state.c:613-625).
LEMMA TxIvType ==
  ASSUME NEW s \in Ram, IvPositive(s)
  PROVE  TxIv(s) \in Nat
BY DEF TxIv, IvPositive, Ram

\* What keeps the pair does not take it back.
LEMMA KeepsAdvances ==
  ASSUME NEW s \in Ram, NEW t \in Ram, Keeps(s, t), IvPositive(s)
  PROVE  Advances(s, t) /\ IvPositive(t)
BY TxIvType DEF Keeps, Advances, TxIv, IvPositive, Ram

\* Two moves that do not go back make one that does not.
LEMMA AdvancesTransitive ==
  ASSUME NEW r \in Ram, NEW s \in Ram, NEW t \in Ram,
         IvPositive(r), IvPositive(s), IvPositive(t),
         Advances(r, s), Advances(s, t)
  PROVE  Advances(r, t)
<1>1. TxIv(r) \in Nat /\ TxIv(s) \in Nat /\ TxIv(t) \in Nat
  BY TxIvType
<1>2. r.seqnum \in Nat /\ s.seqnum \in Nat /\ t.seqnum \in Nat
  BY DEF Ram
<1> QED
  BY <1>1, <1>2 DEF Advances

\* Queueing a sound action changes no pair.
LEMMA EnqueueKeeps ==
  ASSUME NEW s \in Ram, NEW a \in Action, Sound(s), IvPositive(a)
  PROVE  Keeps(s, Enqueue(s, a)) /\ Sound(Enqueue(s, a))
<1>1. Keeps(s, Enqueue(s, a))
  BY DEF Enqueue, Keeps, Ram, NoReset
<1>2. Enqueue(s, a).queue = Append(s.queue, a)
  BY DEF Enqueue, Ram
<1>3. s.queue \in Seq(Action)
  BY DEF Ram
<1>4. \A i \in DOMAIN Append(s.queue, a) : IvPositive(Append(s.queue, a)[i])
  BY <1>3 DEF Sound
<1> QED
  BY <1>1, <1>2, <1>4 DEF Sound, Keeps, IvPositive

\* Registering a listener other than the reset changes no pair.
LEMMA RegisterKeeps ==
  ASSUME NEW s \in Ram, NEW l \in Listeners \ {"net_state_reset"}, Sound(s)
  PROVE  Keeps(s, Register(s, l)) /\ Sound(Register(s, l))
<1> DEFINE t == [s EXCEPT !.listeners = Append(@, l)]
<1>1. t.iv = s.iv /\ t.state = s.state /\ t.seqnum = s.seqnum /\ t.queue = s.queue
        /\ t.listeners = Append(s.listeners, l)
  BY DEF Ram
<1>2. s.listeners \in Seq(Listeners)
  BY DEF Ram
<1>3. NoReset(s) =>
        \A i \in DOMAIN Append(s.listeners, l) :
          Append(s.listeners, l)[i] # "net_state_reset"
  BY <1>2 DEF NoReset
<1>4. Keeps(s, t) /\ Sound(t)
  BY <1>1, <1>3 DEF Keeps, NoReset, Sound, IvPositive
<1>5. Keeps(s, s)
  BY DEF Keeps
<1> QED
  BY <1>4, <1>5 DEF Register

\* seqnum_block_allocate changes no pair: the block is not there yet.
LEMMA SeqnumBlockAllocateKeeps ==
  ASSUME NEW s \in Ram, Sound(s)
  PROVE  Keeps(s, SeqnumBlockAllocate(s)) /\ Sound(SeqnumBlockAllocate(s))
<1> DEFINE a == SeqnumAction(s.seqnum_max + BLOCK_SIZE)
           t == Enqueue(s, a)
           u == [t EXCEPT !.allocating = TRUE]
<1>1. a \in Action /\ IvPositive(a)
  <2>1. s.seqnum_max + BLOCK_SIZE \in Nat
    BY DEF Ram
  <2> QED
    BY <2>1, ActionTypes DEF IvPositive, SeqnumAction, OpAction
<1>2. t \in Ram /\ Keeps(s, t) /\ Sound(t)
  BY <1>1, EnqueueType, EnqueueKeeps
<1>3. u.iv = t.iv /\ u.state = t.state /\ u.seqnum = t.seqnum /\ u.queue = t.queue
        /\ u.listeners = t.listeners
  BY <1>2 DEF Ram
<1>4. Keeps(s, u) /\ Sound(u)
  BY <1>2, <1>3 DEF Keeps, Sound, IvPositive, NoReset
<1>5. Keeps(s, Register(s, "seqnum_block_allocate"))
        /\ Sound(Register(s, "seqnum_block_allocate"))
  BY RegisterKeeps DEF Listeners
<1>6. Keeps(s, s)
  BY DEF Keeps
<1> QED
  BY <1>4, <1>5, <1>6 DEF SeqnumBlockAllocate

\* flash_store_iv_index changes no pair.
LEMMA FlashStoreIvIndexKeeps ==
  ASSUME NEW s \in Ram, Sound(s)
  PROVE  Keeps(s, FlashStoreIvIndex(s)) /\ Sound(FlashStoreIvIndex(s))
<1>1. IvAction(s) \in Action /\ IvPositive(IvAction(s))
  BY ActionTypes DEF Sound, IvPositive, IvAction, OpAction
<1>2. Keeps(s, Enqueue(s, IvAction(s))) /\ Sound(Enqueue(s, IvAction(s)))
  BY <1>1, EnqueueKeeps
<1>3. Keeps(s, Register(s, "flash_store_iv_index"))
        /\ Sound(Register(s, "flash_store_iv_index"))
  BY RegisterKeeps DEF Listeners
<1> QED
  BY <1>2, <1>3 DEF FlashStoreIvIndex

\* The numbers start over at 0 on the IV index of the state they are given.
LEMMA SeqnumRestartMoves ==
  ASSUME NEW s \in Ram, Sound(s)
  PROVE  /\ SeqnumRestart(s).iv = s.iv
         /\ SeqnumRestart(s).state = s.state
         /\ SeqnumRestart(s).seqnum = 0
         /\ Sound(SeqnumRestart(s))
         /\ NoReset(s) => NoReset(SeqnumRestart(s))
<1> DEFINE t == [s EXCEPT !.seqnum = 0, !.seqnum_max = 0]
           u == FlashStoreIvIndex(t)
<1>1. t \in Ram
  BY DEF Ram, IvStates
<1>2. t.iv = s.iv /\ t.state = s.state /\ t.seqnum = 0 /\ t.queue = s.queue
        /\ t.listeners = s.listeners
  BY DEF Ram
<1>3. Sound(t)
  BY <1>2 DEF Sound, IvPositive
<1>4. u \in Ram /\ Keeps(t, u) /\ Sound(u)
  BY <1>1, <1>3, FlashStoreIvIndexType, FlashStoreIvIndexKeeps
<1>5. Keeps(u, SeqnumBlockAllocate(u)) /\ Sound(SeqnumBlockAllocate(u))
  BY <1>4, SeqnumBlockAllocateKeeps
<1> QED
  BY <1>2, <1>4, <1>5 DEF SeqnumRestart, Keeps, NoReset

\* The start of an update raises the IV index but not the transmit IV index.
LEMMA IvUpdateStartMoves ==
  ASSUME NEW s \in Ram, Sound(s)
  PROVE  Advances(s, IvUpdateStart(s)) /\ Sound(IvUpdateStart(s))
<1> DEFINE t == [s EXCEPT !.state = "in_progress", !.timeout = 0, !.iv = @ + 1]
<1>1. CASE CanStart(s)
  <2>1. t \in Ram
    <3>1. s.iv + 1 \in Nat
      BY DEF Ram
    <3>2. \A n \in Nat :
            [s EXCEPT !.state = "in_progress", !.timeout = 0, !.iv = n] \in Ram
      BY DEF Ram, IvStates
    <3> QED
      BY <3>1, <3>2
  <2>2. t.iv = s.iv + 1 /\ t.state = "in_progress" /\ t.seqnum = s.seqnum
          /\ t.queue = s.queue /\ t.listeners = s.listeners
    BY DEF Ram
  <2>3. s.iv \in Nat /\ s.seqnum \in Nat /\ s.state = "normal"
    BY <1>1 DEF Ram, CanStart
  <2>4. Sound(t)
    BY <2>2, <2>3 DEF Sound, IvPositive
  <2>5. TxIv(t) = TxIv(s)
    BY <2>2, <2>3 DEF TxIv
  <2>6. Keeps(t, FlashStoreIvIndex(t)) /\ Sound(FlashStoreIvIndex(t))
    BY <2>1, <2>4, FlashStoreIvIndexKeeps
  <2>7. /\ TxIv(FlashStoreIvIndex(t)) = TxIv(s)
        /\ FlashStoreIvIndex(t).seqnum = s.seqnum
        /\ NoReset(s) => NoReset(FlashStoreIvIndex(t))
    BY <2>2, <2>5, <2>6 DEF Keeps, TxIv, NoReset
  <2> QED
    BY <1>1, <2>3, <2>6, <2>7 DEF IvUpdateStart, Advances
<1>2. CASE ~CanStart(s)
  <2>1. s.seqnum \in Nat
    BY DEF Ram
  <2> QED
    BY <1>2, <2>1 DEF IvUpdateStart, Advances
<1> QED
  BY <1>1, <1>2

\* A triggered update does not take the next pair back: its end starts the
\* numbers over, but on a higher transmit IV index.
LEMMA TriggerIfPendingMoves ==
  ASSUME NEW s \in Ram, Sound(s)
  PROVE  Advances(s, TriggerIfPending(s)) /\ Sound(TriggerIfPending(s))
<1> DEFINE c == [s EXCEPT !.pending = FALSE]
           e == [c EXCEPT !.state = "normal", !.timeout = 0]
<1>1. c \in Ram
  BY DEF Ram, IvStates
<1>2. Keeps(s, c) /\ c.queue = s.queue /\ c.listeners = s.listeners
  BY DEF Keeps, Ram, NoReset
<1>3. Sound(c)
  BY <1>2 DEF Sound, Keeps, IvPositive
<1>4. Advances(s, IvUpdateStart(c)) /\ Sound(IvUpdateStart(c))
  <2>1. Advances(c, IvUpdateStart(c)) /\ Sound(IvUpdateStart(c))
    BY <1>1, <1>3, IvUpdateStartMoves
  <2>2. TxIv(c) = TxIv(s) /\ c.seqnum = s.seqnum
    BY <1>2 DEF TxIv, Keeps
  <2> QED
    BY <1>2, <2>1, <2>2 DEF Advances, NoReset
<1>5. ASSUME s.state # "normal"
      PROVE  Advances(s, IvUpdateEnd(c)) /\ Sound(IvUpdateEnd(c))
  <2>1. e \in Ram
    BY <1>1 DEF Ram, IvStates
  <2>2. e.iv = s.iv /\ e.state = "normal" /\ e.queue = s.queue
          /\ e.listeners = s.listeners
    BY <1>1, <1>2 DEF Ram, Keeps
  <2>3. Sound(e)
    BY <2>2 DEF Sound, IvPositive
  <2>4. IvUpdateEnd(c).iv = s.iv /\ IvUpdateEnd(c).state = "normal"
          /\ Sound(IvUpdateEnd(c)) /\ (NoReset(e) => NoReset(IvUpdateEnd(c)))
    BY <2>1, <2>2, <2>3, SeqnumRestartMoves DEF IvUpdateEnd
  <2>5. s.state = "in_progress" /\ s.iv \in Nat
    BY <1>5 DEF Ram, IvStates
  <2>6. TxIv(IvUpdateEnd(c)) = s.iv /\ TxIv(s) = s.iv - 1
    BY <2>4, <2>5 DEF TxIv
  <2>7. TxIv(IvUpdateEnd(c)) > TxIv(s)
    BY <2>5, <2>6
  <2>8. NoReset(s) => NoReset(e)
    BY <2>2 DEF NoReset
  <2> QED
    BY <2>4, <2>7, <2>8 DEF Advances
<1>6. Advances(s, s)
  BY DEF Advances, Ram
<1> QED
  BY <1>4, <1>5, <1>6 DEF TriggerIfPending

\* Taking the lock changes no pair.
LEMMA IvIndexLockKeeps ==
  ASSUME NEW s \in Ram, Sound(s)
  PROVE  Keeps(s, IvIndexLock(s)) /\ Sound(IvIndexLock(s)) /\ IvIndexLock(s).locked
<1> DEFINE t == IvIndexLock(s)
<1>1. t.iv = s.iv /\ t.state = s.state /\ t.seqnum = s.seqnum /\ t.queue = s.queue
        /\ t.listeners = s.listeners /\ t.locked = TRUE
  BY DEF IvIndexLock, Ram
<1> QED
  BY <1>1 DEF Keeps, NoReset, Sound, IvPositive

\* Letting go of the lock may trigger an update, which does not go back.
LEMMA IvIndexUnlockMoves ==
  ASSUME NEW s \in Ram, Sound(s)
  PROVE  Advances(s, IvIndexUnlock(s)) /\ Sound(IvIndexUnlock(s))
<1> DEFINE f == [s EXCEPT !.lock_count = 0, !.locked = FALSE]
           g == [s EXCEPT !.lock_count = @ - 1]
<1>1. f \in Ram
  BY DEF Ram, IvStates
<1>2. f.iv = s.iv /\ f.state = s.state /\ f.seqnum = s.seqnum /\ f.queue = s.queue
        /\ f.listeners = s.listeners
  BY DEF Ram
<1>3. Sound(f) /\ TxIv(f) = TxIv(s) /\ (NoReset(s) => NoReset(f))
  BY <1>2 DEF Sound, IvPositive, TxIv, NoReset
<1>4. Advances(f, TriggerIfPending(f)) /\ Sound(TriggerIfPending(f))
  BY <1>1, <1>3, TriggerIfPendingMoves
<1>5. Advances(s, TriggerIfPending(f))
  BY <1>2, <1>3, <1>4 DEF Advances
<1>6. g.iv = s.iv /\ g.state = s.state /\ g.seqnum = s.seqnum /\ g.queue = s.queue
        /\ g.listeners = s.listeners
  BY DEF Ram
<1>7. s.seqnum \in Nat
  BY DEF Ram
<1>8. Advances(s, g) /\ Sound(g)
  BY <1>6, <1>7 DEF Sound, IvPositive, Advances, TxIv, NoReset
<1> QED
  BY <1>4, <1>5, <1>8 DEF IvIndexUnlock

\* With the lock held no update can come between: the number goes up by one
\* and the transmit IV index stays.
LEMMA SeqnumAllocMoves ==
  ASSUME NEW s \in Ram, Sound(s), s.locked
  PROVE  /\ TxIv(SeqnumAlloc(s)) = TxIv(s)
         /\ SeqnumAlloc(s).seqnum = s.seqnum + 1
         /\ NoReset(s) => NoReset(SeqnumAlloc(s))
         /\ Sound(SeqnumAlloc(s))
<1> DEFINE asked == [s EXCEPT !.pending = TRUE]
           a == IF s.seqnum >= UpdateThreshold(s) THEN asked ELSE s
           b == SeqnumBlockAllocate(a)
<1>1. asked \in Ram
  BY DEF Ram, IvStates
<1>2. Keeps(s, asked) /\ asked.queue = s.queue /\ asked.locked
  BY DEF Keeps, NoReset, Ram
<1>3. Sound(asked)
  BY <1>2 DEF Keeps, Sound, IvPositive
<1>4. ~CanTrigger(asked) /\ TriggerIfPending(asked) = asked
  BY <1>2 DEF CanTrigger, TriggerIfPending
<1>5. Keeps(s, s)
  BY DEF Keeps
<1>6. a \in Ram /\ Keeps(s, a) /\ Sound(a)
  BY <1>1, <1>2, <1>3, <1>5
<1>7. b \in Ram /\ Keeps(s, b) /\ Sound(b)
  <2>1. b \in Ram /\ Keeps(a, b) /\ Sound(b)
    BY <1>6, SeqnumBlockAllocateType, SeqnumBlockAllocateKeeps
  <2> QED
    BY <1>6, <2>1 DEF Keeps
<1>8. PICK t \in {a, b} : SeqnumAlloc(s) = [t EXCEPT !.seqnum = @ + 1]
  BY <1>4 DEF SeqnumAlloc
<1>9. t \in Ram /\ Keeps(s, t) /\ Sound(t)
  BY <1>6, <1>7, <1>8
<1> DEFINE u == [t EXCEPT !.seqnum = @ + 1]
<1>10. u.iv = t.iv /\ u.state = t.state /\ u.seqnum = t.seqnum + 1
         /\ u.queue = t.queue /\ u.listeners = t.listeners
  BY <1>9 DEF Ram
<1> QED
  BY <1>8, <1>9, <1>10 DEF Keeps, TxIv, NoReset, Sound, IvPositive

\* The minute timer does not take the next pair back.
LEMMA TimerHandlerMoves ==
  ASSUME NEW s \in Ram, Sound(s)
  PROVE  Advances(s, TimerHandler(s)) /\ Sound(TimerHandler(s))
<1> DEFINE forced(b) == [s EXCEPT !.pending = b]
<1>1. forced(TRUE) \in Ram /\ forced(TRUE).queue = s.queue /\ Keeps(s, forced(TRUE))
  BY DEF Ram, IvStates, Keeps, NoReset
<1>2. Sound(forced(TRUE))
  BY <1>1 DEF Keeps, Sound, IvPositive
<1>3. ASSUME NEW t \in {s, forced(TRUE), TriggerIfPending(s), TriggerIfPending(forced(TRUE))}
      PROVE  t \in Ram /\ Advances(s, t) /\ Sound(t)
  <2>1. Advances(s, s)
    BY DEF Advances, Ram
  <2>2. Advances(s, forced(TRUE))
    BY <1>1, <1>2, KeepsAdvances DEF Sound
  <2>3. TriggerIfPending(s) \in Ram /\ Advances(s, TriggerIfPending(s))
          /\ Sound(TriggerIfPending(s))
    BY TriggerIfPendingType, TriggerIfPendingMoves
  <2>4. TriggerIfPending(forced(TRUE)) \in Ram
          /\ Advances(forced(TRUE), TriggerIfPending(forced(TRUE)))
          /\ Sound(TriggerIfPending(forced(TRUE)))
    BY <1>1, <1>2, TriggerIfPendingType, TriggerIfPendingMoves
  <2>5. Advances(s, TriggerIfPending(forced(TRUE)))
    BY <1>1, <1>2, <2>2, <2>4, AdvancesTransitive DEF Sound
  <2> QED
    BY <1>1, <1>2, <1>3, <2>1, <2>2, <2>3, <2>4, <2>5
<1>4. ASSUME NEW t \in Ram, Advances(s, t), Sound(t)
      PROVE  Advances(s, [t EXCEPT !.timeout = @ + 1]) /\ Sound([t EXCEPT !.timeout = @ + 1])
               /\ [t EXCEPT !.timeout = @ + 1] \in Ram
  <2> DEFINE u == [t EXCEPT !.timeout = @ + 1]
  <2>1. u.iv = t.iv /\ u.state = t.state /\ u.seqnum = t.seqnum /\ u.queue = t.queue
          /\ u.listeners = t.listeners
    BY DEF Ram
  <2>2. u \in Ram
    <3>1. t.timeout + 1 \in Nat
      BY DEF Ram
    <3>2. \A n \in Nat : [t EXCEPT !.timeout = n] \in Ram
      BY DEF Ram, IvStates
    <3> QED
      BY <3>1, <3>2
  <2> QED
    BY <1>4, <2>1, <2>2 DEF Advances, TxIv, NoReset, Sound, IvPositive
<1>5. ASSUME NEW t \in Ram, Advances(s, t), Sound(t)
      PROVE  /\ Advances(s, [t EXCEPT !.ivr_timeout = @ - 1])
             /\ Sound([t EXCEPT !.ivr_timeout = @ - 1])
  <2> DEFINE u == [t EXCEPT !.ivr_timeout = @ - 1]
  <2>1. u.iv = t.iv /\ u.state = t.state /\ u.seqnum = t.seqnum /\ u.queue = t.queue
          /\ u.listeners = t.listeners
    BY DEF Ram
  <2> QED
    BY <1>5, <2>1 DEF Advances, TxIv, NoReset, Sound, IvPositive
<1> QED
  BY <1>3, <1>4, <1>5 DEF TimerHandler

\* A beacon does not take the next pair back: a recovery only goes to a higher
\* IV index.
LEMMA BeaconMoves ==
  ASSUME NEW s \in Ram, NEW i \in Nat, NEW u \in BOOLEAN, Sound(s)
  PROVE  Advances(s, Beacon(s, i, u)) /\ Sound(Beacon(s, i, u))
<1>1. Advances(s, s)
  BY DEF Advances, Ram
<1>2. Advances(s, AskAndTrigger(s)) /\ Sound(AskAndTrigger(s))
  <2> DEFINE t == [s EXCEPT !.pending = TRUE]
  <2>1. t \in Ram /\ t.queue = s.queue /\ Keeps(s, t)
    BY DEF Ram, IvStates, Keeps, NoReset
  <2>2. Sound(t)
    BY <2>1 DEF Keeps, Sound, IvPositive
  <2>3. Advances(s, t)
    BY <2>1, <2>2, KeepsAdvances DEF Sound
  <2>4. TriggerIfPending(t) \in Ram /\ Advances(t, TriggerIfPending(t))
          /\ Sound(TriggerIfPending(t))
    BY <2>1, <2>2, TriggerIfPendingType, TriggerIfPendingMoves
  <2> QED
    BY <2>1, <2>2, <2>3, <2>4, AdvancesTransitive DEF AskAndTrigger, Sound
<1>3. ASSUME s.state = "normal", FallenBehind(s, i, u)
      PROVE  Advances(s, IvRecover(s, i)) /\ Sound(IvRecover(s, i))
  <2> DEFINE t == [s EXCEPT !.iv = i, !.timeout = 0,
                            !.ivr_timeout = IV_RECOVERY_TIMEOUT, !.pending = FALSE]
  <2>1. t \in Ram
    BY DEF Ram, IvStates
  <2>2. t.iv = i /\ t.state = "normal" /\ t.queue = s.queue /\ t.listeners = s.listeners
    BY <1>3 DEF Ram
  <2>3. Sound(t)
    BY <2>2 DEF Sound, IvPositive
  <2>4. IvRecover(s, i).iv = i /\ IvRecover(s, i).state = "normal"
          /\ Sound(IvRecover(s, i)) /\ (NoReset(t) => NoReset(IvRecover(s, i)))
    BY <2>1, <2>2, <2>3, SeqnumRestartMoves DEF IvRecover
  <2>5. i > s.iv
    BY <1>3 DEF FallenBehind, Ram
  <2>6. TxIv(IvRecover(s, i)) > TxIv(s)
    BY <1>3, <2>4, <2>5 DEF TxIv
  <2>7. NoReset(s) => NoReset(t)
    BY <2>2 DEF NoReset
  <2> QED
    BY <2>4, <2>6, <2>7 DEF Advances
<1> QED
  BY <1>1, <1>2, <1>3 DEF Beacon

\* net_state_reset leaves sound state and actions behind.
LEMMA NetStateResetSound ==
  ASSUME NEW s \in Ram, Sound(s)
  PROVE  Sound(NetStateReset(s))
<1> DEFINE first == Enqueue(s, OpAction("invalidate_seqnum"))
           both  == Enqueue(first, OpAction("invalidate_iv_index"))
           blank == [both EXCEPT !.seqnum = 0, !.seqnum_max = 0, !.iv = 0,
                                 !.state = "normal", !.pending = FALSE,
                                 !.locked = FALSE, !.timeout = 0, !.ivr_timeout = 0]
<1>1. \A op \in Ops : OpAction(op) \in Action /\ IvPositive(OpAction(op))
  BY ActionTypes DEF OpAction, IvPositive
<1>2. first \in Ram /\ Sound(first)
  BY <1>1, EnqueueType, EnqueueKeeps DEF Ops
<1>3. both \in Ram /\ Sound(both)
  BY <1>1, <1>2, EnqueueType, EnqueueKeeps DEF Ops
<1>4. blank.state = "normal" /\ blank.queue = both.queue
  BY <1>3 DEF Ram
<1>5. Sound(blank)
  BY <1>3, <1>4 DEF Sound, IvPositive
<1>6. ASSUME NEW t \in Ram, Sound(t)
      PROVE  Sound(Register(t, "net_state_reset"))
  <2> DEFINE r == [t EXCEPT !.listeners = Append(@, "net_state_reset")]
  <2>1. r.iv = t.iv /\ r.state = t.state /\ r.queue = t.queue
    BY DEF Ram
  <2> QED
    BY <1>6, <2>1 DEF Register, Sound, IvPositive
<1> QED
  BY <1>2, <1>5, <1>6 DEF NetStateReset

\* A boot from a sound flash is sound, and no reset is waiting after it.
LEMMA RecoverSound ==
  ASSUME NEW f \in Flash, IvPositive(f)
  PROVE  Sound(Recover(f)) /\ NoReset(Recover(f))
<1>1. BlankRam \in Ram /\ Sound(BlankRam) /\ NoReset(BlankRam)
  BY DEF BlankRam, Ram, IvStates, Sound, IvPositive, NoReset
<1>2. ASSUME NEW n \in Nat
      PROVE  LET t == [BlankRam EXCEPT !.iv = f.iv, !.state = f.state,
                                       !.seqnum = n, !.seqnum_max = n]
             IN t \in Ram /\ Sound(t) /\ NoReset(t)
  <2> DEFINE t == [BlankRam EXCEPT !.iv = f.iv, !.state = f.state,
                                   !.seqnum = n, !.seqnum_max = n]
  <2>1. t \in Ram
    BY <1>1 DEF Ram, Flash
  <2>2. t.iv = f.iv /\ t.state = f.state /\ t.queue = BlankRam.queue
          /\ t.listeners = BlankRam.listeners
    BY <1>1 DEF Ram
  <2>3. Sound(t) /\ NoReset(t)
    BY <1>1, <2>2 DEF Sound, IvPositive, NoReset
  <2> QED
    BY <2>1, <2>3
<1>3. f.seqnum \in Nat /\ 0 \in Nat
  BY DEF Flash
<1>4. LET t == FlashStoreIvIndex(BlankRam) IN t \in Ram /\ Sound(t) /\ NoReset(t)
  BY <1>1, FlashStoreIvIndexType, FlashStoreIvIndexKeeps DEF Keeps
<1>5. ASSUME NEW t \in Ram, Sound(t), NoReset(t)
      PROVE  Sound(SeqnumBlockAllocate(t)) /\ NoReset(SeqnumBlockAllocate(t))
  BY <1>5, SeqnumBlockAllocateKeeps DEF Keeps
<1> QED
  BY <1>2, <1>3, <1>4, <1>5 DEF Recover

\* flash_write_complete changes no pair.
LEMMA WriteCompleteKeeps ==
  ASSUME NEW s \in Ram, NEW a \in Action, Sound(s)
  PROVE  /\ Keeps(s, WriteComplete(s, a)) /\ Sound(WriteComplete(s, a))
         /\ WriteComplete(s, a).queue = s.queue
<1> DEFINE t == WriteComplete(s, a)
<1>1. t.iv = s.iv /\ t.state = s.state /\ t.seqnum = s.seqnum /\ t.queue = s.queue
        /\ t.listeners = s.listeners
  BY DEF WriteComplete, Ram
<1> QED
  BY <1>1 DEF Keeps, NoReset, Sound, IvPositive

\* The room that is freed changes no pair, unless a waiting reset takes it.
LEMMA FreePacketBufferMoves ==
  ASSUME NEW s \in Ram, s.queue # <<>>, Sound(s)
  PROVE  /\ Sound(FreePacketBuffer(s))
         /\ NoReset(s) => Keeps(s, FreePacketBuffer(s)) /\ NoReset(FreePacketBuffer(s))
<1> DEFINE ls    == s.listeners
           freed == [s EXCEPT !.queue = Tail(@), !.listeners = <<>>, !.writing = FALSE]
<1>1. freed \in Ram
  <2>1. s.queue \in Seq(Action) /\ Tail(s.queue) \in Seq(Action)
    BY DEF Ram
  <2>2. <<>> \in Seq(Listeners)
    OBVIOUS
  <2> QED
    BY <2>1, <2>2 DEF Ram
<1>2. freed.iv = s.iv /\ freed.state = s.state /\ freed.seqnum = s.seqnum
        /\ freed.queue = Tail(s.queue) /\ freed.listeners = <<>>
  BY DEF Ram
<1>3. Sound(freed) /\ NoReset(freed) /\ Keeps(s, freed)
  <2>1. s.queue \in Seq(Action)
    BY DEF Ram
  <2>2. \A i \in DOMAIN Tail(s.queue) : IvPositive(Tail(s.queue)[i])
    BY <2>1 DEF Sound
  <2>3. NoReset(freed)
    BY <1>2 DEF NoReset
  <2> QED
    BY <1>2, <2>2, <2>3 DEF Sound, Keeps, IvPositive
<1>4. ls \in Seq(Listeners)
  BY DEF Ram
<1>5. ASSUME NEW t \in Ram, Sound(t), NEW n \in Nat \ {0}
      PROVE  /\ NotifyNth(t, ls, n) \in Ram /\ Sound(NotifyNth(t, ls, n))
             /\ NoReset(s) => Keeps(t, NotifyNth(t, ls, n))
  <2>1. CASE n > Len(ls)
    BY <1>4, <1>5, <2>1 DEF NotifyNth, Keeps
  <2>2. CASE n <= Len(ls)
    <3>1. ls[n] \in Listeners /\ (NoReset(s) => ls[n] # "net_state_reset")
      BY <1>4, <2>2 DEF NoReset
    <3>2. NotifyNth(t, ls, n) = Notify(t, ls[n])
      BY <2>2 DEF NotifyNth
    <3>3. CASE ls[n] = "seqnum_block_allocate"
      BY <1>5, <3>2, <3>3, SeqnumBlockAllocateType, SeqnumBlockAllocateKeeps DEF Notify
    <3>4. CASE ls[n] = "flash_store_iv_index"
      BY <1>5, <3>2, <3>4, FlashStoreIvIndexType, FlashStoreIvIndexKeeps DEF Notify
    <3>5. CASE ls[n] = "net_state_reset"
      BY <1>5, <3>1, <3>2, <3>5, NetStateResetType, NetStateResetSound DEF Notify
    <3> QED
      BY <3>1, <3>3, <3>4, <3>5 DEF Listeners
  <2> QED
    BY <1>4, <2>1, <2>2
<1> DEFINE a == NotifyNth(freed, ls, 1)
           b == NotifyNth(a, ls, 2)
           c == NotifyNth(b, ls, 3)
<1>6. a \in Ram /\ Sound(a) /\ (NoReset(s) => Keeps(freed, a))
  BY <1>1, <1>3, <1>5
<1>7. c = FreePacketBuffer(s)
  BY DEF FreePacketBuffer
<1> HIDE DEF freed, ls, a
<1>8. b \in Ram /\ Sound(b) /\ (NoReset(s) => Keeps(a, b))
  BY <1>5, <1>6
<1> HIDE DEF b
<1>9. c \in Ram /\ Sound(c) /\ (NoReset(s) => Keeps(b, c))
  BY <1>5, <1>8
<1> HIDE DEF c
<1> QED
  BY <1>3, <1>6, <1>7, <1>8, <1>9 DEF Keeps

\* The allocation leaves the holders of the lock alone while the lock is held.
LEMMA LockCountKept ==
  ASSUME NEW s \in Ram, s.locked
  PROVE  /\ SeqnumBlockAllocate(s).lock_count = s.lock_count
         /\ SeqnumAlloc(s).lock_count = s.lock_count
<1> DEFINE asked == [s EXCEPT !.pending = TRUE]
<1>1. asked \in Ram /\ asked.lock_count = s.lock_count /\ asked.locked
  BY DEF Ram, IvStates
<1>2. ~CanTrigger(asked) /\ TriggerIfPending(asked) = asked
  BY <1>1 DEF CanTrigger, TriggerIfPending
<1>3. ASSUME NEW t \in Ram
      PROVE  SeqnumBlockAllocate(t).lock_count = t.lock_count
  <2>1. Enqueue(t, SeqnumAction(t.seqnum_max + BLOCK_SIZE)).lock_count = t.lock_count
    BY DEF Enqueue, Ram
  <2>2. [Enqueue(t, SeqnumAction(t.seqnum_max + BLOCK_SIZE))
           EXCEPT !.allocating = TRUE].lock_count = t.lock_count
    BY <2>1 DEF Enqueue, Ram
  <2>3. Register(t, "seqnum_block_allocate").lock_count = t.lock_count
    BY DEF Register, Ram
  <2> QED
    BY <2>1, <2>2, <2>3 DEF SeqnumBlockAllocate
<1>4. PICK t \in {s, asked, SeqnumBlockAllocate(s), SeqnumBlockAllocate(asked)} :
        SeqnumAlloc(s) = [t EXCEPT !.seqnum = @ + 1]
  BY <1>2 DEF SeqnumAlloc
<1>5. t \in Ram /\ t.lock_count = s.lock_count
  BY <1>1, <1>3, <1>4, SeqnumBlockAllocateType
<1>6. SeqnumAlloc(s).lock_count = t.lock_count
  BY <1>4, <1>5 DEF Ram
<1> QED
  BY <1>3, <1>5, <1>6

-----------------------------------------------------------------------------
(* Steps *)

\* The strengthened type invariant: an update in progress, in RAM, in flash or
\* on its way there, has a positive IV index.
IInv == TypeOK /\ Sound(ram) /\ IvPositive(flash)

\* The steps that send nothing, while the node stays up and in its network.
Quiet ==
  \/ LockIvIndex \/ UnlockIvIndex
  \/ StartIvUpdate
  \/ \E on \in BOOLEAN : SetTestMode(on)
  \/ \E i \in BeaconIvIndexes, u \in BOOLEAN : BeaconReceived(i, u)
  \/ Minute
  \/ OtherFlashUser
  \/ FlashWrite \/ FlashDone \/ FlashFail

\* A quiet step keeps the invariant and, unless a reset is waiting for room, the
\* next pair to be given does not go back (all of net_state.c but the allocation).
LEMMA QuietStep ==
  ASSUME IInv, Quiet
  PROVE  IInv' /\ spent' = spent /\ (NoReset(ram) => Advances(ram, ram'))
<1> USE DEF IInv
<1>1. ram \in Ram /\ Sound(ram) /\ flash \in Flash /\ IvPositive(flash)
        /\ spent \in Seq(Nat \X Nat)
  BY DEF TypeOK
<1>2. ASSUME Advances(ram, ram'), ram' \in Ram, Sound(ram'), UNCHANGED <<flash, spent>>
      PROVE  IInv' /\ spent' = spent /\ (NoReset(ram) => Advances(ram, ram'))
  BY <1>1, <1>2 DEF TypeOK, IvPositive
<1>3. ASSUME Keeps(ram, ram'), ram' \in Ram, Sound(ram'), UNCHANGED <<flash, spent>>
      PROVE  IInv' /\ spent' = spent /\ (NoReset(ram) => Advances(ram, ram'))
  BY <1>1, <1>2, <1>3, KeepsAdvances DEF Sound
<1>4. CASE LockIvIndex
  BY <1>1, <1>3, <1>4, LockTypes, IvIndexLockKeeps DEF LockIvIndex
<1>5. CASE UnlockIvIndex
  BY <1>1, <1>2, <1>5, LockTypes, IvIndexUnlockMoves DEF UnlockIvIndex
<1>6. CASE StartIvUpdate
  BY <1>1, <1>2, <1>6, IvUpdateStartType, IvUpdateStartMoves DEF StartIvUpdate
<1>7. ASSUME NEW on \in BOOLEAN, SetTestMode(on)
      PROVE  IInv' /\ spent' = spent /\ (NoReset(ram) => Advances(ram, ram'))
  <2> DEFINE t == [ram EXCEPT !.test_mode = on]
  <2>1. t \in Ram /\ Keeps(ram, t) /\ t.queue = ram.queue
    BY <1>1 DEF Ram, IvStates, Keeps, NoReset
  <2>2. Sound(t)
    BY <1>1, <2>1 DEF Keeps, Sound, IvPositive
  <2> QED
    BY <1>3, <1>7, <2>1, <2>2 DEF SetTestMode
<1>8. ASSUME NEW i \in BeaconIvIndexes, NEW u \in BOOLEAN, BeaconReceived(i, u)
      PROVE  IInv' /\ spent' = spent /\ (NoReset(ram) => Advances(ram, ram'))
  BY <1>1, <1>2, <1>8, BeaconType, BeaconMoves DEF BeaconReceived
<1>9. CASE Minute
  BY <1>1, <1>2, <1>9, TimerHandlerType, TimerHandlerMoves DEF Minute
<1>10. CASE OtherFlashUser
  <2>1. OpAction("other") \in Action /\ IvPositive(OpAction("other"))
    BY ActionTypes DEF Ops, OpAction, IvPositive
  <2> QED
    BY <1>1, <1>3, <1>10, <2>1, EnqueueType, EnqueueKeeps DEF OtherFlashUser
<1>11. CASE FlashWrite
  <2> DEFINE a == Head(ram.queue)
             t == [ram EXCEPT !.writing = TRUE]
  <2>1. a \in Action /\ IvPositive(a)
    <3>1. ram.queue \in Seq(Action) /\ ram.queue # <<>>
      BY <1>1, <1>11 DEF Ram, FlashWrite
    <3> QED
      BY <1>1, <3>1 DEF Sound
  <2>2. Written(flash, a) \in Flash
    BY <1>1, <2>1, WrittenType
  <2>3. IvPositive(Written(flash, a))
    BY <1>1, <2>1 DEF Written, IvPositive, Action, Flash, Ops
  <2>4. t \in Ram /\ Keeps(ram, t) /\ t.queue = ram.queue
    BY <1>1 DEF Ram, IvStates, Keeps, NoReset
  <2>5. Sound(t)
    BY <1>1, <2>4 DEF Keeps, Sound, IvPositive
  <2>6. NoReset(ram) => Advances(ram, t)
    BY <1>1, <2>4, KeepsAdvances DEF Sound
  <2> HIDE DEF a, t
  <2>7. ram' = t /\ flash' = Written(flash, a) /\ spent' = spent
    BY <1>11 DEF FlashWrite, a, t
  <2> QED
    BY <1>1, <2>2, <2>3, <2>4, <2>5, <2>6, <2>7 DEF TypeOK, IvPositive
<1>12. ASSUME NEW s \in Ram, Sound(s), Keeps(ram, s), s.queue # <<>>,
              ram' = FreePacketBuffer(s), UNCHANGED <<flash, spent>>
       PROVE  IInv' /\ spent' = spent /\ (NoReset(ram) => Advances(ram, ram'))
  <2>1. ram' \in Ram /\ Sound(ram')
    BY <1>12, FreePacketBufferType, FreePacketBufferMoves
  <2>2. ASSUME NoReset(ram)
        PROVE  Keeps(ram, ram')
    BY <1>12, <2>2, FreePacketBufferMoves DEF Keeps
  <2>3. NoReset(ram) => Advances(ram, ram')
    BY <1>1, <2>1, <2>2, KeepsAdvances DEF Sound
  <2> QED
    BY <1>1, <1>12, <2>1, <2>3 DEF TypeOK, IvPositive
<1>13. CASE FlashDone
  <2> DEFINE a == Head(ram.queue)
  <2>1. a \in Action /\ ram.queue # <<>>
    BY <1>1, <1>13 DEF Ram, FlashDone
  <2>2. /\ WriteComplete(ram, a) \in Ram /\ Sound(WriteComplete(ram, a))
        /\ Keeps(ram, WriteComplete(ram, a))
        /\ WriteComplete(ram, a).queue = ram.queue
    BY <1>1, <2>1, WriteCompleteType, WriteCompleteKeeps
  <2> QED
    BY <1>12, <1>13, <2>1, <2>2 DEF FlashDone
<1>14. CASE FlashFail
  <2>1. Keeps(ram, ram)
    BY DEF Keeps
  <2> QED
    BY <1>1, <1>12, <1>14, <2>1 DEF FlashFail
<1> QED
  BY <1>4, <1>5, <1>6, <1>7, <1>8, <1>9, <1>10, <1>11, <1>13, <1>14 DEF Quiet

\* allocate_packet keeps the invariant, does not take the next pair back, and
\* when it sends a pair that pair is the one that was next and is now behind.
LEMMA AllocateStep ==
  ASSUME IInv, AllocatePacket
  PROVE  /\ IInv'
         /\ NoReset(ram) => Advances(ram, ram')
         /\ \/ spent' = spent
            \/ /\ spent' = Append(spent, <<TxIv(ram), ram.seqnum>>)
               /\ Before(<<TxIv(ram), ram.seqnum>>, ram')
<1> DEFINE l == IvIndexLock(ram)
           g == SeqnumAlloc(l)
           b == SeqnumBlockAllocate(l)
<1>1. ram \in Ram /\ Sound(ram) /\ flash \in Flash /\ IvPositive(flash)
        /\ spent \in Seq(Nat \X Nat)
  BY DEF IInv, TypeOK
<1>2. l \in Ram /\ Sound(l) /\ Keeps(ram, l) /\ l.locked /\ l.lock_count > 0
  <2>1. l.lock_count = ram.lock_count + 1 /\ ram.lock_count \in Nat
    BY <1>1 DEF IvIndexLock, Ram
  <2> QED
    BY <1>1, <2>1, LockTypes, IvIndexLockKeeps
<1>3. TxIv(ram) \in Nat /\ ram.seqnum \in Nat /\ TxIv(l) = TxIv(ram) /\ l.seqnum = ram.seqnum
  BY <1>1, <1>2, TxIvType DEF Sound, Keeps, TxIv, Ram
<1>4. /\ g \in Ram /\ Sound(g) /\ TxIv(g) = TxIv(ram) /\ g.seqnum = ram.seqnum + 1
      /\ NoReset(ram) => NoReset(g)
  BY <1>2, <1>3, SeqnumAllocType, SeqnumAllocMoves DEF Keeps
<1>5. b \in Ram /\ Sound(b) /\ Keeps(ram, b)
  <2>1. b \in Ram /\ Sound(b) /\ Keeps(l, b)
    BY <1>2, SeqnumBlockAllocateType, SeqnumBlockAllocateKeeps
  <2> QED
    BY <1>2, <2>1 DEF Keeps
<1>6. g.lock_count > 0 /\ b.lock_count > 0
  BY <1>2, LockCountKept
<1>7. ASSUME NEW s \in Ram, Sound(s), s.lock_count > 0
      PROVE  IvIndexUnlock(s) \in Ram /\ Sound(IvIndexUnlock(s))
               /\ Advances(s, IvIndexUnlock(s))
  BY <1>7, LockTypes, IvIndexUnlockMoves
<1> HIDE DEF l, g, b
<1>8. CASE l.seqnum < l.seqnum_max
  <2>1. ram' = IvIndexUnlock(g) /\ UNCHANGED flash
          /\ spent' = Append(spent, <<TxIv(ram), ram.seqnum>>)
    BY <1>3, <1>4, <1>8 DEF AllocatePacket, l, g
  <2>2. ram' \in Ram /\ Sound(ram') /\ Advances(g, ram')
    BY <1>4, <1>6, <1>7, <2>1
  <2>3. TxIv(ram') \in Nat /\ ram'.seqnum \in Nat
    BY <2>2, TxIvType DEF Sound, Ram
  <2>4. Before(<<TxIv(ram), ram.seqnum>>, ram') /\ (NoReset(ram) => Advances(ram, ram'))
    BY <1>3, <1>4, <2>2, <2>3 DEF Before, Advances
  <2>5. spent' \in Seq(Nat \X Nat)
    BY <1>1, <1>3, <2>1
  <2> QED
    BY <1>1, <2>1, <2>2, <2>4, <2>5 DEF IInv, TypeOK, IvPositive
<1>9. CASE ~(l.seqnum < l.seqnum_max)
  <2>1. ram' = IvIndexUnlock(b) /\ UNCHANGED <<flash, spent>>
    BY <1>9 DEF AllocatePacket, l, b
  <2>2. ram' \in Ram /\ Sound(ram') /\ Advances(b, ram')
    BY <1>5, <1>6, <1>7, <2>1
  <2>3. Advances(ram, b)
    BY <1>1, <1>5, KeepsAdvances DEF Sound
  <2>4. Advances(ram, ram')
    BY <1>1, <1>5, <2>2, <2>3, AdvancesTransitive DEF Sound
  <2> QED
    BY <1>1, <2>1, <2>2, <2>4 DEF IInv, TypeOK, IvPositive
<1> QED
  BY <1>8, <1>9

-----------------------------------------------------------------------------
(* Theorems *)

\* The boot of a fresh node satisfies the invariant, with no reset waiting.
LEMMA InitSound ==
  ASSUME Init
  PROVE  IInv /\ NoReset(ram) /\ NextNonceFresh
<1>1. flash \in Flash /\ IvPositive(flash)
  BY DEF Init, BlankFlash, Flash, IvStates, IvPositive
<1>2. ram \in Ram /\ Sound(ram) /\ NoReset(ram)
  BY <1>1, RecoverType, RecoverSound DEF Init
<1>3. spent \in Seq(Nat \X Nat) /\ NextNonceFresh
  BY DEF Init, NextNonceFresh
<1> QED
  BY <1>1, <1>2, <1>3 DEF IInv, TypeOK

\* Every step of the whole specification keeps the invariant.
LEMMA StepSound ==
  ASSUME IInv, [Next]_vars
  PROVE  IInv'
<1>1. CASE Operate
  BY <1>1, QuietStep, AllocateStep DEF Operate, Quiet
<1>2. CASE FlashFail
  BY <1>2, QuietStep DEF Quiet
<1>3. CASE Reset
  BY <1>3, NetStateResetType, NetStateResetSound DEF IInv, TypeOK, Reset, IvPositive
<1>4. CASE PowerCycle
  BY <1>4, RecoverType, RecoverSound DEF IInv, TypeOK, PowerCycle, IvPositive
<1>5. CASE UNCHANGED vars
  BY <1>5 DEF vars, IInv, TypeOK, IvPositive, Sound
<1> QED
  BY <1>1, <1>2, <1>3, <1>4, <1>5 DEF Next

\* Whatever happens, flash malfunctions, node resets and power cycles included,
\* the state is a state of the C structures: no counter runs below zero and the
\* queue and the flash hold entries (net_state.c, the whole file).
THEOREM TypeCorrect == Spec => []TypeOK
<1>1. Init => IInv
  BY InitSound
<1>2. IInv /\ [Next]_vars => IInv'
  BY StepSound
<1>3. IInv => TypeOK
  BY DEF IInv
<1> QED
  BY <1>1, <1>2, <1>3, PTL DEF Spec

\* A step of a powered node keeps the invariant and what was sent behind.
LEMMA PoweredStep ==
  ASSUME IInv, NoReset(ram), NextNonceFresh, [PoweredNext]_vars
  PROVE  /\ IInv' /\ NoReset(ram)' /\ NextNonceFresh'
         /\ \/ spent' = spent
            \/ spent' = Append(spent, <<TxIv(ram), ram.seqnum>>)
<1>1. ram \in Ram /\ Sound(ram) /\ spent \in Seq(Nat \X Nat)
  BY DEF IInv, TypeOK
<1>2. CASE UNCHANGED vars
  BY <1>2 DEF vars, IInv, TypeOK, IvPositive, Sound, NoReset, NextNonceFresh, Before, TxIv
<1>3. CASE PoweredNext
  <2>1. /\ IInv' /\ Advances(ram, ram')
        /\ \/ spent' = spent
           \/ /\ spent' = Append(spent, <<TxIv(ram), ram.seqnum>>)
              /\ Before(<<TxIv(ram), ram.seqnum>>, ram')
    BY <1>3, QuietStep, AllocateStep DEF PoweredNext, Operate, Quiet
  <2>2. ram' \in Ram /\ Sound(ram')
    BY <2>1 DEF IInv, TypeOK
  <2>3. /\ TxIv(ram) \in Nat /\ ram.seqnum \in Nat
        /\ TxIv(ram') \in Nat /\ ram'.seqnum \in Nat
    BY <1>1, <2>2, TxIvType DEF Sound, Ram
  <2>4. \A i \in DOMAIN spent : Before(spent[i], ram')
    <3> TAKE i \in DOMAIN spent
    <3>1. spent[i] \in Nat \X Nat
      BY <1>1
    <3>2. spent[i][1] \in Nat /\ spent[i][2] \in Nat
      BY <3>1
    <3>3. Before(spent[i], ram)
      BY DEF NextNonceFresh
    <3> QED
      BY <2>1, <2>3, <3>2, <3>3 DEF Before, Advances
  <2>5. NextNonceFresh'
    <3>1. CASE spent' = spent
      BY <2>4, <3>1 DEF NextNonceFresh, Before, TxIv
    <3>2. CASE spent' # spent
      <4>1. /\ spent' = Append(spent, <<TxIv(ram), ram.seqnum>>)
            /\ Before(<<TxIv(ram), ram.seqnum>>, ram')
        BY <2>1, <3>2
      <4>2. \A i \in DOMAIN spent' : Before(spent'[i], ram')
        BY <1>1, <2>3, <2>4, <4>1
      <4> QED
        BY <4>2 DEF NextNonceFresh, Before, TxIv
    <3> QED
      BY <3>1, <3>2
  <2>6. NoReset(ram)'
    BY <2>1 DEF Advances, NoReset
  <2> QED
    BY <2>1, <2>5, <2>6
<1> QED
  BY <1>2, <1>3

\* While a node stays powered and in its network, no IV index and sequence
\* number pair it is about to send was sent before, whatever updates, recoveries
\* and flash malfunctions come between (net_state.h:87-89).
THEOREM PoweredFresh == PoweredSpec => []NextNonceFresh
<1>1. Init => IInv /\ NoReset(ram) /\ NextNonceFresh
  BY InitSound
<1>2. (IInv /\ NoReset(ram) /\ NextNonceFresh) /\ [PoweredNext]_vars
        => (IInv /\ NoReset(ram) /\ NextNonceFresh)'
  BY PoweredStep
<1> QED
  BY <1>1, <1>2, PTL DEF PoweredSpec

\* The allocator of net_state.c implements, within a power cycle, the abstract
\* source of ever later pairs that the encryption relies on.
THEOREM PoweredIsNonceSource == PoweredSpec => NoncesLater
<1> DEFINE P == IInv /\ NoReset(ram) /\ NextNonceFresh
<1>1. Init => P /\ Nonces!Init
  BY InitSound DEF Init, Nonces!Init
<1>2. P /\ [PoweredNext]_vars => P'
  BY PoweredStep
<1>3. ASSUME P, [PoweredNext]_vars
      PROVE  [Nonces!Give]_spent
  <2> DEFINE p == <<TxIv(ram), ram.seqnum>>
  <2>1. SUFFICES ASSUME spent' = Append(spent, p)
                 PROVE  Nonces!Give
    BY <1>3, PoweredStep
  <2>2. spent \in Seq(Nat \X Nat) /\ Len(spent) \in Nat
    BY <1>3 DEF IInv, TypeOK
  <2>3. /\ Len(spent') = Len(spent) + 1 /\ spent'[Len(spent) + 1] = p
        /\ \A i \in 1..Len(spent) : spent'[i] = spent[i]
    BY <2>1, <2>2
  <2>4. \A i \in 1..Len(spent) : Nonces!Precedes(spent[i], p)
    BY <1>3, <2>2 DEF NextNonceFresh, Before, Nonces!Precedes
  <2> QED
    BY <2>3, <2>4 DEF Nonces!Give
<1> QED
  BY <1>1, <1>2, <1>3, PTL DEF PoweredSpec, NoncesLater, Nonces!Spec

-----------------------------------------------------------------------------
(* The lock: while somebody holds it within a power cycle, the IV index and the *)
(* update state stay as they are; and whoever holds it, the IV index only ever  *)
(* rises.  The holders are counted, but it is the flag "locked" that every test *)
(* of net_state.c looks at.  The argument is that the two agree, and that no    *)
(* function but the unlock changes them.                                        *)

\* Whoever counts as a holder finds the flag set (net_state.c:533-562).
LockAgrees(s) == s.lock_count > 0 => s.locked

LInv == IInv /\ NoReset(ram) /\ LockAgrees(ram)

\* From s to t neither the IV index, the update state nor the lock changed.
Same(s, t) ==
  /\ t.iv = s.iv /\ t.state = s.state
  /\ t.locked = s.locked /\ t.lock_count = s.lock_count

\* From s to t the lock stayed as it is, the IV index did not go back, and under
\* the lock the IV index and the update state did not change.
Obeys(s, t) ==
  /\ t.locked = s.locked /\ t.lock_count = s.lock_count
  /\ t.iv >= s.iv
  /\ s.locked => t.iv = s.iv /\ t.state = s.state

\* What changes nothing obeys the lock.
LEMMA SameObeys ==
  ASSUME NEW s \in Ram, NEW t \in Ram, Same(s, t)
  PROVE  Obeys(s, t)
BY DEF Same, Obeys, Ram

\* Two moves that obey the lock make one that does.
LEMMA ObeysTransitive ==
  ASSUME NEW r \in Ram, NEW s \in Ram, NEW t \in Ram, Obeys(r, s), Obeys(s, t)
  PROVE  Obeys(r, t)
<1>1. r.iv \in Nat /\ s.iv \in Nat /\ t.iv \in Nat
  BY DEF Ram
<1> QED
  BY <1>1 DEF Obeys

-----------------------------------------------------------------------------
(* One lemma per function *)

\* An action that is queued and a listener that registers leave the lock alone.
LEMMA QueueSame ==
  ASSUME NEW s \in Ram
  PROVE  /\ \A a \in Action : Same(s, Enqueue(s, a))
         /\ \A l \in Listeners : Same(s, Register(s, l))
<1>1. ASSUME NEW a \in Action
      PROVE  Same(s, Enqueue(s, a))
  BY DEF Enqueue, Same, Ram
<1>2. ASSUME NEW l \in Listeners
      PROVE  Same(s, Register(s, l))
  <2> DEFINE t == [s EXCEPT !.listeners = Append(@, l)]
  <2>1. Same(s, t) /\ Same(s, s)
    BY DEF Same, Ram
  <2> QED
    BY <2>1 DEF Register
<1> QED
  BY <1>1, <1>2

\* seqnum_block_allocate and flash_store_iv_index only queue, or register.
LEMMA StoreSame ==
  ASSUME NEW s \in Ram
  PROVE  /\ Same(s, SeqnumBlockAllocate(s))
         /\ Same(s, FlashStoreIvIndex(s))
<1> DEFINE a == SeqnumAction(s.seqnum_max + BLOCK_SIZE)
           e == Enqueue(s, a)
           t == [e EXCEPT !.allocating = TRUE]
<1>1. a \in Action
  <2>1. s.seqnum_max + BLOCK_SIZE \in Nat
    BY DEF Ram
  <2> QED
    BY <2>1, ActionTypes
<1>2. e \in Ram /\ Same(s, e)
  BY <1>1, EnqueueType, QueueSame
<1> HIDE DEF e
<1>3. Same(s, t)
  BY <1>2 DEF Same, Ram
<1>4. Same(s, s)
  BY DEF Same
<1>5. Same(s, SeqnumBlockAllocate(s))
  BY <1>3, <1>4, QueueSame DEF SeqnumBlockAllocate, Listeners, e
<1>6. IvAction(s) \in Action
  BY ActionTypes
<1> QED
  BY <1>5, <1>6, QueueSame DEF FlashStoreIvIndex, Listeners

\* Starting the numbers over keeps the IV index, the state and the lock.
LEMMA SeqnumRestartSame ==
  ASSUME NEW s \in Ram
  PROVE  Same(s, SeqnumRestart(s))
<1> DEFINE t == [s EXCEPT !.seqnum = 0, !.seqnum_max = 0]
           u == FlashStoreIvIndex(t)
<1>1. t \in Ram /\ Same(s, t)
  BY DEF Ram, IvStates, Same
<1> HIDE DEF t
<1>2. u \in Ram /\ Same(t, u) /\ Same(u, SeqnumBlockAllocate(u))
  BY <1>1, FlashStoreIvIndexType, StoreSame
<1> QED
  BY <1>1, <1>2 DEF SeqnumRestart, Same, t

\* An update starts only when nobody holds the lock, and raises the IV index.
LEMMA IvUpdateStartObeys ==
  ASSUME NEW s \in Ram
  PROVE  Obeys(s, IvUpdateStart(s))
<1> DEFINE t == [s EXCEPT !.state = "in_progress", !.timeout = 0, !.iv = @ + 1]
<1>1. s.iv \in Nat /\ s.iv + 1 \in Nat
  BY DEF Ram
<1>2. \A n \in Nat : [s EXCEPT !.state = "in_progress", !.timeout = 0, !.iv = n] \in Ram
  BY DEF Ram, IvStates
<1>3. t \in Ram
  BY <1>1, <1>2
<1>4. t.iv = s.iv + 1 /\ t.locked = s.locked /\ t.lock_count = s.lock_count
  BY DEF Ram
<1> HIDE DEF t
<1>5. Same(t, FlashStoreIvIndex(t))
  BY <1>3, StoreSame
<1>6. CASE CanStart(s)
  BY <1>1, <1>4, <1>5, <1>6 DEF IvUpdateStart, CanStart, Same, Obeys, t
<1>7. CASE ~CanStart(s)
  BY <1>1, <1>7 DEF IvUpdateStart, Obeys
<1> QED
  BY <1>6, <1>7

\* An update that is asked for waits until nobody holds the lock.
LEMMA TriggerIfPendingObeys ==
  ASSUME NEW s \in Ram
  PROVE  Obeys(s, TriggerIfPending(s))
<1> DEFINE c == [s EXCEPT !.pending = FALSE]
           e == [c EXCEPT !.state = "normal", !.timeout = 0]
<1>1. c \in Ram /\ Same(s, c)
  BY DEF Ram, IvStates, Same
<1>2. e \in Ram /\ e.iv = s.iv /\ e.locked = s.locked /\ e.lock_count = s.lock_count
  BY DEF Ram, IvStates
<1> HIDE DEF c
<1>3. Obeys(s, IvUpdateStart(c))
  BY <1>1, IvUpdateStartObeys, IvUpdateStartType, SameObeys, ObeysTransitive
<1>4. ASSUME CanTrigger(s)
      PROVE  Obeys(s, IvUpdateEnd(c))
  <2> HIDE DEF e
  <2>1. Same(e, SeqnumRestart(e)) /\ IvUpdateEnd(c) = SeqnumRestart(e)
    BY <1>2, SeqnumRestartSame DEF IvUpdateEnd, e
  <2>2. ~s.locked /\ s.iv \in Nat
    BY <1>4 DEF CanTrigger, Ram
  <2> QED
    BY <1>2, <2>1, <2>2 DEF Same, Obeys
<1>5. Obeys(s, s)
  BY SameObeys DEF Same
<1> QED
  BY <1>3, <1>4, <1>5 DEF TriggerIfPending, c

\* Asking for an update obeys the lock.
LEMMA AskedObeys ==
  ASSUME NEW s \in Ram
  PROVE  LET t == [s EXCEPT !.pending = TRUE]
         IN t \in Ram /\ Same(s, t) /\ Obeys(s, TriggerIfPending(t))
<1> DEFINE t == [s EXCEPT !.pending = TRUE]
<1>1. t \in Ram /\ Same(s, t)
  BY DEF Ram, IvStates, Same
<1> HIDE DEF t
<1>2. Obeys(s, TriggerIfPending(t))
  BY <1>1, TriggerIfPendingType, TriggerIfPendingObeys, SameObeys, ObeysTransitive
<1> QED
  BY <1>1, <1>2 DEF t

\* With the lock held the allocation of a number leaves all of it alone.
LEMMA SeqnumAllocSame ==
  ASSUME NEW s \in Ram, s.locked
  PROVE  Same(s, SeqnumAlloc(s))
<1> DEFINE asked == [s EXCEPT !.pending = TRUE]
<1>1. asked \in Ram /\ Same(s, asked)
  BY AskedObeys
<1>2. ~CanTrigger(asked) /\ TriggerIfPending(asked) = asked
  BY <1>1 DEF Same, CanTrigger, TriggerIfPending
<1>3. PICK t \in {s, asked, SeqnumBlockAllocate(s), SeqnumBlockAllocate(asked)} :
        SeqnumAlloc(s) = [t EXCEPT !.seqnum = @ + 1]
  BY <1>2 DEF SeqnumAlloc
<1> HIDE DEF asked
<1>4. /\ Same(s, SeqnumBlockAllocate(s)) /\ SeqnumBlockAllocate(s) \in Ram
      /\ Same(asked, SeqnumBlockAllocate(asked)) /\ SeqnumBlockAllocate(asked) \in Ram
  BY <1>1, StoreSame, SeqnumBlockAllocateType
<1>5. t \in Ram /\ Same(s, t)
  BY <1>1, <1>3, <1>4 DEF Same
<1>6. Same(t, [t EXCEPT !.seqnum = @ + 1])
  BY <1>5 DEF Same, Ram
<1> QED
  BY <1>3, <1>5, <1>6 DEF Same

\* The minute timer obeys the lock: an overdue update waits for it, too.
LEMMA TimerHandlerObeys ==
  ASSUME NEW s \in Ram
  PROVE  Obeys(s, TimerHandler(s))
<1> DEFINE asked == [s EXCEPT !.pending = TRUE]
<1>1. asked \in Ram /\ Same(s, asked) /\ Obeys(s, TriggerIfPending(asked))
  BY AskedObeys
<1>2. \A m \in {s, asked, TriggerIfPending(s), TriggerIfPending(asked)} :
        m \in Ram /\ Obeys(s, m)
  BY <1>1, TriggerIfPendingType, TriggerIfPendingObeys, SameObeys DEF Same
<1>3. ASSUME NEW m \in Ram, Obeys(s, m)
      PROVE  /\ [m EXCEPT !.timeout = @ + 1] \in Ram
             /\ Obeys(s, [m EXCEPT !.timeout = @ + 1])
             /\ Obeys(s, [m EXCEPT !.ivr_timeout = @ - 1])
  <2>1. m.timeout + 1 \in Nat
    BY DEF Ram
  <2>2. \A n \in Nat : [m EXCEPT !.timeout = n] \in Ram
    BY DEF Ram, IvStates
  <2> QED
    BY <1>3, <2>1, <2>2 DEF Obeys, Ram
<1> HIDE DEF asked
<1> QED
  BY <1>2, <1>3 DEF TimerHandler, asked

\* A beacon obeys the lock; a recovery only raises the IV index.
LEMMA BeaconObeys ==
  ASSUME NEW s \in Ram, NEW i \in Nat, NEW u \in BOOLEAN
  PROVE  Obeys(s, Beacon(s, i, u))
<1> DEFINE t == [s EXCEPT !.iv = i, !.timeout = 0,
                          !.ivr_timeout = IV_RECOVERY_TIMEOUT, !.pending = FALSE]
<1>1. Obeys(s, s)
  BY SameObeys DEF Same
<1>2. Obeys(s, AskAndTrigger(s))
  BY AskedObeys DEF AskAndTrigger
<1>3. ASSUME ~s.locked, FallenBehind(s, i, u)
      PROVE  Obeys(s, IvRecover(s, i))
  <2>1. t \in Ram /\ t.iv = i /\ t.locked = s.locked /\ t.lock_count = s.lock_count
    BY DEF Ram, IvStates
  <2>2. i > s.iv /\ s.iv \in Nat
    BY <1>3 DEF FallenBehind, Ram
  <2> HIDE DEF t
  <2>3. Same(t, SeqnumRestart(t)) /\ IvRecover(s, i) = SeqnumRestart(t)
    BY <2>1, SeqnumRestartSame DEF IvRecover, t
  <2> QED
    BY <1>3, <2>1, <2>2, <2>3 DEF Same, Obeys
<1> QED
  BY <1>1, <1>2, <1>3 DEF Beacon

\* The end of an action, and whoever waited for its room, leave the lock alone,
\* unless a reset waited.
LEMMA FreePacketBufferSame ==
  ASSUME NEW s \in Ram, s.queue # <<>>, NoReset(s)
  PROVE  Same(s, FreePacketBuffer(s))
<1> DEFINE ls    == s.listeners
           freed == [s EXCEPT !.queue = Tail(@), !.listeners = <<>>, !.writing = FALSE]
<1>1. freed \in Ram
  <2>1. s.queue \in Seq(Action) /\ Tail(s.queue) \in Seq(Action)
    BY DEF Ram
  <2>2. <<>> \in Seq(Listeners)
    OBVIOUS
  <2> QED
    BY <2>1, <2>2 DEF Ram
<1>2. Same(s, freed)
  BY DEF Same, Ram
<1>3. ls \in Seq(Listeners)
  BY DEF Ram
<1>4. ASSUME NEW t \in Ram, Same(s, t), NEW n \in Nat \ {0}
      PROVE  NotifyNth(t, ls, n) \in Ram /\ Same(s, NotifyNth(t, ls, n))
  <2>1. CASE n > Len(ls)
    BY <1>3, <1>4, <2>1 DEF NotifyNth
  <2>2. CASE n <= Len(ls)
    <3>1. ls[n] \in Listeners /\ ls[n] # "net_state_reset"
      BY <1>3, <2>2 DEF NoReset
    <3>2. NotifyNth(t, ls, n) = Notify(t, ls[n])
      BY <2>2 DEF NotifyNth
    <3>3. NotifyNth(t, ls, n) \in {SeqnumBlockAllocate(t), FlashStoreIvIndex(t)}
      BY <3>1, <3>2 DEF Notify, Listeners
    <3> QED
      BY <1>4, <3>3, SeqnumBlockAllocateType, FlashStoreIvIndexType, StoreSame DEF Same
  <2> QED
    BY <1>3, <2>1, <2>2
<1> DEFINE a == NotifyNth(freed, ls, 1)
           b == NotifyNth(a, ls, 2)
           c == NotifyNth(b, ls, 3)
<1>5. c = FreePacketBuffer(s)
  BY DEF FreePacketBuffer
<1> HIDE DEF freed, ls
<1>6. a \in Ram /\ Same(s, a)
  BY <1>1, <1>2, <1>4
<1> HIDE DEF a
<1>7. b \in Ram /\ Same(s, b)
  BY <1>4, <1>6
<1> HIDE DEF b
<1>8. Same(s, c)
  BY <1>4, <1>7
<1> QED
  BY <1>5, <1>8

-----------------------------------------------------------------------------
(* Steps *)

\* What a step may do to the IV index and the lock.
Orderly(s, t) ==
  /\ t.iv >= s.iv
  /\ s.lock_count > 0 /\ t.lock_count > 0 => t.iv = s.iv /\ t.state = s.state
  /\ LockAgrees(t)

\* What obeys the lock is orderly.
LEMMA ObeysOrderly ==
  ASSUME NEW s \in Ram, NEW t \in Ram, LockAgrees(s), Obeys(s, t)
  PROVE  Orderly(s, t)
BY DEF Obeys, Orderly, LockAgrees

\* The last holder's unlock may move the IV index, any other leaves it alone.
LEMMA UnlockOrderly ==
  ASSUME NEW s \in Ram, LockAgrees(s), s.lock_count > 0
  PROVE  /\ Orderly(s, IvIndexUnlock(s))
         /\ IvIndexUnlock(s).lock_count = s.lock_count - 1
<1> DEFINE f == [s EXCEPT !.lock_count = 0, !.locked = FALSE]
           g == [s EXCEPT !.lock_count = @ - 1]
<1>1. f \in Ram /\ f.iv = s.iv /\ f.lock_count = 0
  BY DEF Ram, IvStates
<1>2. /\ g.iv = s.iv /\ g.state = s.state /\ g.locked = s.locked
      /\ g.lock_count = s.lock_count - 1
  BY DEF Ram
<1>3. s.iv \in Nat /\ s.lock_count \in Nat /\ s.locked
  BY DEF Ram, LockAgrees
<1> HIDE DEF f, g
<1>4. Obeys(f, TriggerIfPending(f))
  BY <1>1, TriggerIfPendingObeys
<1>5. CASE s.lock_count = 1
  <2>1. IvIndexUnlock(s) = TriggerIfPending(f)
    BY <1>5 DEF IvIndexUnlock, f
  <2> QED
    BY <1>1, <1>3, <1>4, <1>5, <2>1 DEF Orderly, Obeys, LockAgrees
<1>6. CASE s.lock_count # 1
  <2>1. IvIndexUnlock(s) = g
    BY <1>6 DEF IvIndexUnlock, g
  <2>2. LockAgrees(g)
    BY <1>2, <1>3, Zenon DEF LockAgrees
  <2>3. g.iv >= s.iv
    BY <1>2, <1>3
  <2> QED
    BY <1>2, <2>1, <2>2, <2>3 DEF Orderly
<1> QED
  BY <1>5, <1>6

\* The allocation of a packet takes the lock and gives it back: it moves the IV
\* index only if nobody else holds it.
LEMMA AllocateOrderly ==
  ASSUME LInv, AllocatePacket
  PROVE  Orderly(ram, ram')
<1> DEFINE l == IvIndexLock(ram)
           g == SeqnumAlloc(l)
           b == SeqnumBlockAllocate(l)
<1>1. ram \in Ram /\ ram.lock_count \in Nat /\ ram.iv \in Nat
  BY DEF LInv, IInv, TypeOK, Ram
<1>2. /\ l \in Ram /\ l.locked /\ l.lock_count = ram.lock_count + 1
      /\ l.iv = ram.iv /\ l.state = ram.state
  <2>1. /\ l.locked /\ l.lock_count = ram.lock_count + 1
        /\ l.iv = ram.iv /\ l.state = ram.state
    BY <1>1 DEF IvIndexLock, Ram
  <2> QED
    BY <1>1, <2>1, LockTypes
<1> HIDE DEF l
<1>3. g \in Ram /\ b \in Ram /\ Same(l, g) /\ Same(l, b)
  BY <1>2, SeqnumAllocType, SeqnumBlockAllocateType, SeqnumAllocSame, StoreSame
<1>4. \E t \in {g, b} : ram' = IvIndexUnlock(t)
  BY DEF AllocatePacket, l
<1> HIDE DEF g, b
<1>5. PICK t \in {g, b} : ram' = IvIndexUnlock(t)
  BY <1>4
<1>6. /\ t \in Ram /\ t.locked /\ t.lock_count = ram.lock_count + 1
      /\ t.iv = ram.iv /\ t.state = ram.state
  BY <1>2, <1>3, <1>5 DEF Same
<1>7. Orderly(t, ram') /\ ram'.lock_count = ram.lock_count
  <2>1. Orderly(t, IvIndexUnlock(t)) /\ IvIndexUnlock(t).lock_count = t.lock_count - 1
    BY <1>1, <1>6, UnlockOrderly DEF LockAgrees
  <2> QED
    BY <1>1, <1>5, <1>6, <2>1
<1> QED
  BY <1>1, <1>6, <1>7 DEF Orderly

\* Every step of a powered node is orderly.
LEMMA PoweredOrderly ==
  ASSUME LInv, PoweredNext
  PROVE  Orderly(ram, ram')
<1>1. /\ ram \in Ram /\ ram.iv \in Nat /\ LockAgrees(ram) /\ NoReset(ram)
      /\ ram.lock_count \in Nat
  BY DEF LInv, IInv, TypeOK, Ram
<1>2. ram' \in Ram
  <2>1. IInv'
    BY StepSound DEF LInv, Next, PoweredNext
  <2> QED
    BY <2>1 DEF IInv, TypeOK
<1>3. ASSUME Obeys(ram, ram')
      PROVE  Orderly(ram, ram')
  BY <1>1, <1>2, <1>3, ObeysOrderly
<1>4. ASSUME Same(ram, ram')
      PROVE  Orderly(ram, ram')
  BY <1>1, <1>2, <1>3, <1>4, SameObeys
<1>5. CASE AllocatePacket
  BY <1>5, AllocateOrderly
<1>6. CASE LockIvIndex
  <2>1. /\ IvIndexLock(ram).iv = ram.iv /\ IvIndexLock(ram).state = ram.state
        /\ IvIndexLock(ram).locked
    BY <1>1 DEF IvIndexLock, Ram
  <2> QED
    BY <1>1, <1>6, <2>1 DEF LockIvIndex, Orderly, LockAgrees
<1>7. CASE UnlockIvIndex
  BY <1>1, <1>7, UnlockOrderly DEF UnlockIvIndex
<1>8. CASE StartIvUpdate
  BY <1>1, <1>3, <1>8, IvUpdateStartObeys DEF StartIvUpdate
<1>9. ASSUME NEW on \in BOOLEAN, SetTestMode(on)
      PROVE  Orderly(ram, ram')
  <2>1. Same(ram, [ram EXCEPT !.test_mode = on])
    BY <1>1 DEF Ram, Same
  <2> QED
    BY <1>4, <1>9, <2>1 DEF SetTestMode
<1>10. ASSUME NEW i \in BeaconIvIndexes, NEW u \in BOOLEAN, BeaconReceived(i, u)
       PROVE  Orderly(ram, ram')
  <2>1. i \in Nat
    OBVIOUS
  <2> QED
    BY <1>1, <1>3, <1>10, <2>1, BeaconObeys DEF BeaconReceived
<1>11. CASE Minute
  BY <1>1, <1>3, <1>11, TimerHandlerObeys DEF Minute
<1>12. CASE OtherFlashUser
  <2>1. OpAction("other") \in Action
    BY ActionTypes DEF Ops
  <2> QED
    BY <1>1, <1>4, <1>12, <2>1, QueueSame DEF OtherFlashUser
<1>13. CASE FlashWrite
  <2>1. Same(ram, [ram EXCEPT !.writing = TRUE])
    BY <1>1 DEF Ram, Same
  <2> QED
    BY <1>4, <1>13, <2>1 DEF FlashWrite
<1>14. CASE FlashDone
  <2> DEFINE w == WriteComplete(ram, Head(ram.queue))
  <2>1. Head(ram.queue) \in Action
    BY <1>1, <1>14 DEF FlashDone, Ram
  <2>2. w \in Ram /\ w.queue = ram.queue /\ NoReset(w)
    <3>1. Sound(ram)
      BY DEF LInv, IInv
    <3> QED
      BY <1>1, <2>1, <3>1, WriteCompleteType, WriteCompleteKeeps DEF Keeps
  <2>3. Same(ram, w)
    BY <1>1 DEF WriteComplete, Same, Ram
  <2> HIDE DEF w
  <2>4. ram.queue # <<>> /\ ram' = FreePacketBuffer(w)
    BY <1>14 DEF FlashDone, w
  <2>5. Same(w, ram')
    BY <2>2, <2>4, FreePacketBufferSame
  <2> QED
    BY <1>4, <2>3, <2>5 DEF Same
<1>15. CASE FlashFail
  BY <1>1, <1>4, <1>15, FreePacketBufferSame DEF FlashFail
<1> QED
  BY <1>5, <1>6, <1>7, <1>8, <1>9, <1>10, <1>11, <1>12, <1>13, <1>14, <1>15
  DEF PoweredNext, Operate

\* After the first boot nobody holds the lock.
LEMMA InitAgrees ==
  ASSUME Init
  PROVE  LInv
<1>1. IInv /\ NoReset(ram)
  BY InitSound
<1>2. BlankRam \in Ram /\ BlankRam.lock_count = 0
  BY DEF BlankRam, Ram, IvStates
<1>3. Same(BlankRam, ram)
  <2>1. FlashStoreIvIndex(BlankRam) \in Ram
    BY <1>2, FlashStoreIvIndexType
  <2>2. ram = SeqnumBlockAllocate(FlashStoreIvIndex(BlankRam))
    BY DEF Init, Recover, BlankFlash
  <2> QED
    BY <1>2, <2>1, <2>2, StoreSame DEF Same
<1> QED
  BY <1>1, <1>2, <1>3 DEF LInv, Same, LockAgrees

\* Every step keeps the invariant and is orderly, also one that changes nothing.
LEMMA LockStep ==
  ASSUME LInv, [PoweredNext]_vars
  PROVE  LInv' /\ (PoweredNext => Orderly(ram, ram'))
<1>1. IInv' /\ NoReset(ram)'
  <2>1. CASE PoweredNext
    <3>1. IInv' /\ Advances(ram, ram')
      BY <2>1, QuietStep, AllocateStep DEF LInv, PoweredNext, Operate, Quiet
    <3> QED
      BY <3>1 DEF LInv, Advances, NoReset
  <2>2. CASE UNCHANGED vars
    BY <2>2, StepSound DEF LInv, vars, NoReset
  <2> QED
    BY <2>1, <2>2
<1>2. LockAgrees(ram)'
  BY PoweredOrderly DEF LInv, vars, Orderly, LockAgrees
<1> QED
  BY <1>1, <1>2, PoweredOrderly DEF LInv

-----------------------------------------------------------------------------
(* Theorems *)

\* Within a power cycle a holder of the lock finds the IV index and the update
\* state as they were when it took it, for any number of holders, whatever
\* beacon, timer tick, threshold or call arrives (net_state.h:121-122).
THEOREM LockAlwaysHolds == PoweredSpec => LockHolds
<1>1. Init => LInv
  BY InitAgrees
<1>2. LInv /\ [PoweredNext]_vars => LInv'
  BY LockStep
<1>3. LInv /\ [PoweredNext]_vars
        => [ram.lock_count > 0 /\ ram'.lock_count > 0
              => ram'.iv = ram.iv /\ ram'.state = ram.state]_vars
  BY PoweredOrderly DEF Orderly
<1> QED
  BY <1>1, <1>2, <1>3, PTL DEF PoweredSpec, LockHolds

\* Within a power cycle neither the IV index nor the index the node transmits on
\* goes back.
THEOREM IvIndexNeverBack == PoweredSpec => IvIndexMonotonic
<1>1. Init => LInv
  BY InitAgrees
<1>2. LInv /\ [PoweredNext]_vars => LInv'
  BY LockStep
<1>3. LInv /\ [PoweredNext]_vars
        => [ram'.iv >= ram.iv /\ TxIv(ram') >= TxIv(ram)]_vars
  <2> SUFFICES ASSUME LInv, PoweredNext
               PROVE  ram'.iv >= ram.iv /\ TxIv(ram') >= TxIv(ram)
    OBVIOUS
  <2>1. ram'.iv >= ram.iv
    BY PoweredOrderly DEF Orderly
  <2>2. IInv' /\ Advances(ram, ram')
    BY QuietStep, AllocateStep DEF LInv, PoweredNext, Operate, Quiet
  <2>3. TxIv(ram) \in Nat /\ TxIv(ram') \in Nat
    BY <2>2, TxIvType DEF LInv, IInv, TypeOK, Sound
  <2> QED
    BY <2>1, <2>2, <2>3 DEF Advances
<1> QED
  BY <1>1, <1>2, <1>3, PTL DEF PoweredSpec, IvIndexMonotonic
=============================================================================
