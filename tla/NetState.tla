------------------------------ MODULE NetState ------------------------------
(***************************************************************************)
(* The network state of a node (mesh/core/src/net_state.c): the IV index,  *)
(* the IV update procedure and the sequence number allocator, together     *)
(* with the flash entries that carry them over a power cycle.              *)
(*                                                                         *)
(* The state is split the way a power failure splits it.  "ram" is what    *)
(* the failure destroys: m_net_state, the allocation flag, the memory      *)
(* listeners this module registers and the flash manager's action queue.   *)
(* "flash" is what survives.  Every function of the C module is an         *)
(* operator from a ram value to a ram value, so that a handler that calls  *)
(* several of them is their composition.                                   *)
(*                                                                         *)
(* Built with PERSISTENT_STORAGE, as the examples are.  The queue is       *)
(* shared with the other users of the flash manager, whose actions are     *)
(* invalidations ("other").                                                *)
(***************************************************************************)
EXTENDS Naturals, Sequences, FiniteSets

CONSTANTS
  SEQNUM_MAX,            \* NETWORK_SEQNUM_MAX
  BLOCK_SIZE,            \* NETWORK_SEQNUM_FLASH_BLOCK_SIZE
  BLOCK_THRESHOLD,       \* NETWORK_SEQNUM_FLASH_BLOCK_THRESHOLD
  START_THRESHOLD,       \* NETWORK_SEQNUM_IV_UPDATE_START_THRESHOLD
  END_THRESHOLD,         \* NETWORK_SEQNUM_IV_UPDATE_END_THRESHOLD
  IV_UPDATE_TIMEOUT,     \* minutes before an IV update state may be left
  IN_PROGRESS_MAX_TIME,  \* minutes after which "in progress" must be left
  IV_RECOVERY_TIMEOUT,   \* minutes between two IV recoveries
  IV_RECOVERY_LIMIT,     \* NETWORK_IV_RECOVERY_LIMIT
  POOL_SIZE,             \* FLASH_MANAGER_POOL_SIZE, in words
  BeaconIvIndexes        \* the IV indexes beacons and provisioning data carry

ASSUME NetStateAssumption ==
  /\ SEQNUM_MAX \in Nat /\ BLOCK_SIZE \in Nat \ {0} /\ BLOCK_THRESHOLD \in Nat
  /\ START_THRESHOLD \in Nat /\ END_THRESHOLD \in Nat
  /\ IV_UPDATE_TIMEOUT \in Nat /\ IN_PROGRESS_MAX_TIME \in Nat
  /\ IV_RECOVERY_TIMEOUT \in Nat /\ IV_RECOVERY_LIMIT \in Nat
  /\ POOL_SIZE \in Nat /\ BeaconIvIndexes \subseteq Nat

VARIABLES
  ram,    \* volatile state of the module and of the action queue
  flash,  \* the flash entries of the two handles
  spent   \* history: the <<IV index, sequence number>> pairs sent, in order

vars == <<ram, flash, spent>>

-----------------------------------------------------------------------------
(* Values *)

IvStates == {"normal", "in_progress"}

Listeners == {"seqnum_block_allocate", "flash_store_iv_index", "net_state_reset"}

\* An action of the flash manager's queue: replace or invalidate one entry.
Ops == {"seqnum", "iv_index", "invalidate_seqnum", "invalidate_iv_index", "other"}
Action == [op : Ops, seqnum : Nat, iv : Nat, state : IvStates]

Ram == [ seqnum : Nat, seqnum_max : Nat, iv : Nat, state : IvStates,
         pending : BOOLEAN, locked : BOOLEAN, timeout : Nat, ivr_timeout : Nat,
         test_mode : BOOLEAN, lock_count : Nat, allocating : BOOLEAN,
         listeners : Seq(Listeners), queue : Seq(Action), writing : BOOLEAN ]

\* An entry is absent until its "has" field is set.  "seqnum_first" is the
\* address order of the two entries, which recovery compares.
Flash == [ has_iv : BOOLEAN, iv : Nat, state : IvStates,
           has_seqnum : BOOLEAN, seqnum : Nat, seqnum_first : BOOLEAN ]

BlankFlash == [ has_iv |-> FALSE, iv |-> 0, state |-> "normal",
                has_seqnum |-> FALSE, seqnum |-> 0, seqnum_first |-> FALSE ]

\* m_net_state after the memset of net_state_init, and the statics at power-up.
BlankRam == [ seqnum |-> 0, seqnum_max |-> 0, iv |-> 0, state |-> "normal",
              pending |-> FALSE, locked |-> FALSE, timeout |-> 0, ivr_timeout |-> 0,
              test_mode |-> FALSE, lock_count |-> 0, allocating |-> FALSE,
              listeners |-> <<>>, queue |-> <<>>, writing |-> FALSE ]

-----------------------------------------------------------------------------
(* The action queue of the flash manager *)

OpAction(op) == [op |-> op, seqnum |-> 0, iv |-> 0, state |-> "normal"]

SeqnumAction(n) == [OpAction("seqnum") EXCEPT !.seqnum = n]

IvAction(s) == [OpAction("iv_index") EXCEPT !.iv = s.iv, !.state = s.state]

\* An action takes five words of the queue (packet, action and entry headers)
\* and the words of its data.
HEADER_WORDS == 5

DataWords(op) ==
  CASE op = "iv_index" -> 2
    [] op = "seqnum" -> 1
    [] OTHER -> 0

\* The words in use, by the actions that wait and by the one being written.
Used(q) ==
  LET AtLeast(n) == Cardinality({i \in DOMAIN q : DataWords(q[i].op) >= n})
  IN HEADER_WORDS * Len(q) + AtLeast(1) + AtLeast(2)

Room(s, op) == Used(s.queue) + HEADER_WORDS + DataWords(op) <= POOL_SIZE

ToSet(seq) == {seq[i] : i \in DOMAIN seq}

\* flash_manager_mem_listener_register: once, however often it is asked for.
Register(s, l) ==
  IF l \in ToSet(s.listeners)
  THEN s
  ELSE [s EXCEPT !.listeners = Append(@, l)]

Enqueue(s, a) == [s EXCEPT !.queue = Append(@, a)]

-----------------------------------------------------------------------------
(* net_state.c, one operator per function *)

TxIv(s) == IF s.state = "in_progress" THEN s.iv - 1 ELSE s.iv

TimeoutLimitPassed(s) == s.timeout >= IV_UPDATE_TIMEOUT \/ s.test_mode

BlockAllocateEarly(s) ==   \* Mutant: the block is spent before it is in flash
  IF s.allocating \/ s.seqnum_max + BLOCK_SIZE > SEQNUM_MAX + 1 \/ ~Room(s, "seqnum")
  THEN s
  ELSE [Enqueue(s, SeqnumAction(s.seqnum_max + BLOCK_SIZE))
          EXCEPT !.allocating = TRUE, !.seqnum_max = @ + BLOCK_SIZE]

SeqnumBlockAllocate(s) ==
  LET next_block == s.seqnum_max + BLOCK_SIZE IN
  IF s.allocating \/ next_block > SEQNUM_MAX + 1
  THEN s
  ELSE IF Room(s, "seqnum")
       THEN [Enqueue(s, SeqnumAction(next_block)) EXCEPT !.allocating = TRUE]
       ELSE Register(s, "seqnum_block_allocate")

FlashStoreIvIndex(s) ==
  IF Room(s, "iv_index")
  THEN Enqueue(s, IvAction(s))
  ELSE Register(s, "flash_store_iv_index")

CanStartLocked(s) == s.state = "normal" /\ TimeoutLimitPassed(s)   \* Mutant

CanStart(s) == s.state = "normal" /\ ~s.locked /\ TimeoutLimitPassed(s)

IvUpdateStartAnew(s) ==   \* Mutant: the numbers start over one step too early
  IF CanStart(s)
  THEN FlashStoreIvIndex([s EXCEPT !.state = "in_progress", !.timeout = 0,
                                   !.iv = @ + 1, !.seqnum = 0])
  ELSE s

IvUpdateStart(s) ==
  IF CanStart(s)
  THEN FlashStoreIvIndex(
         [s EXCEPT !.state = "in_progress", !.timeout = 0, !.iv = @ + 1])
  ELSE s

\* The sequence numbers start over on the IV index of s, which is stored first.
SeqnumRestart(s) ==
  SeqnumBlockAllocate(FlashStoreIvIndex([s EXCEPT !.seqnum = 0, !.seqnum_max = 0]))

IvUpdateEnd(s) == SeqnumRestart([s EXCEPT !.state = "normal", !.timeout = 0])

CanTrigger(s) == s.pending /\ ~s.locked /\ TimeoutLimitPassed(s)

TriggerIfPending(s) ==
  LET cleared == [s EXCEPT !.pending = FALSE] IN
  IF ~CanTrigger(s) THEN s
  ELSE IF s.state = "normal" THEN IvUpdateStart(cleared) ELSE IvUpdateEnd(cleared)

IvIndexLock(s) == [s EXCEPT !.locked = TRUE, !.lock_count = @ + 1]

IvIndexUnlock(s) ==
  IF s.lock_count = 1
  THEN TriggerIfPending([s EXCEPT !.lock_count = 0, !.locked = FALSE])
  ELSE [s EXCEPT !.lock_count = @ - 1]

UpdateThreshold(s) == IF s.state = "in_progress" THEN END_THRESHOLD ELSE START_THRESHOLD

\* net_state_seqnum_alloc when a number is available: the number handed out is
\* the result's seqnum - 1.
SeqnumAlloc(s) ==
  LET wants     == s.seqnum >= UpdateThreshold(s)
      asked     == IF wants THEN [s EXCEPT !.pending = TRUE] ELSE s
      triggered == wants /\ CanTrigger(asked)
      updated   == IF wants THEN TriggerIfPending(asked) ELSE s
      low       == /\ updated.seqnum_max >= BLOCK_THRESHOLD
                   /\ updated.seqnum >= updated.seqnum_max - BLOCK_THRESHOLD
      stocked   == IF ~triggered /\ low THEN SeqnumBlockAllocate(updated) ELSE updated
  IN [stocked EXCEPT !.seqnum = @ + 1]

TimerUnderflow(s) ==   \* Mutant: the recovery timer runs past 0
  [TriggerIfPending(s) EXCEPT !.ivr_timeout = @ - 1]

TimerPatient(s) ==   \* Mutant: an overdue update is not forced to its end
  [TriggerIfPending(s) EXCEPT !.timeout = IF @ < IN_PROGRESS_MAX_TIME THEN @ + 1 ELSE @]

TimerHandler(s) ==
  LET passed   == TimeoutLimitPassed(s)
      overdue  == s.state = "in_progress" /\ passed /\ s.timeout >= IN_PROGRESS_MAX_TIME
      forced   == IF overdue THEN [s EXCEPT !.pending = TRUE] ELSE s
      moved    == IF passed THEN TriggerIfPending(forced) ELSE s
      counts   == IF s.state = "normal" THEN ~passed ELSE ~overdue
      counted  == IF counts THEN [moved EXCEPT !.timeout = @ + 1] ELSE moved
  IN IF counted.ivr_timeout > 0 THEN [counted EXCEPT !.ivr_timeout = @ - 1] ELSE counted

IvRecover(s, iv_index) ==
  SeqnumRestart([s EXCEPT !.iv = iv_index, !.timeout = 0,
                          !.ivr_timeout = IV_RECOVERY_TIMEOUT, !.pending = FALSE])

AskAndTrigger(s) == TriggerIfPending([s EXCEPT !.pending = TRUE])

FallenAside(s, iv_index, iv_update) ==   \* Mutant: any other IV index is adopted
  s.ivr_timeout = 0 /\ iv_index # s.iv

FallenBehind(s, iv_index, iv_update) ==
  /\ s.ivr_timeout = 0
  /\ iv_index > (IF iv_update THEN s.iv + 1 ELSE s.iv)

Beacon(s, iv_index, iv_update) ==
  IF s.state = "normal"
  THEN IF FallenBehind(s, iv_index, iv_update)
       THEN IF iv_index <= s.iv + IV_RECOVERY_LIMIT /\ ~s.locked
            THEN IvRecover(s, iv_index) ELSE s
       ELSE IF iv_update /\ iv_index = s.iv + 1 THEN AskAndTrigger(s) ELSE s
  ELSE IF ~iv_update /\ iv_index = s.iv THEN AskAndTrigger(s) ELSE s

NetStateReset(s) ==
  LET first == Enqueue(s, OpAction("invalidate_seqnum"))
      both  == Enqueue(first, OpAction("invalidate_iv_index"))
  IN IF ~Room(s, "invalidate_seqnum") THEN Register(s, "net_state_reset")
     ELSE IF ~Room(first, "invalidate_iv_index") THEN Register(first, "net_state_reset")
     ELSE [both EXCEPT !.seqnum = 0, !.seqnum_max = 0, !.iv = 0, !.state = "normal",
                       !.pending = FALSE, !.locked = FALSE, !.timeout = 0,
                       !.ivr_timeout = 0]

\* net_state_init followed by net_state_recover_from_flash, as network_init does.
Recover(f) ==
  LET valid == f.has_iv /\ f.has_seqnum
      stale == f.seqnum_first /\ f.state = "normal"
      n     == IF stale THEN 0 ELSE f.seqnum
  IN IF valid
     THEN SeqnumBlockAllocate([BlankRam EXCEPT !.iv = f.iv, !.state = f.state,
                                               !.seqnum = n, !.seqnum_max = n])
     ELSE SeqnumBlockAllocate(FlashStoreIvIndex(BlankRam))

-----------------------------------------------------------------------------
(* What an action of the queue does to the flash, and its completion *)

Written(f, a) ==
  CASE a.op = "seqnum" -> [f EXCEPT !.has_seqnum = TRUE, !.seqnum = a.seqnum,
                                    !.seqnum_first = FALSE]
    [] a.op = "iv_index" -> [f EXCEPT !.has_iv = TRUE, !.iv = a.iv, !.state = a.state,
                                      !.seqnum_first = TRUE]
    [] a.op = "invalidate_seqnum" -> [f EXCEPT !.has_seqnum = FALSE]
    [] a.op = "invalidate_iv_index" -> [f EXCEPT !.has_iv = FALSE]
    [] OTHER -> f

WriteComplete(s, a) ==
  IF a.op = "seqnum"
  THEN [s EXCEPT !.seqnum_max = a.seqnum, !.allocating = FALSE]
  ELSE s

Notify(s, l) ==
  CASE l = "seqnum_block_allocate" -> SeqnumBlockAllocate(s)
    [] l = "flash_store_iv_index"  -> FlashStoreIvIndex(s)
    [] l = "net_state_reset"       -> NetStateReset(s)

NotifyNth(s, ls, n) == IF n <= Len(ls) THEN Notify(s, ls[n]) ELSE s

DropPacketBuffer(s) ==   \* Mutant: nobody is told of the room
  [s EXCEPT !.queue = Tail(@), !.writing = FALSE]

\* free_packet_buffer: the freed buffer is offered to every listener that was
\* waiting, in the order they registered.
FreePacketBuffer(s) ==
  LET ls    == s.listeners
      freed == [s EXCEPT !.queue = Tail(@), !.listeners = <<>>, !.writing = FALSE]
  IN NotifyNth(NotifyNth(NotifyNth(freed, ls, 1), ls, 2), ls, 3)

-----------------------------------------------------------------------------
(* Actions *)

Init ==
  /\ flash = BlankFlash
  /\ ram = Recover(BlankFlash)
  /\ spent = <<>>

AllocateUnlocked ==   \* Mutant: the IV index may change before the number is taken
  LET given == SeqnumAlloc(ram) IN
  /\ ram.seqnum < ram.seqnum_max
  /\ ram' = given
  /\ spent' = Append(spent, <<TxIv(ram), given.seqnum - 1>>)
  /\ UNCHANGED flash

\* allocate_packet (network.c): the IV index is locked around the allocation,
\* and the IV index of the packet is read before the number.
AllocatePacket ==
  LET locked == IvIndexLock(ram)
      given  == SeqnumAlloc(locked)
  IN /\ IF locked.seqnum < locked.seqnum_max
        THEN /\ ram' = IvIndexUnlock(given)
             /\ spent' = Append(spent, <<TxIv(locked), given.seqnum - 1>>)
        ELSE /\ ram' = IvIndexUnlock(SeqnumBlockAllocate(locked))
             /\ UNCHANGED spent
     /\ UNCHANGED flash

\* A transport SAR session takes the lock when it starts and drops it at its end.
LockIvIndex ==
  /\ ram' = IvIndexLock(ram)
  /\ UNCHANGED <<flash, spent>>

UnlockIvIndex ==
  /\ ram.lock_count > 0
  /\ ram' = IvIndexUnlock(ram)
  /\ UNCHANGED <<flash, spent>>

\* net_state_iv_update_start called by the application.
StartIvUpdate ==
  /\ CanStart(ram)
  /\ ram' = IvUpdateStart(ram)
  /\ UNCHANGED <<flash, spent>>

SetTestMode(on) ==
  /\ ram' = [ram EXCEPT !.test_mode = on]
  /\ UNCHANGED <<flash, spent>>

BeaconReceived(iv_index, iv_update) ==
  /\ ram' = Beacon(ram, iv_index, iv_update)
  /\ UNCHANGED <<flash, spent>>

\* One minute passes.
Minute ==
  /\ ram' = TimerHandler(ram)
  /\ UNCHANGED <<flash, spent>>

\* The node is taken out of its network: dsm_clear has just deleted the keys, so
\* the pairs spent under them no longer matter.
Reset ==
  /\ ram' = NetStateReset(ram)
  /\ spent' = <<>>
  /\ UNCHANGED flash

\* Another user of the flash manager queues an action.
OtherFlashUser ==
  /\ Room(ram, "other")
  /\ ram' = Enqueue(ram, OpAction("other"))
  /\ UNCHANGED <<flash, spent>>

\* The action at the head of the queue reaches the flash ...
FlashWrite ==
  /\ ram.queue # <<>> /\ ~ram.writing
  /\ flash' = Written(flash, Head(ram.queue))
  /\ ram' = [ram EXCEPT !.writing = TRUE]
  /\ UNCHANGED spent

\* ... and its completion is reported (end_action).
FlashDone ==
  /\ ram.queue # <<>> /\ ram.writing
  /\ ram' = FreePacketBuffer(WriteComplete(ram, Head(ram.queue)))
  /\ UNCHANGED <<flash, spent>>

\* The write is reported as a flash malfunction: nothing is undone.
FlashFail ==
  /\ ram.queue # <<>> /\ ~ram.writing
  /\ ram' = FreePacketBuffer(ram)
  /\ UNCHANGED <<flash, spent>>

\* Power failure, at any point, and the boot that follows.
PowerCycle ==
  /\ ram' = Recover(flash)
  /\ UNCHANGED <<flash, spent>>

\* Everything that happens while the node stays up and in its network.
Operate ==
  \/ AllocatePacket
  \/ LockIvIndex \/ UnlockIvIndex
  \/ StartIvUpdate
  \/ \E on \in BOOLEAN : SetTestMode(on)
  \/ \E i \in BeaconIvIndexes, u \in BOOLEAN : BeaconReceived(i, u)
  \/ Minute
  \/ OtherFlashUser
  \/ FlashWrite \/ FlashDone

Next == Operate \/ FlashFail \/ Reset \/ PowerCycle

Spec == Init /\ [][Next]_vars

\* One power cycle in one network, whatever the flash does.
PoweredNext == Operate \/ FlashFail

PoweredSpec == Init /\ [][PoweredNext]_vars

\* What the comment at net_state.c:377-381 counts on: when the numbers start
\* over, the new IV index and then the first block are the last actions of the
\* queue, and no block of the previous IV index is still on its way.
RestartsInOrder(s) ==
  LET n == Len(s.queue) IN
  /\ n >= 2
  /\ s.queue[n - 1] = IvAction(s)
  /\ s.queue[n] = SeqnumAction(BLOCK_SIZE)
  /\ \A i \in 1..(n - 2) : s.queue[i].op # "seqnum"

\* Power cycles at any point, when every restart of the numbers is in order.
OrderedNext ==
  \/ Operate /\ (TxIv(ram') > TxIv(ram) => RestartsInOrder(ram'))
  \/ PowerCycle

OrderedSpec == Init /\ [][OrderedNext]_vars

-----------------------------------------------------------------------------
(* Properties *)

\* Every state is a state of the C structures: the counters are natural
\* numbers, the queue holds actions and the listeners are this module's.
TypeOK ==
  /\ ram \in Ram
  /\ flash \in Flash
  /\ spent \in Seq(Nat \X Nat)

\* Pair p was spent before the next number of s: on a lower transmit IV index,
\* or on the same one with a lower number.
Before(p, s) == p[1] < TxIv(s) \/ (p[1] = TxIv(s) /\ p[2] < s.seqnum)

\* A number that net_state_seqnum_alloc may hand out next has not been sent on
\* its IV index before (net_state.h:87-89: re-using a sequence number without
\* increasing the IV index would be a security issue).
NextNonceFresh == \A i \in DOMAIN spent : Before(spent[i], ram)

\* Within a power cycle the module is a source of ever later pairs.
Nonces == INSTANCE NonceSource WITH given <- spent

NoncesLater == Nonces!Spec

\* If the power failed now, the number the node would resume at is one it has
\* never sent: what is in flash covers everything handed out so far
\* (net_state_recover_from_flash).
ResumesFresh == \A i \in DOMAIN spent : Before(spent[i], Recover(flash))

\* The pair that the node would resume at is not one that it has sent: re-using
\* a number on its IV index is what net_state.h:87-89 rules out.  A restart of
\* the numbers out of order (OrderedNext) breaks it.
ResumesUnsent == <<TxIv(Recover(flash)), Recover(flash).seqnum>> \notin ToSet(spent)

\* While a lock is held the IV index and the update state stay as they are,
\* whatever beacon, timer tick, threshold or call arrives (net_state.h:121-122).
LockHolds ==
  [][ram.lock_count > 0 /\ ram'.lock_count > 0
       => ram'.iv = ram.iv /\ ram'.state = ram.state]_vars

\* The IV index never goes back, and after an update or a recovery the node
\* never transmits on an index it has already left.
IvIndexMonotonic ==
  [][ram'.iv >= ram.iv /\ TxIv(ram') >= TxIv(ram)]_vars

UpdateOver == ram.state = "normal"

\* An IV update does not stay in progress for ever: the timer brings it to its
\* end, when no transport session holds it (net_state.c:195-202).
UpdatesEnd == []<>UpdateOver

Supplied ==
  ram.seqnum < ram.seqnum_max \/ ram.seqnum_max + BLOCK_SIZE > SEQNUM_MAX + 1

\* A node that has used up its block gets another one, whether it was queued at
\* once or put off until the queue has room, as long as the IV index has one.
BlocksArrive == []<>Supplied
=============================================================================
