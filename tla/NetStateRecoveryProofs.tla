----------------------- MODULE NetStateRecoveryProofs -----------------------
(***************************************************************************)
(* What the flash promises the network state: when every restart of the    *)
(* sequence numbers reaches the flash in the order that net_state.c counts *)
(* on, a node that loses its power at any point resumes at a pair of IV    *)
(* index and sequence number that it has never sent.                       *)
(*                                                                         *)
(* The argument follows one restart of the numbers through the action      *)
(* queue.  Until its IV index is written the flash still covers what was   *)
(* sent on the index before (Restarting); until its first block is written *)
(* nothing has been sent on the new index (Begun); from then on the block  *)
(* in flash is never below the one in RAM (Running).                       *)
(***************************************************************************)
EXTENDS NetStateProofs, FiniteSetTheorems

USE NetStateAssumption DEF NetStateAssumption

-----------------------------------------------------------------------------
(* The invariant *)

\* Recovery would start the numbers over (net_state.c:411-430).
Stale(f) == f.seqnum_first /\ f.state = "normal"

Complete(f) == f.has_iv /\ f.has_seqnum

\* The actions of the queue whose write is still to come.
Waiting(s) == {i \in DOMAIN s.queue : ~(i = 1 /\ s.writing)}

OnlyOwnOps(s) ==
  \A i \in DOMAIN s.queue : s.queue[i].op \in {"seqnum", "iv_index", "other"}

\* One block is on its way at a time, and the allocation flag says so.
OneBlock(s) ==
  /\ \A i \in DOMAIN s.queue : s.queue[i].op = "seqnum" => s.allocating
  /\ \A i, j \in DOMAIN s.queue :
       s.queue[i].op = "seqnum" /\ s.queue[j].op = "seqnum" => i = j

NotAhead(s) ==
  \A i \in DOMAIN s.queue : s.queue[i].op = "iv_index" => TxIv(s.queue[i]) <= TxIv(s)

StoreWaits(s) ==
  \E i \in DOMAIN s.listeners : s.listeners[i] = "flash_store_iv_index"

\* Only the start of an update is ever put off until the queue has room.
PutOff(s) == StoreWaits(s) => s.state = "in_progress" /\ ~Room(s, "iv_index")

Own(s) ==
  /\ OnlyOwnOps(s) /\ OneBlock(s) /\ NotAhead(s) /\ PutOff(s) /\ NoReset(s)
  /\ s.seqnum <= s.seqnum_max
  /\ s.writing => s.queue # <<>>

\* An action queued after the last restart of the numbers.
Later(a, s) ==
  /\ a.op = "iv_index" => a.state = "in_progress" /\ TxIv(a) = TxIv(s)
  /\ a.op = "seqnum" => a.seqnum >= s.seqnum_max

Running(s, f) ==
  /\ Complete(f) /\ ~Stale(f) /\ TxIv(f) = TxIv(s)
  /\ f.seqnum >= s.seqnum_max
  /\ \A i \in Waiting(s) : Later(s.queue[i], s)
  /\ s.writing /\ Head(s.queue).op = "seqnum" => f.seqnum = Head(s.queue).seqnum

\* The restart's IV index is in flash, its block is action k.
Begun(s, f, k) ==
  /\ f.has_iv /\ f.state = "normal" /\ f.seqnum_first /\ f.iv = TxIv(s)
  /\ s.seqnum_max = 0
  /\ k \in Waiting(s) /\ s.queue[k].op = "seqnum"
  /\ \A i \in Waiting(s) :
       /\ i < k => s.queue[i].op = "other"
       /\ i >= k => Later(s.queue[i], s)

\* The restart's IV index is action k, its block the one behind it.
Restarting(s, f, k) ==
  /\ Complete(f) => ~Stale(f)
  /\ s.seqnum_max = 0
  /\ k \in Waiting(s) /\ k + 1 \in DOMAIN s.queue
  /\ s.queue[k].op = "iv_index" /\ s.queue[k].state = "normal" /\ s.queue[k].iv = TxIv(s)
  /\ s.queue[k + 1].op = "seqnum"
  /\ \A i \in Waiting(s) :
       /\ i < k /\ s.queue[i].op = "iv_index" =>
            s.queue[i].state = "in_progress" /\ Complete(f) /\ TxIv(s.queue[i]) = TxIv(f)
       /\ i > k => Later(s.queue[i], s)

Phase(s, f) ==
  Running(s, f) \/ \E k \in DOMAIN s.queue : Begun(s, f, k) \/ Restarting(s, f, k)

\* The inductive invariant of the ordered specification.
RInv == IInv /\ NextNonceFresh /\ ResumesFresh /\ Own(ram) /\ Phase(ram, flash)

-----------------------------------------------------------------------------
(* The words of the queue *)

\* The words in use are a number, at most seven an action.
LEMMA UsedBounds ==
  ASSUME NEW q \in Seq(Action)
  PROVE  Used(q) \in Nat /\ Used(q) <= 7 * Len(q)
<1> DEFINE Least(n) == {i \in DOMAIN q : DataWords(q[i].op) >= n}
<1>1. Len(q) \in Nat /\ Len(q) \in Int /\ 1 \in Int /\ DOMAIN q = 1..Len(q)
  OBVIOUS
<1>2. IsFiniteSet(1..Len(q)) /\ Cardinality(1..Len(q)) = Len(q)
  <2>1. IsFiniteSet(1..Len(q))
          /\ Cardinality(1..Len(q)) = IF 1 > Len(q) THEN 0 ELSE Len(q) - 1 + 1
    BY <1>1, FS_Interval, Zenon
  <2> QED
    BY <1>1, <2>1
<1>3. ASSUME NEW n \in Nat
      PROVE  Cardinality(Least(n)) \in Nat /\ Cardinality(Least(n)) <= Len(q)
  <2>1. Least(n) \subseteq 1..Len(q)
    BY <1>1
  <2> QED
    BY <1>2, <2>1, FS_Subset, FS_CardinalityType
<1>4. /\ Cardinality(Least(1)) \in Nat /\ Cardinality(Least(1)) <= Len(q)
      /\ Cardinality(Least(2)) \in Nat /\ Cardinality(Least(2)) <= Len(q)
  BY <1>3
<1>5. Used(q) = 5 * Len(q) + Cardinality(Least(1)) + Cardinality(Least(2))
  BY DEF Used, HEADER_WORDS
<1> HIDE DEF Least
<1> QED
  BY <1>1, <1>4, <1>5

\* A further action leaves no more room than there was.
LEMMA RoomShrinks ==
  ASSUME NEW s \in Ram, NEW a \in Action, NEW op \in Ops, Room(Enqueue(s, a), op)
  PROVE  Room(s, op)
<1> DEFINE q == s.queue
           r == Append(q, a)
           Least(p, n) == {i \in DOMAIN p : DataWords(p[i].op) >= n}
<1>1. q \in Seq(Action) /\ r \in Seq(Action) /\ Len(q) \in Nat /\ Len(r) = Len(q) + 1
        /\ DOMAIN q = 1..Len(q) /\ DOMAIN r = 1..(Len(q) + 1)
        /\ \A i \in DOMAIN q : r[i] = q[i]
  BY DEF Ram
<1>2. Enqueue(s, a).queue = r
  BY DEF Enqueue, Ram
<1> HIDE DEF q, r
<1>3. ASSUME NEW n \in Nat
      PROVE  /\ Cardinality(Least(q, n)) \in Nat /\ Cardinality(Least(r, n)) \in Nat
             /\ Cardinality(Least(q, n)) <= Cardinality(Least(r, n))
  <2>1. Least(q, n) \subseteq Least(r, n) /\ Least(r, n) \subseteq 1..(Len(q) + 1)
    BY <1>1
  <2>2. IsFiniteSet(1..(Len(q) + 1))
    BY <1>1, FS_Interval
  <2> QED
    BY <2>1, <2>2, FS_Subset, FS_CardinalityType
<1>4. /\ Used(q) = 5 * Len(q) + Cardinality(Least(q, 1)) + Cardinality(Least(q, 2))
      /\ Used(r) = 5 * Len(r) + Cardinality(Least(r, 1)) + Cardinality(Least(r, 2))
  BY DEF Used, HEADER_WORDS
<1>5. /\ Cardinality(Least(q, 1)) \in Nat /\ Cardinality(Least(r, 1)) \in Nat
      /\ Cardinality(Least(q, 1)) <= Cardinality(Least(r, 1))
      /\ Cardinality(Least(q, 2)) \in Nat /\ Cardinality(Least(r, 2)) \in Nat
      /\ Cardinality(Least(q, 2)) <= Cardinality(Least(r, 2))
  BY <1>3
<1> HIDE DEF Least
<1>6. Used(q) \in Nat /\ Used(r) \in Nat /\ Used(q) <= Used(r)
  BY <1>1, <1>4, <1>5
<1>7. DataWords(op) \in Nat
  BY DEF DataWords, Ops
<1> QED
  BY <1>2, <1>6, <1>7 DEF Room, HEADER_WORDS, q

\* A queue of at most one action has room for either entry, in a pool of
\* fourteen words.
LEMMA RoomEnough ==
  ASSUME NEW s \in Ram, Len(s.queue) <= 1, POOL_SIZE >= 14
  PROVE  Room(s, "iv_index") /\ Room(s, "seqnum")
<1>1. s.queue \in Seq(Action) /\ Len(s.queue) \in Nat
  BY DEF Ram
<1>2. Used(s.queue) \in Nat /\ Used(s.queue) <= 7
  BY <1>1, UsedBounds
<1>3. DataWords("iv_index") = 2 /\ DataWords("seqnum") = 1
  BY DEF DataWords
<1> QED
  BY <1>2, <1>3 DEF Room, HEADER_WORDS

-----------------------------------------------------------------------------
(* How the queue grows *)

\* The two states differ in nothing that the recovery depends on.
Alike(s, t) ==
  /\ t.iv = s.iv /\ t.state = s.state
  /\ t.seqnum = s.seqnum /\ t.seqnum_max = s.seqnum_max
  /\ t.allocating = s.allocating /\ t.writing = s.writing
  /\ t.queue = s.queue /\ t.listeners = s.listeners

Extends(s, t) ==
  /\ Len(t.queue) >= Len(s.queue)
  /\ \A i \in DOMAIN s.queue : t.queue[i] = s.queue[i]

\* A step within one transmit IV index: new actions belong to it.
Grows(s, t) ==
  /\ TxIv(t) = TxIv(s) /\ t.seqnum_max = s.seqnum_max /\ t.writing = s.writing
  /\ Extends(s, t)
  /\ \A i \in DOMAIN t.queue : i > Len(s.queue) => Later(t.queue[i], t)

\* A step to a higher transmit IV index, and what it does when it is in order.
InOrder(s, t) ==
  /\ Own(t) /\ t.state = "normal" /\ t.seqnum_max = 0 /\ t.writing = s.writing
  /\ Extends(s, t) /\ Len(t.queue) >= Len(s.queue) + 2
  /\ \A i \in DOMAIN t.queue :
       i > Len(s.queue) /\ i <= Len(t.queue) - 2 => Later(t.queue[i], s)

Restarts(s, t) ==
  /\ TxIv(t) > TxIv(s)
  /\ RestartsInOrder(t) => InOrder(s, t)

Moves(s, t) == (Grows(s, t) /\ Own(t)) \/ Restarts(s, t)

\* The transmit IV index of a state, an action or an entry is an integer.
LEMMA TxIvInt ==
  /\ \A s \in Ram : TxIv(s) \in Int
  /\ \A a \in Action : TxIv(a) \in Int
  /\ \A f \in Flash : TxIv(f) \in Int
BY DEF TxIv, Ram, Action, Flash

\* The queue is a sequence of actions, numbered from 1.
LEMMA QueueType ==
  ASSUME NEW s \in Ram
  PROVE  /\ s.queue \in Seq(Action)
         /\ Len(s.queue) \in Nat /\ DOMAIN s.queue = 1..Len(s.queue)
         /\ \A i \in DOMAIN s.queue : s.queue[i] \in Action
<1>1. s.queue \in Seq(Action)
  BY DEF Ram
<1> QED
  BY <1>1

\* What the invariant says of one state it says of every state like it.
LEMMA AlikeOwn ==
  ASSUME NEW s \in Ram, NEW t \in Ram, Alike(s, t), Own(s)
  PROVE  Own(t)
<1>1. TxIv(t) = TxIv(s)
  BY DEF Alike, TxIv
<1>2. OnlyOwnOps(t) /\ OneBlock(t) /\ NotAhead(t) /\ NoReset(t)
  BY <1>1 DEF Alike, Own, OnlyOwnOps, OneBlock, NotAhead, NoReset
<1>3. PutOff(t)
  BY DEF Alike, Own, PutOff, StoreWaits, Room
<1> QED
  BY <1>2, <1>3 DEF Alike, Own

\* A state that grows into another one grows into every state like it, and so
\* does every state like it; the same goes for a restart.
LEMMA AlikeMoves ==
  ASSUME NEW r \in Ram, NEW s \in Ram, NEW t \in Ram, NEW u \in Ram,
         Alike(r, s), Moves(s, t), Alike(t, u)
  PROVE  Moves(r, u)
<1>1. TxIv(r) = TxIv(s) /\ TxIv(t) = TxIv(u)
  BY DEF Alike, TxIv
<1>2. CASE Grows(s, t) /\ Own(t)
  <2>1. Own(u)
    BY <1>2, AlikeOwn
  <2>2. Grows(r, u)
    BY <1>1, <1>2 DEF Alike, Grows, Extends, Later
  <2> QED
    BY <2>1, <2>2 DEF Moves
<1>3. CASE Restarts(s, t)
  <2>1. TxIv(u) > TxIv(r)
    BY <1>1, <1>3 DEF Restarts
  <2>2. ASSUME RestartsInOrder(u)
        PROVE  InOrder(r, u)
    <3>1. RestartsInOrder(t)
      BY <2>2 DEF Alike, RestartsInOrder, IvAction
    <3>2. InOrder(s, t)
      BY <1>3, <3>1 DEF Restarts
    <3>3. Own(u)
      BY <3>2, AlikeOwn DEF InOrder
    <3> QED
      BY <1>1, <3>2, <3>3 DEF Alike, InOrder, Extends, Later
  <2> QED
    BY <2>1, <2>2 DEF Restarts, Moves
<1> QED
  BY <1>2, <1>3 DEF Moves

\* Every state moves to itself.
LEMMA StandsStill ==
  ASSUME NEW s \in Ram, Own(s)
  PROVE  Moves(s, s)
BY QueueType DEF Moves, Grows, Extends

\* Two growths make one.
LEMMA GrowsTransitive ==
  ASSUME NEW r \in Ram, NEW s \in Ram, NEW t \in Ram, Grows(r, s), Grows(s, t)
  PROVE  Grows(r, t)
<1>1. /\ Len(r.queue) \in Nat /\ DOMAIN r.queue = 1..Len(r.queue)
      /\ Len(s.queue) \in Nat /\ DOMAIN s.queue = 1..Len(s.queue)
      /\ Len(t.queue) \in Nat /\ DOMAIN t.queue = 1..Len(t.queue)
  BY QueueType
<1>2. Extends(r, t)
  BY <1>1 DEF Grows, Extends
<1>3. ASSUME NEW i \in DOMAIN t.queue, i > Len(r.queue)
      PROVE  Later(t.queue[i], t)
  <2>1. CASE i > Len(s.queue)
    BY <2>1 DEF Grows
  <2>2. CASE i <= Len(s.queue)
    <3>1. i \in DOMAIN s.queue /\ t.queue[i] = s.queue[i]
      BY <1>1, <1>3, <2>2 DEF Grows, Extends
    <3>2. Later(s.queue[i], s)
      BY <1>3, <3>1 DEF Grows
    <3> QED
      BY <3>1, <3>2 DEF Grows, Later
  <2> QED
    BY <1>1, <1>3, <2>1, <2>2
<1> QED
  BY <1>2, <1>3 DEF Grows

\* A growth goes on from where another one ended.
LEMMA GrowsMoves ==
  ASSUME NEW r \in Ram, NEW s \in Ram, NEW t \in Ram, Grows(r, s), Moves(s, t)
  PROVE  Moves(r, t)
<1>1. /\ Len(r.queue) \in Nat /\ DOMAIN r.queue = 1..Len(r.queue)
      /\ Len(s.queue) \in Nat /\ DOMAIN s.queue = 1..Len(s.queue)
      /\ Len(t.queue) \in Nat /\ DOMAIN t.queue = 1..Len(t.queue)
  BY QueueType
<1>2. CASE Grows(s, t) /\ Own(t)
  BY <1>2, GrowsTransitive DEF Moves
<1>3. CASE Restarts(s, t)
  <2>1. TxIv(t) > TxIv(r)
    BY <1>3 DEF Grows, Restarts
  <2>2. ASSUME RestartsInOrder(t)
        PROVE  InOrder(r, t)
    <3>1. InOrder(s, t)
      BY <1>3, <2>2 DEF Restarts
    <3>2. Extends(r, t) /\ Len(t.queue) >= Len(r.queue) + 2 /\ t.writing = r.writing
      BY <1>1, <3>1 DEF Grows, InOrder, Extends
    <3>3. ASSUME NEW i \in DOMAIN t.queue, i > Len(r.queue), i <= Len(t.queue) - 2
          PROVE  Later(t.queue[i], r)
      <4>1. CASE i > Len(s.queue)
        <5>1. Later(t.queue[i], s)
          BY <3>1, <3>3, <4>1 DEF InOrder
        <5> QED
          BY <5>1 DEF Grows, Later
      <4>2. CASE i <= Len(s.queue)
        <5>1. i \in DOMAIN s.queue /\ t.queue[i] = s.queue[i]
          BY <1>1, <3>1, <3>3, <4>2 DEF InOrder, Extends
        <5>2. Later(s.queue[i], s)
          BY <3>3, <5>1 DEF Grows
        <5> QED
          BY <5>1, <5>2 DEF Grows, Later
      <4> QED
        BY <1>1, <3>3, <4>1, <4>2
    <3> QED
      BY <3>1, <3>2, <3>3 DEF InOrder
  <2> QED
    BY <2>1, <2>2 DEF Restarts, Moves
<1> QED
  BY <1>2, <1>3 DEF Moves

\* Queueing an action of the current transmit IV index, or one that is not
\* this module's, makes the queue grow.
LEMMA EnqueueGrows ==
  ASSUME NEW s \in Ram, NEW a \in Action, Own(s), Later(a, s),
         a.op \in {"iv_index", "other"}
  PROVE  Grows(s, Enqueue(s, a)) /\ Own(Enqueue(s, a))
<1> DEFINE t == Enqueue(s, a)
<1>1. t \in Ram
  BY EnqueueType
<1>2. /\ t.iv = s.iv /\ t.state = s.state /\ t.seqnum = s.seqnum
      /\ t.seqnum_max = s.seqnum_max /\ t.allocating = s.allocating
      /\ t.writing = s.writing /\ t.listeners = s.listeners
      /\ t.queue = Append(s.queue, a)
  BY DEF Enqueue, Ram
<1>3. /\ Len(t.queue) = Len(s.queue) + 1 /\ DOMAIN t.queue = 1..(Len(s.queue) + 1)
      /\ \A i \in DOMAIN s.queue : t.queue[i] = s.queue[i]
      /\ t.queue[Len(s.queue) + 1] = a
      /\ t.queue # <<>>
  BY <1>2, QueueType
<1>4. TxIv(t) = TxIv(s) /\ TxIv(s) \in Int /\ TxIv(a) \in Int
  BY <1>2, TxIvInt DEF TxIv
<1>5. Len(s.queue) \in Nat /\ DOMAIN s.queue = 1..Len(s.queue)
  BY QueueType
<1> HIDE DEF t
<1>6. Grows(s, t)
  BY <1>2, <1>3, <1>4, <1>5 DEF Grows, Extends, Later
<1>7. ASSUME NEW i \in DOMAIN t.queue
      PROVE  /\ t.queue[i].op \in {"seqnum", "iv_index", "other"}
             /\ t.queue[i].op = "iv_index" => TxIv(t.queue[i]) <= TxIv(t)
  <2>1. CASE i \in DOMAIN s.queue
    BY <1>3, <1>4, <2>1 DEF OnlyOwnOps, NotAhead, Own
  <2>2. CASE i = Len(s.queue) + 1
    <3>1. t.queue[i] = a /\ (a.op = "iv_index" => TxIv(a) = TxIv(t))
      BY <1>3, <1>4, <2>2 DEF Later
    <3>2. TxIv(t) <= TxIv(t)
      BY <1>4
    <3> QED
      BY <3>1, <3>2
  <2> QED
    BY <1>3, <1>5, <1>7, <2>1, <2>2
<1>8. OneBlock(t)
  BY <1>2, <1>3, <1>5 DEF OneBlock, Own
<1>9. PutOff(t)
  <2>1. SUFFICES ASSUME StoreWaits(t)
                 PROVE  t.state = "in_progress" /\ ~Room(t, "iv_index")
    BY DEF PutOff
  <2>2. s.state = "in_progress" /\ ~Room(s, "iv_index")
    BY <1>2, <2>1 DEF StoreWaits, PutOff, Own
  <2> QED
    BY <1>2, <2>2, RoomShrinks DEF t, Ops
<1>10. NoReset(t) /\ t.seqnum <= t.seqnum_max
  BY <1>2 DEF NoReset, Own
<1> QED
  BY <1>3, <1>6, <1>7, <1>8, <1>9, <1>10 DEF Own, OnlyOwnOps, NotAhead, t

\* A listener other than the store of the IV index may be registered at any time.
LEMMA RegisterGrows ==
  ASSUME NEW s \in Ram, Own(s)
  PROVE  LET t == Register(s, "seqnum_block_allocate") IN Grows(s, t) /\ Own(t)
<1> DEFINE l == "seqnum_block_allocate"
           t == [s EXCEPT !.listeners = Append(@, l)]
<1>1. /\ t.iv = s.iv /\ t.state = s.state /\ t.seqnum = s.seqnum
      /\ t.seqnum_max = s.seqnum_max /\ t.allocating = s.allocating
      /\ t.writing = s.writing /\ t.queue = s.queue
      /\ t.listeners = Append(s.listeners, l)
  BY DEF Ram
<1>2. s.listeners \in Seq(Listeners)
  BY DEF Ram
<1>3. \A i \in DOMAIN Append(s.listeners, l) :
        \/ Append(s.listeners, l)[i] = l
        \/ i \in DOMAIN s.listeners /\ Append(s.listeners, l)[i] = s.listeners[i]
  BY <1>2
<1>4. Len(s.queue) \in Nat /\ DOMAIN s.queue = 1..Len(s.queue)
  BY QueueType
<1>5. TxIv(t) = TxIv(s)
  BY <1>1 DEF TxIv
<1> HIDE DEF t
<1>6. Grows(s, t)
  BY <1>1, <1>4, <1>5 DEF Grows, Extends
<1>7. NoReset(t) /\ PutOff(t)
  BY <1>1, <1>3 DEF Own, NoReset, PutOff, StoreWaits, Room
<1>8. Own(t)
  BY <1>1, <1>5, <1>7 DEF Own, OnlyOwnOps, OneBlock, NotAhead
<1>9. Grows(s, s)
  BY <1>4 DEF Grows, Extends
<1> QED
  BY <1>6, <1>8, <1>9 DEF Register, t

\* seqnum_block_allocate queues at most one block, of the numbers that follow.
LEMMA SeqnumBlockAllocateGrows ==
  ASSUME NEW s \in Ram, Own(s)
  PROVE  Grows(s, SeqnumBlockAllocate(s)) /\ Own(SeqnumBlockAllocate(s))
<1> DEFINE a == SeqnumAction(s.seqnum_max + BLOCK_SIZE)
           e == Enqueue(s, a)
           t == [e EXCEPT !.allocating = TRUE]
<1>1. s.seqnum_max \in Nat /\ s.seqnum_max + BLOCK_SIZE \in Nat
  BY DEF Ram
<1>2. a \in Action /\ a.op = "seqnum" /\ a.seqnum = s.seqnum_max + BLOCK_SIZE
  BY <1>1, ActionTypes DEF SeqnumAction, OpAction
<1>3. Len(s.queue) \in Nat /\ DOMAIN s.queue = 1..Len(s.queue)
  BY QueueType
<1>4. ASSUME ~s.allocating
      PROVE  Grows(s, t) /\ Own(t)
  <2> HIDE DEF a
  <2>1. e \in Ram
    BY <1>2, EnqueueType
  <2>2. /\ e.iv = s.iv /\ e.state = s.state /\ e.seqnum = s.seqnum
        /\ e.seqnum_max = s.seqnum_max /\ e.writing = s.writing
        /\ e.listeners = s.listeners /\ e.queue = Append(s.queue, a)
    BY DEF Enqueue, Ram
  <2>3. /\ t.iv = s.iv /\ t.state = s.state /\ t.seqnum = s.seqnum
        /\ t.seqnum_max = s.seqnum_max /\ t.allocating = TRUE
        /\ t.writing = s.writing /\ t.listeners = s.listeners
        /\ t.queue = Append(s.queue, a)
    BY <2>1, <2>2 DEF Ram
  <2>4. Room(e, "iv_index") => Room(s, "iv_index")
    BY <1>2, RoomShrinks DEF Ops
  <2> HIDE DEF t, e
  <2>5. /\ Len(t.queue) = Len(s.queue) + 1 /\ DOMAIN t.queue = 1..(Len(s.queue) + 1)
        /\ \A i \in DOMAIN s.queue : t.queue[i] = s.queue[i]
        /\ t.queue[Len(s.queue) + 1] = a
        /\ t.queue # <<>>
    BY <1>2, <2>3, QueueType
  <2>6. TxIv(t) = TxIv(s)
    BY <2>3 DEF TxIv
  <2>7. Room(t, "iv_index") => Room(s, "iv_index")
    BY <2>2, <2>3, <2>4 DEF Room
  <2>8. Grows(s, t)
    BY <1>1, <1>2, <1>3, <2>3, <2>5, <2>6 DEF Grows, Extends, Later
  <2>9. ASSUME NEW i \in DOMAIN t.queue
        PROVE  /\ t.queue[i].op \in {"seqnum", "iv_index", "other"}
               /\ t.queue[i].op = "iv_index" => TxIv(t.queue[i]) <= TxIv(t)
    <3>1. CASE i \in DOMAIN s.queue
      <4>1. t.queue[i] = s.queue[i] /\ OnlyOwnOps(s) /\ NotAhead(s)
        BY <2>5, <3>1 DEF Own
      <4> QED
        BY <2>6, <3>1, <4>1 DEF OnlyOwnOps, NotAhead
    <3>2. CASE i = Len(s.queue) + 1
      BY <1>2, <2>5, <3>2
    <3> QED
      BY <1>3, <2>5, <2>9, <3>1, <3>2
  <2>10. \A i \in DOMAIN s.queue : s.queue[i].op # "seqnum"
    BY <1>4 DEF Own, OneBlock
  <2>11. OneBlock(t)
    BY <1>3, <2>3, <2>5, <2>10 DEF OneBlock
  <2>12. OnlyOwnOps(t) /\ NotAhead(t)
    BY <2>9 DEF OnlyOwnOps, NotAhead
  <2>13. PutOff(t) /\ NoReset(t)
    BY <2>3, <2>7 DEF Own, PutOff, StoreWaits, NoReset
  <2> QED
    BY <2>3, <2>5, <2>8, <2>11, <2>13, <2>12 DEF Own
<1>5. LET r == Register(s, "seqnum_block_allocate") IN Grows(s, r) /\ Own(r)
  BY RegisterGrows
<1>6. Grows(s, s)
  BY <1>3 DEF Grows, Extends
<1> QED
  BY <1>4, <1>5, <1>6 DEF SeqnumBlockAllocate

\* While an update is in progress its IV index is stored, or the store is put
\* off, without anything of the current transmit IV index being undone.
LEMMA FlashStoreIvIndexGrows ==
  ASSUME NEW s \in Ram, Own(s), s.state = "in_progress"
  PROVE  Grows(s, FlashStoreIvIndex(s)) /\ Own(FlashStoreIvIndex(s))
<1> DEFINE a == IvAction(s)
           l == "flash_store_iv_index"
           t == [s EXCEPT !.listeners = Append(@, l)]
<1>1. /\ a \in Action /\ a.op = "iv_index" /\ a.state = "in_progress"
      /\ TxIv(a) = TxIv(s)
  BY ActionTypes DEF IvAction, OpAction, TxIv
<1>2. Grows(s, Enqueue(s, a)) /\ Own(Enqueue(s, a))
  BY <1>1, EnqueueGrows DEF Later
<1> HIDE DEF a
<1>3. ASSUME ~Room(s, "iv_index")
      PROVE  Grows(s, t) /\ Own(t) /\ Grows(s, s)
  <2>1. /\ t.iv = s.iv /\ t.state = s.state /\ t.seqnum = s.seqnum
        /\ t.seqnum_max = s.seqnum_max /\ t.allocating = s.allocating
        /\ t.writing = s.writing /\ t.queue = s.queue
        /\ t.listeners = Append(s.listeners, l)
    BY DEF Ram
  <2>2. s.listeners \in Seq(Listeners)
    BY DEF Ram
  <2>3. \A i \in DOMAIN Append(s.listeners, l) :
          \/ Append(s.listeners, l)[i] = l
          \/ i \in DOMAIN s.listeners /\ Append(s.listeners, l)[i] = s.listeners[i]
    BY <2>2
  <2>4. Len(s.queue) \in Nat /\ DOMAIN s.queue = 1..Len(s.queue)
    BY QueueType
  <2>5. TxIv(t) = TxIv(s)
    BY <2>1 DEF TxIv
  <2> HIDE DEF t
  <2>6. Grows(s, t) /\ Grows(s, s)
    BY <2>1, <2>4, <2>5 DEF Grows, Extends
  <2>7. NoReset(t)
    BY <2>1, <2>3 DEF Own, NoReset
  <2>8. PutOff(t)
    BY <1>3, <2>1 DEF PutOff, Room
  <2> QED
    BY <2>1, <2>5, <2>6, <2>7, <2>8 DEF Own, OnlyOwnOps, OneBlock, NotAhead
<1> QED
  BY <1>2, <1>3 DEF FlashStoreIvIndex, Register, a, t

\* What the actions that net_state.c queues are made of.
LEMMA ActionFields ==
  /\ \A s \in Ram : /\ IvAction(s) \in Action /\ IvAction(s).op = "iv_index"
                     /\ IvAction(s).iv = s.iv /\ IvAction(s).state = s.state
  /\ \A n \in Nat : /\ SeqnumAction(n) \in Action /\ SeqnumAction(n).op = "seqnum"
                     /\ SeqnumAction(n).seqnum = n
BY ActionTypes DEF IvAction, SeqnumAction, OpAction

\* What flash_store_iv_index changes: the queue, or the listeners.
LEMMA FlashStoreIvIndexCases ==
  ASSUME NEW s \in Ram
  PROVE  LET t == FlashStoreIvIndex(s) IN
         /\ t.iv = s.iv /\ t.state = s.state /\ t.seqnum = s.seqnum
         /\ t.seqnum_max = s.seqnum_max /\ t.allocating = s.allocating
         /\ t.writing = s.writing
         /\ \/ /\ Room(s, "iv_index") /\ t.listeners = s.listeners
               /\ t.queue = Append(s.queue, IvAction(s))
            \/ t.queue = s.queue
BY DEF FlashStoreIvIndex, Enqueue, Register, Ram

\* What seqnum_block_allocate changes: the queue and the flag, or the listeners.
LEMMA SeqnumBlockAllocateCases ==
  ASSUME NEW s \in Ram
  PROVE  LET t == SeqnumBlockAllocate(s) IN
         /\ t.iv = s.iv /\ t.state = s.state /\ t.seqnum = s.seqnum
         /\ t.seqnum_max = s.seqnum_max /\ t.writing = s.writing
         /\ \/ /\ t.allocating /\ t.listeners = s.listeners
               /\ t.queue = Append(s.queue, SeqnumAction(s.seqnum_max + BLOCK_SIZE))
            \/ t.queue = s.queue
<1> DEFINE e == Enqueue(s, SeqnumAction(s.seqnum_max + BLOCK_SIZE))
           t == [e EXCEPT !.allocating = TRUE]
<1>1. s.seqnum_max + BLOCK_SIZE \in Nat
  BY DEF Ram
<1>2. e \in Ram
  BY <1>1, ActionTypes, EnqueueType
<1>3. /\ e.iv = s.iv /\ e.state = s.state /\ e.seqnum = s.seqnum
      /\ e.seqnum_max = s.seqnum_max /\ e.writing = s.writing
      /\ e.listeners = s.listeners
      /\ e.queue = Append(s.queue, SeqnumAction(s.seqnum_max + BLOCK_SIZE))
  BY DEF Enqueue, Ram
<1>4. /\ t.iv = e.iv /\ t.state = e.state /\ t.seqnum = e.seqnum
      /\ t.seqnum_max = e.seqnum_max /\ t.writing = e.writing
      /\ t.listeners = e.listeners /\ t.queue = e.queue /\ t.allocating = TRUE
  BY <1>2 DEF Ram
<1>5. LET r == Register(s, "seqnum_block_allocate") IN
      /\ r.iv = s.iv /\ r.state = s.state /\ r.seqnum = s.seqnum
      /\ r.seqnum_max = s.seqnum_max /\ r.writing = s.writing /\ r.queue = s.queue
  BY DEF Register, Ram
<1> QED
  BY <1>3, <1>4, <1>5 DEF SeqnumBlockAllocate

\* A restart of the numbers that is in order puts the new IV index and its first
\* block behind a queue without blocks, and finds no store put off.
LEMMA SeqnumRestartRestarts ==
  ASSUME NEW s \in Ram, NEW u \in Ram, Own(s),
         u.queue = s.queue, u.listeners = s.listeners,
         u.writing = s.writing, u.state = "normal", TxIv(u) > TxIv(s)
  PROVE  Restarts(s, SeqnumRestart(u))
<1> DEFINE z == [u EXCEPT !.seqnum = 0, !.seqnum_max = 0]
           v == FlashStoreIvIndex(z)
           t == SeqnumBlockAllocate(v)
           a == IvAction(z)
           b == SeqnumAction(v.seqnum_max + BLOCK_SIZE)
           q == s.queue
<1>1. z \in Ram
  BY DEF Ram, IvStates
<1>2. /\ z.iv = u.iv /\ z.state = "normal" /\ z.seqnum = 0 /\ z.seqnum_max = 0
      /\ z.writing = s.writing /\ z.queue = q /\ z.listeners = s.listeners
  BY DEF Ram
<1>3. v \in Ram
  BY <1>1, FlashStoreIvIndexType
<1>4. /\ v.iv = u.iv /\ v.state = "normal" /\ v.seqnum = 0 /\ v.seqnum_max = 0
      /\ v.writing = s.writing
      /\ \/ /\ Room(s, "iv_index") /\ v.listeners = s.listeners
            /\ v.queue = Append(q, a)
         \/ v.queue = q
  BY <1>1, <1>2, FlashStoreIvIndexCases DEF Room
<1>5. /\ t.iv = u.iv /\ t.state = "normal" /\ t.seqnum = 0 /\ t.seqnum_max = 0
      /\ t.writing = s.writing
      /\ \/ t.allocating /\ t.listeners = v.listeners /\ t.queue = Append(v.queue, b)
         \/ t.queue = v.queue
  BY <1>3, <1>4, SeqnumBlockAllocateCases
<1>6. /\ a \in Action /\ a.op = "iv_index" /\ a.iv = u.iv /\ a.state = "normal"
      /\ b \in Action /\ b.op = "seqnum" /\ b.seqnum = BLOCK_SIZE
  <2> HIDE DEF z, v
  <2>1. v.seqnum_max + BLOCK_SIZE = BLOCK_SIZE /\ BLOCK_SIZE \in Nat
    BY <1>4
  <2> QED
    BY <1>1, <1>2, <2>1, ActionFields
<1>7. TxIv(a) = u.iv /\ TxIv(t) = u.iv /\ TxIv(u) = u.iv
  BY <1>5, <1>6 DEF TxIv
<1>8. IvAction(t).op = "iv_index" /\ TxIv(IvAction(t)) = u.iv
  BY <1>5 DEF IvAction, OpAction, TxIv
<1>9. TxIv(s) \in Int /\ u.iv \in Int
  BY TxIvInt DEF Ram
<1>10. q \in Seq(Action) /\ Len(q) \in Nat /\ DOMAIN q = 1..Len(q)
  BY QueueType
<1>11. t = SeqnumRestart(u)
  BY DEF SeqnumRestart
<1> HIDE DEF z, v, t, a, b, q
<1>12. ASSUME NEW i \in DOMAIN q
       PROVE  q[i] # IvAction(t)
  <2>1. q[i].op = "iv_index" => TxIv(q[i]) <= TxIv(s)
    BY <1>12 DEF Own, NotAhead, q
  <2> QED
    BY <1>7, <1>8, <1>9, <2>1
<1>13. ASSUME RestartsInOrder(t)
       PROVE  /\ Room(s, "iv_index") /\ v.queue = Append(q, a)
              /\ v.listeners = s.listeners
              /\ t.allocating /\ t.listeners = v.listeners
              /\ t.queue = Append(Append(q, a), b)
  <2> DEFINE n == Len(t.queue)
  <2>1. n >= 2 /\ t.queue[n - 1] = IvAction(t) /\ t.queue[n] = SeqnumAction(BLOCK_SIZE)
    BY <1>13 DEF RestartsInOrder
  <2>2. SeqnumAction(BLOCK_SIZE).op = "seqnum"
    BY DEF SeqnumAction, OpAction
  <2>3. t.queue # q
    BY <1>10, <1>12, <2>1
  <2>4. t.queue # Append(q, b)
    <3>1. SUFFICES ASSUME t.queue = Append(q, b)
                   PROVE  FALSE
      OBVIOUS
    <3>2. n = Len(q) + 1 /\ \A i \in DOMAIN q : t.queue[i] = q[i]
      BY <1>6, <1>10, <3>1
    <3>3. n - 1 \in DOMAIN q
      BY <1>10, <2>1, <3>2
    <3> QED
      BY <1>12, <2>1, <3>2, <3>3
  <2>5. t.queue # Append(q, a)
    <3>1. SUFFICES ASSUME t.queue = Append(q, a)
                   PROVE  FALSE
      OBVIOUS
    <3>2. t.queue[n] = a
      BY <1>6, <1>10, <3>1
    <3> QED
      BY <1>6, <2>1, <2>2, <3>2
  <2> QED
    BY <1>4, <1>5, <2>3, <2>4, <2>5
<1>14. ASSUME RestartsInOrder(t)
       PROVE  InOrder(s, t)
  <2> DEFINE n == Len(q)
  <2>1. t.queue = Append(Append(q, a), b) /\ t.listeners = s.listeners /\ t.allocating
          /\ Room(s, "iv_index")
    BY <1>13, <1>14
  <2>2. /\ Len(t.queue) = n + 2 /\ DOMAIN t.queue = 1..(n + 2)
        /\ \A i \in DOMAIN q : t.queue[i] = q[i]
        /\ t.queue[n + 1] = a /\ t.queue[n + 2] = b
        /\ t.queue # <<>>
    BY <1>6, <1>10, <2>1
  <2>3. \A i \in DOMAIN q : q[i].op # "seqnum"
    BY <1>10, <1>14, <2>2 DEF RestartsInOrder
  <2>4. ASSUME NEW i \in DOMAIN t.queue
        PROVE  /\ t.queue[i].op \in {"seqnum", "iv_index", "other"}
               /\ t.queue[i].op = "seqnum" => i = n + 2
               /\ t.queue[i].op = "iv_index" => TxIv(t.queue[i]) <= TxIv(t)
    <3>1. CASE i \in DOMAIN q
      <4>1. t.queue[i] = q[i] /\ q[i].op \in {"seqnum", "iv_index", "other"}
              /\ (q[i].op = "iv_index" => TxIv(q[i]) <= TxIv(s))
        BY <2>2, <3>1 DEF Own, OnlyOwnOps, NotAhead, q
      <4>2. TxIv(q[i]) \in Int
        BY <1>10, <3>1, TxIvInt
      <4> QED
        BY <1>7, <1>9, <2>3, <3>1, <4>1, <4>2
    <3>2. CASE i = n + 1
      <4>1. u.iv <= u.iv
        BY <1>9
      <4> QED
        BY <1>6, <1>7, <2>2, <3>2, <4>1
    <3>3. CASE i = n + 2
      BY <1>6, <2>2, <3>3
    <3> QED
      BY <1>10, <2>2, <2>4, <3>1, <3>2, <3>3
  <2>5. OnlyOwnOps(t) /\ OneBlock(t) /\ NotAhead(t)
    BY <2>1, <2>4 DEF OnlyOwnOps, OneBlock, NotAhead
  <2>6. PutOff(t) /\ NoReset(t)
    BY <2>1 DEF Own, PutOff, StoreWaits, NoReset
  <2>7. Own(t)
    BY <1>5, <2>2, <2>5, <2>6 DEF Own
  <2>8. /\ Extends(s, t) /\ Len(t.queue) >= Len(s.queue) + 2
        /\ \A i \in DOMAIN t.queue : ~(i > Len(s.queue) /\ i <= Len(t.queue) - 2)
    BY <1>10, <2>2 DEF Extends, q
  <2> QED
    BY <1>5, <2>7, <2>8 DEF InOrder
<1> QED
  BY <1>7, <1>11, <1>14 DEF Restarts

-----------------------------------------------------------------------------
(* The functions that may start the numbers over *)

\* The start of an update stores its IV index without a restart.
LEMMA IvUpdateStartQueues ==
  ASSUME NEW s \in Ram, Own(s)
  PROVE  Moves(s, IvUpdateStart(s))
<1> DEFINE x == [s EXCEPT !.state = "in_progress", !.timeout = 0, !.iv = @ + 1]
<1>1. ASSUME CanStart(s)
      PROVE  Moves(s, FlashStoreIvIndex(x))
  <2>1. s.iv \in Nat /\ s.iv + 1 \in Nat /\ s.state = "normal"
    BY <1>1 DEF Ram, CanStart
  <2>2. \A n \in Nat :
          [s EXCEPT !.state = "in_progress", !.timeout = 0, !.iv = n] \in Ram
    BY DEF Ram, IvStates
  <2>3. x \in Ram
    BY <2>1, <2>2
  <2>4. /\ x.iv = s.iv + 1 /\ x.state = "in_progress" /\ x.seqnum = s.seqnum
        /\ x.seqnum_max = s.seqnum_max /\ x.allocating = s.allocating
        /\ x.writing = s.writing /\ x.queue = s.queue /\ x.listeners = s.listeners
    BY DEF Ram
  <2> HIDE DEF x
  <2>5. TxIv(x) = TxIv(s)
    BY <2>1, <2>4 DEF TxIv
  <2>6. Own(x)
    <3>1. ~StoreWaits(s)
      BY <2>1 DEF Own, PutOff
    <3>2. PutOff(x)
      BY <2>4, <3>1 DEF PutOff, StoreWaits
    <3> QED
      BY <2>4, <2>5, <3>2 DEF Own, OnlyOwnOps, OneBlock, NotAhead, NoReset
  <2>7. Grows(s, x)
    BY <2>4, <2>5, QueueType DEF Grows, Extends
  <2>8. FlashStoreIvIndex(x) \in Ram /\ Moves(x, FlashStoreIvIndex(x))
    BY <2>3, <2>4, <2>6, FlashStoreIvIndexType, FlashStoreIvIndexGrows DEF Moves
  <2> QED
    BY <2>3, <2>7, <2>8, GrowsMoves
<1> QED
  BY <1>1, StandsStill DEF IvUpdateStart

\* A triggered update either goes on with the transmit IV index or starts the
\* numbers over on the next one.
LEMMA TriggerIfPendingQueues ==
  ASSUME NEW s \in Ram, Own(s)
  PROVE  Moves(s, TriggerIfPending(s))
<1> DEFINE c == [s EXCEPT !.pending = FALSE]
           e == [c EXCEPT !.state = "normal", !.timeout = 0]
<1>1. c \in Ram /\ Alike(s, c)
  BY DEF Ram, Alike
<1>2. e \in Ram
  BY <1>1 DEF Ram, IvStates
<1>3. /\ e.iv = s.iv /\ e.state = "normal" /\ e.queue = s.queue
      /\ e.listeners = s.listeners /\ e.writing = s.writing
  BY <1>1 DEF Ram, Alike
<1> HIDE DEF c
<1>4. Moves(s, IvUpdateStart(c))
  <2>1. Own(c) /\ IvUpdateStart(c) \in Ram
    BY <1>1, AlikeOwn, IvUpdateStartType
  <2>2. Moves(c, IvUpdateStart(c))
    BY <1>1, <2>1, IvUpdateStartQueues
  <2>3. Alike(IvUpdateStart(c), IvUpdateStart(c))
    BY DEF Alike
  <2> QED
    BY <1>1, <2>1, <2>2, <2>3, AlikeMoves
<1>5. ASSUME s.state # "normal"
      PROVE  Moves(s, IvUpdateEnd(c))
  <2>1. s.state = "in_progress" /\ s.iv \in Nat
    BY <1>5 DEF Ram, IvStates
  <2>2. TxIv(e) > TxIv(s)
    BY <1>3, <2>1 DEF TxIv
  <2>3. Restarts(s, SeqnumRestart(e))
    BY <1>2, <1>3, <2>2, SeqnumRestartRestarts
  <2> QED
    BY <2>3 DEF IvUpdateEnd, Moves
<1> QED
  BY <1>4, <1>5, StandsStill DEF TriggerIfPending, c

\* The request for an update changes nothing that the recovery depends on.
LEMMA AskedQueues ==
  ASSUME NEW s \in Ram, Own(s)
  PROVE  LET t == [s EXCEPT !.pending = TRUE] IN
         /\ t \in Ram /\ Alike(s, t) /\ Own(t)
         /\ TriggerIfPending(t) \in Ram /\ Moves(s, TriggerIfPending(t))
<1> DEFINE t == [s EXCEPT !.pending = TRUE]
<1>1. t \in Ram /\ Alike(s, t)
  BY DEF Ram, Alike
<1> HIDE DEF t
<1>2. Own(t) /\ TriggerIfPending(t) \in Ram
  BY <1>1, AlikeOwn, TriggerIfPendingType
<1>3. Moves(t, TriggerIfPending(t)) /\ Alike(TriggerIfPending(t), TriggerIfPending(t))
  BY <1>1, <1>2, TriggerIfPendingQueues DEF Alike
<1>4. Moves(s, TriggerIfPending(t))
  BY <1>1, <1>2, <1>3, AlikeMoves
<1> QED
  BY <1>1, <1>2, <1>4 DEF t

\* The lock changes nothing that the recovery depends on, its release may
\* trigger an update.
LEMMA LockQueues ==
  ASSUME NEW s \in Ram, Own(s)
  PROVE  /\ Alike(s, IvIndexLock(s))
         /\ s.lock_count > 0 => Moves(s, IvIndexUnlock(s))
<1> DEFINE f == [s EXCEPT !.lock_count = 0, !.locked = FALSE]
           g == [s EXCEPT !.lock_count = @ - 1]
<1>1. Alike(s, IvIndexLock(s))
  BY DEF IvIndexLock, Alike, Ram
<1>2. f \in Ram /\ Alike(s, f)
  BY DEF Ram, IvStates, Alike
<1>3. Moves(s, TriggerIfPending(f))
  <2> HIDE DEF f
  <2>1. Own(f) /\ TriggerIfPending(f) \in Ram
    BY <1>2, AlikeOwn, TriggerIfPendingType
  <2>2. Moves(f, TriggerIfPending(f)) /\ Alike(TriggerIfPending(f), TriggerIfPending(f))
    BY <1>2, <2>1, TriggerIfPendingQueues DEF Alike
  <2> QED
    BY <1>2, <2>1, <2>2, AlikeMoves
<1>4. ASSUME s.lock_count > 0
      PROVE  Moves(s, g)
  <2>1. s.lock_count - 1 \in Nat
    BY <1>4 DEF Ram
  <2>2. \A n \in Nat : [s EXCEPT !.lock_count = n] \in Ram
    BY DEF Ram, IvStates
  <2>3. g \in Ram
    BY <2>1, <2>2
  <2>4. Alike(s, g) /\ Alike(s, s)
    BY DEF Alike, Ram
  <2> HIDE DEF g
  <2> QED
    BY <2>3, <2>4, StandsStill, AlikeMoves
<1> QED
  BY <1>1, <1>3, <1>4 DEF IvIndexUnlock

\* The minute timer only triggers updates.
LEMMA TimerHandlerQueues ==
  ASSUME NEW s \in Ram, Own(s)
  PROVE  Moves(s, TimerHandler(s))
<1> DEFINE asked == [s EXCEPT !.pending = TRUE]
<1>1. asked \in Ram /\ Alike(s, asked) /\ Alike(s, s) /\ Own(asked)
  BY AskedQueues DEF Alike
<1>2. \A m \in {s, asked, TriggerIfPending(s), TriggerIfPending(asked)} :
        m \in Ram /\ Moves(s, m)
  <2>1. Moves(s, s)
    BY StandsStill
  <2>2. Moves(s, asked)
    BY <1>1, <2>1, AlikeMoves
  <2>3. TriggerIfPending(s) \in Ram /\ Moves(s, TriggerIfPending(s))
    BY TriggerIfPendingType, TriggerIfPendingQueues
  <2>4. TriggerIfPending(asked) \in Ram /\ Moves(s, TriggerIfPending(asked))
    BY AskedQueues
  <2> QED
    BY <1>1, <2>1, <2>2, <2>3, <2>4
<1>3. ASSUME NEW m \in Ram, Moves(s, m)
      PROVE  LET c == [m EXCEPT !.timeout = @ + 1] IN c \in Ram /\ Moves(s, c)
  <2>1. m.timeout + 1 \in Nat
    BY DEF Ram
  <2>2. \A n \in Nat : [m EXCEPT !.timeout = n] \in Ram
    BY DEF Ram, IvStates
  <2>3. [m EXCEPT !.timeout = @ + 1] \in Ram
    BY <2>1, <2>2
  <2>4. Alike(m, [m EXCEPT !.timeout = @ + 1])
    BY DEF Alike, Ram
  <2> QED
    BY <1>1, <1>3, <2>3, <2>4, AlikeMoves, Zenon
<1>4. ASSUME NEW m \in Ram, Moves(s, m), m.ivr_timeout > 0
      PROVE  Moves(s, [m EXCEPT !.ivr_timeout = @ - 1])
  <2>1. m.ivr_timeout - 1 \in Nat
    BY <1>4 DEF Ram
  <2>2. \A n \in Nat : [m EXCEPT !.ivr_timeout = n] \in Ram
    BY DEF Ram, IvStates
  <2>3. [m EXCEPT !.ivr_timeout = @ - 1] \in Ram
    BY <2>1, <2>2
  <2>4. Alike(m, [m EXCEPT !.ivr_timeout = @ - 1])
    BY DEF Alike, Ram
  <2> QED
    BY <1>1, <1>4, <2>3, <2>4, AlikeMoves, Zenon
<1> QED
  BY <1>2, <1>3, <1>4 DEF TimerHandler

\* A beacon triggers an update or moves the node to a higher IV index.
LEMMA BeaconQueues ==
  ASSUME NEW s \in Ram, NEW i \in Nat, NEW u \in BOOLEAN, Own(s)
  PROVE  Moves(s, Beacon(s, i, u))
<1> DEFINE t == [s EXCEPT !.iv = i, !.timeout = 0,
                          !.ivr_timeout = IV_RECOVERY_TIMEOUT, !.pending = FALSE]
<1>1. Moves(s, s)
  BY StandsStill
<1>2. Moves(s, AskAndTrigger(s))
  BY AskedQueues DEF AskAndTrigger
<1>3. ASSUME s.state = "normal", FallenBehind(s, i, u)
      PROVE  Moves(s, IvRecover(s, i))
  <2>1. t \in Ram
    BY DEF Ram, IvStates
  <2>2. /\ t.iv = i /\ t.state = "normal" /\ t.queue = s.queue
        /\ t.listeners = s.listeners /\ t.writing = s.writing
    BY <1>3 DEF Ram
  <2>3. i > s.iv /\ s.iv \in Nat
    BY <1>3 DEF FallenBehind, Ram
  <2>4. TxIv(t) > TxIv(s)
    BY <1>3, <2>2, <2>3 DEF TxIv
  <2>5. Restarts(s, SeqnumRestart(t))
    BY <2>1, <2>2, <2>4, SeqnumRestartRestarts
  <2> QED
    BY <2>5 DEF IvRecover, Moves
<1> QED
  BY <1>1, <1>2, <1>3 DEF Beacon

\* With the lock held the allocation queues at most a block; the number that is
\* handed out is below the one in flash.
LEMMA SeqnumAllocQueues ==
  ASSUME NEW s \in Ram, Own(s), s.locked, s.seqnum < s.seqnum_max
  PROVE  Grows(s, SeqnumAlloc(s)) /\ Own(SeqnumAlloc(s))
<1> DEFINE asked == [s EXCEPT !.pending = TRUE]
           a == IF s.seqnum >= UpdateThreshold(s) THEN asked ELSE s
           b == SeqnumBlockAllocate(a)
<1>1. asked \in Ram /\ Alike(s, asked) /\ Own(asked) /\ Alike(s, s)
  BY AskedQueues DEF Alike
<1>2. asked.locked
  BY DEF Ram
<1>3. TriggerIfPending(asked) = asked
  BY <1>2 DEF CanTrigger, TriggerIfPending
<1>4. a \in Ram /\ Alike(s, a) /\ Own(a)
  BY <1>1
<1> HIDE DEF asked
<1>5. PICK t \in {a, b} : SeqnumAlloc(s) = [t EXCEPT !.seqnum = @ + 1]
  BY <1>3, <1>2 DEF SeqnumAlloc, CanTrigger, asked
<1> HIDE DEF a
<1>6. Grows(s, a)
  BY <1>4, QueueType DEF Alike, Grows, Extends, TxIv
<1>7. /\ b \in Ram /\ Own(b) /\ Grows(a, b)
      /\ b.iv = a.iv /\ b.state = a.state /\ b.seqnum = a.seqnum
      /\ b.seqnum_max = a.seqnum_max
  BY <1>4, SeqnumBlockAllocateType, SeqnumBlockAllocateGrows, SeqnumBlockAllocateCases
<1>8. /\ t \in Ram /\ Own(t) /\ Grows(s, t) /\ t.seqnum = s.seqnum
      /\ t.seqnum_max = s.seqnum_max
  BY <1>4, <1>5, <1>6, <1>7, GrowsTransitive DEF Alike
<1> HIDE DEF b
<1> DEFINE g == [t EXCEPT !.seqnum = @ + 1]
<1>9. /\ g.iv = t.iv /\ g.state = t.state /\ g.seqnum = s.seqnum + 1
      /\ g.seqnum_max = s.seqnum_max /\ g.allocating = t.allocating
      /\ g.writing = t.writing /\ g.queue = t.queue /\ g.listeners = t.listeners
  BY <1>8 DEF Ram
<1>10. TxIv(g) = TxIv(t)
  BY <1>9 DEF TxIv
<1> HIDE DEF g
<1>11. g.seqnum <= g.seqnum_max
  <2>1. s.seqnum \in Nat /\ s.seqnum_max \in Nat
    BY DEF Ram
  <2> QED
    BY <1>9, <2>1
<1>12. PutOff(g)
  BY <1>8, <1>9 DEF Own, PutOff, StoreWaits, Room
<1>13. Own(g)
  BY <1>8, <1>9, <1>10, <1>11, <1>12 DEF Own, OnlyOwnOps, OneBlock, NotAhead, NoReset
<1>14. Grows(s, g)
  BY <1>8, <1>9, <1>10 DEF Grows, Extends, Later
<1> QED
  BY <1>5, <1>13, <1>14 DEF g

\* allocate_packet, lock and unlock included, queues at most a block before the
\* update it may trigger.
LEMMA AllocateQueues ==
  ASSUME IInv, Own(ram), AllocatePacket
  PROVE  Moves(ram, ram')
<1> DEFINE l == IvIndexLock(ram)
           g == SeqnumAlloc(l)
           b == SeqnumBlockAllocate(l)
<1>1. ram \in Ram /\ Alike(ram, l) /\ Alike(ram, ram)
  BY LockQueues DEF IInv, TypeOK, Alike
<1>2. l \in Ram /\ l.locked /\ l.lock_count > 0
  <2>1. l.lock_count = ram.lock_count + 1 /\ l.locked /\ ram.lock_count \in Nat
    BY <1>1 DEF IvIndexLock, Ram
  <2> QED
    BY <1>1, <2>1, LockTypes
<1>3. Own(l)
  BY <1>1, <1>2, AlikeOwn
<1>4. g \in Ram /\ b \in Ram /\ g.lock_count > 0 /\ b.lock_count > 0
  BY <1>2, SeqnumAllocType, SeqnumBlockAllocateType, LockCountKept
<1>5. Grows(ram, l)
  BY <1>1, QueueType DEF Alike, Grows, Extends, TxIv
<1> HIDE DEF l, g, b
<1>6. ASSUME NEW s \in Ram, Own(s), Grows(l, s), s.lock_count > 0
      PROVE  Moves(ram, IvIndexUnlock(s))
  <2>1. IvIndexUnlock(s) \in Ram /\ Moves(s, IvIndexUnlock(s))
    BY <1>6, LockTypes, LockQueues
  <2>2. Grows(ram, s)
    BY <1>1, <1>2, <1>5, <1>6, GrowsTransitive
  <2> QED
    BY <1>1, <1>6, <2>1, <2>2, GrowsMoves
<1>7. CASE l.seqnum < l.seqnum_max
  <2>1. ram' = IvIndexUnlock(g)
    BY <1>7 DEF AllocatePacket, l, g
  <2>2. Own(g) /\ Grows(l, g)
    BY <1>2, <1>3, <1>7, SeqnumAllocQueues DEF g
  <2> QED
    BY <1>4, <1>6, <2>1, <2>2
<1>8. CASE ~(l.seqnum < l.seqnum_max)
  <2>1. ram' = IvIndexUnlock(b)
    BY <1>8 DEF AllocatePacket, l, b
  <2>2. Own(b) /\ Grows(l, b)
    BY <1>2, <1>3, SeqnumBlockAllocateGrows DEF b
  <2> QED
    BY <1>4, <1>6, <2>1, <2>2
<1> QED
  BY <1>7, <1>8

\* A listener that is told of the room makes the queue grow.
LEMMA NotifyGrows ==
  ASSUME NEW s \in Ram, Own(s), NEW ls \in Seq(Listeners), NEW n \in Nat \ {0},
         \A i \in DOMAIN ls :
           /\ ls[i] # "net_state_reset"
           /\ ls[i] = "flash_store_iv_index" => s.state = "in_progress"
  PROVE  LET t == NotifyNth(s, ls, n) IN
         t \in Ram /\ Own(t) /\ Grows(s, t) /\ t.state = s.state
<1> DEFINE t == NotifyNth(s, ls, n)
<1>1. CASE n > Len(ls)
  <2>1. t = s
    BY <1>1 DEF NotifyNth
  <2>2. Grows(s, s)
    BY QueueType DEF Grows, Extends
  <2> QED
    BY <2>1, <2>2
<1>2. CASE n <= Len(ls)
  <2>1. /\ ls[n] \in {"seqnum_block_allocate", "flash_store_iv_index"}
        /\ ls[n] = "flash_store_iv_index" => s.state = "in_progress"
        /\ t = Notify(s, ls[n])
    BY <1>2 DEF NotifyNth, Listeners
  <2>2. CASE ls[n] = "seqnum_block_allocate"
    BY <2>1, <2>2, SeqnumBlockAllocateType, SeqnumBlockAllocateGrows,
       SeqnumBlockAllocateCases DEF Notify
  <2>3. CASE ls[n] = "flash_store_iv_index"
    BY <2>1, <2>3, FlashStoreIvIndexType, FlashStoreIvIndexGrows,
       FlashStoreIvIndexCases DEF Notify
  <2> QED
    BY <2>1, <2>2, <2>3
<1> QED
  BY <1>1, <1>2

-----------------------------------------------------------------------------
(* How the phases follow each other *)

\* A growth stays in its phase: what is queued belongs behind the restart.
LEMMA GrowsPhase ==
  ASSUME NEW s \in Ram, NEW t \in Ram, NEW f \in Flash,
         Own(s), Grows(s, t), Phase(s, f)
  PROVE  Phase(t, f)
<1>1. /\ Len(s.queue) \in Nat /\ DOMAIN s.queue = 1..Len(s.queue)
      /\ Len(t.queue) \in Nat /\ DOMAIN t.queue = 1..Len(t.queue)
      /\ Len(t.queue) >= Len(s.queue)
      /\ \A i \in DOMAIN s.queue : t.queue[i] = s.queue[i]
  BY QueueType DEF Grows, Extends
<1>2. TxIv(t) = TxIv(s) /\ t.seqnum_max = s.seqnum_max /\ t.writing = s.writing
  BY DEF Grows
<1>3. \A a \in Action : Later(a, s) <=> Later(a, t)
  BY <1>2 DEF Later
<1>4. \A i \in Waiting(t) :
        \/ i \in Waiting(s) /\ t.queue[i] = s.queue[i] /\ s.queue[i] \in Action
        \/ i > Len(s.queue) /\ Later(t.queue[i], t)
  BY <1>1, <1>2, QueueType DEF Waiting, Grows
<1>5. Waiting(s) \subseteq Waiting(t) /\ Waiting(s) \subseteq DOMAIN s.queue
        /\ DOMAIN s.queue \subseteq DOMAIN t.queue
  BY <1>1, <1>2 DEF Waiting
<1>6. CASE Running(s, f)
  <2>1. \A i \in Waiting(t) : Later(t.queue[i], t)
    BY <1>3, <1>4, <1>6 DEF Running
  <2>2. s.writing => Head(t.queue) = Head(s.queue)
    <3>1. SUFFICES ASSUME s.writing
                   PROVE  Head(t.queue) = Head(s.queue)
      OBVIOUS
    <3>2. s.queue # <<>> /\ s.queue \in Seq(Action) /\ t.queue \in Seq(Action)
      BY <3>1, QueueType DEF Own
    <3>3. Len(s.queue) >= 1 /\ Head(s.queue) = s.queue[1] /\ Head(t.queue) = t.queue[1]
      BY <3>2
    <3> QED
      BY <1>1, <3>3
  <2> QED
    BY <1>2, <1>6, <2>1, <2>2 DEF Running, Phase
<1>7. ASSUME NEW k \in DOMAIN s.queue, Begun(s, f, k)
      PROVE  Phase(t, f)
  <2>1. k \in Waiting(t) /\ t.queue[k] = s.queue[k]
    BY <1>1, <1>5, <1>7 DEF Begun
  <2>2. \A i \in Waiting(t) : i < k => i \in Waiting(s) /\ t.queue[i] = s.queue[i]
    BY <1>1, <1>4 DEF Waiting
  <2>3. \A i \in Waiting(t) : i >= k => Later(t.queue[i], t)
    BY <1>3, <1>4, <1>7 DEF Begun
  <2>4. Begun(t, f, k)
    BY <1>2, <1>7, <2>1, <2>2, <2>3 DEF Begun
  <2> QED
    BY <1>5, <2>4 DEF Phase
<1>8. ASSUME NEW k \in DOMAIN s.queue, Restarting(s, f, k)
      PROVE  Phase(t, f)
  <2>1. k \in Waiting(t) /\ k + 1 \in DOMAIN t.queue
    BY <1>1, <1>5, <1>8 DEF Restarting
  <2>2. t.queue[k] = s.queue[k] /\ t.queue[k + 1] = s.queue[k + 1]
    BY <1>1, <1>8 DEF Restarting
  <2>3. \A i \in Waiting(t) : i < k => i \in Waiting(s) /\ t.queue[i] = s.queue[i]
    BY <1>1, <1>4 DEF Waiting
  <2>4. \A i \in Waiting(t) : i > k => Later(t.queue[i], t)
    BY <1>3, <1>4, <1>8 DEF Restarting
  <2>5. Restarting(t, f, k)
    BY <1>2, <1>8, <2>1, <2>2, <2>3, <2>4 DEF Restarting
  <2> QED
    BY <1>5, <2>5 DEF Phase
<1> QED
  BY <1>6, <1>7, <1>8 DEF Phase

\* A restart in order finds the flash covering the transmit IV index it leaves,
\* and leaves it so until its own IV index is written.
LEMMA RestartsPhase ==
  ASSUME NEW s \in Ram, NEW t \in Ram, NEW f \in Flash,
         Own(s), Restarts(s, t), RestartsInOrder(t), Phase(s, f)
  PROVE  Own(t) /\ Phase(t, f)
<1> DEFINE n == Len(t.queue)
<1>1. InOrder(s, t)
  BY DEF Restarts
<1>2. /\ Len(s.queue) \in Nat /\ DOMAIN s.queue = 1..Len(s.queue)
      /\ n \in Nat /\ DOMAIN t.queue = 1..n
      /\ n >= Len(s.queue) + 2
      /\ \A i \in DOMAIN s.queue : t.queue[i] = s.queue[i]
  BY <1>1, QueueType DEF InOrder, Extends
<1>3. \A i \in 1..(n - 2) : t.queue[i].op # "seqnum"
  BY DEF RestartsInOrder
<1>4. \A i \in DOMAIN s.queue : s.queue[i].op # "seqnum"
  BY <1>2, <1>3
<1>5. Running(s, f)
  BY <1>4 DEF Phase, Begun, Restarting, Waiting
<1>6. n - 1 \in Waiting(t) /\ n - 1 \in DOMAIN t.queue /\ n \in DOMAIN t.queue
        /\ (n - 1) + 1 = n
  <2>1. s.writing => Len(s.queue) >= 1
    <3>1. s.queue \in Seq(Action)
      BY QueueType
    <3> QED
      BY <3>1 DEF Own
  <2>2. t.writing = s.writing
    BY <1>1 DEF InOrder
  <2>3. n - 1 \in DOMAIN t.queue /\ n \in DOMAIN t.queue /\ (n - 1) + 1 = n
    BY <1>2
  <2>4. ASSUME s.writing
        PROVE  n - 1 # 1
    <3> HIDE DEF n
    <3>1. Len(s.queue) \in Nat /\ n \in Nat /\ Len(s.queue) >= 1 /\ n >= Len(s.queue) + 2
      BY <1>2, <2>1, <2>4
    <3> QED
      BY <3>1
  <2> QED
    BY <2>2, <2>3, <2>4 DEF Waiting
<1>7. /\ t.queue[n - 1].op = "iv_index" /\ t.queue[n - 1].state = "normal"
      /\ t.queue[n - 1].iv = TxIv(t)
      /\ t.queue[n].op = "seqnum" /\ t.queue[n].seqnum = BLOCK_SIZE
  <2>1. t.state = "normal" /\ TxIv(t) = t.iv
    BY <1>1 DEF InOrder, TxIv
  <2>2. t.queue[n - 1] = IvAction(t) /\ t.queue[n] = SeqnumAction(BLOCK_SIZE)
    BY DEF RestartsInOrder
  <2>3. BLOCK_SIZE \in Nat
    OBVIOUS
  <2> QED
    BY <2>1, <2>2, <2>3, ActionFields
<1>8. ASSUME NEW i \in Waiting(t), i < n - 1, t.queue[i].op = "iv_index"
      PROVE  /\ t.queue[i].state = "in_progress" /\ Complete(f)
             /\ TxIv(t.queue[i]) = TxIv(f)
  <2>1. Later(t.queue[i], s)
    <3>1. CASE i > Len(s.queue)
      BY <1>1, <1>2, <1>8, <3>1 DEF InOrder, Waiting
    <3>2. CASE i <= Len(s.queue)
      BY <1>1, <1>2, <1>5, <1>8, <3>2 DEF InOrder, Waiting, Running
    <3> QED
      BY <1>2, <1>8, <3>1, <3>2 DEF Waiting
  <2> QED
    BY <1>5, <1>8, <2>1 DEF Running, Later
<1>9. ASSUME NEW i \in Waiting(t), i > n - 1
      PROVE  Later(t.queue[i], t)
  <2>1. i = n
    BY <1>2, <1>9 DEF Waiting
  <2>2. t.seqnum_max = 0
    BY <1>1 DEF InOrder
  <2> QED
    BY <1>7, <2>1, <2>2 DEF Later
<1> HIDE DEF n
<1>10. Restarting(t, f, n - 1)
  BY <1>1, <1>5, <1>6, <1>7, <1>8, <1>9 DEF Restarting, InOrder, Running
<1> QED
  BY <1>1, <1>6, <1>10 DEF InOrder, Phase

\* Where a node that boots now would go on.
LEMMA RecoverPoint ==
  ASSUME NEW f \in Flash
  PROVE  /\ Complete(f) => /\ Recover(f).iv = f.iv /\ Recover(f).state = f.state
                           /\ Recover(f).seqnum = IF Stale(f) THEN 0 ELSE f.seqnum
         /\ ~Complete(f) => /\ Recover(f).iv = 0 /\ Recover(f).state = "normal"
                            /\ Recover(f).seqnum = 0
<1>1. BlankRam \in Ram
  BY DEF BlankRam, Ram, IvStates
<1>2. \A n \in Nat : LET t == [BlankRam EXCEPT !.iv = f.iv, !.state = f.state,
                                               !.seqnum = n, !.seqnum_max = n]
                     IN t \in Ram /\ t.iv = f.iv /\ t.state = f.state /\ t.seqnum = n
  BY <1>1 DEF Ram, Flash
<1>3. f.seqnum \in Nat /\ 0 \in Nat
  BY DEF Flash
<1>4. /\ FlashStoreIvIndex(BlankRam) \in Ram
      /\ FlashStoreIvIndex(BlankRam).iv = 0
      /\ FlashStoreIvIndex(BlankRam).state = "normal"
      /\ FlashStoreIvIndex(BlankRam).seqnum = 0
  <2>1. BlankRam.iv = 0 /\ BlankRam.state = "normal" /\ BlankRam.seqnum = 0
    BY DEF BlankRam
  <2> QED
    BY <1>1, <2>1, FlashStoreIvIndexType, FlashStoreIvIndexCases
<1> DEFINE m == IF Stale(f) THEN 0 ELSE f.seqnum
           t == [BlankRam EXCEPT !.iv = f.iv, !.state = f.state,
                                 !.seqnum = m, !.seqnum_max = m]
<1>5. t \in Ram /\ t.iv = f.iv /\ t.state = f.state /\ t.seqnum = m
  <2>1. m \in Nat
    BY <1>3
  <2> HIDE DEF m
  <2> QED
    BY <1>2, <2>1
<1>6. Complete(f) => Recover(f) = SeqnumBlockAllocate(t)
  BY DEF Recover, Complete, Stale
<1>7. ~Complete(f) => Recover(f) = SeqnumBlockAllocate(FlashStoreIvIndex(BlankRam))
  BY DEF Recover, Complete
<1> HIDE DEF t
<1> QED
  BY <1>4, <1>5, <1>6, <1>7, SeqnumBlockAllocateCases

\* The fields of an entry that is written.
LEMMA WrittenFields ==
  ASSUME NEW f \in Flash, NEW a \in Action
  PROVE  LET g == Written(f, a) IN
         /\ a.op = "other" => g = f
         /\ a.op = "iv_index" => /\ g.has_iv /\ g.iv = a.iv /\ g.state = a.state
                                 /\ g.seqnum_first /\ g.seqnum = f.seqnum
                                 /\ g.has_seqnum = f.has_seqnum
         /\ a.op = "seqnum" => /\ g.has_seqnum /\ g.seqnum = a.seqnum
                               /\ ~g.seqnum_first /\ g.iv = f.iv /\ g.state = f.state
                               /\ g.has_iv = f.has_iv
BY DEF Written, Flash

\* From flash f to flash g the point at which the node would resume is the same.
SamePoint(f, g) ==
  /\ Complete(f) /\ ~Stale(f) /\ Complete(g) /\ ~Stale(g)
  /\ TxIv(g) = TxIv(f) /\ g.seqnum = f.seqnum

\* The write of an action leads from phase to phase.
LEMMA WritePhase ==
  ASSUME NEW s \in Ram, NEW t \in Ram, NEW f \in Flash, NEW g \in Flash,
         Own(s), Phase(s, f), s.queue # <<>>, ~s.writing,
         t = [s EXCEPT !.writing = TRUE], g = Written(f, Head(s.queue))
  PROVE  /\ Own(t) /\ Phase(t, g)
         /\ \/ g = f
            \/ Running(t, g)
            \/ SamePoint(f, g)
            \/ \E k \in DOMAIN t.queue : Begun(t, g, k) /\ (Complete(f) => Complete(g))
<1> DEFINE a == s.queue[1]
           Aim == \/ g = f
                  \/ Running(t, g)
                  \/ SamePoint(f, g)
                  \/ \E k \in DOMAIN t.queue :
                       Begun(t, g, k) /\ (Complete(f) => Complete(g))
<1>1. /\ t.iv = s.iv /\ t.state = s.state /\ t.seqnum = s.seqnum
      /\ t.seqnum_max = s.seqnum_max /\ t.allocating = s.allocating
      /\ t.writing = TRUE /\ t.queue = s.queue /\ t.listeners = s.listeners
  BY DEF Ram
<1>2. /\ Len(s.queue) \in Nat /\ DOMAIN s.queue = 1..Len(s.queue)
      /\ 1 \in DOMAIN s.queue /\ Head(s.queue) = a /\ a \in Action
      /\ \A i \in DOMAIN s.queue : s.queue[i] \in Action
  BY QueueType
<1>3. TxIv(t) = TxIv(s)
  BY <1>1 DEF TxIv
<1>4. /\ 1 \in Waiting(s) /\ Waiting(t) = Waiting(s) \ {1}
      /\ Waiting(s) = DOMAIN s.queue
  BY <1>1, <1>2 DEF Waiting
<1>5. /\ \A i \in DOMAIN s.queue : i \in Nat /\ i >= 1 /\ (i # 1 => i \in Waiting(t))
      /\ \A i \in Waiting(t) : i \in DOMAIN s.queue /\ i \in Nat /\ i > 1
  <2>1. \A i \in DOMAIN s.queue : i \in Nat /\ i >= 1
    BY <1>2
  <2>2. \A i \in Waiting(t) : i \in DOMAIN s.queue /\ i # 1
    BY <1>4
  <2>3. \A i \in DOMAIN s.queue : i # 1 => i \in Waiting(t)
    BY <1>4
  <2>4. ASSUME NEW i \in Waiting(t)
        PROVE  i > 1
    <3>1. i \in Nat /\ i >= 1 /\ i # 1
      BY <2>1, <2>2
    <3> QED
      BY <3>1
  <2> QED
    BY <2>1, <2>2, <2>3, <2>4, Zenon
<1>6. \A x \in Action : Later(x, s) <=> Later(x, t)
  BY <1>1, <1>3 DEF Later
<1>7. Own(t)
  <2>1. PutOff(t)
    BY <1>1 DEF Own, PutOff, StoreWaits, Room
  <2> QED
    BY <1>1, <1>3, <2>1 DEF Own, OnlyOwnOps, OneBlock, NotAhead, NoReset
<1>8. a.op \in {"seqnum", "iv_index", "other"}
  BY <1>2 DEF Own, OnlyOwnOps
<1>9. /\ a.op = "other" => g = f
      /\ a.op = "iv_index" => /\ g.has_iv /\ g.iv = a.iv /\ g.state = a.state
                              /\ g.seqnum_first /\ g.seqnum = f.seqnum
                              /\ g.has_seqnum = f.has_seqnum
      /\ a.op = "seqnum" => /\ g.has_seqnum /\ g.seqnum = a.seqnum
                            /\ ~g.seqnum_first /\ g.iv = f.iv /\ g.state = f.state
                            /\ g.has_iv = f.has_iv
  BY <1>2, WrittenFields
<1>10. a.op = "iv_index" => TxIv(g) = TxIv(a)
  BY <1>9 DEF TxIv
<1>11. a.op = "seqnum" => TxIv(g) = TxIv(f)
  BY <1>9 DEF TxIv
<1> HIDE DEF a
<1>12. CASE Running(s, f)
  <2>1. Later(a, s) /\ Complete(f) /\ ~Stale(f) /\ TxIv(f) = TxIv(s)
          /\ f.seqnum >= s.seqnum_max
    BY <1>4, <1>12 DEF Running, a
  <2>2. \A i \in Waiting(t) : Later(t.queue[i], t)
    BY <1>1, <1>2, <1>4, <1>6, <1>12 DEF Running
  <2>3. Complete(g) /\ ~Stale(g) /\ TxIv(g) = TxIv(t) /\ g.seqnum >= t.seqnum_max
          /\ (a.op = "seqnum" => g.seqnum = a.seqnum)
    <3>1. CASE a.op = "other"
      BY <1>1, <1>3, <1>9, <2>1, <3>1
    <3>2. CASE a.op = "iv_index"
      BY <1>1, <1>3, <1>9, <1>10, <2>1, <3>2 DEF Later, Complete, Stale
    <3>3. CASE a.op = "seqnum"
      BY <1>1, <1>3, <1>9, <1>11, <2>1, <3>3 DEF Later, Complete, Stale
    <3> QED
      BY <1>8, <3>1, <3>2, <3>3
  <2>4. Running(t, g)
    BY <1>1, <1>2, <2>2, <2>3 DEF Running
  <2> QED
    BY <1>7, <2>4 DEF Phase
<1>13. ASSUME NEW k \in DOMAIN s.queue, Begun(s, f, k)
       PROVE  Phase(t, g) /\ Aim
  <2>1. \A i \in Waiting(t) : i \in Waiting(s) /\ i # 1
    BY <1>4
  <2>2. CASE k = 1
    <3>1. a.op = "seqnum" /\ f.has_iv /\ f.state = "normal" /\ f.iv = TxIv(s)
            /\ s.seqnum_max = 0
      BY <1>13, <2>2 DEF Begun, a
    <3>2. \A i \in Waiting(t) : Later(t.queue[i], t)
      <4> TAKE i \in Waiting(t)
      <4>1. i \in DOMAIN s.queue /\ i >= 1
        BY <1>5
      <4> QED
        BY <1>1, <1>2, <1>4, <1>6, <1>13, <2>2, <4>1 DEF Begun
    <3>3. Complete(g) /\ ~Stale(g) /\ g.seqnum = a.seqnum
      BY <1>9, <3>1 DEF Complete, Stale
    <3>4. TxIv(g) = TxIv(t)
      BY <1>3, <1>11, <3>1 DEF TxIv
    <3>5. g.seqnum >= t.seqnum_max
      BY <1>1, <1>2, <3>1, <3>3 DEF Action
    <3>6. Running(t, g)
      BY <1>1, <1>2, <3>2, <3>3, <3>4, <3>5 DEF Running
    <3> QED
      BY <3>6 DEF Phase
  <2>3. CASE k # 1
    <3>1. a.op = "other"
      <4>1. 1 \in Waiting(s) /\ k \in Nat /\ 1 < k
        BY <1>4, <1>5, <2>3
      <4> QED
        BY <1>13, <4>1 DEF Begun, a
    <3>2. g = f
      BY <1>9, <3>1
    <3>3. k \in Waiting(t)
      BY <1>4, <1>13, <2>3
    <3>4. \A i \in Waiting(t) : /\ i < k => t.queue[i].op = "other"
                                /\ i >= k => Later(t.queue[i], t)
      BY <1>1, <1>2, <1>4, <1>6, <1>13 DEF Begun
    <3>5. Begun(t, f, k)
      BY <1>1, <1>3, <1>13, <3>3, <3>4 DEF Begun
    <3> QED
      BY <1>1, <3>2, <3>5 DEF Phase
  <2> QED
    BY <2>2, <2>3
<1>14. ASSUME NEW k \in DOMAIN s.queue, Restarting(s, f, k)
       PROVE  Phase(t, g) /\ Aim
  <2>1. /\ k + 1 \in DOMAIN s.queue /\ s.queue[k].op = "iv_index"
        /\ s.queue[k].state = "normal" /\ s.queue[k].iv = TxIv(s)
        /\ s.queue[k + 1].op = "seqnum" /\ s.seqnum_max = 0
        /\ Complete(f) => ~Stale(f)
    BY <1>14 DEF Restarting
  <2>2. \A i \in Waiting(t) : i > k => Later(t.queue[i], t)
    BY <1>1, <1>2, <1>4, <1>6, <1>14 DEF Restarting
  <2>3. CASE k = 1
    <3>1. g.has_iv /\ g.state = "normal" /\ g.seqnum_first /\ g.iv = TxIv(t)
            /\ g.has_seqnum = f.has_seqnum
      BY <1>3, <1>9, <2>1, <2>3 DEF a
    <3>2. 2 \in Waiting(t) /\ 2 \in DOMAIN t.queue /\ t.queue[2].op = "seqnum"
      <4>1. k + 1 = 2 /\ 2 # 1
        BY <2>3
      <4>2. 2 \in DOMAIN s.queue /\ s.queue[2].op = "seqnum"
        BY <2>1, <4>1, Zenon
      <4> QED
        BY <1>1, <1>5, <4>1, <4>2, Zenon
    <3>3. ASSUME NEW i \in Waiting(t)
          PROVE  ~(i < 2) /\ (i >= 2 => Later(t.queue[i], t))
      <4>1. i \in Nat /\ i > 1
        BY <1>5
      <4>2. Later(t.queue[i], t)
        BY <2>2, <2>3, <4>1
      <4> QED
        BY <4>1, <4>2
    <3>4. Begun(t, g, 2) /\ (Complete(f) => Complete(g))
      BY <1>1, <2>1, <3>1, <3>2, <3>3 DEF Begun, Complete
    <3> QED
      BY <3>2, <3>4 DEF Phase
  <2>4. CASE k # 1
    <3>1. 1 < k /\ k \in Waiting(t) /\ k + 1 \in DOMAIN t.queue
      BY <1>1, <1>5, <2>1, <2>4
    <3>2. a.op # "seqnum"
      <4>1. k + 1 # 1 /\ 1 \in DOMAIN s.queue
        BY <1>2, <3>1
      <4> QED
        BY <2>1, <4>1 DEF Own, OneBlock, a
    <3>3. \A i \in Waiting(t) : i < k /\ t.queue[i].op = "iv_index" =>
            /\ t.queue[i].state = "in_progress" /\ Complete(f)
            /\ TxIv(t.queue[i]) = TxIv(f)
      BY <1>1, <1>4, <1>14 DEF Restarting
    <3>4. CASE a.op = "other"
      <4>1. Restarting(t, f, k)
        BY <1>1, <1>3, <2>1, <2>2, <3>1, <3>3 DEF Restarting
      <4> QED
        BY <1>9, <3>1, <3>4, <4>1 DEF Phase, Waiting
    <3>5. CASE a.op = "iv_index"
      <4>1. a.state = "in_progress" /\ Complete(f) /\ TxIv(a) = TxIv(f)
        BY <1>4, <1>14, <3>1, <3>5 DEF Restarting, a
      <4>2. SamePoint(f, g)
        BY <1>9, <1>10, <2>1, <3>5, <4>1 DEF SamePoint, Complete, Stale
      <4>3. Restarting(t, g, k)
        BY <1>1, <1>3, <2>1, <2>2, <3>1, <3>3, <4>2 DEF Restarting, SamePoint
      <4> QED
        BY <3>1, <4>2, <4>3 DEF Phase, Waiting
    <3> QED
      BY <1>8, <3>2, <3>4, <3>5
  <2> QED
    BY <2>3, <2>4
<1> QED
  BY <1>7, <1>12, <1>13, <1>14 DEF Phase

\* The completion of the write, seen before the listeners are told of the room,
\* stays in its phase: the block that is complete is the one in flash.
LEMMA DonePhase ==
  ASSUME NEW s \in Ram, NEW r \in Ram, NEW f \in Flash,
         Own(s), Phase(s, f), s.queue # <<>>, s.writing,
         r.iv = s.iv, r.state = s.state, r.seqnum = s.seqnum,
         r.queue = Tail(s.queue), r.listeners = <<>>, r.writing = FALSE,
         Head(s.queue).op = "seqnum" =>
           r.seqnum_max = Head(s.queue).seqnum /\ r.allocating = FALSE,
         Head(s.queue).op # "seqnum" =>
           r.seqnum_max = s.seqnum_max /\ r.allocating = s.allocating
  PROVE  Own(r) /\ Phase(r, f)
<1> DEFINE a == s.queue[1]
           n == Len(s.queue)
<1>1. /\ n \in Nat /\ n >= 1 /\ DOMAIN s.queue = 1..n /\ Head(s.queue) = a
      /\ 1 \in DOMAIN s.queue
  BY QueueType
<1>2. /\ DOMAIN r.queue = 1..(n - 1)
      /\ \A i \in DOMAIN r.queue : r.queue[i] = s.queue[i + 1]
  BY QueueType
<1> HIDE DEF a, n
<1>3. /\ \A i \in DOMAIN r.queue : /\ i \in Nat /\ i >= 1 /\ i + 1 \in DOMAIN s.queue
                                   /\ i + 1 # 1 /\ i + 1 \in Waiting(s)
                                   /\ i \in Waiting(r)
      /\ Waiting(r) = DOMAIN r.queue
      /\ \A i \in Waiting(s) : /\ i \in Nat /\ i > 1 /\ i \in DOMAIN s.queue
                               /\ i - 1 \in DOMAIN r.queue /\ (i - 1) + 1 = i
                               /\ r.queue[i - 1] = s.queue[i]
  <2>1. \A i \in DOMAIN r.queue : i \in Nat /\ i >= 1 /\ i + 1 \in 1..n /\ i + 1 # 1
    BY <1>1, <1>2
  <2>2. Waiting(r) = DOMAIN r.queue
    BY DEF Waiting
  <2>3. \A i \in DOMAIN r.queue : i + 1 \in Waiting(s)
    BY <1>1, <2>1 DEF Waiting
  <2>4. \A i \in Waiting(s) : i \in DOMAIN s.queue /\ i # 1
    BY DEF Waiting
  <2>5. ASSUME NEW i \in Waiting(s)
        PROVE  i \in Nat /\ i > 1 /\ i - 1 \in DOMAIN r.queue /\ (i - 1) + 1 = i
    <3>1. i \in 1..n /\ i # 1
      BY <1>1, <2>4
    <3> QED
      BY <1>1, <1>2, <3>1
  <2>6. ASSUME NEW i \in Waiting(s)
        PROVE  r.queue[i - 1] = s.queue[i]
    <3>1. i - 1 \in DOMAIN r.queue /\ (i - 1) + 1 = i
      BY <2>5
    <3>2. r.queue[i - 1] = s.queue[(i - 1) + 1]
      BY <1>2, <3>1, Zenon
    <3> QED
      BY <3>1, <3>2, Zenon
  <2> QED
    BY <1>1, <2>1, <2>2, <2>3, <2>4, <2>5, <2>6
<1>4. TxIv(r) = TxIv(s)
  BY DEF TxIv
<1>5. a.op = "seqnum" => \A i \in Waiting(s) : s.queue[i].op # "seqnum"
  <2>1. \A i \in Waiting(s) : i \in DOMAIN s.queue /\ i # 1
    BY DEF Waiting
  <2> QED
    BY <1>1, <2>1 DEF Own, OneBlock, a
<1>6. a.op = "seqnum" => Running(s, f) /\ f.seqnum = a.seqnum /\ a.seqnum >= s.seqnum_max
  <2>1. SUFFICES ASSUME a.op = "seqnum"
                 PROVE  Running(s, f) /\ f.seqnum = a.seqnum /\ a.seqnum >= s.seqnum_max
    OBVIOUS
  <2>2. ASSUME NEW k \in DOMAIN s.queue
        PROVE  ~Begun(s, f, k)
    BY <1>5, <2>1 DEF Begun
  <2>3. ASSUME NEW k \in DOMAIN s.queue
        PROVE  ~Restarting(s, f, k)
    <3>1. SUFFICES ASSUME Restarting(s, f, k)
                   PROVE  FALSE
      OBVIOUS
    <3>2. k \in Waiting(s) /\ k + 1 \in DOMAIN s.queue /\ s.queue[k + 1].op = "seqnum"
      BY <3>1 DEF Restarting
    <3>3. k + 1 # 1
      BY <1>3, <3>2
    <3>4. k + 1 \in Waiting(s)
      BY <3>2, <3>3 DEF Waiting
    <3> QED
      BY <1>5, <2>1, <3>2, <3>4
  <2>4. Running(s, f)
    BY <2>2, <2>3 DEF Phase
  <2> QED
    BY <1>1, <2>1, <2>4 DEF Running
<1>7. Own(r)
  <2>1. OnlyOwnOps(r) /\ NotAhead(r)
    BY <1>2, <1>3, <1>4 DEF Own, OnlyOwnOps, NotAhead
  <2>2. OneBlock(r)
    <3>1. ASSUME NEW i \in DOMAIN r.queue, r.queue[i].op = "seqnum"
          PROVE  r.allocating
      BY <1>1, <1>2, <1>3, <1>5, <3>1 DEF Own, OneBlock
    <3>2. ASSUME NEW i \in DOMAIN r.queue, NEW j \in DOMAIN r.queue,
                 r.queue[i].op = "seqnum", r.queue[j].op = "seqnum"
          PROVE  i = j
      <4>1. i + 1 = j + 1
        BY <1>2, <1>3, <3>2 DEF Own, OneBlock
      <4> QED
        BY <1>3, <4>1
    <3> QED
      BY <3>1, <3>2 DEF OneBlock
  <2>3. PutOff(r) /\ NoReset(r)
    BY DEF PutOff, StoreWaits, NoReset
  <2>4. r.seqnum <= r.seqnum_max
    <3>1. s.seqnum <= s.seqnum_max /\ s.seqnum \in Nat /\ s.seqnum_max \in Nat
            /\ r.seqnum_max \in Nat
      BY DEF Own, Ram
    <3> QED
      BY <1>1, <1>6, <3>1
  <2> QED
    BY <2>1, <2>2, <2>3, <2>4 DEF Own
<1>8. CASE Running(s, f)
  <2>1. f.seqnum >= r.seqnum_max
    <3>1. f.seqnum \in Nat /\ r.seqnum_max \in Nat
      BY DEF Flash, Ram
    <3> QED
      BY <1>1, <1>6, <1>8, <3>1 DEF Running
  <2>2. ASSUME NEW i \in Waiting(r)
        PROVE  Later(r.queue[i], r)
    <3>1. r.queue[i] = s.queue[i + 1] /\ i + 1 \in Waiting(s)
      BY <1>2, <1>3
    <3>2. Later(s.queue[i + 1], s)
      BY <1>8, <3>1 DEF Running
    <3> QED
      BY <1>1, <1>4, <1>5, <3>1, <3>2 DEF Later
  <2>3. Running(r, f)
    BY <1>4, <1>8, <2>1, <2>2 DEF Running
  <2> QED
    BY <1>7, <2>3 DEF Phase
<1>9. ASSUME NEW k \in DOMAIN s.queue, Begun(s, f, k) \/ Restarting(s, f, k)
      PROVE  /\ k \in Waiting(s) /\ k \in Nat /\ k > 1 /\ s.seqnum_max = 0
             /\ a.op # "seqnum"
             /\ k - 1 \in Waiting(r) /\ k - 1 \in DOMAIN r.queue
             /\ r.queue[k - 1] = s.queue[k]
             /\ r.seqnum_max = s.seqnum_max
             /\ \A x \in Action : Later(x, s) => Later(x, r)
  <2>1. k \in Waiting(s) /\ s.seqnum_max = 0
    BY <1>9 DEF Begun, Restarting
  <2>2. a.op # "seqnum"
    <3>1. CASE Begun(s, f, k)
      BY <1>5, <3>1 DEF Begun
    <3>2. CASE Restarting(s, f, k)
      <4>1. k + 1 \in DOMAIN s.queue /\ s.queue[k + 1].op = "seqnum" /\ k + 1 # 1
        BY <1>3, <2>1, <3>2 DEF Restarting
      <4> QED
        BY <1>1, <4>1 DEF Own, OneBlock, a
    <3> QED
      BY <1>9, <3>1, <3>2
  <2>3. r.seqnum_max = s.seqnum_max
    BY <1>1, <2>2
  <2> QED
    BY <1>3, <1>4, <2>1, <2>2, <2>3 DEF Later
<1>10. ASSUME NEW k \in DOMAIN s.queue, Begun(s, f, k)
       PROVE  Phase(r, f)
  <2>1. ASSUME NEW i \in Waiting(r)
        PROVE  /\ i < k - 1 => r.queue[i].op = "other"
               /\ i >= k - 1 => Later(r.queue[i], r)
    <3>1. /\ i \in Nat /\ k \in Nat
          /\ i + 1 \in Waiting(s) /\ r.queue[i] = s.queue[i + 1]
          /\ s.queue[i + 1] \in Action
      BY <1>2, <1>3, <1>9, <1>10, QueueType
    <3>2. (i < k - 1 => i + 1 < k) /\ (i >= k - 1 => i + 1 >= k)
      BY <3>1
    <3>3. i + 1 < k => s.queue[i + 1].op = "other"
      BY <1>10, <3>1 DEF Begun
    <3>4. i + 1 >= k => Later(s.queue[i + 1], s)
      BY <1>10, <3>1 DEF Begun
    <3>5. Later(s.queue[i + 1], s) => Later(s.queue[i + 1], r)
      BY <1>9, <1>10, <3>1
    <3> QED
      BY <3>1, <3>2, <3>3, <3>4, <3>5
  <2>2. Begun(r, f, k - 1)
    BY <1>4, <1>9, <1>10, <2>1 DEF Begun
  <2> QED
    BY <1>9, <1>10, <2>2 DEF Phase
<1>11. ASSUME NEW k \in DOMAIN s.queue, Restarting(s, f, k)
       PROVE  Phase(r, f)
  <2>1. ASSUME NEW i \in Waiting(r)
        PROVE  /\ i < k - 1 /\ r.queue[i].op = "iv_index" =>
                    /\ r.queue[i].state = "in_progress" /\ Complete(f)
                    /\ TxIv(r.queue[i]) = TxIv(f)
               /\ i > k - 1 => Later(r.queue[i], r)
    <3>1. /\ i \in Nat /\ k \in Nat
          /\ i + 1 \in Waiting(s) /\ r.queue[i] = s.queue[i + 1]
          /\ s.queue[i + 1] \in Action
      BY <1>2, <1>3, <1>9, <1>11, QueueType
    <3>2. i < k - 1 => i + 1 < k
      BY <3>1
    <3>3. ASSUME i > k - 1
          PROVE  Later(r.queue[i], r)
      <4>1. Later(s.queue[i + 1], s)
        BY <1>11, <3>1, <3>3 DEF Restarting
      <4> QED
        BY <1>9, <1>11, <3>1, <4>1
    <3> QED
      BY <1>11, <3>1, <3>2, <3>3 DEF Restarting
  <2>2. (k - 1) + 1 = k /\ k \in DOMAIN r.queue /\ r.queue[k].op = "seqnum"
    <3>1. k \in Nat /\ k > 1 /\ k + 1 \in DOMAIN s.queue /\ s.queue[k + 1].op = "seqnum"
      BY <1>9, <1>11 DEF Restarting
    <3>2. k \in DOMAIN r.queue
      BY <1>1, <1>2, <3>1
    <3> QED
      BY <1>2, <3>1, <3>2
  <2>3. Restarting(r, f, k - 1)
    BY <1>4, <1>9, <1>11, <2>1, <2>2 DEF Restarting
  <2> QED
    BY <1>9, <1>11, <2>3 DEF Phase
<1> QED
  BY <1>7, <1>8, <1>10, <1>11 DEF Phase

\* A boot finds the flash in the phase it was in, and queues the block, or the
\* IV index and the block, that the phase is waiting for (network.c and
\* net_state.c:385-446).
LEMMA BootPhase ==
  ASSUME NEW f \in Flash, POOL_SIZE >= 14, BLOCK_SIZE <= SEQNUM_MAX + 1
  PROVE  Own(Recover(f)) /\ Phase(Recover(f), f)
<1> DEFINE m == IF Stale(f) THEN 0 ELSE f.seqnum
           t == [BlankRam EXCEPT !.iv = f.iv, !.state = f.state,
                                 !.seqnum = m, !.seqnum_max = m]
           v == FlashStoreIvIndex(BlankRam)
           b == SeqnumAction(BLOCK_SIZE)
<1>1. BlankRam \in Ram
  BY DEF BlankRam, Ram, IvStates
<1>2. m \in Nat
  BY DEF Flash
<1>3. Complete(f) => Recover(f) = SeqnumBlockAllocate(t)
  BY DEF Recover, Complete, Stale
<1>4. ~Complete(f) => Recover(f) = SeqnumBlockAllocate(v)
  BY DEF Recover, Complete
<1>5. b \in Action /\ b.op = "seqnum" /\ b.seqnum = BLOCK_SIZE
  BY ActionFields
<1> HIDE DEF m, b
<1>6. /\ t \in Ram /\ t.iv = f.iv /\ t.state = f.state
      /\ t.seqnum = m /\ t.seqnum_max = m /\ t.queue = <<>> /\ t.listeners = <<>>
      /\ t.allocating = FALSE /\ t.writing = FALSE
  <2>1. /\ BlankRam.allocating = FALSE /\ BlankRam.writing = FALSE
        /\ BlankRam.listeners = <<>> /\ BlankRam.queue = <<>>
    BY DEF BlankRam
  <2>2. f.iv \in Nat /\ f.state \in IvStates
    BY DEF Flash
  <2>3. /\ t \in Ram /\ t.iv = f.iv /\ t.state = f.state
        /\ t.seqnum = m /\ t.seqnum_max = m
        /\ t.queue = BlankRam.queue /\ t.listeners = BlankRam.listeners
        /\ t.allocating = BlankRam.allocating /\ t.writing = BlankRam.writing
    BY <1>1, <1>2, <2>2 DEF Ram
  <2> QED
    BY <2>1, <2>3
<1>7. /\ v \in Ram /\ v.iv = 0 /\ v.state = "normal" /\ v.seqnum = 0 /\ v.seqnum_max = 0
      /\ v.allocating = FALSE /\ v.writing = FALSE /\ v.listeners = <<>>
      /\ v.queue = <<IvAction(BlankRam)>>
  <2>1. /\ BlankRam.iv = 0 /\ BlankRam.state = "normal" /\ BlankRam.seqnum = 0
        /\ BlankRam.seqnum_max = 0 /\ BlankRam.allocating = FALSE
        /\ BlankRam.writing = FALSE /\ BlankRam.listeners = <<>> /\ BlankRam.queue = <<>>
    BY DEF BlankRam
  <2>2. Room(BlankRam, "iv_index")
    BY <1>1, <2>1, RoomEnough
  <2>3. v = Enqueue(BlankRam, IvAction(BlankRam))
    BY <2>2 DEF FlashStoreIvIndex
  <2>4. v.queue = Append(BlankRam.queue, IvAction(BlankRam))
          /\ v.listeners = BlankRam.listeners
    BY <1>1, <2>3 DEF Enqueue, Ram
  <2>5. v \in Ram
    BY <1>1, FlashStoreIvIndexType
  <2> QED
    BY <1>1, <2>1, <2>4, <2>5, FlashStoreIvIndexCases, ActionFields
<1> HIDE DEF t, v
<1>8. ASSUME NEW s \in Ram, Len(s.queue) <= 1, s.seqnum_max = 0, s.allocating = FALSE
      PROVE  LET u == SeqnumBlockAllocate(s) IN
             /\ u \in Ram /\ u.iv = s.iv /\ u.state = s.state /\ u.seqnum = s.seqnum
             /\ u.seqnum_max = 0 /\ u.allocating = TRUE /\ u.writing = s.writing
             /\ u.listeners = s.listeners /\ u.queue = Append(s.queue, b)
  <2> DEFINE e == Enqueue(s, b)
             u == [e EXCEPT !.allocating = TRUE]
  <2>1. s.seqnum_max + BLOCK_SIZE = BLOCK_SIZE
    BY <1>8
  <2>2. Room(s, "seqnum")
    BY <1>8, RoomEnough
  <2>3. SeqnumBlockAllocate(s) = u
    <3>1. ~(s.allocating \/ s.seqnum_max + BLOCK_SIZE > SEQNUM_MAX + 1)
      BY <1>8, <2>1
    <3>2. SeqnumAction(s.seqnum_max + BLOCK_SIZE) = b
      BY <2>1 DEF b
    <3> QED
      BY <2>2, <3>1, <3>2, Zenon DEF SeqnumBlockAllocate
  <2>4. e \in Ram
    BY <1>5, EnqueueType
  <2>5. /\ e.iv = s.iv /\ e.state = s.state /\ e.seqnum = s.seqnum
        /\ e.seqnum_max = s.seqnum_max /\ e.writing = s.writing
        /\ e.listeners = s.listeners /\ e.queue = Append(s.queue, b)
    BY DEF Enqueue, Ram
  <2> HIDE DEF e
  <2>6. /\ u.iv = e.iv /\ u.state = e.state /\ u.seqnum = e.seqnum
        /\ u.seqnum_max = e.seqnum_max /\ u.writing = e.writing
        /\ u.listeners = e.listeners /\ u.queue = e.queue /\ u.allocating = TRUE
    BY <2>4 DEF Ram
  <2>7. SeqnumBlockAllocate(s) \in Ram
    BY SeqnumBlockAllocateType
  <2> HIDE DEF u
  <2> QED
    BY <1>8, <2>3, <2>5, <2>6, <2>7
<1>9. CASE Complete(f) /\ ~Stale(f)
  <2>1. TxIv(t) = TxIv(f) /\ m = f.seqnum
    BY <1>6, <1>9 DEF TxIv, m
  <2>2. Own(t)
    BY <1>2, <1>6 DEF Own, OnlyOwnOps, OneBlock, NotAhead, PutOff, StoreWaits, NoReset
  <2>3. Running(t, f)
    BY <1>2, <1>6, <1>9, <2>1 DEF Running, Waiting
  <2>4. SeqnumBlockAllocate(t) \in Ram /\ Own(SeqnumBlockAllocate(t))
          /\ Grows(t, SeqnumBlockAllocate(t))
    BY <1>6, <2>2, SeqnumBlockAllocateType, SeqnumBlockAllocateGrows
  <2>5. Phase(t, f)
    BY <2>3 DEF Phase
  <2> QED
    BY <1>3, <1>6, <1>9, <2>2, <2>4, <2>5, GrowsPhase
<1>10. CASE Complete(f) /\ Stale(f)
  <2> DEFINE u == Recover(f)
  <2>1. m = 0 /\ f.state = "normal"
    BY <1>10 DEF m, Stale
  <2>2. Len(t.queue) <= 1
    BY <1>6
  <2>3. /\ u \in Ram /\ u.iv = f.iv /\ u.state = "normal" /\ u.seqnum = 0
        /\ u.seqnum_max = 0 /\ u.allocating = TRUE /\ u.writing = FALSE
        /\ u.listeners = <<>> /\ u.queue = <<b>>
    <3>1. u = SeqnumBlockAllocate(t) /\ t.seqnum_max = 0 /\ t.allocating = FALSE
      BY <1>3, <1>6, <1>10, <2>1
    <3> HIDE DEF u
    <3>2. /\ u \in Ram /\ u.iv = t.iv /\ u.state = t.state /\ u.seqnum = t.seqnum
          /\ u.seqnum_max = 0 /\ u.allocating = TRUE /\ u.writing = t.writing
          /\ u.listeners = t.listeners /\ u.queue = Append(t.queue, b)
      BY <1>6, <1>8, <2>2, <3>1
    <3>3. Append(<<>>, b) = <<b>>
      BY <1>5
    <3> QED
      BY <1>6, <2>1, <3>2, <3>3
  <2> HIDE DEF u
  <2>4. DOMAIN u.queue = {1} /\ u.queue[1] = b /\ Waiting(u) = {1}
    BY <2>3 DEF Waiting
  <2>5. Own(u)
    BY <1>5, <2>3, <2>4
       DEF Own, OnlyOwnOps, OneBlock, NotAhead, PutOff, StoreWaits, NoReset
  <2>6. Later(b, u) /\ TxIv(u) = f.iv
    BY <1>5, <2>3 DEF Later, TxIv
  <2>7. Begun(u, f, 1)
    BY <1>5, <1>10, <2>3, <2>4, <2>6 DEF Begun, Complete, Stale
  <2> QED
    BY <2>4, <2>5, <2>7 DEF Phase, u
<1>11. CASE ~Complete(f)
  <2> DEFINE u == Recover(f)
             a == IvAction(BlankRam)
  <2>1. a \in Action /\ a.op = "iv_index" /\ a.iv = 0 /\ a.state = "normal"
    BY <1>1, ActionFields DEF BlankRam
  <2> HIDE DEF a
  <2>2. Len(v.queue) <= 1
    BY <1>7
  <2>3. /\ u \in Ram /\ u.iv = 0 /\ u.state = "normal" /\ u.seqnum = 0
        /\ u.seqnum_max = 0 /\ u.allocating = TRUE /\ u.writing = FALSE
        /\ u.listeners = <<>> /\ u.queue = Append(<<a>>, b)
    <3>1. u = SeqnumBlockAllocate(v)
      BY <1>4, <1>11
    <3> HIDE DEF u
    <3>2. /\ u \in Ram /\ u.iv = v.iv /\ u.state = v.state /\ u.seqnum = v.seqnum
          /\ u.seqnum_max = 0 /\ u.allocating = TRUE /\ u.writing = v.writing
          /\ u.listeners = v.listeners /\ u.queue = Append(v.queue, b)
      BY <1>7, <1>8, <2>2, <3>1
    <3>3. v.queue = <<a>>
      BY <1>7, Zenon DEF a
    <3> QED
      BY <1>7, <3>2, <3>3
  <2> HIDE DEF u
  <2>4. DOMAIN u.queue = {1, 2} /\ u.queue[1] = a /\ u.queue[2] = b /\ Waiting(u) = {1, 2}
    <3>1. <<a>> \in Seq(Action) /\ Len(<<a>>) = 1 /\ <<a>>[1] = a
      BY <2>1
    <3>2. DOMAIN u.queue = 1..2 /\ u.queue[1] = a /\ u.queue[2] = b
      BY <1>5, <2>3, <3>1
    <3> QED
      BY <2>3, <3>2 DEF Waiting
  <2>5. TxIv(u) = 0 /\ TxIv(a) = 0
    BY <2>1, <2>3 DEF TxIv
  <2>6. Own(u)
    BY <1>5, <2>1, <2>3, <2>4, <2>5
       DEF Own, OnlyOwnOps, OneBlock, NotAhead, PutOff, StoreWaits, NoReset
  <2>7. Later(b, u)
    BY <1>5, <2>3 DEF Later
  <2>8. Restarting(u, f, 1)
    BY <1>5, <1>11, <2>1, <2>3, <2>4, <2>5, <2>7 DEF Restarting
  <2> QED
    BY <2>4, <2>6, <2>8 DEF Phase, u
<1> QED
  BY <1>9, <1>10, <1>11

-----------------------------------------------------------------------------
(* What the phases say of the pairs that were sent *)

\* A pair is before a state when its transmit IV index is lower, or the same
\* with a lower number.
LEMMA BeforeCases ==
  ASSUME NEW p \in Nat \X Nat, NEW s \in Ram, NEW r \in Ram, Before(p, s),
         TxIv(r) > TxIv(s) \/ (TxIv(r) = TxIv(s) /\ r.seqnum >= s.seqnum)
  PROVE  Before(p, r)
<1>1. p[1] \in Nat /\ p[2] \in Nat /\ TxIv(s) \in Int /\ TxIv(r) \in Int
        /\ s.seqnum \in Nat /\ r.seqnum \in Nat
  BY TxIvInt DEF Ram
<1> QED
  BY <1>1 DEF Before

\* While the node runs on the block in flash, a boot goes on behind that block.
LEMMA RunningCovers ==
  ASSUME NEW s \in Ram, NEW f \in Flash, NEW p \in Nat \X Nat,
         Running(s, f), s.seqnum <= s.seqnum_max, Before(p, s), IvPositive(f)
  PROVE  Before(p, Recover(f))
<1> DEFINE r == Recover(f)
<1>1. r \in Ram
  BY RecoverType
<1>2. r.iv = f.iv /\ r.state = f.state /\ r.seqnum = f.seqnum
  BY RecoverPoint DEF Running
<1> HIDE DEF r
<1>3. TxIv(r) = TxIv(s)
  BY <1>2 DEF Running, TxIv
<1>4. r.seqnum >= s.seqnum
  <2>1. f.seqnum \in Nat /\ s.seqnum \in Nat /\ s.seqnum_max \in Nat
    BY DEF Flash, Ram
  <2> QED
    BY <1>2, <2>1 DEF Running
<1> QED
  BY <1>1, <1>3, <1>4, BeforeCases DEF r

\* When the restart's IV index is all that is in flash, a boot starts over on an
\* index on which nothing was sent.
LEMMA BegunCovers ==
  ASSUME NEW s \in Ram, NEW f \in Flash, NEW p \in Nat \X Nat, NEW k,
         Begun(s, f, k), Complete(f), s.seqnum <= s.seqnum_max, Before(p, s)
  PROVE  Before(p, Recover(f))
<1> DEFINE r == Recover(f)
<1>1. r \in Ram
  BY RecoverType
<1>2. Stale(f)
  BY DEF Begun, Stale
<1>3. r.iv = f.iv /\ r.state = f.state /\ r.seqnum = 0
  BY <1>2, RecoverPoint
<1> HIDE DEF r
<1>4. TxIv(r) = TxIv(s)
  BY <1>3 DEF Begun, TxIv
<1>5. r.seqnum >= s.seqnum
  <2>1. s.seqnum_max = 0 /\ s.seqnum \in Nat
    BY DEF Begun, Ram
  <2> QED
    BY <1>3, <2>1
<1> QED
  BY <1>1, <1>4, <1>5, BeforeCases DEF r

\* While the flash is not complete nothing was sent.
LEMMA NothingSent ==
  ASSUME NEW f \in Flash, NEW p \in Nat \X Nat, Before(p, Recover(f)), ~Complete(f)
  PROVE  FALSE
<1>1. TxIv(Recover(f)) = 0 /\ Recover(f).seqnum = 0
  BY RecoverPoint DEF TxIv
<1>2. p[1] \in Nat /\ p[2] \in Nat
  OBVIOUS
<1> QED
  BY <1>1, <1>2 DEF Before

\* Where the point is the same the pairs before it are.
LEMMA SamePointCovers ==
  ASSUME NEW f \in Flash, NEW g \in Flash, NEW p \in Nat \X Nat,
         SamePoint(f, g), Before(p, Recover(f))
  PROVE  Before(p, Recover(g))
<1>1. /\ Recover(f).iv = f.iv /\ Recover(f).state = f.state /\ Recover(f).seqnum = f.seqnum
      /\ Recover(g).iv = g.iv /\ Recover(g).state = g.state /\ Recover(g).seqnum = g.seqnum
  BY RecoverPoint DEF SamePoint
<1>2. TxIv(Recover(f)) = TxIv(f) /\ TxIv(Recover(g)) = TxIv(g)
  BY <1>1 DEF TxIv
<1> QED
  BY <1>1, <1>2 DEF SamePoint, Before

-----------------------------------------------------------------------------
(* Steps *)

\* A step that leaves the flash alone keeps what recovery depends on, if a
\* restart of the numbers is in order.
LEMMA MovesKeeps ==
  ASSUME RInv, ram' \in Ram, UNCHANGED flash, Moves(ram, ram'),
         TxIv(ram') > TxIv(ram) => RestartsInOrder(ram')
  PROVE  Own(ram') /\ Phase(ram', flash')
<1>1. ram \in Ram /\ flash \in Flash /\ Own(ram) /\ Phase(ram, flash)
  BY DEF RInv, IInv, TypeOK
<1>2. CASE Grows(ram, ram') /\ Own(ram')
  BY <1>1, <1>2, GrowsPhase
<1>3. CASE Restarts(ram, ram')
  BY <1>1, <1>3, RestartsPhase DEF Restarts
<1> QED
  BY <1>2, <1>3 DEF Moves

\* The number that allocate_packet takes is below the block in flash.
LEMMA AllocateCovered ==
  ASSUME RInv, AllocatePacket
  PROVE  ResumesFresh'
<1>1. /\ ram \in Ram /\ flash \in Flash /\ spent \in Seq(Nat \X Nat)
      /\ Own(ram) /\ Phase(ram, flash) /\ IvPositive(ram) /\ IvPositive(flash)
  BY DEF RInv, IInv, TypeOK, Sound
<1>2. flash' = flash /\ ResumesFresh
  BY DEF AllocatePacket, RInv
<1>3. CASE spent' = spent
  BY <1>2, <1>3 DEF ResumesFresh
<1>4. CASE spent' # spent
  <2> DEFINE l == IvIndexLock(ram)
             p == <<TxIv(ram), ram.seqnum>>
  <2>1. l.seqnum = ram.seqnum /\ l.seqnum_max = ram.seqnum_max
    BY <1>1, LockQueues DEF Alike
  <2>2. ram.seqnum < ram.seqnum_max
    BY <1>4, <2>1 DEF AllocatePacket
  <2>3. spent' = Append(spent, p)
    BY <1>4, AllocateStep DEF RInv
  <2>4. ram.seqnum \in Nat /\ ram.seqnum_max \in Nat /\ TxIv(ram) \in Nat
    BY <1>1, TxIvType DEF Ram
  <2>5. Running(ram, flash)
    BY <1>1, <2>2, <2>4 DEF Phase, Begun, Restarting
  <2>6. Before(p, Recover(flash))
    <3>1. /\ Recover(flash).iv = flash.iv /\ Recover(flash).state = flash.state
          /\ Recover(flash).seqnum = flash.seqnum
      BY <1>1, <2>5, RecoverPoint DEF Running
    <3>2. TxIv(Recover(flash)) = TxIv(ram)
      BY <2>5, <3>1 DEF Running, TxIv
    <3>3. flash.seqnum > ram.seqnum
      BY <1>1, <2>2, <2>4, <2>5 DEF Running, Flash
    <3> QED
      BY <2>4, <3>1, <3>2, <3>3 DEF Before
  <2> HIDE DEF p, l
  <2>7. \A i \in DOMAIN spent' : Before(spent'[i], Recover(flash))
    <3>1. p \in Nat \X Nat
      BY <2>4 DEF p
    <3>2. \A i \in DOMAIN spent' : \/ spent'[i] = p
                                   \/ i \in DOMAIN spent /\ spent'[i] = spent[i]
      BY <1>1, <2>3, <3>1
    <3> QED
      BY <1>2, <2>6, <3>2 DEF ResumesFresh
  <2> QED
    BY <1>2, <2>7 DEF ResumesFresh
<1> QED
  BY <1>3, <1>4

\* The write of an action keeps what recovery depends on.
LEMMA WriteKeeps ==
  ASSUME RInv, FlashWrite, IInv', NextNonceFresh'
  PROVE  Own(ram') /\ Phase(ram', flash') /\ ResumesFresh'
<1>1. /\ ram \in Ram /\ flash \in Flash /\ spent \in Seq(Nat \X Nat)
      /\ Own(ram) /\ Phase(ram, flash) /\ ResumesFresh
  BY DEF RInv, IInv, TypeOK
<1>2. /\ ram' \in Ram /\ flash' \in Flash /\ IvPositive(flash') /\ spent' = spent
  BY DEF IInv, TypeOK, FlashWrite, IvPositive
<1>3. /\ Own(ram') /\ Phase(ram', flash')
      /\ \/ flash' = flash
         \/ Running(ram', flash')
         \/ SamePoint(flash, flash')
         \/ \E k \in DOMAIN ram'.queue :
              Begun(ram', flash', k) /\ (Complete(flash) => Complete(flash'))
  <2>1. /\ ram.queue # <<>> /\ ~ram.writing /\ ram' = [ram EXCEPT !.writing = TRUE]
        /\ flash' = Written(flash, Head(ram.queue))
    BY DEF FlashWrite
  <2> DEFINE t == [ram EXCEPT !.writing = TRUE]
             g == Written(flash, Head(ram.queue))
             Result(u, h) == /\ Own(u) /\ Phase(u, h)
                             /\ \/ h = flash
                                \/ Running(u, h)
                                \/ SamePoint(flash, h)
                                \/ \E k \in DOMAIN u.queue :
                                     Begun(u, h, k) /\ (Complete(flash) => Complete(h))
  <2>2. ram' = t /\ flash' = g /\ t \in Ram /\ g \in Flash
    BY <1>2, <2>1
  <2>3. \A u \in Ram, h \in Flash : u = t /\ h = g => Result(u, h)
    BY <1>1, <2>1, WritePhase, Zenon
  <2> HIDE DEF t, g
  <2>4. Result(ram', flash')
    BY <1>2, <2>2, <2>3
  <2> QED
    BY <2>4
<1>4. ASSUME NEW i \in DOMAIN spent
      PROVE  Before(spent[i], Recover(flash'))
  <2>1. /\ spent[i] \in Nat \X Nat /\ Before(spent[i], ram')
        /\ Before(spent[i], Recover(flash))
    BY <1>1, <1>2 DEF NextNonceFresh, ResumesFresh, Before, TxIv
  <2>2. ram'.seqnum <= ram'.seqnum_max
    BY <1>3 DEF Own
  <2>3. CASE flash' = flash
    BY <2>1, <2>3
  <2>4. CASE Running(ram', flash')
    BY <1>2, <2>1, <2>2, <2>4, RunningCovers
  <2>5. CASE SamePoint(flash, flash')
    BY <1>1, <1>2, <2>1, <2>5, SamePointCovers
  <2>6. ASSUME NEW k \in DOMAIN ram'.queue, Begun(ram', flash', k),
               Complete(flash) => Complete(flash')
        PROVE  Before(spent[i], Recover(flash'))
    <3>1. Complete(flash)
      BY <1>1, <2>1, NothingSent
    <3> QED
      BY <1>2, <2>1, <2>2, <2>6, <3>1, BegunCovers
  <2> QED
    BY <1>3, <2>3, <2>4, <2>5, <2>6
<1> QED
  BY <1>2, <1>3, <1>4 DEF ResumesFresh

\* The completion of an action, and the listeners it tells of the room, keep
\* what recovery depends on.
LEMMA DoneKeeps ==
  ASSUME RInv, FlashDone
  PROVE  Own(ram') /\ Phase(ram', flash')
<1> DEFINE a == Head(ram.queue)
           w == WriteComplete(ram, a)
           ls == ram.listeners
           r == [w EXCEPT !.queue = Tail(@), !.listeners = <<>>, !.writing = FALSE]
<1>1. /\ ram \in Ram /\ flash \in Flash /\ Own(ram) /\ Phase(ram, flash)
      /\ ram.queue # <<>> /\ ram.writing /\ flash' = flash
      /\ ram.queue \in Seq(Action) /\ a \in Action /\ Tail(ram.queue) \in Seq(Action)
  BY QueueType DEF RInv, IInv, TypeOK, FlashDone
<1>2. /\ w \in Ram /\ w.iv = ram.iv /\ w.state = ram.state /\ w.seqnum = ram.seqnum
      /\ w.queue = ram.queue /\ w.listeners = ls
      /\ a.op = "seqnum" => w.seqnum_max = a.seqnum /\ w.allocating = FALSE
      /\ a.op # "seqnum" => /\ w.seqnum_max = ram.seqnum_max
                            /\ w.allocating = ram.allocating
  <2>1. w \in Ram
    BY <1>1, WriteCompleteType
  <2> QED
    BY <1>1, <2>1 DEF WriteComplete, Ram
<1>3. ram' = FreePacketBuffer(w)
  BY DEF FlashDone
<1> HIDE DEF a, w
<1>4. /\ r \in Ram /\ r.iv = w.iv /\ r.state = w.state /\ r.seqnum = w.seqnum
      /\ r.seqnum_max = w.seqnum_max /\ r.allocating = w.allocating
      /\ r.queue = Tail(w.queue) /\ r.listeners = <<>> /\ r.writing = FALSE
  <2>1. <<>> \in Seq(Listeners) /\ Tail(w.queue) \in Seq(Action)
    BY <1>1, <1>2
  <2> QED
    BY <1>2, <2>1 DEF Ram
<1>5. ls \in Seq(Listeners)
  BY <1>1 DEF Ram
<1> DEFINE x == NotifyNth(r, ls, 1)
           y == NotifyNth(x, ls, 2)
           z == NotifyNth(y, ls, 3)
<1>6. ram' = z
  BY <1>2, <1>3 DEF FreePacketBuffer
<1>7. Own(r) /\ Phase(r, flash)
  <2> HIDE DEF r
  <2> QED
    BY <1>1, <1>2, <1>4, DonePhase DEF a
<1> HIDE DEF r
<1>8. \A i \in DOMAIN ls : /\ ls[i] # "net_state_reset"
                           /\ ls[i] = "flash_store_iv_index" => r.state = "in_progress"
  BY <1>1, <1>2, <1>4 DEF Own, NoReset, PutOff, StoreWaits
<1> HIDE DEF ls
<1>9. x \in Ram /\ Own(x) /\ Grows(r, x) /\ x.state = r.state
  BY <1>4, <1>5, <1>7, <1>8, NotifyGrows
<1> HIDE DEF x
<1>10. y \in Ram /\ Own(y) /\ Grows(x, y) /\ y.state = r.state
  BY <1>5, <1>8, <1>9, NotifyGrows
<1> HIDE DEF y
<1>11. z \in Ram /\ Own(z) /\ Grows(y, z)
  BY <1>5, <1>8, <1>10, NotifyGrows
<1> HIDE DEF z
<1>12. Phase(x, flash)
  BY <1>1, <1>4, <1>7, <1>9, GrowsPhase
<1>13. Phase(y, flash)
  BY <1>1, <1>9, <1>10, <1>12, GrowsPhase
<1>14. Phase(z, flash)
  BY <1>1, <1>10, <1>11, <1>13, GrowsPhase
<1> QED
  BY <1>1, <1>6, <1>11, <1>14

\* A boot keeps the invariant: the point at which it goes on was fresh already.
LEMMA BootKeeps ==
  ASSUME POOL_SIZE >= 14, BLOCK_SIZE <= SEQNUM_MAX + 1, RInv, PowerCycle
  PROVE  RInv'
<1>1. IInv'
  BY StepSound DEF RInv, Next
<1>2. ram' = Recover(flash) /\ flash' = flash /\ spent' = spent /\ flash \in Flash
  BY DEF PowerCycle, RInv, IInv, TypeOK
<1>3. Own(ram') /\ Phase(ram', flash')
  BY <1>2, BootPhase
<1>4. NextNonceFresh' /\ ResumesFresh'
  BY <1>2 DEF RInv, ResumesFresh, NextNonceFresh, Before, TxIv
<1>5. Own(ram)' /\ Phase(ram, flash)'
  BY <1>3 DEF Own, OnlyOwnOps, OneBlock, NotAhead, PutOff, StoreWaits, NoReset, Room,
              Used, HEADER_WORDS, DataWords, TxIv,
              Phase, Running, Begun, Restarting, Waiting, Later, Complete, Stale
<1> QED
  BY <1>1, <1>4, <1>5 DEF RInv

\* The steps that leave the flash alone, send nothing and end no action.
Calls ==
  \/ LockIvIndex \/ UnlockIvIndex
  \/ StartIvUpdate
  \/ \E on \in BOOLEAN : SetTestMode(on)
  \/ \E i \in BeaconIvIndexes, u \in BOOLEAN : BeaconReceived(i, u)
  \/ Minute
  \/ OtherFlashUser

\* A call leaves the queue as it is, extends it, or starts the numbers over.
LEMMA CallsMove ==
  ASSUME RInv, Calls
  PROVE  Moves(ram, ram') /\ UNCHANGED <<flash, spent>>
<1>1. ram \in Ram /\ Own(ram) /\ Alike(ram, ram)
  BY DEF RInv, IInv, TypeOK, Alike
<1>2. Moves(ram, ram)
  BY <1>1, StandsStill
<1>3. CASE LockIvIndex
  <2>1. IvIndexLock(ram) \in Ram
    BY <1>1, LockTypes
  <2>2. Moves(ram, IvIndexLock(ram))
    BY <1>1, <1>2, <2>1, LockQueues, AlikeMoves
  <2> QED
    BY <1>3, <2>2 DEF LockIvIndex
<1>4. CASE UnlockIvIndex
  BY <1>1, <1>4, LockQueues DEF UnlockIvIndex
<1>5. CASE StartIvUpdate
  BY <1>1, <1>5, IvUpdateStartQueues DEF StartIvUpdate
<1>6. ASSUME NEW on \in BOOLEAN, SetTestMode(on)
      PROVE  Moves(ram, ram') /\ UNCHANGED <<flash, spent>>
  <2> DEFINE t == [ram EXCEPT !.test_mode = on]
  <2>1. t \in Ram /\ Alike(ram, t)
    BY <1>1 DEF Ram, Alike
  <2> HIDE DEF t
  <2>2. Moves(ram, t)
    BY <1>1, <1>2, <2>1, AlikeMoves
  <2> QED
    BY <1>6, <2>2 DEF SetTestMode, t
<1>7. ASSUME NEW i \in BeaconIvIndexes, NEW u \in BOOLEAN, BeaconReceived(i, u)
      PROVE  Moves(ram, ram') /\ UNCHANGED <<flash, spent>>
  <2>1. i \in Nat
    OBVIOUS
  <2>2. Moves(ram, Beacon(ram, i, u))
    BY <1>1, <2>1, BeaconQueues
  <2> QED
    BY <1>7, <2>2 DEF BeaconReceived
<1>8. CASE Minute
  BY <1>1, <1>8, TimerHandlerQueues DEF Minute
<1>9. CASE OtherFlashUser
  <2> DEFINE a == OpAction("other")
  <2>1. a \in Action /\ a.op = "other"
    BY ActionTypes DEF OpAction, Ops
  <2>2. Later(a, ram)
    BY <2>1 DEF Later
  <2> HIDE DEF a
  <2>3. Grows(ram, Enqueue(ram, a)) /\ Own(Enqueue(ram, a))
    BY <1>1, <2>1, <2>2, EnqueueGrows
  <2> QED
    BY <1>9, <2>3 DEF OtherFlashUser, Moves, a
<1> QED
  BY <1>3, <1>4, <1>5, <1>6, <1>7, <1>8, <1>9 DEF Calls

\* Every step of a powered node keeps the invariant, if a restart of the numbers
\* is in order.
LEMMA OperateKeeps ==
  ASSUME RInv, Operate, TxIv(ram') > TxIv(ram) => RestartsInOrder(ram')
  PROVE  RInv'
<1>1. IInv /\ NoReset(ram) /\ NextNonceFresh /\ Own(ram)
  BY DEF RInv, Own
<1>2. IInv' /\ NextNonceFresh'
  BY <1>1, PoweredStep DEF PoweredNext
<1>3. ram' \in Ram
  BY <1>2 DEF IInv, TypeOK
<1>4. ASSUME UNCHANGED <<flash, spent>>
      PROVE  ResumesFresh'
  BY <1>4 DEF RInv, ResumesFresh
<1>5. Own(ram') /\ Phase(ram', flash') /\ ResumesFresh'
  <2>1. CASE AllocatePacket
    <3>1. Moves(ram, ram') /\ UNCHANGED flash
      BY <1>1, <2>1, AllocateQueues DEF AllocatePacket
    <3> QED
      BY <1>3, <2>1, <3>1, MovesKeeps, AllocateCovered
  <2>2. CASE FlashWrite
    BY <1>2, <2>2, WriteKeeps
  <2>3. CASE FlashDone
    BY <1>4, <2>3, DoneKeeps DEF FlashDone
  <2>4. CASE Calls
    BY <1>3, <1>4, <2>4, CallsMove, MovesKeeps
  <2> QED
    BY <2>1, <2>2, <2>3, <2>4 DEF Operate, Calls
<1> QED
  BY <1>2, <1>5 DEF RInv

\* The node comes out of its first boot with nothing sent.
LEMMA InitResumes ==
  ASSUME POOL_SIZE >= 14, BLOCK_SIZE <= SEQNUM_MAX + 1, Init
  PROVE  RInv
<1>1. IInv /\ NextNonceFresh
  BY InitSound
<1>2. ram = Recover(flash) /\ flash \in Flash /\ ResumesFresh
  BY <1>1 DEF Init, IInv, TypeOK, ResumesFresh
<1> QED
  BY <1>1, <1>2, BootPhase DEF RInv

\* A power cycle never makes the node send a pair of IV index and sequence number
\* a second time, at whatever point the power fails, for every size of the
\* blocks, the thresholds and the queue, when every restart of the numbers
\* reaches the queue in the order net_state.c:377-381 counts on.  The queue has
\* room for the two entries of a first boot, or the boot itself would wait.
THEOREM ResumesFreshAlways ==
  ASSUME POOL_SIZE >= 14, BLOCK_SIZE <= SEQNUM_MAX + 1
  PROVE  OrderedSpec => []ResumesFresh
<1>1. Init => RInv
  BY InitResumes
<1>2. RInv /\ [OrderedNext]_vars => RInv'
  <2> SUFFICES ASSUME RInv, [OrderedNext]_vars
               PROVE  RInv'
    OBVIOUS
  <2>1. CASE Operate /\ (TxIv(ram') > TxIv(ram) => RestartsInOrder(ram'))
    BY <2>1, OperateKeeps
  <2>2. CASE PowerCycle
    BY <2>2, BootKeeps
  <2>3. CASE UNCHANGED vars
    <3>1. IInv' /\ NextNonceFresh' /\ ResumesFresh'
      BY <2>3 DEF vars, RInv, IInv, TypeOK, IvPositive, Sound, NextNonceFresh,
                  ResumesFresh, Before, TxIv
    <3>2. Own(ram') /\ Phase(ram', flash')
      BY <2>3 DEF vars, RInv
    <3> QED
      BY <3>1, <3>2 DEF RInv
  <2> QED
    BY <2>1, <2>2, <2>3 DEF OrderedNext
<1>3. RInv => ResumesFresh
  BY DEF RInv
<1> QED
  BY <1>1, <1>2, <1>3, PTL DEF OrderedSpec
=============================================================================
