------------------------- MODULE PacketBufferProofs -------------------------
(***************************************************************************)
(* The packet buffer keeps its packets apart, in order and without leaks,  *)
(* and implements the queue, for pools and packets of any size.            *)
(*                                                                         *)
(* All is measured from the tail: D is the set of distances at which a     *)
(* packet begins, with the distance e of the head in it.  Packed says that *)
(* each packet reaches exactly to the next, without wrapping, Marked that  *)
(* the slot behind the last is marked free, and Viewed that users hold the *)
(* packets that are not skipped, in the order of D.  No field of the code  *)
(* holds D: it is what its headers imply, and RingInv says there is one.   *)
(*                                                                         *)
(* The loops of the code are recursive functions on the number of rounds,  *)
(* and what they keep is shown with the least round that would not.        *)
(***************************************************************************)
EXTENDS PacketBuffer, FiniteSetTheorems, WellFoundedInduction, TLAPS

\* Every set of numbers that is not empty has a least one.
LEMMA LeastNumber ==
  ASSUME NEW T \in SUBSET Nat, T # {}
  PROVE  \E x \in T : \A y \in T : x <= y
<1>1. \E x \in T : \A y \in T : ~(<<y, x>> \in OpToRel(<, Nat))  BY NatLessThanWellFounded, WFMin
<1>2. PICK x \in T : \A y \in T : ~(<<y, x>> \in OpToRel(<, Nat)) BY <1>1
<1>3. ASSUME NEW y \in T PROVE x <= y
  <2>1. ~(<<y, x>> \in OpToRel(<, Nat)) BY <1>2
  <2>2. ~ (y < x) BY <2>1 DEF OpToRel
  <2> QED BY <2>2
<1> QED BY <1>3

-----------------------------------------------------------------------------
(* The loops *)

\* The loop of free_skipped_packets has a run of any length.
LEMMA SkipRuns ==
  ASSUME NEW b, NEW m \in Nat
  PROVE  \E f : f = [n \in 0..m |-> IF n = 0 THEN b ELSE SkipOnce(f[n - 1])]
<1> DEFINE Runs(k) == \E f : f = [n \in 0..k |-> IF n = 0 THEN b ELSE SkipOnce(f[n - 1])]
           T == {k \in Nat : ~Runs(k)}
<1>1. ASSUME T # {} PROVE FALSE
  <2>1. PICK k \in T : \A j \in T : k <= j
    <3> HIDE DEF Runs
    <3> QED BY <1>1, LeastNumber
  <2>2. CASE k = 0
    <3> DEFINE f == [n \in 0..k |-> b]
    <3>1. f = [n \in 0..k |-> IF n = 0 THEN b ELSE SkipOnce(f[n - 1])] BY <2>2
    <3>2. Runs(k) BY <3>1
    <3> QED BY <3>2
  <2>3. CASE k # 0
    <3>1. k \in Nat /\ k - 1 \in Nat /\ k - 1 < k BY <2>3
    <3>2. Runs(k - 1)
      <4> HIDE DEF Runs
      <4>1. k - 1 \notin T BY <2>1, <3>1
      <4> QED BY <3>1, <4>1
    <3>3. PICK g : g = [n \in 0..(k - 1) |-> IF n = 0 THEN b ELSE SkipOnce(g[n - 1])] BY <3>2
    <3> DEFINE f == [n \in 0..k |-> IF n = k THEN SkipOnce(g[k - 1]) ELSE g[n]]
    <3>4. f = [n \in 0..k |-> IF n = 0 THEN b ELSE SkipOnce(f[n - 1])]
      <4>1. ASSUME NEW n \in 0..k PROVE f[n] = IF n = 0 THEN b ELSE SkipOnce(f[n - 1])
        <5>1. CASE n = k
          <6>1. n # 0 /\ n - 1 \in 0..k /\ n - 1 # k BY <2>3, <3>1, <5>1
          <6>2. f[n - 1] = g[k - 1] BY <5>1, <6>1
          <6> QED BY <5>1, <6>1, <6>2
        <5>2. CASE n # k /\ n = 0
          <6>1. n \in 0..(k - 1) BY <3>1, <5>2
          <6>2. g[n] = b BY <3>3, <5>2, <6>1
          <6> QED BY <5>2, <6>2
        <5>3. CASE n # k /\ n # 0
          <6>1. n \in 0..(k - 1) /\ n - 1 \in 0..k /\ n - 1 # k BY <3>1, <5>3
          <6>2. g[n] = SkipOnce(g[n - 1]) BY <3>3, <5>3, <6>1
          <6>3. f[n - 1] = g[n - 1] BY <6>1
          <6> QED BY <5>3, <6>2, <6>3
        <5> QED BY <5>1, <5>2, <5>3
      <4> QED BY <4>1
    <3>5. Runs(k) BY <3>4
    <3> QED BY <3>5
  <2> QED BY <2>2, <2>3
<1>2. Runs(m)
  <2> HIDE DEF Runs
  <2> QED BY <1>1
<1> QED BY <1>2

\* FreeSkipped is the end of a run.
LEMMA SkipRun ==
  ASSUME NEW b
  PROVE  \E f : /\ f = [n \in 0..SIZE |-> IF n = 0 THEN b ELSE SkipOnce(f[n - 1])]
               /\ FreeSkipped(b) = f[SIZE]
<1> DEFINE Run(f) == f = [n \in 0..SIZE |-> IF n = 0 THEN b ELSE SkipOnce(f[n - 1])]
           c == CHOOSE f : Run(f)
<1>1. \E f : Run(f) BY SkipRuns, BufferAssumption, Zenon DEF BufferAssumption
<1>2. FreeSkipped(b) = c[SIZE] BY DEF FreeSkipped
<1>3. Run(c) 
  <2> HIDE DEF Run
  <2> QED BY <1>1
<1> QED BY <1>2, <1>3
\* The loop of packet_buffer_flush has a run of any length.
LEMMA FlushRuns ==
  ASSUME NEW b, NEW m \in Nat
  PROVE  \E f : f = [n \in 0..m |-> IF n = 0 THEN b ELSE FlushOnce(f[n - 1])]
<1> DEFINE Runs(k) == \E f : f = [n \in 0..k |-> IF n = 0 THEN b ELSE FlushOnce(f[n - 1])]
           T == {k \in Nat : ~Runs(k)}
<1>1. ASSUME T # {} PROVE FALSE
  <2>1. PICK k \in T : \A j \in T : k <= j
    <3> HIDE DEF Runs
    <3> QED BY <1>1, LeastNumber
  <2>2. CASE k = 0
    <3> DEFINE f == [n \in 0..k |-> b]
    <3>1. f = [n \in 0..k |-> IF n = 0 THEN b ELSE FlushOnce(f[n - 1])] BY <2>2
    <3>2. Runs(k) BY <3>1
    <3> QED BY <3>2
  <2>3. CASE k # 0
    <3>1. k \in Nat /\ k - 1 \in Nat /\ k - 1 < k BY <2>3
    <3>2. Runs(k - 1)
      <4> HIDE DEF Runs
      <4>1. k - 1 \notin T BY <2>1, <3>1
      <4> QED BY <3>1, <4>1
    <3>3. PICK g : g = [n \in 0..(k - 1) |-> IF n = 0 THEN b ELSE FlushOnce(g[n - 1])] BY <3>2
    <3> DEFINE f == [n \in 0..k |-> IF n = k THEN FlushOnce(g[k - 1]) ELSE g[n]]
    <3>4. f = [n \in 0..k |-> IF n = 0 THEN b ELSE FlushOnce(f[n - 1])]
      <4>1. ASSUME NEW n \in 0..k PROVE f[n] = IF n = 0 THEN b ELSE FlushOnce(f[n - 1])
        <5>1. CASE n = k
          <6>1. n # 0 /\ n - 1 \in 0..k /\ n - 1 # k BY <2>3, <3>1, <5>1
          <6>2. f[n - 1] = g[k - 1] BY <5>1, <6>1
          <6> QED BY <5>1, <6>1, <6>2
        <5>2. CASE n # k /\ n = 0
          <6>1. n \in 0..(k - 1) BY <3>1, <5>2
          <6>2. g[n] = b BY <3>3, <5>2, <6>1
          <6> QED BY <5>2, <6>2
        <5>3. CASE n # k /\ n # 0
          <6>1. n \in 0..(k - 1) /\ n - 1 \in 0..k /\ n - 1 # k BY <3>1, <5>3
          <6>2. g[n] = FlushOnce(g[n - 1]) BY <3>3, <5>3, <6>1
          <6>3. f[n - 1] = g[n - 1] BY <6>1
          <6> QED BY <5>3, <6>2, <6>3
        <5> QED BY <5>1, <5>2, <5>3
      <4> QED BY <4>1
    <3>5. Runs(k) BY <3>4
    <3> QED BY <3>5
  <2> QED BY <2>2, <2>3
<1>2. Runs(m)
  <2> HIDE DEF Runs
  <2> QED BY <1>1
<1> QED BY <1>2

\* FlushedFrom is the end of a run.
LEMMA FlushRun ==
  ASSUME NEW b, NEW at
  PROVE  \E f : /\ f = [n \in 0..SIZE |-> IF n = 0 THEN [at |-> at, b |-> b] ELSE FlushOnce(f[n - 1])]
               /\ FlushedFrom(b, at) = f[SIZE].b
<1> DEFINE Run(f) == f = [n \in 0..SIZE |-> IF n = 0 THEN [at |-> at, b |-> b] ELSE FlushOnce(f[n - 1])]
           c == CHOOSE f : Run(f)
<1>1. \E f : Run(f) BY FlushRuns, BufferAssumption, Zenon DEF BufferAssumption
<1>2. FlushedFrom(b, at) = c[SIZE].b BY DEF FlushedFrom
<1>3. Run(c) 
  <2> HIDE DEF Run
  <2> QED BY <1>1
<1> QED BY <1>2, <1>3

-----------------------------------------------------------------------------
(* The packets in the ring *)

\* The place that is x words behind the tail t, and how far behind it a place is.
Place(t, x) == IF t + x < SIZE THEN t + x ELSE t + x - SIZE

Behind(t, at) == IF at >= t THEN at - t ELSE at + SIZE - t

Held == {"reserved", "committed", "popped"}

Lives == [at : Words, len : Nat, state : Held]

\* The packet x words behind the tail reaches up to the next one, does not wrap,
\* and has a header that is in use; only the first one may be popped.
Sound(b, D, x) ==
  LET at == Place(b.tail, x)
      up == x + b.mem[at].size + 1
  IN /\ up \in D /\ \A y \in D : y <= x \/ y >= up
     /\ at + b.mem[at].size + 1 <= SIZE
     /\ State(b, at) \in Held \cup {"skipped"}
     /\ State(b, at) = "popped" => x = 0

\* The packets begin at D, and the head is e words behind the tail.
Packed(b, D, e) ==
  /\ b \in Buffers /\ e \in 0..SIZE
  /\ D \in SUBSET (0..e) /\ 0 \in D /\ e \in D
  /\ b.head = Place(b.tail, e)
  /\ \A x \in D \ {e} : Sound(b, D, x)

\* A slot that is not taken is marked free.
Marked(b, e) == e < SIZE => State(b, b.head) = "free"

\* The users hold the packets that are not skipped, in the order of the ring.
Viewed(b, D, e, l) ==
  /\ l \in Seq(Lives)
  /\ \A i \in DOMAIN l : /\ Behind(b.tail, l[i].at) \in D \ {e}
                         /\ l[i].state = State(b, l[i].at)
  /\ \A x \in D \ {e} : \/ State(b, Place(b.tail, x)) = "skipped"
                        \/ \E i \in DOMAIN l : l[i].at = Place(b.tail, x)
  /\ \A i, j \in DOMAIN l : i < j => Behind(b.tail, l[i].at) < Behind(b.tail, l[j].at)

InRing(b, D, e, l) == Packed(b, D, e) /\ Marked(b, e) /\ Viewed(b, D, e, l)

Ringed(b, l) == \E D \in SUBSET (0..SIZE), e \in 0..SIZE : InRing(b, D, e, l)

-----------------------------------------------------------------------------
(* Places *)

\* Places and how far behind the tail they are.
LEMMA Places ==
  ASSUME NEW t \in Words
  PROVE  /\ \A x \in 0..SIZE : Place(t, x) \in Words
         /\ \A x \in 0..(SIZE - 1) : Behind(t, Place(t, x)) = x
         /\ \A at \in Words : Behind(t, at) \in 0..(SIZE - 1) /\ Place(t, Behind(t, at)) = at
         /\ Place(t, 0) = t /\ Place(t, SIZE) = t /\ Behind(t, t) = 0
<1>1. SIZE \in Nat /\ SIZE > 1 /\ t \in 0..(SIZE - 1) BY BufferAssumption DEF BufferAssumption, Words
<1> QED BY <1>1 DEF Place, Behind, Words

\* Two places are the same only if they are equally far, or a whole round apart.
LEMMA PlacesDiffer ==
  ASSUME NEW t \in Words, NEW x \in 0..SIZE, NEW y \in 0..SIZE, Place(t, x) = Place(t, y)
  PROVE  x = y \/ (x = 0 /\ y = SIZE) \/ (x = SIZE /\ y = 0)
<1>1. SIZE \in Nat /\ SIZE > 1 /\ t \in 0..(SIZE - 1) BY BufferAssumption DEF BufferAssumption, Words
<1> QED BY <1>1 DEF Place

\* A step within the ring.
LEMMA PlaceSteps ==
  ASSUME NEW t \in Words, NEW x \in 0..(SIZE - 1), NEW n \in Nat, n > 0, x + n <= SIZE, Place(t, x) + n <= SIZE
  PROVE  Wrapped(Place(t, x) + n) = Place(t, x + n)
<1>1. SIZE \in Nat /\ SIZE > 1 /\ t \in 0..(SIZE - 1) BY BufferAssumption DEF BufferAssumption, Words
<1> QED BY <1>1 DEF Place, Wrapped

\* The fields of a buffer.
LEMMA BufferFields ==
  ASSUME NEW b \in Buffers
  PROVE  /\ b.head \in Words /\ b.tail \in Words /\ b.mem \in [Words -> Cells]
         /\ \A at \in Words : b.mem[at].size \in Nat /\ State(b, at) = b.mem[at].state
         /\ SIZE \in Nat /\ SIZE > 1 /\ Words = 0..(SIZE - 1)
<1>1. b.head \in Words /\ b.tail \in Words /\ b.mem \in [Words -> Cells] BY DEF Buffers
<1>2. SIZE \in Nat /\ SIZE > 1 /\ Words = 0..(SIZE - 1) BY BufferAssumption DEF BufferAssumption, Words
<1>3. \A at \in Words : b.mem[at].size \in Nat /\ State(b, at) = b.mem[at].state
  BY <1>1 DEF Cells, State
<1> QED BY <1>1, <1>2, <1>3

\* What is known of a packet in the ring.
LEMMA PacketFacts ==
  ASSUME NEW b, NEW D, NEW e, Packed(b, D, e), NEW x \in D, x # e
  PROVE  LET at == Place(b.tail, x)
             up == x + b.mem[at].size + 1
         IN /\ x \in 0..(SIZE - 1) /\ x < e /\ at \in Words /\ b.mem[at].size \in Nat
            /\ up \in D /\ up <= e /\ x < up /\ at + b.mem[at].size + 1 <= SIZE
            /\ NextPacket(b, at) = Place(b.tail, up)
            /\ NextPacket(b, at) = b.head <=> up = e
            /\ Behind(b.tail, at) = x
            /\ at = b.head => x = 0 /\ e = SIZE
            /\ at = b.tail <=> x = 0
<1> DEFINE at == Place(b.tail, x)
           s == b.mem[at].size
           up == x + s + 1
<1>1. b \in Buffers /\ e \in 0..SIZE /\ D \in SUBSET (0..e) /\ b.head = Place(b.tail, e) /\ Sound(b, D, x)
  BY DEF Packed
<1>2. b.tail \in Words /\ SIZE \in Nat /\ SIZE > 1 /\ Words = 0..(SIZE - 1) BY <1>1, BufferFields
<1>3. x \in 0..(SIZE - 1) /\ x < e BY <1>1, <1>2
<1>4. at \in Words /\ Behind(b.tail, at) = x
  <2>1. x \in 0..SIZE BY <1>2, <1>3
  <2>2. at \in Words BY <1>2, <2>1, Places
  <2>3. Behind(b.tail, Place(b.tail, x)) = x BY <1>2, <1>3, Places
  <2> QED BY <2>2, <2>3
<1>5. s \in Nat BY <1>1, <1>4, BufferFields
<1>6. up \in D /\ at + s + 1 <= SIZE BY <1>1 DEF Sound
<1>7. up <= e /\ x < up /\ up \in 0..SIZE BY <1>1, <1>2, <1>3, <1>5, <1>6
<1> HIDE DEF at
<1>8. NextPacket(b, at) = Place(b.tail, up)
  <2>1. Wrapped(at + (s + 1)) = Place(b.tail, x + (s + 1))
    <3> HIDE DEF s
    <3>1. s + 1 \in Nat /\ s + 1 > 0 /\ x + (s + 1) <= SIZE /\ at + (s + 1) <= SIZE
      BY <1>2, <1>3, <1>4, <1>5, <1>6, <1>7
    <3> QED BY <1>2, <1>3, <3>1, PlaceSteps DEF at
  <2>2. at + (s + 1) = at + s + 1 /\ x + (s + 1) = up BY <1>2, <1>3, <1>4, <1>5
  <2> QED BY <2>1, <2>2 DEF NextPacket
<1>9. NextPacket(b, at) = b.head => up = e
  BY <1>1, <1>2, <1>3, <1>7, <1>8, PlacesDiffer
<1>10. at = b.head => x = 0 /\ e = SIZE
  BY <1>1, <1>2, <1>3, PlacesDiffer DEF at
<1>11. at = b.tail <=> x = 0
  <2>1. Behind(b.tail, b.tail) = 0 /\ Place(b.tail, 0) = b.tail BY <1>2, Places
  <2> QED BY <1>4, <2>1 DEF at
<1> QED BY <1>1, <1>3, <1>4, <1>5, <1>6, <1>7, <1>8, <1>9, <1>10, <1>11 DEF at

\* The packets that users hold.
LEMMA LiveFields ==
  ASSUME NEW l \in Seq(Lives), NEW i \in DOMAIN l
  PROVE  l[i] \in Lives /\ l[i].at \in Words /\ l[i].len \in Nat /\ l[i].state \in Held
<1>1. l[i] \in Lives OBVIOUS
<1> QED BY <1>1 DEF Lives

\* The buffer c is b with the header at one place in another state.
IsSetTo(c, b, at, st) ==
  /\ c \in Buffers /\ c.head = b.head /\ c.tail = b.tail
  /\ \A p \in Words : /\ c.mem[p].size = b.mem[p].size
                      /\ State(c, p) = IF p = at THEN st ELSE State(b, p)
                      /\ p # at => c.mem[p] = b.mem[p]

\* One header is set to another state.
LEMMA SettingState ==
  ASSUME NEW b \in Buffers, NEW at \in Words,
         NEW st \in {"free", "data", "skipped", "reserved", "committed", "popped"}
  PROVE  IsSetTo(SetState(b, at, st), b, at, st)
<1> DEFINE c == SetState(b, at, st)
           cell == [b.mem[at] EXCEPT !.state = st]
<1>1. b.mem \in [Words -> Cells] BY BufferFields
<1>2. c.head = b.head /\ c.tail = b.tail /\ c.mem = [b.mem EXCEPT ![at] = cell]
      /\ c = [b EXCEPT !.mem = c.mem]
  BY DEF SetState, Buffers
<1>3. cell \in Cells /\ cell.size = b.mem[at].size /\ cell.state = st BY <1>1 DEF Cells
<1> HIDE DEF cell, c
<1>4. c.mem \in [Words -> Cells] BY <1>1, <1>2, <1>3
<1>5. c \in Buffers BY <1>2, <1>4 DEF Buffers
<1>6. \A p \in Words : c.mem[p] = IF p = at THEN cell ELSE b.mem[p] BY <1>1, <1>2
<1>7. \A p \in Words : /\ c.mem[p].size = b.mem[p].size
                       /\ State(c, p) = IF p = at THEN st ELSE State(b, p)
                       /\ p # at => c.mem[p] = b.mem[p]
  <2> SUFFICES ASSUME NEW p \in Words
               PROVE  /\ c.mem[p].size = b.mem[p].size
                      /\ State(c, p) = IF p = at THEN st ELSE State(b, p)
                      /\ p # at => c.mem[p] = b.mem[p]
    OBVIOUS
  <2>1. CASE p = at BY <1>3, <1>6, <2>1 DEF State
  <2>2. CASE p # at
    <3>1. c.mem[p] = b.mem[p] BY <1>6, <2>2
    <3> QED BY <2>2, <3>1 DEF State
  <2> QED BY <2>1, <2>2
<1>8. IsSetTo(c, b, at, st) BY <1>2, <1>5, <1>7 DEF IsSetTo
<1> QED BY <1>8 DEF c

\* The buffer c is b with one word marked free.
IsSetFree(c, b, at) ==
  /\ c \in Buffers /\ c.head = b.head /\ c.tail = b.tail
  /\ c.mem = [b.mem EXCEPT ![at] = FreeCell] /\ State(c, at) = "free"
  /\ \A p \in Words : p # at => c.mem[p] = b.mem[p]

\* One word is marked free.
LEMMA SettingFree ==
  ASSUME NEW b \in Buffers, NEW at \in Words
  PROVE  IsSetFree(SetFree(b, at), b, at)
<1> DEFINE c == SetFree(b, at)
<1>1. b.mem \in [Words -> Cells] /\ FreeCell \in Cells BY BufferFields DEF FreeCell, Cells
<1>2. c.head = b.head /\ c.tail = b.tail /\ c.mem = [b.mem EXCEPT ![at] = FreeCell]
      /\ c = [b EXCEPT !.mem = c.mem]
  BY DEF SetFree, Buffers
<1> HIDE DEF c
<1>3. c.mem \in [Words -> Cells] BY <1>1, <1>2
<1>4. c \in Buffers BY <1>2, <1>3 DEF Buffers
<1>5. State(c, at) = "free" BY <1>1, <1>2 DEF State, FreeCell
<1>6. \A p \in Words : p # at => c.mem[p] = b.mem[p] BY <1>1, <1>2
<1>7. IsSetFree(c, b, at) BY <1>2, <1>4, <1>5, <1>6 DEF IsSetFree
<1> QED BY <1>7 DEF c

-----------------------------------------------------------------------------
(* What is left of a sequence *)

OrderOf(f, S) ==
  /\ f \in [1..Cardinality(S) -> S]
  /\ \A k, l \in DOMAIN f : k < l => f[k] < f[l]
  /\ \A x \in S : \E k \in DOMAIN f : f[k] = x

\* The numbers of a finite set have an order: the least one comes first.
LEMMA OrdersExist ==
  ASSUME NEW m \in Nat
  PROVE  \A S \in SUBSET Nat : IsFiniteSet(S) /\ Cardinality(S) = m => \E f : OrderOf(f, S)
<1> DEFINE Ordered(n) == \A S \in SUBSET Nat : IsFiniteSet(S) /\ Cardinality(S) = n => \E f : OrderOf(f, S)
           T == {n \in Nat : ~Ordered(n)}
<1>1. ASSUME T # {} PROVE FALSE
  <2>1. PICK n \in T : \A j \in T : n <= j
    <3> HIDE DEF Ordered
    <3> QED BY <1>1, LeastNumber
  <2>2. PICK S \in SUBSET Nat : IsFiniteSet(S) /\ Cardinality(S) = n /\ ~\E f : OrderOf(f, S) BY <2>1
  <2>3. CASE n = 0
    <3>1. S = {} BY <2>2, <2>3, FS_EmptySet
    <3> DEFINE f == [k \in 1..0 |-> 0]
    <3>2. OrderOf(f, S)
      <4>1. Cardinality(S) = 0 /\ 1..0 = {} BY <2>2, <2>3
      <4> QED BY <3>1, <4>1 DEF OrderOf
    <3> QED BY <2>2, <3>2
  <2>4. CASE n # 0
    <3>1. n \in Nat /\ n - 1 \in Nat /\ ~(n <= n - 1) BY <2>1, <2>4
    <3>2. S # {} BY <2>2, <2>4, FS_EmptySet
    <3>3. PICK x \in S : \A y \in S : x <= y BY <2>2, <3>2, LeastNumber
    <3> DEFINE R == S \ {x}
    <3>4. R \in SUBSET Nat /\ IsFiniteSet(R) /\ Cardinality(R) = n - 1
      BY <2>2, <3>3, FS_RemoveElement
    <3>5. Ordered(n - 1)
      <4> HIDE DEF Ordered
      <4> QED BY <2>1, <3>1
    <3>6. PICK g : OrderOf(g, R) BY <3>4, <3>5
    <3> DEFINE f == [k \in 1..n |-> IF k = 1 THEN x ELSE g[k - 1]]
    <3>7. g \in [1..(n - 1) -> R] /\ (\A k, l \in 1..(n - 1) : k < l => g[k] < g[l])
          /\ \A y \in R : \E k \in 1..(n - 1) : g[k] = y
      BY <3>4, <3>6 DEF OrderOf
    <3>8. \A k \in 1..n : k # 1 => k - 1 \in 1..(n - 1) /\ f[k] = g[k - 1] BY <3>1
    <3>9. 1 \in 1..n /\ f[1] = x BY <3>1, <2>4
    <3>10. \A k \in 1..n : f[k] \in S BY <3>3, <3>7, <3>8, <3>9
    <3>11. ASSUME NEW k \in 1..n, NEW l \in 1..n, k < l PROVE f[k] < f[l]
      <4>1. l # 1 /\ l - 1 \in 1..(n - 1) /\ f[l] = g[l - 1] BY <3>1, <3>8, <3>11
      <4>2. CASE k = 1
        <5>1. g[l - 1] \in R BY <3>7, <4>1
        <5>2. x < g[l - 1]
          <6>1. x \in Nat /\ g[l - 1] \in Nat /\ x <= g[l - 1] /\ x # g[l - 1] BY <2>2, <3>3, <5>1
          <6> HIDE DEF R
          <6> QED BY <6>1
        <5> QED BY <3>9, <4>1, <4>2, <5>2
      <4>3. CASE k # 1
        <5>1. k - 1 \in 1..(n - 1) /\ f[k] = g[k - 1] /\ k - 1 < l - 1 BY <3>1, <3>8, <3>11, <4>3
        <5> QED BY <3>7, <4>1, <5>1
      <4> QED BY <4>2, <4>3
    <3>12. ASSUME NEW y \in S PROVE \E k \in 1..n : f[k] = y
      <4>1. CASE y = x BY <3>9, <4>1
      <4>2. CASE y # x
        <5>1. PICK k \in 1..(n - 1) : g[k] = y BY <3>7, <3>12, <4>2
        <5>2. k + 1 \in 1..n /\ k + 1 # 1 /\ (k + 1) - 1 = k BY <3>1
        <5> QED BY <3>8, <5>1, <5>2
      <4> QED BY <4>1, <4>2
    <3>13. OrderOf(f, S)
      <4>1. f \in [1..n -> S]
        <5> HIDE DEF R
        <5> QED BY <3>10
      <4>2. DOMAIN f = 1..n OBVIOUS
      <4> HIDE DEF f
      <4> QED BY <2>2, <3>11, <3>12, <4>1, <4>2 DEF OrderOf
    <3> QED BY <2>2, <3>13
  <2> QED BY <2>3, <2>4
<1>2. Ordered(m)
  <2> HIDE DEF Ordered
  <2> QED BY <1>1
<1> QED BY <1>2

\* InOrder is that order.
LEMMA InOrderIs ==
  ASSUME NEW S \in SUBSET Nat, IsFiniteSet(S)
  PROVE  OrderOf(InOrder(S), S)
<1>1. Cardinality(S) \in Nat BY FS_CardinalityType
<1>2. \E f : OrderOf(f, S) BY <1>1, OrdersExist
<1>3. \E f \in [1..Cardinality(S) -> S] :
        /\ \A k, l \in DOMAIN f : k < l => f[k] < f[l]
        /\ \A x \in S : \E k \in DOMAIN f : f[k] = x
  BY <1>2 DEF OrderOf
<1> QED BY <1>3 DEF InOrder, OrderOf

\* What a sequence w keeps of s: the places left, in the same order.
Keeps(w, s, places, left) ==
  /\ left \in [DOMAIN w -> places]
  /\ \A k \in DOMAIN w : w[k] = s[left[k]]
  /\ \A k, l \in DOMAIN w : k < l => left[k] < left[l]
  /\ \A i \in places : \E k \in DOMAIN w : left[k] = i

\* What Without leaves: every other element, in the same order.
LEMMA WithoutIs ==
  ASSUME NEW R, NEW s \in Seq(R), NEW P
  PROVE  Without(s, P) \in Seq(R) /\ \E left : Keeps(Without(s, P), s, DOMAIN s \ P, left)
<1> DEFINE S == DOMAIN s \ P
           left == InOrder(S)
           w == Without(s, P)
<1>1. Len(s) \in Nat /\ DOMAIN s = 1..Len(s) /\ s \in [1..Len(s) -> R] OBVIOUS
<1>2. S \in SUBSET Nat /\ IsFiniteSet(S)
  <2>1. 1 \in Int /\ Len(s) \in Int BY <1>1
  <2>2. IsFiniteSet(1..Len(s)) BY <2>1, FS_Interval
  <2> QED BY <1>1, <2>2, FS_Subset
<1>3. OrderOf(left, S)
  <2> HIDE DEF S
  <2> QED BY <1>2, InOrderIs
<1>4. w = [k \in DOMAIN left |-> s[left[k]]] BY DEF Without
<1>5. Cardinality(S) \in Nat
  <2> HIDE DEF S
  <2> QED BY <1>2, FS_CardinalityType
<1>6. left \in [1..Cardinality(S) -> S] BY <1>3 DEF OrderOf
<1>7. DOMAIN left = 1..Cardinality(S) /\ DOMAIN w = 1..Cardinality(S)
  <2> HIDE DEF left, S, w
  <2> QED BY <1>4, <1>6
<1>8. \A k \in DOMAIN w : left[k] \in S /\ w[k] = s[left[k]] /\ w[k] \in R
  <2>1. \A i \in S : s[i] \in R BY <1>1
  <2> HIDE DEF left, S, w
  <2> QED BY <1>4, <1>6, <1>7, <2>1
<1>9. w \in Seq(R)
  <2>1. w \in [1..Cardinality(S) -> R]
    <3> HIDE DEF left, S, w
    <3> QED BY <1>4, <1>7, <1>8
  <2> HIDE DEF left, S, w
  <2> QED BY <1>5, <2>1
<1> HIDE DEF left, S, w
<1>10. \A k, l \in DOMAIN w : k < l => left[k] < left[l] BY <1>3, <1>7 DEF OrderOf
<1>11. \A i \in S : \E k \in DOMAIN w : left[k] = i BY <1>3, <1>7 DEF OrderOf
<1>12. left \in [DOMAIN w -> S] BY <1>6, <1>7
<1>13. Keeps(w, s, S, left) BY <1>8, <1>10, <1>11, <1>12 DEF Keeps
<1> QED BY <1>9, <1>13 DEF S, w

-----------------------------------------------------------------------------
(* Operations on the ring *)

\* What the headers of the packets are measured by, other than their states.
LEMMA SoundStays ==
  ASSUME NEW b, NEW D, NEW e, Packed(b, D, e), NEW c \in Buffers, c.head = b.head, c.tail = b.tail,
         \A x \in D \ {e} : LET at == Place(b.tail, x) IN
            /\ c.mem[at].size = b.mem[at].size
            /\ State(c, at) \in Held \cup {"skipped"}
            /\ State(c, at) = "popped" => x = 0
  PROVE  Packed(c, D, e)
<1>1. ASSUME NEW x \in D \ {e} PROVE Sound(c, D, x)
  <2>1. Sound(b, D, x) BY DEF Packed
  <2> QED BY <2>1 DEF Sound
<1> QED BY <1>1 DEF Packed

\* Some packets are skipped, and their users do not hold them any longer.
LEMMA Skipping ==
  ASSUME NEW b, NEW D, NEW e, NEW l, InRing(b, D, e, l), NEW c \in Buffers,
         c.head = b.head, c.tail = b.tail,
         e < SIZE => State(c, b.head) = State(b, b.head),
         \A x \in D \ {e} : LET at == Place(b.tail, x) IN
            c.mem[at].size = b.mem[at].size /\ State(c, at) \in {State(b, at), "skipped"}
  PROVE  InRing(c, D, e, Without(l, {i \in DOMAIN l : State(c, l[i].at) = "skipped"}))
<1> DEFINE P == {i \in DOMAIN l : State(c, l[i].at) = "skipped"}
           w == Without(l, P)
           Start(at) == Behind(b.tail, at)
<1>1. Packed(b, D, e) /\ Marked(b, e) /\ Viewed(b, D, e, l) BY DEF InRing
<1>2. Packed(c, D, e)
  <2>1. \A x \in D \ {e} : Sound(b, D, x) BY <1>1 DEF Packed
  <2>2. ASSUME NEW x \in D \ {e}
        PROVE  LET at == Place(b.tail, x) IN
            /\ c.mem[at].size = b.mem[at].size
            /\ State(c, at) \in Held \cup {"skipped"}
            /\ State(c, at) = "popped" => x = 0
    <3>1. "skipped" # "popped" OBVIOUS
    <3> QED BY <2>1, <3>1 DEF Sound
  <2> QED BY <1>1, <2>2, SoundStays
<1>3. Marked(c, e) BY <1>1 DEF Marked
<1>4. l \in Seq(Lives) BY <1>1 DEF Viewed
<1> HIDE DEF P
<1>5. w \in Seq(Lives) BY <1>4, WithoutIs
<1>14. PICK left : Keeps(w, l, DOMAIN l \ P, left) BY <1>4, WithoutIs
<1>13. /\ left \in [DOMAIN w -> DOMAIN l \ P]
       /\ \A k \in DOMAIN w : w[k] = l[left[k]]
       /\ \A k, j \in DOMAIN w : k < j => left[k] < left[j]
       /\ \A i \in DOMAIN l \ P : \E k \in DOMAIN w : left[k] = i
  BY <1>14 DEF Keeps
<1>6. /\ \A i \in DOMAIN l : Start(l[i].at) \in D \ {e} /\ l[i].state = State(b, l[i].at)
      /\ \A x \in D \ {e} : \/ State(b, Place(b.tail, x)) = "skipped"
                            \/ \E i \in DOMAIN l : l[i].at = Place(b.tail, x)
      /\ \A i, j \in DOMAIN l : i < j => Start(l[i].at) < Start(l[j].at)
  BY <1>1 DEF Viewed
<1>7. \A i \in DOMAIN l : l[i].at \in Words /\ Place(b.tail, Start(l[i].at)) = l[i].at
  <2>1. b.tail \in Words BY <1>1, BufferFields DEF Packed
  <2>2. \A i \in DOMAIN l : l[i].at \in Words BY <1>4, LiveFields
  <2> QED BY <2>1, <2>2, Places
<1>8. \A i \in DOMAIN l \ P : State(c, l[i].at) = State(b, l[i].at)
  <2> SUFFICES ASSUME NEW i \in DOMAIN l \ P PROVE State(c, l[i].at) = State(b, l[i].at) OBVIOUS
  <2>1. Start(l[i].at) \in D \ {e} /\ Place(b.tail, Start(l[i].at)) = l[i].at BY <1>6, <1>7
  <2>2. State(c, l[i].at) \in {State(b, l[i].at), "skipped"}
    <3> HIDE DEF Start
    <3> QED BY <2>1
  <2> QED BY <2>2 DEF P
<1> HIDE DEF w
<1>9. \A k \in DOMAIN w : /\ Behind(c.tail, w[k].at) \in D \ {e}
                          /\ w[k].state = State(c, w[k].at)
  BY <1>13, <1>6, <1>8
<1>10. \A x \in D \ {e} : \/ State(c, Place(c.tail, x)) = "skipped"
                          \/ \E k \in DOMAIN w : w[k].at = Place(c.tail, x)
  <2> SUFFICES ASSUME NEW x \in D \ {e}, State(c, Place(b.tail, x)) # "skipped"
               PROVE  \E k \in DOMAIN w : w[k].at = Place(b.tail, x)
    OBVIOUS
  <2>1. State(b, Place(b.tail, x)) # "skipped" OBVIOUS
  <2>2. PICK i \in DOMAIN l : l[i].at = Place(b.tail, x) BY <1>6, <2>1
  <2>3. i \notin P BY <2>2 DEF P
  <2> QED BY <1>13, <2>2, <2>3
<1>11. \A k, j \in DOMAIN w : k < j => Behind(c.tail, w[k].at) < Behind(c.tail, w[j].at)
  BY <1>13, <1>6
<1>12. Viewed(c, D, e, w) BY <1>5, <1>9, <1>10, <1>11 DEF Viewed
<1> QED BY <1>2, <1>3, <1>12 DEF InRing, w, P

\* The skipped packet at the tail is freed.
LEMMA FreeingTail ==
  ASSUME NEW b, NEW D, NEW e, NEW l, InRing(b, D, e, l), e # 0, State(b, b.tail) = "skipped"
  PROVE  \E F, f : /\ InRing(Freed(b, b.tail), F, f, l) /\ f < e
                   /\ Freed(b, b.tail).mem = [b.mem EXCEPT ![b.tail] = FreeCell]
<1> DEFINE t == b.tail
           s == b.mem[t].size + 1
           u == Place(t, s)
           c == [b EXCEPT !.tail = u, !.mem = [b.mem EXCEPT ![t] = FreeCell]]
           f == e - s
           F == {z \in 0..f : z + s \in D}
<1>1. Packed(b, D, e) /\ Marked(b, e) /\ Viewed(b, D, e, l) BY DEF InRing
<1>2. /\ b \in Buffers /\ e \in 0..SIZE /\ D \in SUBSET (0..e) /\ 0 \in D /\ e \in D
      /\ b.head = Place(t, e)
  BY <1>1 DEF Packed
<1>3. /\ t \in Words /\ b.mem \in [Words -> Cells] /\ b.head \in Words
      /\ SIZE \in Nat /\ SIZE > 1 /\ Words = 0..(SIZE - 1)
  BY <1>2, BufferFields
<1>4. Place(t, 0) = t BY <1>3, Places
<1>5. s \in D /\ s \in 1..e /\ NextPacket(b, t) = u /\ t + s <= SIZE /\ s \in 1..SIZE
  <2>1. /\ b.mem[t].size \in Nat /\ 0 + b.mem[t].size + 1 \in D
        /\ NextPacket(b, t) = Place(t, 0 + b.mem[t].size + 1) /\ t + b.mem[t].size + 1 <= SIZE
    BY <1>1, <1>2, <1>4, PacketFacts
  <2>2. 0 + b.mem[t].size + 1 = s /\ t + b.mem[t].size + 1 = t + s BY <1>3, <2>1
  <2>3. s \in D /\ NextPacket(b, t) = Place(t, s) /\ t + s <= SIZE BY <2>1, <2>2
  <2>4. s \in 1..e BY <1>2, <2>1, <2>3
  <2> QED BY <1>2, <1>3, <2>3, <2>4
<1>6. Freed(b, t) = c
  <2>1. Freed(b, t) = [[b EXCEPT !.tail = u] EXCEPT !.mem[t] = FreeCell] BY <1>5 DEF Freed, SetFree
  <2> HIDE DEF u
  <2>2. b = [head |-> b.head, tail |-> b.tail, mem |-> b.mem] BY <1>2 DEF Buffers
  <2> QED BY <1>2, <2>1 DEF Buffers
<1> HIDE DEF s
<1>7. u \in Words /\ FreeCell \in Cells
  <2>1. s \in 0..SIZE BY <1>3, <1>5
  <2> QED BY <1>3, <2>1, Places DEF FreeCell, Cells
<1>8. /\ c \in Buffers /\ c.head = b.head /\ c.tail = u
      /\ c.mem = [b.mem EXCEPT ![t] = FreeCell]
  <2> HIDE DEF u, t
  <2> QED BY <1>2, <1>3, <1>7 DEF Buffers
<1> HIDE DEF c
\* Places behind the new tail.
<1>9. \A z \in 0..f : Place(u, z) = Place(t, z + s)
  <2>1. s \in 1..SIZE /\ t \in 0..(SIZE - 1) /\ SIZE \in Nat /\ e \in 0..SIZE /\ s <= e /\ t + s <= SIZE
    BY <1>2, <1>3, <1>5
  <2> HIDE DEF t
  <2> QED BY <2>1 DEF Place
<1>10. f \in 0..SIZE /\ f < e BY <1>2, <1>3, <1>5
<1>11. \A z \in F \ {f} : /\ z + s \in D \ {e} /\ z + s # 0 /\ Place(u, z) = Place(t, z + s)
                          /\ Place(u, z) # t /\ Place(u, z) \in Words
  <2> SUFFICES ASSUME NEW z \in F \ {f}
               PROVE  /\ z + s \in D \ {e} /\ z + s # 0 /\ Place(u, z) = Place(t, z + s)
                      /\ Place(u, z) # t /\ Place(u, z) \in Words
    OBVIOUS
  <2>1. z \in 0..f /\ z + s \in D /\ z # f OBVIOUS
  <2>2. z + s # e /\ z + s # 0 BY <1>2, <1>3, <1>5, <1>10, <2>1
  <2>3. Place(u, z) = Place(t, z + s) BY <1>9, <2>1
  <2>4. Place(t, z + s) # t /\ Place(t, z + s) \in Words BY <1>1, <2>1, <2>2, PacketFacts
  <2> QED BY <2>1, <2>2, <2>3, <2>4
<1>12. \A at \in Words : at # t => c.mem[at] = b.mem[at] BY <1>3, <1>8
<1>13. F \in SUBSET (0..f) /\ 0 \in F /\ f \in F /\ c.head = Place(u, f)
  <2>1. f + s = e /\ 0 + s = s BY <1>2, <1>3, <1>5
  <2>2. Place(u, f) = Place(t, f + s) BY <1>9, <1>10
  <2> QED BY <1>2, <1>5, <1>8, <1>10, <2>1, <2>2
<1>14. ASSUME NEW z \in F \ {f} PROVE Sound(c, F, z)
  <2> DEFINE at == Place(u, z)
             n == b.mem[at].size
  <2>1. Sound(b, D, z + s) /\ at = Place(t, z + s) BY <1>1, <1>11 DEF Packed
  <2>2. c.mem[at] = b.mem[at] /\ State(c, at) = State(b, at) BY <1>11, <1>12 DEF State
  <2>3. n \in Nat /\ (z + s) + n + 1 \in D /\ (z + s) + n + 1 <= e
    <3>1. z + s \in D /\ z + s # e BY <1>11
    <3> QED BY <1>1, <2>1, <3>1, PacketFacts
  <2>4. /\ \A y \in D : y <= z + s \/ y >= (z + s) + n + 1
        /\ at + n + 1 <= SIZE /\ State(b, at) \in Held \cup {"skipped"}
        /\ State(b, at) = "popped" => z + s = 0
    BY <2>1 DEF Sound
  <2>5. z \in Nat /\ s \in Nat /\ e \in Nat /\ f = e - s /\ z \in 0..f BY <1>2, <1>3, <1>5, <1>13
  <2>6. z + n + 1 \in F
    <3>1. z + n + 1 \in 0..f /\ (z + n + 1) + s = (z + s) + n + 1
      <4> HIDE DEF n, f
      <4> QED BY <2>3, <2>5
    <3> QED BY <2>3, <3>1
  <2>7. \A y \in F : y <= z \/ y >= z + n + 1
    <3> SUFFICES ASSUME NEW y \in F PROVE y <= z \/ y >= z + n + 1 OBVIOUS
    <3>1. y \in Nat /\ y + s \in D BY <1>10
    <3>2. y + s <= z + s \/ y + s >= (z + s) + n + 1 BY <2>4, <3>1
    <3> HIDE DEF n, F, f
    <3> QED BY <2>3, <2>5, <3>1, <3>2
  <2>8. State(b, at) # "popped" BY <1>11, <2>4
  <2> HIDE DEF at, F, n
  <2>9. c.mem[at].size = n /\ Place(c.tail, z) = at BY <1>8, <2>2 DEF at, n
  <2> QED BY <2>2, <2>4, <2>6, <2>7, <2>8, <2>9 DEF Sound
<1>15. Packed(c, F, f) BY <1>8, <1>10, <1>13, <1>14 DEF Packed
<1>16. Marked(c, f)
  <2>1. CASE b.head = t BY <1>3, <1>8, <2>1 DEF Marked, State, FreeCell
  <2>2. CASE b.head # t
    <3>1. e # SIZE BY <1>2, <1>3, <2>2, Places
    <3>2. State(b, b.head) = "free" BY <1>1, <1>2, <1>3, <3>1 DEF Marked
    <3> QED BY <1>3, <1>8, <1>12, <2>2, <3>2 DEF Marked, State
  <2> QED BY <2>1, <2>2
<1>17. Viewed(c, F, f, l)
  <2>1. /\ l \in Seq(Lives)
        /\ \A i \in DOMAIN l : Behind(t, l[i].at) \in D \ {e} /\ l[i].state = State(b, l[i].at)
        /\ \A x \in D \ {e} : \/ State(b, Place(t, x)) = "skipped"
                              \/ \E i \in DOMAIN l : l[i].at = Place(t, x)
        /\ \A i, j \in DOMAIN l : i < j => Behind(t, l[i].at) < Behind(t, l[j].at)
    BY <1>1 DEF Viewed
  <2>2. \A i \in DOMAIN l : l[i].at \in Words /\ l[i].state \in Held BY <2>1, LiveFields
  <2>3. \A i \in DOMAIN l : /\ Behind(t, l[i].at) \in D \ {e} /\ Behind(t, l[i].at) >= s
                            /\ Behind(u, l[i].at) = Behind(t, l[i].at) - s
                            /\ Behind(u, l[i].at) \in F \ {f} /\ l[i].at # t
    <3> SUFFICES ASSUME NEW i \in DOMAIN l
                 PROVE  /\ Behind(t, l[i].at) \in D \ {e} /\ Behind(t, l[i].at) >= s
                            /\ Behind(u, l[i].at) = Behind(t, l[i].at) - s
                            /\ Behind(u, l[i].at) \in F \ {f} /\ l[i].at # t
      OBVIOUS
    <3> DEFINE at == l[i].at
               x == Behind(t, at)
               z == x - s
    <3>1. at \in Words /\ x \in D \ {e} BY <2>1, <2>2
    <3>10. Place(t, x) = at
      <4>1. t \in Words BY <1>3
      <4> HIDE DEF at, t
      <4> QED BY <3>1, <4>1, Places
    <3>2. at # t
      <4>1. l[i].state # "skipped"
        <5>1. "skipped" \notin Held BY DEF Held
        <5> QED BY <2>2, <5>1
      <4> QED BY <2>1, <4>1
    <3>3. x # 0 BY <1>4, <3>10, <3>2
    <3>4. x >= s
      <4>1. Sound(b, D, 0) BY <1>1, <1>2 DEF Packed
      <4>2. x <= 0 \/ x >= 0 + b.mem[t].size + 1 BY <1>4, <3>1, <4>1 DEF Sound
      <4>3. b.mem[t].size \in Nat BY <1>2, <1>3, BufferFields
      <4>4. x \in Nat
        <5> HIDE DEF x
        <5> QED BY <1>2, <3>1
      <4> HIDE DEF x
      <4> QED BY <3>3, <4>2, <4>3, <4>4 DEF s
    <3>5. x \in Nat /\ x < e
      <4> HIDE DEF x
      <4> QED BY <1>2, <3>1
    <3>6. z \in 0..(f - 1) /\ z + s = x BY <1>2, <1>3, <1>5, <3>4, <3>5
    <3>7. z \in F \ {f}
      <4> HIDE DEF z, x
      <4> QED BY <1>10, <3>1, <3>6
    <3>8. Place(u, z) = at BY <1>11, <3>10, <3>6, <3>7
    <3>9. Behind(u, at) = z
      <4>1. z \in 0..(SIZE - 1) BY <1>10, <1>3, <3>6
      <4> HIDE DEF z
      <4> QED BY <1>7, <3>8, <4>1, Places
    <3> QED BY <3>1, <3>2, <3>4, <3>7, <3>9
  <2>4. \A i \in DOMAIN l : l[i].state = State(c, l[i].at)
    BY <1>12, <2>1, <2>2, <2>3 DEF State
  <2>5. \A z \in F \ {f} : \/ State(c, Place(u, z)) = "skipped"
                           \/ \E i \in DOMAIN l : l[i].at = Place(u, z)
    <3> HIDE DEF F
    <3> QED BY <1>11, <1>12, <2>1 DEF State
  <2>6. \A i, j \in DOMAIN l : i < j => Behind(u, l[i].at) < Behind(u, l[j].at)
    <3> SUFFICES ASSUME NEW i \in DOMAIN l, NEW j \in DOMAIN l, i < j
                 PROVE  Behind(u, l[i].at) < Behind(u, l[j].at)
      OBVIOUS
    <3>1. Behind(t, l[i].at) \in Nat /\ Behind(t, l[j].at) \in Nat /\ s \in Nat
      <4>1. D \in SUBSET Nat BY <1>2
      <4> QED BY <1>5, <2>1, <4>1
    <3>2. Behind(t, l[i].at) < Behind(t, l[j].at) BY <2>1
    <3> QED BY <2>3, <3>1, <3>2
  <2> HIDE DEF F
  <2> QED BY <1>8, <2>1, <2>3, <2>4, <2>5, <2>6 DEF Viewed
<1> HIDE DEF F, f
<1>18. InRing(c, F, f, l) BY <1>15, <1>16, <1>17 DEF InRing
<1> QED BY <1>6, <1>8, <1>10, <1>18

\* The loop of free_skipped_packets ends with the first packet that is not
\* skipped at the tail, and has touched no other.
LEMMA FreeingSkipped ==
  ASSUME NEW b, NEW D, NEW e, NEW l, InRing(b, D, e, l)
  PROVE  LET c == FreeSkipped(b) IN
         /\ \E F, f : InRing(c, F, f, l)
         /\ State(c, c.tail) # "skipped"
         /\ \A at \in Words : c.mem[at] = b.mem[at] \/ (c.mem[at] = FreeCell /\ State(b, at) = "skipped")
<1> DEFINE Near(c) == \A at \in Words : \/ c.mem[at] = b.mem[at]
                                        \/ c.mem[at] = FreeCell /\ State(b, at) = "skipped"
           Within(c, n) == \E F, f : /\ InRing(c, F, f, l)
                                     /\ State(c, c.tail) # "skipped" \/ f <= e - n
           Reached(c, n) == Near(c) /\ Within(c, n)
<1>1. PICK run : run = [n \in 0..SIZE |-> IF n = 0 THEN b ELSE SkipOnce(run[n - 1])]
                 /\ FreeSkipped(b) = run[SIZE]
  BY SkipRun
<1>2. SIZE \in Nat /\ e \in 0..SIZE BY BufferAssumption DEF BufferAssumption, InRing, Packed
<1>3. ASSUME NEW n \in 0..SIZE, n # 0, Reached(run[n - 1], n - 1) PROVE Reached(run[n], n)
  <2> DEFINE a == run[n - 1]
  <2>1. run[n] = SkipOnce(a) BY <1>1, <1>3
  <2>2. PICK F, f : InRing(a, F, f, l) /\ (State(a, a.tail) # "skipped" \/ f <= e - (n - 1)) BY <1>3
  <2>3. Near(a) BY <1>3
  <2> HIDE DEF a
  <2>4. CASE State(a, a.tail) # "skipped"
    <3>1. SkipOnce(a) = a BY <2>4 DEF SkipOnce
    <3> QED BY <2>1, <2>2, <2>3, <2>4, <3>1
  <2>5. CASE State(a, a.tail) = "skipped"
    <3>1. SkipOnce(a) = Freed(a, a.tail) BY <2>5 DEF SkipOnce
    <3>2. /\ f \in 0..SIZE /\ a \in Buffers /\ a.head = Place(a.tail, f)
          /\ f < SIZE => State(a, a.head) = "free"
      BY <2>2 DEF InRing, Packed, Marked
    <3>3. a.tail \in Words /\ a.mem \in [Words -> Cells] /\ SIZE > 1 BY <3>2, BufferFields
    <3>4. f # 0
      <4>1. Place(a.tail, 0) = a.tail BY <3>3, Places
      <4> QED BY <1>2, <2>5, <3>2, <3>3, <4>1
    <3>5. PICK G, g : /\ InRing(Freed(a, a.tail), G, g, l) /\ g < f
                      /\ Freed(a, a.tail).mem = [a.mem EXCEPT ![a.tail] = FreeCell]
      BY <2>2, <2>5, <3>4, FreeingTail
    <3>6. g \in 0..SIZE BY <3>5 DEF InRing, Packed
    <3>7. g <= e - n BY <1>2, <1>3, <2>2, <2>5, <3>2, <3>5, <3>6
    <3>8. Within(run[n], n) BY <2>1, <3>1, <3>5, <3>7
    <3>9. Near(run[n])
      <4> DEFINE c == run[n]
      <4>1. c.mem = [a.mem EXCEPT ![a.tail] = FreeCell] BY <2>1, <3>1, <3>5
      <4> HIDE DEF c
      <4>2. a.mem[a.tail] # FreeCell BY <2>5 DEF State, FreeCell
      <4>3. State(b, a.tail) = "skipped" BY <2>3, <2>5, <3>3, <4>2 DEF State
      <4>4. Near(c) BY <2>3, <3>3, <4>1, <4>3
      <4> QED BY <4>4 DEF c
    <3> QED BY <3>8, <3>9
  <2> QED BY <2>4, <2>5
<1>4. Reached(run[0], 0)
  <2>1. run[0] = b BY <1>1, <1>2
  <2>2. Near(b) OBVIOUS
  <2>3. e <= e - 0 BY <1>2
  <2>4. Within(b, 0) BY <2>3
  <2> HIDE DEF Near, Within
  <2> QED BY <2>1, <2>2, <2>4
<1> DEFINE T == {n \in Nat : n \in 0..SIZE /\ ~Reached(run[n], n)}
<1>5. ASSUME T # {} PROVE FALSE
  <2> HIDE DEF Reached
  <2>1. PICK n \in T : \A j \in T : n <= j BY <1>5, LeastNumber
  <2>2. n \in 0..SIZE /\ ~Reached(run[n], n) BY <2>1
  <2>3. n # 0 BY <1>4, <2>2
  <2>4. n - 1 \in Nat /\ n - 1 \in 0..SIZE /\ ~(n <= n - 1) BY <1>2, <2>2, <2>3
  <2>5. Reached(run[n - 1], n - 1) BY <2>1, <2>4
  <2> QED BY <1>3, <2>2, <2>3, <2>5
<1>6. Reached(run[SIZE], SIZE)
  <2> HIDE DEF Reached
  <2>1. SIZE \in 0..SIZE BY <1>2
  <2> QED BY <1>2, <1>5, <2>1
<1> DEFINE c == FreeSkipped(b)
<1>7. PICK F, f : InRing(c, F, f, l) /\ (State(c, c.tail) # "skipped" \/ f <= e - SIZE)
  BY <1>1, <1>6
<1>8. State(c, c.tail) # "skipped"
  <2>1. CASE f <= e - SIZE
    <3> HIDE DEF c
    <3>1. /\ f \in 0..SIZE /\ c \in Buffers /\ c.head = Place(c.tail, f)
          /\ f < SIZE => State(c, c.head) = "free"
      BY <1>7 DEF InRing, Packed, Marked
    <3>2. c.tail \in Words /\ SIZE > 1 BY <3>1, BufferFields
    <3>3. f = 0 BY <1>2, <2>1, <3>1
    <3>4. State(c, c.tail) = "free" BY <1>2, <3>1, <3>2, <3>3, Places
    <3> QED BY <3>4
  <2> QED BY <1>7, <2>1
<1>9. Near(c) BY <1>1, <1>6
<1> QED BY <1>7, <1>8, <1>9

\* The buffer c is b with the head f words behind the tail, in the room of the
\* last packet, which begins at x.
Retreats(b, D, e, x, f, c) ==
  /\ x \in D /\ x # e /\ x + b.mem[Place(b.tail, x)].size + 1 = e /\ f \in x..(e - 1)
  /\ c \in Buffers /\ c.tail = b.tail /\ c.head = Place(b.tail, f) /\ State(c, c.head) = "free"
  /\ \A y \in D : y < x => c.mem[Place(b.tail, y)] = b.mem[Place(b.tail, y)]
  /\ f # x => c.mem[Place(b.tail, x)] = [b.mem[Place(b.tail, x)] EXCEPT !.size = f - x - 1]
  /\ f = x => State(b, Place(b.tail, x)) = "skipped"

\* The last packet gives back room at its end, or all of it.
LEMMA Retreating ==
  ASSUME NEW b, NEW D, NEW e, NEW l, InRing(b, D, e, l), NEW x, NEW f, NEW c, Retreats(b, D, e, x, f, c)
  PROVE  InRing(c, {y \in D : y <= x} \cup {f}, f, l)
<1> DEFINE t == b.tail
           F == {y \in D : y <= x} \cup {f}
<1>0. /\ x \in D /\ x # e /\ x + b.mem[Place(b.tail, x)].size + 1 = e /\ f \in x..(e - 1)
      /\ c \in Buffers /\ c.tail = b.tail /\ c.head = Place(b.tail, f) /\ State(c, c.head) = "free"
      /\ \A y \in D : y < x => c.mem[Place(b.tail, y)] = b.mem[Place(b.tail, y)]
      /\ f # x => c.mem[Place(b.tail, x)] = [b.mem[Place(b.tail, x)] EXCEPT !.size = f - x - 1]
      /\ f = x => State(b, Place(b.tail, x)) = "skipped"
  BY DEF Retreats
<1> USE <1>0
<1>1. Packed(b, D, e) /\ Marked(b, e) /\ Viewed(b, D, e, l) BY DEF InRing
<1>2. /\ b \in Buffers /\ e \in 0..SIZE /\ D \in SUBSET (0..e) /\ 0 \in D /\ e \in D
      /\ \A y \in D \ {e} : Sound(b, D, y)
  BY <1>1 DEF Packed
<1>3. /\ t \in Words /\ b.mem \in [Words -> Cells]
      /\ SIZE \in Nat /\ SIZE > 1 /\ Words = 0..(SIZE - 1)
  BY <1>2, BufferFields
<1>4. x \in Nat /\ f \in Nat /\ e \in Nat /\ x <= f /\ f < e /\ f \in 0..SIZE /\ f < SIZE
  BY <1>2, <1>3
<1>5. \A y \in D : y \in Nat /\ (y # e => y <= x)
  <2> SUFFICES ASSUME NEW y \in D PROVE y \in Nat /\ (y # e => y <= x) OBVIOUS
  <2>1. y \in 0..e BY <1>2
  <2>2. y <= x \/ y >= e BY <1>2 DEF Sound
  <2> QED BY <1>4, <2>1, <2>2
<1>6. F \in SUBSET (0..f) /\ 0 \in F /\ f \in F BY <1>2, <1>4, <1>5
<1>7. \A y \in D : y < x => State(c, Place(t, y)) = State(b, Place(t, y)) BY DEF State
<1>8. f # x => State(c, Place(t, x)) = State(b, Place(t, x))
               /\ c.mem[Place(t, x)].size = f - x - 1
  <2> SUFFICES ASSUME f # x
               PROVE State(c, Place(t, x)) = State(b, Place(t, x)) /\ c.mem[Place(t, x)].size = f - x - 1
    OBVIOUS
  <2>1. x \in 0..SIZE BY <1>2, <1>3, <1>4
  <2>2. Place(t, x) \in Words BY <1>3, <2>1, Places
  <2>3. b.mem[Place(t, x)] \in Cells BY <1>3, <2>2
  <2>4. c.mem[Place(t, x)].state = b.mem[Place(t, x)].state /\ c.mem[Place(t, x)].size = f - x - 1
    BY <2>3 DEF Cells
  <2> QED BY <2>4 DEF State
<1>9. ASSUME NEW y \in F \ {f} PROVE Sound(c, F, y)
  <2>1. y \in D /\ y \in Nat /\ y # e /\ y <= x BY <1>4, <1>5
  <2> DEFINE at == Place(t, y)
             n == b.mem[at].size
  <2>2. /\ n \in Nat /\ y + n + 1 \in D /\ at + n + 1 <= SIZE
        /\ \A z \in D : z <= y \/ z >= y + n + 1
        /\ State(b, at) \in Held \cup {"skipped"} /\ (State(b, at) = "popped" => y = 0)
    <3>1. Sound(b, D, y) BY <1>2, <2>1
    <3>2. n \in Nat BY <1>1, <2>1, PacketFacts
    <3> QED BY <3>1, <3>2 DEF Sound
  <2>3. CASE y < x
    <3>1. c.mem[at] = b.mem[at] /\ State(c, at) = State(b, at) BY <1>7, <2>1, <2>3
    <3>2. y + n + 1 <= x BY <1>4, <2>1, <2>2, <2>3
    <3>3. y + n + 1 \in F BY <2>2, <3>2
    <3>4. \A z \in F : z <= y \/ z >= y + n + 1
      <4> HIDE DEF n
      <4> QED BY <1>4, <2>1, <2>2, <3>2
    <3> HIDE DEF F, at, n
    <3>5. c.mem[at].size = n /\ Place(c.tail, y) = at BY <3>1 DEF at, n
    <3> QED BY <2>2, <3>1, <3>3, <3>4, <3>5 DEF Sound
  <2>4. CASE y = x
    <3>1. f # x BY <2>4
    <3>2. c.mem[at].size = f - x - 1 /\ State(c, at) = State(b, at) BY <1>8, <2>4, <3>1
    <3>3. y + c.mem[at].size + 1 = f BY <1>4, <2>4, <3>2
    <3>4. \A z \in F : z <= y \/ z >= f BY <1>4, <2>4
    <3>5. at + c.mem[at].size + 1 <= SIZE
      <4>1. Place(t, y) \in Words BY <1>1, <2>1, PacketFacts
      <4>2. x + n + 1 = e BY <2>4
      <4> HIDE DEF n
      <4> QED BY <1>3, <1>4, <2>2, <3>2, <4>1, <4>2
    <3>6. f \in F OBVIOUS
    <3> HIDE DEF F, at, n
    <3>7. Place(c.tail, y) = at BY DEF at
    <3> QED BY <2>2, <3>2, <3>3, <3>4, <3>5, <3>6, <3>7 DEF Sound
  <2> QED BY <1>4, <2>1, <2>3, <2>4
<1>10. Packed(c, F, f) BY <1>4, <1>6, <1>9 DEF Packed
<1>11. Marked(c, f) BY DEF Marked
<1>12. Viewed(c, F, f, l)
  <2>1. /\ l \in Seq(Lives)
        /\ \A i \in DOMAIN l : Behind(t, l[i].at) \in D \ {e} /\ l[i].state = State(b, l[i].at)
        /\ \A y \in D \ {e} : \/ State(b, Place(t, y)) = "skipped"
                              \/ \E i \in DOMAIN l : l[i].at = Place(t, y)
        /\ \A i, j \in DOMAIN l : i < j => Behind(t, l[i].at) < Behind(t, l[j].at)
    BY <1>1 DEF Viewed
  <2>2. ASSUME NEW i \in DOMAIN l
        PROVE  Behind(t, l[i].at) \in F \ {f} /\ l[i].state = State(c, l[i].at)
    <3> DEFINE at == l[i].at
               y == Behind(t, at)
    <3>1. at \in Words /\ l[i].state \in Held /\ y \in D \ {e} BY <2>1, LiveFields
    <3>2. Place(t, y) = at
      <4>1. t \in Words BY <1>3
      <4> HIDE DEF at, t
      <4> QED BY <3>1, <4>1, Places
    <3>3. y \in Nat /\ y <= x BY <1>5, <3>1
    <3>4. f = x => y # x
      <4>1. "skipped" \notin Held BY DEF Held
      <4>2. State(b, at) # "skipped" BY <2>1, <3>1, <4>1
      <4> QED BY <3>2, <4>2
    <3>5. y \in F \ {f} BY <1>4, <3>1, <3>3, <3>4
    <3>6. State(c, at) = State(b, at)
      <4>1. CASE y < x BY <1>7, <3>1, <3>2, <4>1
      <4>2. CASE y = x BY <1>8, <3>2, <3>4, <4>2
      <4> QED BY <1>4, <3>3, <4>1, <4>2
    <3> QED BY <2>1, <3>5, <3>6
  <2>3. ASSUME NEW y \in F \ {f}
        PROVE  \/ State(c, Place(t, y)) = "skipped"
               \/ \E i \in DOMAIN l : l[i].at = Place(t, y)
    <3>1. y \in D \ {e} /\ y \in Nat /\ y <= x BY <1>4, <1>5
    <3>2. State(c, Place(t, y)) = State(b, Place(t, y))
      <4>1. CASE y < x BY <1>7, <3>1, <4>1
      <4>2. CASE y = x BY <1>8, <4>2
      <4> QED BY <1>4, <3>1, <4>1, <4>2
    <3> QED BY <2>1, <3>1, <3>2
  <2> HIDE DEF F
  <2> QED BY <2>1, <2>2, <2>3 DEF Viewed
<1> QED BY <1>10, <1>11, <1>12 DEF InRing

\* A packet more at the head, on free words in one piece.
LEMMA Extending ==
  ASSUME NEW b, NEW D, NEW e, NEW l, Packed(b, D, e), Viewed(b, D, e, l),
         NEW w \in Nat, w > 0, e + w <= SIZE, b.head + w <= SIZE,
         NEW c \in Buffers, c.tail = b.tail, c.head = Wrapped(b.head + w),
         \A x \in D \ {e} : c.mem[Place(b.tail, x)] = b.mem[Place(b.tail, x)],
         c.mem[b.head].size = w - 1, State(c, b.head) \in {"reserved", "skipped"}
  PROVE  /\ Packed(c, D \cup {e + w}, e + w)
         /\ State(c, b.head) = "skipped" => Viewed(c, D \cup {e + w}, e + w, l)
         /\ State(c, b.head) = "reserved" =>
              \A n \in Nat : Viewed(c, D \cup {e + w}, e + w,
                                    Append(l, [at |-> b.head, len |-> n, state |-> "reserved"]))
<1> DEFINE t == b.tail
           f == e + w
           F == D \cup {f}
<1>2. /\ b \in Buffers /\ e \in 0..SIZE /\ D \in SUBSET (0..e) /\ 0 \in D /\ e \in D
      /\ b.head = Place(t, e)
      /\ \A y \in D \ {e} : Sound(b, D, y)
  BY DEF Packed
<1>3. /\ t \in Words /\ b.mem \in [Words -> Cells] /\ b.head \in Words
      /\ SIZE \in Nat /\ SIZE > 1 /\ Words = 0..(SIZE - 1)
  BY <1>2, BufferFields
<1>4. e \in 0..(SIZE - 1) /\ f \in 0..SIZE /\ e < f BY <1>2, <1>3
<1>5. \A y \in D : y \in Nat /\ y <= e BY <1>2
<1>6. F \in SUBSET (0..f) /\ 0 \in F /\ f \in F BY <1>2, <1>4, <1>5
<1>7. c.head = Place(t, f) BY <1>2, <1>3, <1>4, PlaceSteps
<1>8. F \ {f} = D BY <1>4, <1>5
<1> HIDE DEF F
<1>9. ASSUME NEW y \in D \ {e} PROVE Sound(c, F, y) /\ State(c, Place(t, y)) = State(b, Place(t, y))
  <2> DEFINE at == Place(t, y)
             n == b.mem[at].size
  <2>1. /\ n \in Nat /\ y + n + 1 \in D /\ at + n + 1 <= SIZE
        /\ \A z \in D : z <= y \/ z >= y + n + 1
        /\ State(b, at) \in Held \cup {"skipped"} /\ (State(b, at) = "popped" => y = 0)
    <3>1. Sound(b, D, y) BY <1>2
    <3>2. n \in Nat BY PacketFacts
    <3> QED BY <3>1, <3>2 DEF Sound
  <2>2. c.mem[at] = b.mem[at] OBVIOUS
  <2>3. State(c, at) = State(b, at) BY <2>2 DEF State
  <2>4. \A z \in F : z <= y \/ z >= y + n + 1
    <3>1. y + n + 1 <= e BY <1>5, <2>1
    <3>2. y \in Nat /\ y + n + 1 \in Nat BY <1>5, <2>1
    <3> HIDE DEF n
    <3> QED BY <1>4, <2>1, <3>1, <3>2 DEF F
  <2>5. y + n + 1 \in F BY <2>1 DEF F
  <2> HIDE DEF at, n
  <2>6. Place(c.tail, y) = at /\ c.mem[at].size = n BY <2>2 DEF at, n
  <2>7. Sound(c, F, y) BY <2>1, <2>3, <2>4, <2>5, <2>6 DEF Sound
  <2> QED BY <2>3, <2>7 DEF at
<1>10. Sound(c, F, e)
  <2>1. Place(c.tail, e) = b.head /\ e + c.mem[b.head].size + 1 = f /\ b.head + c.mem[b.head].size + 1 <= SIZE
    BY <1>2, <1>3, <1>4
  <2>2. \A z \in F : z <= e \/ z >= f BY <1>4, <1>5 DEF F
  <2>3. State(c, b.head) \in Held \cup {"skipped"} /\ State(c, b.head) # "popped" BY DEF Held
  <2> HIDE DEF f
  <2> QED BY <1>6, <2>1, <2>2, <2>3 DEF Sound
<1>11. Packed(c, F, f) BY <1>4, <1>6, <1>7, <1>8, <1>9, <1>10 DEF Packed
<1>12. /\ l \in Seq(Lives)
       /\ \A i \in DOMAIN l : Behind(t, l[i].at) \in D \ {e} /\ l[i].state = State(b, l[i].at)
       /\ \A y \in D \ {e} : \/ State(b, Place(t, y)) = "skipped"
                             \/ \E i \in DOMAIN l : l[i].at = Place(t, y)
       /\ \A i, j \in DOMAIN l : i < j => Behind(t, l[i].at) < Behind(t, l[j].at)
  BY DEF Viewed
<1>13. ASSUME NEW i \in DOMAIN l
       PROVE  /\ Behind(t, l[i].at) \in D /\ Behind(t, l[i].at) \in Nat /\ Behind(t, l[i].at) < e
              /\ l[i].state = State(c, l[i].at)
  <2> DEFINE at == l[i].at
             y == Behind(t, at)
  <2>1. at \in Words /\ y \in D \ {e} BY <1>12, LiveFields
  <2>2. Place(t, y) = at
    <3>1. t \in Words BY <1>3
    <3> HIDE DEF at, t
    <3> QED BY <2>1, <3>1, Places
  <2>3. State(c, at) = State(b, at) BY <1>9, <2>1, <2>2
  <2>4. y \in Nat /\ y < e
    <3> HIDE DEF y
    <3> QED BY <1>4, <1>5, <2>1
  <2> QED BY <1>12, <2>1, <2>3, <2>4
<1>14. \A y \in D \ {e} : \/ State(c, Place(t, y)) = "skipped"
                          \/ \E i \in DOMAIN l : l[i].at = Place(t, y)
  BY <1>9, <1>12
<1>15. State(c, b.head) = "skipped" => Viewed(c, F, f, l)
  <2> SUFFICES ASSUME State(c, b.head) = "skipped" PROVE Viewed(c, F, f, l) OBVIOUS
  <2>1. \A y \in F \ {f} : \/ State(c, Place(t, y)) = "skipped"
                           \/ \E i \in DOMAIN l : l[i].at = Place(t, y)
    BY <1>2, <1>8, <1>14
  <2> QED BY <1>8, <1>12, <1>13, <2>1 DEF Viewed
<1>16. ASSUME NEW n \in Nat, State(c, b.head) = "reserved"
       PROVE  Viewed(c, F, f, Append(l, [at |-> b.head, len |-> n, state |-> "reserved"]))
  <2> DEFINE p == [at |-> b.head, len |-> n, state |-> "reserved"]
             q == Append(l, p)
  <2>1. p \in Lives /\ p.at = b.head /\ p.state = "reserved" BY <1>3 DEF Lives, Held
  <2> HIDE DEF p
  <2>2. /\ q \in Seq(Lives) /\ DOMAIN q = DOMAIN l \cup {Len(l) + 1} /\ q[Len(l) + 1] = p
        /\ \A i \in DOMAIN l : q[i] = l[i] /\ i < Len(l) + 1
    BY <1>12, <2>1
  <2> HIDE DEF q
  <2>3. Behind(t, b.head) = e
    <3>1. t \in Words /\ e \in 0..(SIZE - 1) /\ b.head = Place(t, e) BY <1>2, <1>3, <1>4
    <3>2. Behind(t, Place(t, e)) = e BY <3>1, Places
    <3> QED BY <3>1, <3>2
  <2>4. \A i \in DOMAIN q : Behind(t, q[i].at) \in D /\ q[i].state = State(c, q[i].at)
    BY <1>2, <1>13, <1>16, <2>1, <2>2, <2>3
  <2>5. \A y \in D : \/ State(c, Place(t, y)) = "skipped"
                     \/ \E i \in DOMAIN q : q[i].at = Place(t, y)
    BY <1>2, <1>14, <2>1, <2>2
  <2>6. \A i, j \in DOMAIN q : i < j => Behind(t, q[i].at) < Behind(t, q[j].at)
    <3> SUFFICES ASSUME NEW i \in DOMAIN q, NEW j \in DOMAIN q, i < j
                 PROVE  Behind(t, q[i].at) < Behind(t, q[j].at)
      OBVIOUS
    <3>1. Len(l) \in Nat /\ DOMAIN l = 1..Len(l) BY <1>12
    <3>2. i \in DOMAIN l BY <2>2, <3>1
    <3>3. CASE j \in DOMAIN l BY <1>12, <2>2, <3>2, <3>3
    <3>4. CASE j = Len(l) + 1 BY <1>13, <2>1, <2>2, <2>3, <3>2, <3>4
    <3> QED BY <2>2, <3>3, <3>4
  <2>7. Viewed(c, F, f, q) BY <1>8, <2>2, <2>4, <2>5, <2>6 DEF Viewed
  <2> QED BY <2>7 DEF q, p
<1> QED BY <1>11, <1>15, <1>16 DEF F

\* A packet that users hold, where it is in the ring.
LEMMA LivePlaces ==
  ASSUME NEW b, NEW D, NEW e, NEW l, InRing(b, D, e, l), NEW i \in DOMAIN l
  PROVE  LET at == l[i].at
             x == Behind(b.tail, at)
         IN /\ at \in Words /\ x \in D /\ x # e /\ Place(b.tail, x) = at
            /\ l[i].state = State(b, at) /\ l[i].state \in Held
            /\ b.mem[at].size \in Nat /\ at + b.mem[at].size + 1 <= SIZE
            /\ NextPacket(b, at) = b.head <=> x + b.mem[at].size + 1 = e
            /\ x + b.mem[at].size + 1 \in D /\ \A y \in D : y <= x \/ y >= x + b.mem[at].size + 1
            /\ l[i].state = "popped" => x = 0
            /\ \A j \in DOMAIN l : l[j].at = at => j = i
            /\ e < SIZE => at # b.head
<1> DEFINE t == b.tail
           at == l[i].at
           x == Behind(t, at)
<1>1. Packed(b, D, e) /\ Viewed(b, D, e, l) BY DEF InRing
<1>2. l \in Seq(Lives) /\ x \in D /\ x # e /\ l[i].state = State(b, at) BY <1>1 DEF Viewed
<1>3. at \in Words /\ l[i].state \in Held BY <1>2, LiveFields
<1>4. t \in Words BY <1>1, BufferFields DEF Packed
<1>5. Place(t, x) = at
  <2> HIDE DEF at, t
  <2> QED BY <1>3, <1>4, Places
<1>6. Sound(b, D, x) BY <1>1, <1>2 DEF Packed
<1>7. ASSUME NEW j \in DOMAIN l, l[j].at = at PROVE j = i
  <2>1. i \in Nat /\ j \in Nat BY <1>2
  <2>2. \A m, n \in DOMAIN l : m < n => Behind(t, l[m].at) < Behind(t, l[n].at) BY <1>1 DEF Viewed
  <2>3. x \in Nat
    <3> HIDE DEF x
    <3> QED BY <1>1, <1>2 DEF Packed
  <2>4. ~(i < j) /\ ~(j < i)
    <3>1. Behind(t, l[j].at) = x BY <1>7
    <3>2. ~(x < x) BY <2>3
    <3> QED BY <2>2, <3>1, <3>2
  <2> QED BY <2>1, <2>4
<1> HIDE DEF x, at
<1>8. /\ b.mem[at].size \in Nat /\ at + b.mem[at].size + 1 <= SIZE
      /\ NextPacket(b, at) = b.head <=> x + b.mem[at].size + 1 = e
      /\ at = b.head => x = 0 /\ e = SIZE
  BY <1>1, <1>2, <1>5, PacketFacts
<1>9. e < SIZE => at # b.head
  <2>1. SIZE \in Nat BY BufferAssumption DEF BufferAssumption
  <2> QED BY <1>8, <2>1
<1>10. /\ x + b.mem[at].size + 1 \in D /\ \A y \in D : y <= x \/ y >= x + b.mem[at].size + 1
       /\ State(b, at) = "popped" => x = 0
  BY <1>5, <1>6 DEF Sound
<1> QED BY <1>2, <1>3, <1>5, <1>7, <1>8, <1>9, <1>10 DEF x, at

\* A header of a packet that is set to a state of a packet that is held.
LEMMA Changing ==
  ASSUME NEW b, NEW D, NEW e, NEW l, InRing(b, D, e, l), NEW i \in DOMAIN l,
         NEW st \in Held, st = "popped" => l[i].at = b.tail,
         NEW m \in Seq(Lives), DOMAIN m = DOMAIN l,
         \A j \in DOMAIN l : m[j].at = l[j].at /\ m[j].state = IF j = i THEN st ELSE l[j].state
  PROVE  InRing(SetState(b, l[i].at, st), D, e, m)
<1> DEFINE t == b.tail
           at == l[i].at
           c == SetState(b, at, st)
<1>1. Packed(b, D, e) /\ Marked(b, e) /\ Viewed(b, D, e, l) BY DEF InRing
<1>2. b \in Buffers /\ e \in 0..SIZE /\ \A x \in D \ {e} : Sound(b, D, x) BY <1>1 DEF Packed
<1>3. b.mem \in [Words -> Cells] /\ t \in Words BY <1>2, BufferFields
<1>4. at \in Words /\ (e < SIZE => at # b.head) BY LivePlaces
<1>5. st \in {"free", "data", "skipped", "reserved", "committed", "popped"} /\ "skipped" \notin Held BY DEF Held
<1>6. /\ c \in Buffers /\ c.head = b.head /\ c.tail = t
      /\ \A p \in Words : c.mem[p].size = b.mem[p].size /\ State(c, p) = IF p = at THEN st ELSE State(b, p)
  <2>1. b \in Buffers /\ at \in Words BY <1>2, <1>4
  <2>2. st \in {"free", "data", "skipped", "reserved", "committed", "popped"} BY <1>5
  <2>3. IsSetTo(c, b, at, st)
    <3> HIDE DEF at
    <3> QED BY <2>1, <2>2, SettingState
  <2> HIDE DEF c, at
  <2> QED BY <2>3 DEF IsSetTo
<1> HIDE DEF c
<1>7. \A x \in D \ {e} : Place(t, x) \in Words /\ (Place(t, x) = t <=> x = 0) BY <1>1, PacketFacts
<1>8. Packed(c, D, e)
  <2>1. ASSUME NEW x \in D \ {e}
        PROVE  LET p == Place(t, x) IN
            /\ c.mem[p].size = b.mem[p].size
            /\ State(c, p) \in Held \cup {"skipped"}
            /\ State(c, p) = "popped" => x = 0
    <3>1. LET p == Place(t, x) IN
            State(b, p) \in Held \cup {"skipped"} /\ (State(b, p) = "popped" => x = 0)
      BY <1>2 DEF Sound
    <3> QED BY <1>6, <1>7, <3>1
  <2> QED BY <1>1, <1>6, <2>1, SoundStays
<1>9. Marked(c, e)
  <2>1. b.head \in Words BY <1>2, BufferFields
  <2> QED BY <1>1, <1>4, <1>6, <2>1 DEF Marked
<1>10. Viewed(c, D, e, m)
  <2>1. /\ \A j \in DOMAIN l : Behind(t, l[j].at) \in D \ {e} /\ l[j].state = State(b, l[j].at)
        /\ \A x \in D \ {e} : \/ State(b, Place(t, x)) = "skipped"
                              \/ \E j \in DOMAIN l : l[j].at = Place(t, x)
        /\ \A k, j \in DOMAIN l : k < j => Behind(t, l[k].at) < Behind(t, l[j].at)
    BY <1>1 DEF Viewed
  <2>2. \A j \in DOMAIN l : l[j].at \in Words /\ (l[j].at = at => j = i) BY LivePlaces
  <2>3. \A j \in DOMAIN m : Behind(t, m[j].at) \in D \ {e} /\ m[j].state = State(c, m[j].at)
    BY <1>6, <2>1, <2>2
  <2>4. \A x \in D \ {e} : \/ State(c, Place(t, x)) = "skipped"
                           \/ \E j \in DOMAIN m : m[j].at = Place(t, x)
    BY <1>6, <1>7, <2>1
  <2>5. \A k, j \in DOMAIN m : k < j => Behind(t, m[k].at) < Behind(t, m[j].at) BY <2>1
  <2> QED BY <1>6, <2>3, <2>4, <2>5 DEF Viewed
<1> QED BY <1>8, <1>9, <1>10 DEF InRing, c

\* A packet that its user gives up is skipped.
LEMMA SkippingOne ==
  ASSUME NEW b, NEW D, NEW e, NEW l, InRing(b, D, e, l), NEW i \in DOMAIN l
  PROVE  InRing(SetState(b, l[i].at, "skipped"), D, e, Without(l, {i}))
<1> DEFINE at == l[i].at
           c == SetState(b, at, "skipped")
<1>1. b \in Buffers /\ b.mem \in [Words -> Cells] /\ b.head \in Words
  BY BufferFields DEF InRing, Packed
<1>2. at \in Words /\ (e < SIZE => at # b.head) BY LivePlaces
<1>3. /\ c \in Buffers /\ c.head = b.head /\ c.tail = b.tail
      /\ \A p \in Words : /\ c.mem[p].size = b.mem[p].size
                          /\ State(c, p) = IF p = at THEN "skipped" ELSE State(b, p)
  <2>1. IsSetTo(c, b, at, "skipped")
    <3> HIDE DEF at
    <3> QED BY <1>1, <1>2, SettingState
  <2> HIDE DEF c, at
  <2> QED BY <2>1 DEF IsSetTo
<1> HIDE DEF c
<1>4. \A x \in D \ {e} : Place(b.tail, x) \in Words BY PacketFacts DEF InRing
<1>5. {j \in DOMAIN l : State(c, l[j].at) = "skipped"} = {i}
  <2>1. "skipped" \notin Held BY DEF Held
  <2>2. \A j \in DOMAIN l : /\ l[j].at \in Words /\ State(b, l[j].at) # "skipped"
                            /\ l[j].at = at => j = i
    BY <2>1, LivePlaces
  <2> QED BY <1>3, <2>2
<1>6. InRing(c, D, e, Without(l, {j \in DOMAIN l : State(c, l[j].at) = "skipped"}))
  BY <1>1, <1>2, <1>3, <1>4, Skipping
<1> QED BY <1>5, <1>6 DEF c

\* A ring that was found is one of those that are looked for.
LEMMA Found == ASSUME NEW b, NEW D, NEW e, NEW l, InRing(b, D, e, l) PROVE Ringed(b, l)
<1>1. e \in 0..SIZE /\ D \in SUBSET (0..e) BY DEF InRing, Packed
<1>2. D \in SUBSET (0..SIZE) BY <1>1, BufferAssumption DEF BufferAssumption
<1> QED BY <1>1, <1>2 DEF Ringed

-----------------------------------------------------------------------------
(* The users' calls *)

\* What a reservation is made in has room ahead of the head.
LEMMA Preparing ==
  ASSUME NEW b, NEW D, NEW e, NEW l, InRing(b, D, e, l),
         NEW words \in Nat, words > 0, NEW c \in Prepared(b, words)
  PROVE  \E F, f : /\ Packed(c, F, f) /\ Viewed(c, F, f, l) /\ f < SIZE
                   /\ c.head + words <= AvailableEnd(c, c.head)
                   /\ AvailableEnd(c, c.head) <= SIZE
                   /\ f + (AvailableEnd(c, c.head) - c.head) <= SIZE
<1> DEFINE t == b.tail
           h == b.head
<1>1. Packed(b, D, e) /\ Viewed(b, D, e, l) BY DEF InRing
<1>2. b \in Buffers /\ e \in 0..SIZE /\ h = Place(t, e) /\ 0 \in D /\ \A x \in D \ {e} : Sound(b, D, x)
  BY <1>1 DEF Packed
<1>3. t \in Words /\ h \in Words /\ b.mem \in [Words -> Cells] /\ SIZE \in Nat /\ SIZE > 1
      /\ Words = 0..(SIZE - 1)
  BY <1>2, BufferFields
<1>4. t \in Nat /\ h \in Nat /\ e \in Nat /\ t < SIZE /\ h < SIZE /\ e <= SIZE BY <1>2, <1>3
<1>5. h = IF t + e < SIZE THEN t + e ELSE t + e - SIZE BY <1>2 DEF Place
<1>6. CASE h < t /\ t - h >= words /\ c = b
  <2>1. AvailableEnd(c, c.head) = t BY <1>6 DEF AvailableEnd
  <2>2. h = t + e - SIZE BY <1>4, <1>5, <1>6
  <2>3. e < SIZE /\ h + words <= t /\ t <= SIZE /\ e + (t - h) <= SIZE
    <3> HIDE DEF t, h
    <3> QED BY <1>3, <1>4, <1>6, <2>2
  <2> QED BY <1>1, <1>6, <2>1, <2>3
<1>7. ASSUME ~(h < t), ~(h = t /\ State(b, t) # "free") PROVE e < SIZE /\ h = t + e
  <2>1. CASE e = SIZE
    <3>1. h = t BY <1>4, <1>5, <2>1
    <3>2. Sound(b, D, 0) BY <1>2, <1>3, <2>1
    <3>3. Place(t, 0) = t BY <1>3, Places
    <3>4. State(b, t) # "free" BY <3>2, <3>3 DEF Sound, Held
    <3> QED BY <1>7, <3>1, <3>4
  <2>2. CASE e # SIZE
    <3> HIDE DEF t, h
    <3> QED BY <1>3, <1>4, <1>5, <1>7, <2>2
  <2> QED BY <2>1, <2>2
<1>8. CASE /\ ~(h < t) /\ ~(h = t /\ State(b, t) # "free")
           /\ SIZE - h >= words /\ c = b
  <2>1. AvailableEnd(c, c.head) = SIZE BY <1>8 DEF AvailableEnd
  <2>2. e < SIZE /\ h = t + e BY <1>7, <1>8
  <2>3. h + words <= SIZE /\ SIZE <= SIZE /\ e + (SIZE - h) <= SIZE
    <3> HIDE DEF t, h
    <3> QED BY <1>3, <1>4, <1>8, <2>2
  <2> QED BY <1>1, <1>8, <2>1, <2>2, <2>3
<1>9. CASE /\ ~(h < t) /\ ~(h = t /\ State(b, t) # "free")
           /\ ~(SIZE - h >= words) /\ t >= words /\ c = WrapHeadToStart(b)
  <2> DEFINE w == SIZE - h
             f == e + w
             cell == [state |-> "skipped", size |-> w - 1]
  <2>1. e < SIZE /\ h = t + e BY <1>7, <1>9
  <2>2. w \in Nat /\ w > 0 /\ h + w = SIZE /\ f = SIZE - t /\ w - 1 \in Nat
    <3> HIDE DEF t, h
    <3> QED BY <1>3, <1>4, <2>1
  <2>3. /\ c.head = 0 /\ c.tail = t
        /\ c.mem = [b.mem EXCEPT ![h] = cell]
        /\ c = [b EXCEPT !.head = 0, !.mem = c.mem]
    BY <1>2, <1>9 DEF WrapHeadToStart, Buffers
  <2> HIDE DEF w
  <2>4. cell \in Cells /\ cell.size = w - 1 /\ cell.state = "skipped" BY <2>2 DEF Cells
  <2> HIDE DEF cell
  <2>5. c \in Buffers
    <3>1. c.mem \in [Words -> Cells] /\ 0 \in Words BY <1>3, <2>3, <2>4
    <3> QED BY <1>2, <2>3, <3>1 DEF Buffers
  <2>6. c.mem[h].size = w - 1 /\ State(c, h) = "skipped" BY <1>3, <2>3, <2>4 DEF State
  <2>7. \A x \in D \ {e} : c.mem[Place(t, x)] = b.mem[Place(t, x)]
    <3> SUFFICES ASSUME NEW x \in D \ {e} PROVE c.mem[Place(t, x)] = b.mem[Place(t, x)] OBVIOUS
    <3>1. Place(t, x) \in Words /\ (Place(t, x) = h => e = SIZE) BY <1>1, PacketFacts
    <3> QED BY <1>3, <2>1, <2>3, <3>1
  <2>8. c.head = Wrapped(h + w) BY <2>2, <2>3 DEF Wrapped
  <2>9. f \in Nat /\ f <= SIZE /\ h + w <= SIZE
    <3> HIDE DEF f, t, h
    <3> QED BY <1>3, <1>4, <2>2
  <2>10. Packed(c, D \cup {f}, f) /\ Viewed(c, D \cup {f}, f, l)
    BY <1>1, <2>2, <2>3, <2>5, <2>6, <2>7, <2>8, <2>9, Extending
  <2>11. 0 < t BY <1>4, <1>9
  <2>12. AvailableEnd(c, c.head) = t BY <2>3, <2>11 DEF AvailableEnd
  <2>13. f < SIZE /\ 0 + words <= t /\ t <= SIZE /\ f + (t - 0) <= SIZE
    <3> HIDE DEF f, t, h
    <3> QED BY <1>3, <1>4, <1>9, <2>2, <2>11
  <2> HIDE DEF f
  <2> QED BY <2>3, <2>10, <2>12, <2>13
<1>10. \/ h < t /\ t - h >= words /\ c = b
       \/ /\ ~(h < t) /\ ~(h = t /\ State(b, t) # "free")
          /\ SIZE - h >= words /\ c = b
       \/ /\ ~(h < t) /\ ~(h = t /\ State(b, t) # "free")
          /\ ~(SIZE - h >= words) /\ t >= words /\ c = WrapHeadToStart(b)
  BY DEF Prepared, FitsAhead
<1> QED BY <1>6, <1>8, <1>9, <1>10

\* A packet is reserved.
LEMMA Reserving ==
  ASSUME NEW b, NEW D, NEW e, NEW l, InRing(b, D, e, l),
         NEW len \in LENGTHS, NEW c \in Prepared(b, len + 1)
  PROVE  Ringed(ReservePacket(c, AdjustedLength(c, c.head, len)),
                Append(l, [at |-> c.head, len |-> len, state |-> "reserved"]))
<1>1. len \in Nat /\ len + 1 \in Nat /\ len + 1 > 0 BY BufferAssumption DEF BufferAssumption
<1>2. PICK F, f : /\ Packed(c, F, f) /\ Viewed(c, F, f, l) /\ f < SIZE
                  /\ c.head + (len + 1) <= AvailableEnd(c, c.head)
                  /\ AvailableEnd(c, c.head) <= SIZE
                  /\ f + (AvailableEnd(c, c.head) - c.head) <= SIZE
  BY <1>1, Preparing
<1> DEFINE t == c.tail
           h == c.head
           end == AvailableEnd(c, h)
           n == AdjustedLength(c, h, len)
           w == n + 1
           n2 == Wrapped(h + w)
           written == [i \in Words |-> IF i = h
                                       THEN [state |-> "reserved", size |-> n]
                                       ELSE IF i \in (h + 1)..(h + n)
                                            THEN DataCell ELSE c.mem[i]]
           r == [c EXCEPT !.mem = written, !.head = n2]
           g == ReservePacket(c, n)
           p == [at |-> h, len |-> len, state |-> "reserved"]
<1>3. c \in Buffers /\ f \in 0..SIZE /\ F \in SUBSET (0..f) /\ h = Place(t, f) BY <1>2 DEF Packed
<1>4. t \in Words /\ h \in Words /\ c.mem \in [Words -> Cells] /\ SIZE \in Nat /\ SIZE > 1
      /\ Words = 0..(SIZE - 1)
  BY <1>3, BufferFields
<1>5. end \in Nat /\ h \in Nat BY <1>4 DEF AvailableEnd
<1>6. n \in Nat /\ w <= end - h
  <2>1. n = IF end - h - (len + 1) <= 1 THEN end - h - 1 ELSE len BY DEF AdjustedLength
  <2> HIDE DEF end, n, h
  <2> QED BY <1>1, <1>2, <1>5, <2>1 DEF h, end
<1> HIDE DEF n
<1>7. w \in Nat /\ w > 0 /\ f + w <= SIZE /\ h + w <= SIZE /\ w - 1 = n /\ h + w = h + n + 1
  <2> HIDE DEF end, h
  <2> QED BY <1>2, <1>3, <1>4, <1>5, <1>6 DEF h, end
<1>8. n2 = Place(t, f + w) /\ n2 \in Words
  <2>1. f \in 0..(SIZE - 1) /\ f + w \in 0..SIZE BY <1>2, <1>3, <1>4, <1>7
  <2>2. Wrapped(Place(t, f) + w) = Place(t, f + w)
    <3> HIDE DEF w, h, t
    <3>1. Place(t, f) + w <= SIZE BY <1>3, <1>7
    <3> QED BY <1>4, <1>7, <2>1, <3>1, PlaceSteps
  <2>3. n2 = Place(t, f + w) BY <1>3, <2>2
  <2> HIDE DEF n2, w, t
  <2> QED BY <1>4, <2>1, <2>3, Places
<1>9. g = MarkHead(r)
  <2>1. h + n + 1 = h + w BY <1>7
  <2> HIDE DEF w
  <2> QED BY <2>1 DEF ReservePacket
<1> HIDE DEF n2
<1>10. written \in [Words -> Cells] /\ r.head = n2 /\ r.tail = t /\ r.mem = written /\ r \in Buffers
  <2>1. [state |-> "reserved", size |-> n] \in Cells /\ DataCell \in Cells BY <1>6 DEF Cells, DataCell
  <2>2. written \in [Words -> Cells] BY <1>4, <2>1
  <2> HIDE DEF written
  <2> QED BY <1>3, <1>4, <1>8, <2>2 DEF Buffers
<1>11. written[h] = [state |-> "reserved", size |-> n] BY <1>4
<1>12. \A i \in Words : i = h \/ i \in (h + 1)..(h + n) \/ written[i] = c.mem[i] OBVIOUS
<1> HIDE DEF written, r
\* The new head is marked free, if it is not the tail.
<1>13. /\ g \in Buffers /\ g.head = n2 /\ g.tail = t
       /\ n2 # t => g.mem[n2] = FreeCell
       /\ \A i \in Words : g.mem[i] = written[i] \/ (i = n2 /\ n2 # t)
  <2>1. FreeCell \in Cells BY DEF FreeCell, Cells
  <2>2. CASE n2 = t
    <3>1. g = r BY <1>9, <1>10, <2>2 DEF MarkHead
    <3> HIDE DEF g
    <3> QED BY <1>10, <2>2, <3>1
  <2>3. CASE n2 # t
    <3>1. g = SetFree(r, n2) BY <1>9, <1>10, <2>3 DEF MarkHead
    <3> HIDE DEF g
    <3>2. g = [r EXCEPT !.mem = [written EXCEPT ![n2] = FreeCell]]
      BY <1>10, <3>1 DEF SetFree, Buffers
    <3>3. [written EXCEPT ![n2] = FreeCell] \in [Words -> Cells] BY <1>8, <1>10, <2>1
    <3>4. g \in Buffers /\ g.head = n2 /\ g.tail = t /\ g.mem = [written EXCEPT ![n2] = FreeCell]
      BY <1>10, <3>2, <3>3 DEF Buffers
    <3> QED BY <1>8, <1>10, <2>3, <3>4
  <2> QED BY <2>2, <2>3
<1> HIDE DEF g
<1>14. n2 # h \/ n2 = t
  <2>1. f \in 0..SIZE /\ f + w \in 0..SIZE /\ f # f + w BY <1>3, <1>4, <1>7
  <2>2. n2 = h => (f = 0 /\ f + w = SIZE) \/ (f = SIZE /\ f + w = 0)
    <3> HIDE DEF w, h, t
    <3> QED BY <1>3, <1>4, <1>8, <2>1, PlacesDiffer
  <2>3. Place(t, SIZE) = t /\ Place(t, 0) = t BY <1>4, Places
  <2> HIDE DEF w
  <2> QED BY <1>8, <2>2, <2>3
<1>15. g.mem[h].size = w - 1 /\ State(g, h) = "reserved" BY <1>4, <1>7, <1>11, <1>13, <1>14 DEF State
<1>16. ASSUME NEW x \in F \ {f} PROVE g.mem[Place(t, x)] = c.mem[Place(t, x)]
  <2> DEFINE at == Place(t, x)
  <2>1. at \in Words /\ x \in 0..(SIZE - 1) /\ x < f /\ x \in 0..SIZE
    <3>1. at \in Words /\ x \in 0..(SIZE - 1) /\ x < f BY <1>2, PacketFacts
    <3> QED BY <1>4, <3>1
  <2>2. ASSUME NEW k \in 0..n PROVE at # h + k
    <3>1. f + k \in 0..(SIZE - 1) /\ h + k \in 0..(SIZE - 1) /\ x # f + k
      <4> HIDE DEF h
      <4> QED BY <1>2, <1>3, <1>4, <1>6, <1>7, <2>1
    <3>2. h + k = Place(t, f + k)
      <4>1. k \in Nat BY <2>2
      <4>2. t \in 0..(SIZE - 1) BY <1>4
      <4> HIDE DEF t, h
      <4> QED BY <1>3, <1>4, <3>1, <4>1, <4>2 DEF Place
    <3>3. f + k \in 0..SIZE /\ f + k # SIZE /\ x # SIZE BY <1>4, <2>1, <3>1
    <3> QED BY <1>4, <2>1, <3>1, <3>2, <3>3, PlacesDiffer
  <2>3. at # h
    <3>1. 0 \in 0..n /\ h + 0 = h BY <1>5, <1>6
    <3> QED BY <2>2, <3>1
  <2>4. at \notin (h + 1)..(h + n)
    <3> SUFFICES ASSUME at \in (h + 1)..(h + n) PROVE FALSE OBVIOUS
    <3> HIDE DEF at, h
    <3>1. at - h \in 0..n /\ h + (at - h) = at BY <1>5, <1>6
    <3> QED BY <2>2, <3>1
  <2>5. ~(at = n2 /\ n2 # t)
    <3> SUFFICES ASSUME at = n2, n2 # t PROVE FALSE OBVIOUS
    <3>1. f + w \in 0..SIZE /\ x # f + w /\ x # SIZE BY <1>3, <1>4, <1>7, <2>1
    <3>2. f + w = SIZE
      <4> HIDE DEF w, t
      <4> QED BY <1>4, <1>8, <2>1, <3>1, PlacesDiffer
    <3>3. n2 = t BY <1>4, <1>8, <3>2, Places
    <3> QED BY <3>3
  <2> HIDE DEF at
  <2> QED BY <1>12, <1>13, <2>1, <2>3, <2>4, <2>5 DEF at
<1> HIDE DEF w
<1>17. InRing(g, F \cup {f + w}, f + w, Append(l, p))
  <2>1. /\ Packed(g, F \cup {f + w}, f + w) /\ Viewed(g, F \cup {f + w}, f + w, Append(l, p))
    BY <1>1, <1>2, <1>7, <1>13, <1>15, <1>16, Extending DEF n2
  <2>2. Marked(g, f + w)
    <3> SUFFICES ASSUME f + w < SIZE PROVE State(g, g.head) = "free" BY DEF Marked
    <3>1. n2 # t
      <4>1. f + w \in 0..SIZE /\ 0 \in 0..SIZE /\ f + w # 0 /\ f + w # SIZE BY <1>3, <1>4, <1>7
      <4>2. Place(t, 0) = t BY <1>4, Places
      <4> QED BY <1>4, <1>8, <4>1, <4>2, PlacesDiffer
    <3> QED BY <1>13, <3>1 DEF State, FreeCell
  <2> QED BY <2>1, <2>2 DEF InRing
<1> QED BY <1>17, Found DEF g, n

\* A packet is committed, and gives back what it did not use if it is the last.
LEMMA Committing ==
  ASSUME NEW b, NEW D, NEW e, NEW l, InRing(b, D, e, l), NEW i \in DOMAIN l, NEW len \in LENGTHS
  PROVE  Ringed(Committed(b, l[i].at, len), [[l EXCEPT ![i].state = "committed"] EXCEPT ![i].len = len])
<1> DEFINE t == b.tail
           at == l[i].at
           x == Behind(t, at)
           size == b.mem[at].size
           adj == AdjustedLength(b, at, len)
           s == IF len # size /\ NextPacket(b, at) = b.head THEN Shrunk(b, at, adj) ELSE b
           m == [[l EXCEPT ![i].state = "committed"] EXCEPT ![i].len = len]
<1>1. Packed(b, D, e) /\ l \in Seq(Lives) BY DEF InRing, Viewed
<1>2. b \in Buffers /\ e \in 0..SIZE /\ D \in SUBSET (0..e) BY <1>1 DEF Packed
<1>3. /\ t \in Words /\ b.head \in Words /\ b.mem \in [Words -> Cells] /\ SIZE \in Nat /\ SIZE > 1
      /\ Words = 0..(SIZE - 1)
  BY <1>2, BufferFields
<1>4. /\ at \in Words /\ x \in D /\ x # e /\ Place(t, x) = at
      /\ size \in Nat /\ at + size + 1 <= SIZE
      /\ NextPacket(b, at) = b.head <=> x + size + 1 = e
  BY LivePlaces
<1>5. len \in Nat BY BufferAssumption DEF BufferAssumption
<1>6. ASSUME NextPacket(b, at) = b.head, size - adj > 0
      PROVE  \E F, f : InRing(Shrunk(b, at, adj), F, f, l)
  <2> DEFINE f == x + adj + 1
             h == at + adj + 1
             r == [b EXCEPT !.head = h, !.mem[at].size = adj]
             c == SetFree(r, h)
  <2>1. x \in Nat /\ at \in Nat /\ e \in Nat /\ e <= SIZE /\ x + size + 1 = e
    <3>1. x + size + 1 = e BY <1>4, <1>6
    <3>2. SIZE \in Nat BY <1>3
    <3> HIDE DEF x, at, size
    <3>3. x \in 0..e /\ at \in 0..(SIZE - 1) BY <1>2, <1>3, <1>4
    <3> QED BY <1>2, <3>1, <3>2, <3>3
  <2>2. adj \in Nat
    <3>1. AvailableEnd(b, at) \in Nat /\ AvailableEnd(b, at) > at
      <4> HIDE DEF at
      <4> QED BY <1>3, <1>4 DEF AvailableEnd
    <3>2. adj = IF AvailableEnd(b, at) - at - (len + 1) <= 1 THEN AvailableEnd(b, at) - at - 1 ELSE len
      BY DEF AdjustedLength
    <3> HIDE DEF at, adj
    <3> QED BY <1>5, <2>1, <3>1, <3>2
  <2> HIDE DEF adj, size
  <2>3. adj < size BY <1>4, <1>6, <2>2
  <2>4. f \in x..(e - 1) /\ f # x /\ f - x - 1 = adj /\ f \in 0..SIZE /\ f < SIZE
    <3> HIDE DEF x
    <3> QED BY <1>3, <2>1, <2>2, <2>3, <1>4
  <2>5. h \in Words /\ h # at /\ h # SIZE
    <3> HIDE DEF at
    <3> QED BY <1>3, <1>4, <2>1, <2>2, <2>3
  <2>6. h = Place(t, f)
    <3>1. Wrapped(Place(t, x) + (adj + 1)) = Place(t, x + (adj + 1))
      <4>1. x \in 0..(SIZE - 1) /\ adj + 1 \in Nat /\ adj + 1 > 0 /\ x + (adj + 1) <= SIZE /\ at + (adj + 1) <= SIZE
        <5> HIDE DEF x, at
        <5> QED BY <1>3, <1>4, <2>1, <2>2, <2>3
      <4> HIDE DEF x, at, t
      <4> QED BY <1>3, <1>4, <4>1, PlaceSteps
    <3>2. at + (adj + 1) = h /\ x + (adj + 1) = f
      <4> HIDE DEF x, at
      <4> QED BY <2>1, <2>2
    <3> HIDE DEF x, at, f, h
    <3> QED BY <1>4, <2>5, <3>1, <3>2 DEF Wrapped
  <2>7. Shrunk(b, at, adj) = c
    <3>1. b.head = Wrapped(at + size + 1) BY <1>6 DEF NextPacket, size
    <3>2. (IF b.head = 0 THEN SIZE ELSE b.head) - (size - adj) = h
      <4> HIDE DEF at, t
      <4> QED BY <1>3, <1>4, <2>1, <2>2, <3>1 DEF Wrapped
    <3> HIDE DEF h
    <3> QED BY <1>6, <3>2 DEF Shrunk, size
  <2> DEFINE cell == [b.mem[at] EXCEPT !.size = adj]
  <2>8. /\ r \in Buffers /\ r.head = h /\ r.tail = t
        /\ r.mem = [b.mem EXCEPT ![at] = cell]
    <3> HIDE DEF h, at
    <3>1. r.head = h /\ r.tail = t /\ r.mem = [b.mem EXCEPT ![at] = cell]
          /\ r = [b EXCEPT !.head = h, !.mem = r.mem]
      BY <1>2 DEF Buffers
    <3>2. cell \in Cells BY <1>3, <1>4, <2>2 DEF Cells
    <3> HIDE DEF cell, r
    <3>3. r.mem \in [Words -> Cells] BY <1>3, <1>4, <3>1, <3>2
    <3> QED BY <1>2, <2>5, <3>1, <3>3 DEF Buffers
  <2> HIDE DEF r, h, f, cell
  <2>9. /\ c \in Buffers /\ c.head = Place(t, f) /\ c.tail = t /\ State(c, c.head) = "free"
        /\ \A p \in Words : p # h => c.mem[p] = r.mem[p]
    <3>1. IsSetFree(c, r, h) BY <2>5, <2>8, SettingFree
    <3> HIDE DEF c
    <3> QED BY <2>6, <2>8, <3>1 DEF IsSetFree
  <2> HIDE DEF c
  <2>10. c.mem[at] = cell
    <3> HIDE DEF at
    <3> QED BY <1>3, <1>4, <2>5, <2>8, <2>9
  <2>11. \A y \in D : y < x => c.mem[Place(t, y)] = b.mem[Place(t, y)]
    <3> SUFFICES ASSUME NEW y \in D, y < x PROVE c.mem[Place(t, y)] = b.mem[Place(t, y)] OBVIOUS
    <3>1. y \in Nat /\ y < e /\ y \in 0..SIZE /\ y # f /\ y # SIZE /\ x \in 0..SIZE /\ x # SIZE /\ f # SIZE /\ y # x
      <4> HIDE DEF x
      <4> QED BY <1>2, <1>3, <1>4, <2>1, <2>4
    <3>2. Place(t, y) \in Words BY <1>3, <3>1, Places
    <3>3. Place(t, y) # h BY <1>3, <2>4, <2>6, <3>1, PlacesDiffer
    <3>4. Place(t, y) # at
      <4> HIDE DEF x, at
      <4> QED BY <1>3, <1>4, <3>1, PlacesDiffer
    <3> QED BY <1>3, <2>8, <2>9, <3>2, <3>3, <3>4
  <2>12. InRing(c, {y \in D : y <= x} \cup {f}, f, l)
    <3>1. cell = [b.mem[at] EXCEPT !.size = f - x - 1] BY <2>4 DEF cell
    <3>2. x + b.mem[Place(t, x)].size + 1 = e BY <1>4, <2>1 DEF size
    <3>3. c.mem[Place(t, x)] = [b.mem[Place(t, x)] EXCEPT !.size = f - x - 1] BY <1>4, <2>10, <3>1
    <3> HIDE DEF x, at
    <3>4. Retreats(b, D, e, x, f, c) BY <1>4, <2>4, <2>9, <2>11, <3>2, <3>3 DEF Retreats
    <3> QED BY <3>4, Retreating
  <2> QED BY <2>7, <2>12
<1>7. \E F, f : InRing(s, F, f, l)
  <2>1. CASE s = b BY <2>1
  <2>2. CASE s # b
    <3>1. NextPacket(b, at) = b.head /\ s = Shrunk(b, at, adj) BY <2>2
    <3>2. size - adj > 0
      <4> HIDE DEF size, adj, at
      <4> QED BY <2>2, <3>1 DEF Shrunk, size
    <3> QED BY <1>6, <3>1, <3>2
  <2> QED BY <2>1, <2>2
<1>8. PICK F, f : InRing(s, F, f, l) BY <1>7
<1> HIDE DEF s
<1>9. /\ m \in Seq(Lives) /\ DOMAIN m = DOMAIN l
      /\ \A j \in DOMAIN l : m[j].at = l[j].at /\ m[j].state = IF j = i THEN "committed" ELSE l[j].state
  <2> DEFINE p == [l[i] EXCEPT !.state = "committed", !.len = len]
  <2>1. p \in Lives /\ p.at = l[i].at /\ p.state = "committed"
    BY <1>1, <1>5, LiveFields DEF Lives, Held
  <2>2. m = [l EXCEPT ![i] = p]
    <3>1. l[i] \in Lives BY <1>1, LiveFields
    <3> QED BY <1>1, <3>1 DEF Lives
  <2> HIDE DEF p, m
  <2> QED BY <1>1, <2>1, <2>2
<1> HIDE DEF m
<1>10. InRing(SetState(s, at, "committed"), F, f, m)
  <2>1. "committed" \in Held /\ "committed" # "popped" BY DEF Held
  <2> QED BY <1>8, <1>9, <2>1, Changing
<1>11. Committed(b, at, len) = SetState(s, at, "committed") BY DEF Committed, s
<1> QED BY <1>10, <1>11, Found DEF m

\* A packet is given up by its producer.
LEMMA Discarding ==
  ASSUME NEW b, NEW D, NEW e, NEW l, InRing(b, D, e, l), NEW i \in DOMAIN l
  PROVE  Ringed(Discarded(b, l[i].at), Without(l, {i}))
<1> DEFINE t == b.tail
           at == l[i].at
           x == Behind(t, at)
           k == SetState(b, at, "skipped")
           m == Without(l, {i})
<1>1. Packed(b, D, e) /\ InRing(k, D, e, m) BY SkippingOne DEF InRing
<1>2. b \in Buffers /\ e \in 0..SIZE /\ D \in SUBSET (0..e) BY <1>1 DEF Packed
<1>3. t \in Words /\ b.mem \in [Words -> Cells] /\ SIZE \in Nat /\ Words = 0..(SIZE - 1)
  BY <1>2, BufferFields
<1>4. /\ at \in Words /\ x \in D /\ x # e /\ Place(t, x) = at
      /\ NextPacket(b, at) = b.head <=> x + b.mem[at].size + 1 = e
  BY LivePlaces
<1>5. CASE NextPacket(b, at) # b.head
  <2>1. Discarded(b, at) = k BY <1>5 DEF Discarded
  <2> QED BY <1>1, <2>1, Found
<1>6. CASE NextPacket(b, at) = b.head
  <2> DEFINE r == [b EXCEPT !.head = at]
             c == SetFree(r, at)
  <2>1. Discarded(b, at) = c BY <1>6 DEF Discarded
  <2>2. r \in Buffers /\ r.head = at /\ r.tail = t /\ r.mem = b.mem
    <3> HIDE DEF at
    <3> QED BY <1>2, <1>4 DEF Buffers
  <2> HIDE DEF r
  <2>3. /\ c \in Buffers /\ c.head = at /\ c.tail = t /\ State(c, c.head) = "free"
        /\ \A p \in Words : p # at => c.mem[p] = b.mem[p]
    <3>1. IsSetFree(c, r, at)
      <4> HIDE DEF at
      <4> QED BY <1>4, <2>2, SettingFree
    <3> HIDE DEF c, at
    <3> QED BY <2>2, <3>1 DEF IsSetFree
  <2>4. /\ k.tail = t /\ k.mem[at].size = b.mem[at].size /\ State(k, at) = "skipped"
        /\ \A p \in Words : p # at => k.mem[p] = b.mem[p]
    <3>1. IsSetTo(k, b, at, "skipped")
      <4> HIDE DEF at
      <4> QED BY <1>2, <1>4, SettingState
    <3> HIDE DEF k, at
    <3> QED BY <1>4, <3>1 DEF IsSetTo
  <2> HIDE DEF c, k, m
  <2>5. x \in Nat /\ e \in Nat /\ x < e
    <3> HIDE DEF x
    <3> QED BY <1>2, <1>3, <1>4
  <2>6. \A y \in D : y < x => c.mem[Place(t, y)] = k.mem[Place(t, y)]
    <3> SUFFICES ASSUME NEW y \in D, y < x PROVE c.mem[Place(t, y)] = k.mem[Place(t, y)] OBVIOUS
    <3>1. y \in 0..SIZE /\ y # SIZE /\ x \in 0..SIZE /\ x # SIZE /\ y # x
      <4> HIDE DEF x
      <4> QED BY <1>2, <1>3, <1>4, <2>5
    <3>2. Place(t, y) \in Words BY <1>3, <3>1, Places
    <3>3. Place(t, y) # at
      <4> HIDE DEF x, at
      <4> QED BY <1>3, <1>4, <3>1, PlacesDiffer
    <3> QED BY <2>3, <2>4, <3>2, <3>3
  <2>7. x \in x..(e - 1) BY <2>5
  <2>8. x + k.mem[Place(t, x)].size + 1 = e BY <1>4, <1>6, <2>4
  <2>9. c.head = Place(t, x) /\ State(k, Place(t, x)) = "skipped" BY <1>4, <2>3, <2>4
  <2>10. InRing(c, {y \in D : y <= x} \cup {x}, x, m)
    <3> DEFINE f == x
    <3>1. f \in x..(e - 1) /\ c.tail = k.tail /\ c.head = Place(k.tail, f) /\ f = x
      BY <2>3, <2>4, <2>7, <2>9
    <3>2. x + k.mem[Place(k.tail, x)].size + 1 = e /\ State(k, Place(k.tail, x)) = "skipped"
      BY <2>4, <2>8, <2>9
    <3>3. \A y \in D : y < x => c.mem[Place(k.tail, y)] = k.mem[Place(k.tail, y)] BY <2>4, <2>6
    <3>4. x \in D /\ x # e /\ c \in Buffers /\ State(c, c.head) = "free" BY <1>4, <2>3
    <3> HIDE DEF x, f
    <3>5. Retreats(k, D, e, x, f, c) BY <3>1, <3>2, <3>3, <3>4 DEF Retreats
    <3>6. InRing(c, {y \in D : y <= x} \cup {f}, f, m) BY <1>1, <3>5, Retreating
    <3> QED BY <3>1, <3>6
  <2> QED BY <2>1, <2>10, Found DEF m
<1> QED BY <1>5, <1>6

\* The popped packet is freed by the consumer.
LEMMA Freeing ==
  ASSUME NEW b, NEW D, NEW e, NEW l, InRing(b, D, e, l), NEW i \in DOMAIN l, l[i].state = "popped"
  PROVE  l[i].at = b.tail /\ Ringed(Freed(b, l[i].at), Without(l, {i}))
<1> DEFINE t == b.tail
           k == SetState(b, t, "skipped")
           m == Without(l, {i})
<1>1. Packed(b, D, e) BY DEF InRing
<1>2. b \in Buffers BY <1>1 DEF Packed
<1>3. t \in Words /\ b.mem \in [Words -> Cells] BY <1>2, BufferFields
<1>4. l[i].at = t /\ e # 0
  <2>1. Place(t, 0) = t BY <1>3, Places
  <2>2. Behind(t, l[i].at) = 0 /\ Behind(t, l[i].at) # e /\ Place(t, Behind(t, l[i].at)) = l[i].at
    BY LivePlaces
  <2> QED BY <2>1, <2>2
<1>5. InRing(k, D, e, m) BY <1>4, SkippingOne
<1>9. IsSetTo(k, b, t, "skipped") BY <1>2, <1>3, SettingState
<1>6. k.tail = t /\ State(k, t) = "skipped" /\ k.mem[t].size = b.mem[t].size
  BY <1>3, <1>9 DEF IsSetTo
<1>7. \E F, f : InRing(Freed(k, t), F, f, m)
  <2> HIDE DEF k, m
  <2> QED BY <1>4, <1>5, <1>6, FreeingTail
<1>8. Freed(k, t) = Freed(b, t)
  <2>1. NextPacket(k, t) = NextPacket(b, t)
    <3>1. k.mem[t].size = b.mem[t].size BY <1>6
    <3> HIDE DEF k, t
    <3> QED BY <3>1 DEF NextPacket
  <2>2. k = [b EXCEPT !.mem = k.mem] /\ k.mem = [b.mem EXCEPT ![t] = [b.mem[t] EXCEPT !.state = "skipped"]]
    BY <1>2 DEF SetState, Buffers
  <2> HIDE DEF k, t
  <2>3. [k.mem EXCEPT ![t] = FreeCell] = [b.mem EXCEPT ![t] = FreeCell] BY <1>3, <2>2
  <2>4. \A u : [[k EXCEPT !.tail = u] EXCEPT !.mem[t] = FreeCell]
             = [[b EXCEPT !.tail = u] EXCEPT !.mem[t] = FreeCell]
    BY <1>2, <2>2, <2>3 DEF Buffers
  <2> QED BY <2>1, <2>4 DEF Freed, SetFree
<1> QED BY <1>4, <1>7, <1>8, Found

\* A walk of packet_buffer_flush skips committed packets only.
LEMMA Flushing ==
  ASSUME NEW b, NEW D, NEW e, NEW l, InRing(b, D, e, l),
         NEW start \in D, start = 0 => State(b, b.tail) # "popped"
  PROVE  LET c == FlushedFrom(b, Place(b.tail, start)) IN
         /\ c \in Buffers /\ c.head = b.head /\ c.tail = b.tail
         /\ \A p \in Words : /\ c.mem[p].size = b.mem[p].size
                             /\ \/ State(c, p) = State(b, p)
                                \/ State(c, p) = "skipped" /\ State(b, p) \in {"committed", "skipped"}
<1> DEFINE t == b.tail
           Near(c) == /\ c \in Buffers /\ c.head = b.head /\ c.tail = t
                      /\ \A p \in Words :
                           /\ c.mem[p].size = b.mem[p].size
                           /\ \/ State(c, p) = State(b, p)
                              \/ State(c, p) = "skipped" /\ State(b, p) \in {"committed", "skipped"}
           Stands(at) == \E y \in D : at = Place(t, y) /\ (y = 0 => State(b, t) # "popped")
           Reached(w) == Near(w.b) /\ Stands(w.at)
           first == [at |-> Place(t, start), b |-> b]
<1>1. PICK run : run = [n \in 0..SIZE |-> IF n = 0 THEN first ELSE FlushOnce(run[n - 1])]
                 /\ FlushedFrom(b, Place(t, start)) = run[SIZE].b
  BY FlushRun
<1>2. SIZE \in Nat BY BufferAssumption DEF BufferAssumption
<1>3. Packed(b, D, e) /\ b \in Buffers /\ D \in SUBSET (0..e) /\ b.head = Place(t, e)
      /\ \A y \in D \ {e} : Sound(b, D, y)
  BY DEF InRing, Packed
<1>4. ASSUME NEW w, Reached(w) PROVE Reached(FlushOnce(w))
  <2>1. CASE State(w.b, w.at) = "reserved" \/ w.at = w.b.head
    <3>1. FlushOnce(w) = w BY <2>1 DEF FlushOnce
    <3> QED BY <1>4, <3>1
  <2>2. CASE ~(State(w.b, w.at) = "reserved" \/ w.at = w.b.head)
    <3> DEFINE at == w.at
               c == SetState(w.b, at, "skipped")
               next == NextPacket(w.b, at)
    <3>1. FlushOnce(w) = [at |-> next, b |-> c] BY <2>2 DEF FlushOnce
    <3>2. PICK y \in D : at = Place(t, y) /\ (y = 0 => State(b, t) # "popped") BY <1>4
    <3>3. y # e BY <1>3, <1>4, <2>2, <3>2
    <3>4. /\ at \in Words /\ y + b.mem[at].size + 1 \in D
          /\ y \in 0..(SIZE - 1) /\ b.mem[at].size \in Nat
          /\ NextPacket(b, at) = Place(t, y + b.mem[at].size + 1) /\ (at = t <=> y = 0)
      BY <1>3, <3>2, <3>3, PacketFacts
    <3>5. State(b, at) \in Held \cup {"skipped"} /\ (State(b, at) = "popped" => y = 0)
      BY <1>3, <3>2, <3>3 DEF Sound
    <3>6. State(b, at) # "popped" BY <3>2, <3>4, <3>5
    <3>7. State(b, at) # "reserved"
      <4>1. State(w.b, at) # "reserved" BY <2>2
      <4>2. State(w.b, at) = State(b, at) \/ State(b, at) \in {"committed", "skipped"} BY <1>4, <3>4
      <4> QED BY <4>1, <4>2
    <3>8. State(b, at) \in {"committed", "skipped"} BY <3>5, <3>6, <3>7 DEF Held
    <3>9. Near(c)
      <4> HIDE DEF at
      <4>1. w.b \in Buffers /\ at \in Words BY <1>4, <3>4
      <4>2. IsSetTo(c, w.b, at, "skipped") BY <4>1, SettingState
      <4> HIDE DEF c
      <4> QED BY <1>4, <3>8, <4>2 DEF IsSetTo
    <3>10. Stands(next)
      <4>1. next = NextPacket(b, at)
        <5>1. w.b.mem[at].size = b.mem[at].size BY <1>4, <3>4
        <5> HIDE DEF at
        <5> QED BY <5>1 DEF NextPacket
      <4>2. y + b.mem[at].size + 1 # 0 BY <3>4
      <4> HIDE DEF next, at
      <4> QED BY <3>4, <4>1, <4>2
    <3> HIDE DEF Near, Stands, next, c
    <3> QED BY <3>1, <3>9, <3>10
  <2> QED BY <2>1, <2>2
<1>5. Reached(run[0])
  <2>1. 0 \in 0..SIZE BY <1>2
  <2>2. run[0] = first BY <1>1, <2>1
  <2>3. Near(b) BY <1>3
  <2>4. Stands(Place(t, start)) OBVIOUS
  <2> HIDE DEF Near, Stands
  <2> QED BY <2>2, <2>3, <2>4
<1> HIDE DEF Reached, first
<1> DEFINE T == {n \in Nat : n \in 0..SIZE /\ ~Reached(run[n])}
<1>6. ASSUME T # {} PROVE FALSE
  <2>1. PICK n \in T : \A j \in T : n <= j BY <1>6, LeastNumber
  <2>2. n \in 0..SIZE /\ ~Reached(run[n]) BY <2>1
  <2>3. n # 0 BY <1>5, <2>2
  <2>4. n - 1 \in Nat /\ n - 1 \in 0..SIZE /\ ~(n <= n - 1) BY <1>2, <2>2, <2>3
  <2>5. Reached(run[n - 1]) BY <2>1, <2>4
  <2>6. run[n] = FlushOnce(run[n - 1]) BY <1>1, <2>2, <2>3
  <2> QED BY <1>4, <2>2, <2>5, <2>6
<1>7. Reached(run[SIZE])
  <2>1. SIZE \in 0..SIZE BY <1>2
  <2> QED BY <1>2, <1>6, <2>1
<1>8. Near(FlushedFrom(b, Place(t, start))) BY <1>1, <1>7 DEF Reached
<1> QED BY <1>8

\* The buffer is flushed: committed packets go, the others stay.
LEMMA FlushKeeps ==
  ASSUME NEW b, NEW D, NEW e, NEW l, InRing(b, D, e, l)
  PROVE  LET P == {i \in DOMAIN l : State(Flushed(b), l[i].at) \in {"skipped", "free"}} IN
         /\ Ringed(Flushed(b), Without(l, P))
         /\ \A i \in P : l[i].state = "committed"
<1> DEFINE t == b.tail
           c == Flushed(b)
           P == {i \in DOMAIN l : State(c, l[i].at) \in {"skipped", "free"}}
           start == IF State(b, t) = "popped" THEN b.mem[t].size + 1 ELSE 0
           w == FlushedFrom(b, Place(t, start))
           Q == {i \in DOMAIN l : State(w, l[i].at) = "skipped"}
<1>1. /\ Packed(b, D, e) /\ b \in Buffers /\ 0 \in D /\ b.head = Place(t, e)
      /\ e \in 0..SIZE /\ (e < SIZE => State(b, b.head) = "free")
  BY DEF InRing, Packed, Marked
<1>2. t \in Words /\ b.head \in Words /\ SIZE \in Nat /\ SIZE > 1 BY <1>1, BufferFields
<1>3. Place(t, 0) = t BY <1>2, Places
<1>4. /\ start \in D /\ (start = 0 => State(b, t) # "popped")
      /\ State(b, t) = "popped" => NextPacket(b, t) = Place(t, start)
  <2>1. CASE State(b, t) # "popped" BY <1>1, <2>1
  <2>2. CASE State(b, t) = "popped"
    <3>1. e # 0 BY <1>1, <1>2, <1>3, <2>2
    <3>2. b.mem[t].size \in Nat /\ 0 + b.mem[t].size + 1 \in D /\ NextPacket(b, t) = Place(t, 0 + b.mem[t].size + 1)
      BY <1>1, <1>3, <3>1, PacketFacts
    <3>3. 0 + b.mem[t].size + 1 = b.mem[t].size + 1 /\ b.mem[t].size + 1 # 0 BY <3>2
    <3>4. start = b.mem[t].size + 1 BY <2>2
    <3> QED BY <3>2, <3>3, <3>4
  <2> QED BY <2>1, <2>2
<1> HIDE DEF start
<1>5. c = IF State(b, t) = "popped" THEN w ELSE FreeSkipped(w)
  <2>1. CASE State(b, t) = "popped" BY <1>4, <2>1 DEF Flushed
  <2>2. CASE State(b, t) # "popped"
    <3>1. Place(t, start) = t BY <1>3, <2>2 DEF start
    <3> QED BY <2>2, <3>1 DEF Flushed
  <2> QED BY <2>1, <2>2
<1>6. /\ w \in Buffers /\ w.head = b.head /\ w.tail = t
      /\ \A p \in Words : /\ w.mem[p].size = b.mem[p].size
                          /\ \/ State(w, p) = State(b, p)
                             \/ State(w, p) = "skipped" /\ State(b, p) \in {"committed", "skipped"}
  BY <1>4, Flushing
<1> HIDE DEF w
<1>7. InRing(w, D, e, Without(l, Q))
  <2>1. e < SIZE => State(w, b.head) = State(b, b.head) BY <1>1, <1>2, <1>6
  <2>2. \A x \in D \ {e} : LET at == Place(t, x) IN
            w.mem[at].size = b.mem[at].size /\ State(w, at) \in {State(b, at), "skipped"}
    BY <1>1, <1>6, PacketFacts
  <2> QED BY <1>6, <2>1, <2>2, Skipping
<1>8. \A i \in DOMAIN l : /\ l[i].at \in Words /\ l[i].state = State(b, l[i].at)
                          /\ l[i].state \in {"reserved", "committed", "popped"}
  BY LivePlaces DEF Held
<1>9. \A i \in DOMAIN l : State(c, l[i].at) \in {"skipped", "free"} <=> State(w, l[i].at) = "skipped"
  <2> SUFFICES ASSUME NEW i \in DOMAIN l
               PROVE  State(c, l[i].at) \in {"skipped", "free"} <=> State(w, l[i].at) = "skipped"
    OBVIOUS
  <2> DEFINE at == l[i].at
  <2>1. at \in Words /\ State(w, at) # "free" BY <1>6, <1>8
  <2>2. CASE c = w BY <2>1, <2>2
  <2>3. CASE c = FreeSkipped(w)
    <3>1. c.mem[at] = w.mem[at] \/ (c.mem[at] = FreeCell /\ State(w, at) = "skipped")
      <4> HIDE DEF at, c, Q
      <4> QED BY <1>7, <2>1, <2>3, FreeingSkipped
    <3>2. FreeCell.state = "free" BY DEF FreeCell
    <3> HIDE DEF at, c
    <3>3. State(c, at) = State(w, at) \/ (State(c, at) = "free" /\ State(w, at) = "skipped")
      BY <3>1, <3>2 DEF State
    <3> QED BY <2>1, <3>3 DEF at
  <2> QED BY <1>5, <2>2, <2>3
<1>10. P = Q BY <1>9
<1>11. \A i \in Q : l[i].state = "committed" BY <1>6, <1>8
<1>12. Ringed(c, Without(l, Q))
  <2> HIDE DEF Q, c
  <2>1. CASE c = w BY <1>7, <2>1, Found
  <2>2. CASE c = FreeSkipped(w) BY <1>7, <2>2, Found, FreeingSkipped
  <2> QED BY <1>5, <2>1, <2>2
<1> HIDE DEF P, Q, c
<1>13. Ringed(c, Without(l, P)) /\ \A i \in P : l[i].state = "committed" BY <1>10, <1>11, <1>12
<1> QED BY <1>13 DEF P, c

\* With no skipped packet at the tail, the oldest packet that is held is there.
LEMMA Oldest ==
  ASSUME NEW b, NEW D, NEW e, NEW l, InRing(b, D, e, l), State(b, b.tail) # "skipped"
  PROVE  /\ l # <<>> => 1 \in DOMAIN l /\ l[1].at = b.tail
         /\ l = <<>> => b.head = b.tail /\ State(b, b.tail) = "free"
         /\ State(b, b.tail) \in Held => l # <<>>
<1> DEFINE t == b.tail
<1>1. /\ Packed(b, D, e) /\ b \in Buffers /\ 0 \in D /\ b.head = Place(t, e) /\ D \in SUBSET (0..e)
      /\ e \in 0..SIZE /\ (e < SIZE => State(b, b.head) = "free") /\ Viewed(b, D, e, l)
  BY DEF InRing, Packed, Marked
<1>2. t \in Words /\ SIZE \in Nat /\ SIZE > 1 BY <1>1, BufferFields
<1>3. Place(t, 0) = t BY <1>2, Places
<1>4. l \in Seq(Lives) BY <1>1 DEF Viewed
<1>5. CASE e = 0
  <2>1. l = <<>>
    <3>1. D \ {e} = {} BY <1>1, <1>5
    <3>2. \A i \in DOMAIN l : Behind(t, l[i].at) \in D \ {e} BY <1>1 DEF Viewed
    <3>3. DOMAIN l = {} BY <3>1, <3>2
    <3> QED BY <1>4, <3>3
  <2>2. b.head = t /\ State(b, t) = "free" BY <1>1, <1>2, <1>3, <1>5
  <2>3. "free" \notin Held BY DEF Held
  <2> QED BY <2>1, <2>2, <2>3
<1>6. CASE e # 0
  <2>1. PICK i \in DOMAIN l : l[i].at = t
    <3>1. State(b, Place(t, 0)) = "skipped" \/ \E i \in DOMAIN l : l[i].at = Place(t, 0)
      BY <1>1, <1>6 DEF Viewed
    <3> QED BY <1>3, <3>1
  <2>2. l # <<>> /\ 1 \in DOMAIN l /\ i \in Nat /\ 1 <= i BY <1>4, <2>1
  <2>3. i = 1
    <3> SUFFICES ASSUME i # 1 PROVE FALSE OBVIOUS
    <3>1. Behind(t, l[1].at) < Behind(t, l[i].at)
      <4>1. 1 < i BY <2>2
      <4>2. \A j, k \in DOMAIN l : j < k => Behind(t, l[j].at) < Behind(t, l[k].at) BY <1>1 DEF Viewed
      <4> QED BY <2>2, <4>1, <4>2
    <3>2. Behind(t, l[i].at) = 0 BY <1>2, <2>1, Places
    <3>3. Behind(t, l[1].at) \in D BY <1>1, <2>2 DEF Viewed
    <3>4. D \in SUBSET Nat BY <1>1
    <3>5. Behind(t, l[1].at) \in Nat BY <3>3, <3>4
    <3> QED BY <3>1, <3>2, <3>5
  <2> QED BY <2>1, <2>2, <2>3
<1> QED BY <1>5, <1>6

\* The consumer takes the packet at the tail.
LEMMA Popping ==
  ASSUME NEW b, NEW D, NEW e, NEW l, InRing(b, D, e, l), State(b, b.tail) = "committed",
         NEW m, m = [i \in DOMAIN l |-> IF l[i].at = b.tail THEN [l[i] EXCEPT !.state = "popped"] ELSE l[i]]
  PROVE  /\ InRing(SetState(b, b.tail, "popped"), D, e, m)
         /\ 1 \in DOMAIN l /\ l[1].at = b.tail /\ \A i \in DOMAIN l : l[i].at = b.tail => i = 1
<1>1. l \in Seq(Lives) BY DEF InRing, Viewed
<1>2. 1 \in DOMAIN l /\ l[1].at = b.tail
  <2>1. "committed" \in Held BY DEF Held
  <2> QED BY <2>1, Oldest
<1>3. \A i \in DOMAIN l : l[i].at = b.tail => i = 1 BY <1>2, LivePlaces
<1> DEFINE p == [l[1] EXCEPT !.state = "popped"]
<1>4. p \in Lives /\ p.at = l[1].at /\ p.state = "popped" BY <1>1, <1>2, LiveFields DEF Lives, Held
<1>5. m = [l EXCEPT ![1] = p] BY <1>1, <1>2, <1>3
<1> HIDE DEF p
<1>6. m \in Seq(Lives) /\ DOMAIN m = DOMAIN l
      /\ \A j \in DOMAIN l : m[j].at = l[j].at /\ m[j].state = IF j = 1 THEN "popped" ELSE l[j].state
  <2>1. [l EXCEPT ![1] = p] \in Seq(Lives) BY <1>1, <1>2, <1>4
  <2>2. \A j \in DOMAIN l : m[j] = IF j = 1 THEN p ELSE l[j] BY <1>2, <1>5
  <2>3. DOMAIN m = DOMAIN l BY <1>5
  <2> QED BY <1>2, <1>4, <1>5, <2>1, <2>2, <2>3
<1>7. "popped" \in Held BY DEF Held
<1>8. InRing(SetState(b, l[1].at, "popped"), D, e, m) BY <1>2, <1>6, <1>7, Changing
<1> QED BY <1>2, <1>3, <1>8

-----------------------------------------------------------------------------
(* The users' view as a queue *)

\* What the abstract queue shows of the packets that are held.
Shown(l) == [i \in DOMAIN l |-> [at |-> l[i].at, state |-> l[i].state]]

\* Packets that go, go from the queue.
LEMMA ShownWithout ==
  ASSUME NEW l \in Seq(Lives), NEW P
  PROVE  Shown(Without(l, P)) = Without(Shown(l), P)
<1> DEFINE S == DOMAIN l \ P
           left == InOrder(S)
           n == Cardinality(S)
<1>1. DOMAIN l = 1..Len(l) /\ Len(l) \in Nat OBVIOUS
<1>2. S \in SUBSET Nat /\ IsFiniteSet(S)
  <2>1. IsFiniteSet(1..Len(l)) BY <1>1, FS_Interval
  <2> QED BY <1>1, <2>1, FS_Subset
<1>3. left \in [1..n -> S]
  <2>1. OrderOf(left, S)
    <3> HIDE DEF S
    <3> QED BY <1>2, InOrderIs
  <2> QED BY <2>1 DEF OrderOf
<1>4. DOMAIN Shown(l) = DOMAIN l BY DEF Shown
<1>5. Without(l, P) = [k \in DOMAIN left |-> l[left[k]]] BY DEF Without
<1>6. Without(Shown(l), P) = [k \in DOMAIN left |-> Shown(l)[left[k]]] BY <1>4 DEF Without
<1> HIDE DEF left
<1>7. \A k \in DOMAIN left : Shown(l)[left[k]] = [at |-> l[left[k]].at, state |-> l[left[k]].state]
  <2>1. \A k \in DOMAIN left : left[k] \in DOMAIN l BY <1>3
  <2> QED BY <2>1 DEF Shown
<1> DEFINE w == Without(l, P)
<1>8. DOMAIN w = DOMAIN left /\ \A k \in DOMAIN w : w[k] = l[left[k]] BY <1>5
<1>9. Shown(w) = [k \in DOMAIN w |-> [at |-> w[k].at, state |-> w[k].state]] BY DEF Shown
<1> HIDE DEF w
<1>10. Shown(w) = Without(Shown(l), P) BY <1>6, <1>7, <1>8, <1>9
<1> QED BY <1>10 DEF w

\* The states the queue shows are those the packets have.
LEMMA ShownFields ==
  ASSUME NEW l, NEW i \in DOMAIN l
  PROVE  i \in DOMAIN Shown(l) /\ Shown(l)[i].state = l[i].state /\ Shown(l)[i].at = l[i].at
BY DEF Shown

\* Of the lists l and m, m has the i-th packet in another state.
OneChanges(l, m, i, st) ==
  /\ DOMAIN m = DOMAIN l /\ i \in DOMAIN l
  /\ \A j \in DOMAIN l : m[j].at = l[j].at /\ m[j].state = IF j = i THEN st ELSE l[j].state

\* A change of one state shows.
LEMMA ShownChange ==
  ASSUME NEW l, NEW m, NEW i, NEW st, OneChanges(l, m, i, st)
  PROVE  Shown(m) = [Shown(l) EXCEPT ![i].state = st]
<1>0. /\ DOMAIN m = DOMAIN l /\ i \in DOMAIN l
      /\ \A j \in DOMAIN l : m[j].at = l[j].at /\ m[j].state = IF j = i THEN st ELSE l[j].state
  BY DEF OneChanges
<1>1. Shown(m) = [j \in DOMAIN l |-> [at |-> m[j].at, state |-> m[j].state]] BY <1>0 DEF Shown
<1>2. [Shown(l) EXCEPT ![i].state = st]
      = [j \in DOMAIN l |-> IF j = i THEN [Shown(l)[i] EXCEPT !.state = st] ELSE Shown(l)[j]]
  BY DEF Shown
<1>3. \A j \in DOMAIN l : Shown(l)[j] = [at |-> l[j].at, state |-> l[j].state] BY DEF Shown
<1>4. [Shown(l)[i] EXCEPT !.state = st] = [at |-> l[i].at, state |-> st]
  <2>1. \A a, c : [[at |-> a, state |-> c] EXCEPT !.state = st] = [at |-> a, state |-> st] OBVIOUS
  <2>2. Shown(l)[i] = [at |-> l[i].at, state |-> l[i].state] BY <1>0, <1>3
  <2> QED BY <2>1, <2>2
<1>5. \A j \in DOMAIN l : [at |-> m[j].at, state |-> m[j].state]
                          = IF j = i THEN [Shown(l)[i] EXCEPT !.state = st] ELSE Shown(l)[j]
  BY <1>0, <1>3, <1>4
<1> QED BY <1>1, <1>2, <1>5

-----------------------------------------------------------------------------
(* The steps *)

\* The inductive invariant.
RingInv == Ringed(buf, live)

\* The first state.
LEMMA RingInit == BufferInit => RingInv
<1> SUFFICES ASSUME BufferInit PROVE RingInv OBVIOUS
<1>1. SIZE \in Nat /\ SIZE > 1 /\ Words = 0..(SIZE - 1) BY BufferAssumption DEF BufferAssumption, Words
<1>2. /\ buf.head = 0 /\ buf.tail = 0 /\ live = <<>>
      /\ buf.mem = [i \in Words |-> IF i = 0 THEN FreeCell ELSE DataCell]
      /\ buf = [head |-> 0, tail |-> 0, mem |-> buf.mem]
  BY DEF BufferInit
<1>3. buf \in Buffers
  <2>1. FreeCell \in Cells /\ DataCell \in Cells BY DEF FreeCell, DataCell, Cells
  <2>2. buf.mem \in [Words -> Cells] BY <1>2, <2>1
  <2>3. 0 \in Words BY <1>1
  <2> QED BY <1>2, <2>2, <2>3 DEF Buffers
<1>4. Packed(buf, {0}, 0)
  <2>1. 0 \in 0..SIZE /\ {0} \in SUBSET (0..0) /\ {0} \ {0} = {} BY <1>1
  <2>2. buf.head = Place(buf.tail, 0) BY <1>1, <1>2 DEF Place
  <2> QED BY <1>3, <2>1, <2>2 DEF Packed
<1>5. Marked(buf, 0) BY <1>1, <1>2 DEF Marked, State, FreeCell
<1>6. Viewed(buf, {0}, 0, live)
  <2>1. live \in Seq(Lives) /\ DOMAIN live = {} BY <1>2
  <2> QED BY <2>1 DEF Viewed
<1> QED BY <1>4, <1>5, <1>6, Found DEF InRing, RingInv

\* What the queue may do when the packets held change from l to m, or nothing.
QueueStep(l, m) ==
  \/ Shown(m) = Shown(l)
  \/ /\ Len(Shown(m)) = Len(Shown(l)) + 1
     /\ Shown(m)[Len(Shown(m))].state = "reserved"
     /\ Shown(m) = Append(Shown(l), Shown(m)[Len(Shown(m))])
  \/ \E i \in DOMAIN Shown(l) : /\ Shown(l)[i].state = "reserved"
                                /\ Shown(m) = [Shown(l) EXCEPT ![i].state = "committed"]
  \/ \E i \in DOMAIN Shown(l) : /\ Shown(l)[i].state = "reserved"
                                /\ Shown(m) = Without(Shown(l), {i})
  \/ /\ Shown(l) # <<>> /\ Shown(l)[1].state = "committed"
     /\ Shown(m) = [Shown(l) EXCEPT ![1].state = "popped"]
  \/ /\ Shown(l) # <<>> /\ Shown(l)[1].state = "popped"
     /\ Shown(m) = Without(Shown(l), {1})
  \/ \E P \in SUBSET {i \in DOMAIN Shown(l) : Shown(l)[i].state = "committed"} :
       Shown(m) = Without(Shown(l), P)

\* Reservations.
LEMMA ReserveStep ==
  ASSUME NEW len \in LENGTHS, RingInv, Reserve(len)
  PROVE  RingInv' /\ QueueStep(live, live')
<1>1. PICK D, e : InRing(buf, D, e, live) BY DEF RingInv, Ringed
<1>2. PICK b \in Prepared(buf, len + 1) :
        /\ buf' = ReservePacket(b, AdjustedLength(b, b.head, len))
        /\ live' = Append(live, [at |-> b.head, len |-> len, state |-> "reserved"])
  BY DEF Reserve
<1>3. Ringed(buf', live') BY <1>1, <1>2, Reserving
<1> DEFINE p == [at |-> b.head, len |-> len, state |-> "reserved"]
           q == [at |-> b.head, state |-> "reserved"]
<1>4. live \in Seq(Lives) BY <1>1 DEF InRing, Viewed
<1>5. Shown(live') = Append(Shown(live), q) /\ Len(Shown(live)) \in Nat
  <2>1. DOMAIN live = 1..Len(live) /\ Len(live) \in Nat BY <1>4
  <2>2. Len(Shown(live)) = Len(live) /\ DOMAIN Shown(live) = 1..Len(live)
    BY <2>1 DEF Shown
  <2>3. Append(Shown(live), q) = [i \in 1..(Len(live) + 1) |-> IF i = Len(live) + 1 THEN q ELSE Shown(live)[i]]
    BY <2>1, <2>2
  <2>4. live' = [i \in 1..(Len(live) + 1) |-> IF i = Len(live) + 1 THEN p ELSE live[i]]
    BY <1>2, <2>1
  <2>5. Shown(live') = [i \in 1..(Len(live) + 1) |-> [at |-> live'[i].at, state |-> live'[i].state]]
    BY <2>4 DEF Shown
  <2>6. \A i \in 1..(Len(live) + 1) :
          [at |-> live'[i].at, state |-> live'[i].state] = IF i = Len(live) + 1 THEN q ELSE Shown(live)[i]
    BY <2>1, <2>4 DEF Shown
  <2> QED BY <2>1, <2>2, <2>3, <2>5, <2>6
<1>6. Len(Shown(live')) = Len(Shown(live)) + 1 /\ Shown(live')[Len(Shown(live'))] = q
  <2>1. Shown(live) \in Seq({Shown(live)[i] : i \in DOMAIN live})
    <3>1. DOMAIN live = 1..Len(live) /\ Len(live) \in Nat BY <1>4
    <3> QED BY <3>1 DEF Shown
  <2> HIDE DEF q
  <2> QED BY <1>5, <2>1
<1> QED BY <1>3, <1>5, <1>6 DEF RingInv, QueueStep

\* Commits.
LEMMA CommitStep ==
  ASSUME NEW i \in DOMAIN live, NEW len \in LENGTHS, RingInv, Commit(i, len)
  PROVE  RingInv' /\ QueueStep(live, live')
<1>1. PICK D, e : InRing(buf, D, e, live) BY DEF RingInv, Ringed
<1>2. /\ live[i].state = "reserved" /\ buf' = Committed(buf, live[i].at, len)
      /\ live' = [[live EXCEPT ![i].state = "committed"] EXCEPT ![i].len = len]
  BY DEF Commit, WithState
<1>3. Ringed(buf', live') BY <1>1, <1>2, Committing
<1>4. live \in Seq(Lives) BY <1>1 DEF InRing, Viewed
<1>5. OneChanges(live, live', i, "committed")
  <2>1. live[i] \in Lives BY <1>4, LiveFields
  <2> QED BY <1>2, <1>4, <2>1 DEF Lives, OneChanges
<1>6. Shown(live') = [Shown(live) EXCEPT ![i].state = "committed"] BY <1>5, ShownChange
<1> QED BY <1>2, <1>3, <1>6, ShownFields DEF RingInv, QueueStep

\* Packets that are given up.
LEMMA DiscardStep ==
  ASSUME NEW i \in DOMAIN live, RingInv, Discard(i)
  PROVE  RingInv' /\ QueueStep(live, live')
<1>1. PICK D, e : InRing(buf, D, e, live) BY DEF RingInv, Ringed
<1>2. /\ live[i].state = "reserved" /\ buf' = Discarded(buf, live[i].at)
      /\ live' = Without(live, {i})
  BY DEF Discard
<1>3. Ringed(buf', live') BY <1>1, <1>2, Discarding
<1>4. live \in Seq(Lives) BY <1>1 DEF InRing, Viewed
<1>5. Shown(live') = Without(Shown(live), {i}) BY <1>2, <1>4, ShownWithout
<1> QED BY <1>2, <1>3, <1>5, ShownFields DEF RingInv, QueueStep

\* Pops.
LEMMA PopStep == ASSUME RingInv, Pop PROVE RingInv' /\ QueueStep(live, live')
<1> DEFINE b == FreeSkipped(buf)
<1>1. PICK D, e : InRing(buf, D, e, live) BY DEF RingInv, Ringed
<1>2. PICK F, f : InRing(b, F, f, live) BY <1>1, FreeingSkipped
<1>3. /\ buf' = IF State(b, b.tail) = "committed" THEN SetState(b, b.tail, "popped") ELSE b
      /\ live' = IF State(b, b.tail) = "committed"
                 THEN [i \in DOMAIN live |-> IF live[i].at = b.tail
                                             THEN [live[i] EXCEPT !.state = "popped"]
                                             ELSE live[i]]
                 ELSE live
  BY DEF Pop
<1> HIDE DEF b
<1>4. CASE State(b, b.tail) # "committed"
  <2>1. buf' = b /\ live' = live BY <1>3, <1>4
  <2> QED BY <1>2, <2>1, Found DEF RingInv, QueueStep
<1>5. CASE State(b, b.tail) = "committed"
  <2>1. /\ InRing(buf', F, f, live')
        /\ 1 \in DOMAIN live /\ live[1].at = b.tail /\ \A i \in DOMAIN live : live[i].at = b.tail => i = 1
    BY <1>2, <1>3, <1>5, Popping
  <2>2. live \in Seq(Lives) BY <1>2 DEF InRing, Viewed
  <2>3. live[1].state = "committed" BY <1>2, <1>5, <2>1, LivePlaces
  <2>4. OneChanges(live, live', 1, "popped")
    <3>1. \A j \in DOMAIN live : live[j] \in Lives BY <2>2
    <3> QED BY <1>3, <1>5, <2>1, <3>1 DEF Lives, OneChanges
  <2>5. Shown(live') = [Shown(live) EXCEPT ![1].state = "popped"] BY <2>4, ShownChange
  <2>6. 1 \in DOMAIN Shown(live) /\ Shown(live)[1].state = "committed" BY <2>1, <2>3, ShownFields
  <2>7. Shown(live) # <<>> BY <2>6
  <2> QED BY <2>1, <2>5, <2>6, <2>7, Found DEF RingInv, QueueStep
<1> QED BY <1>4, <1>5

\* Questions.
LEMMA CanPopStep == ASSUME RingInv, CanPop PROVE RingInv' /\ QueueStep(live, live')
<1>1. PICK D, e : InRing(buf, D, e, live) BY DEF RingInv, Ringed
<1>2. buf' = FreeSkipped(buf) /\ live' = live BY DEF CanPop
<1> QED BY <1>1, <1>2, FreeingSkipped, Found DEF RingInv, QueueStep

\* The consumer's packet.
LEMMA FreeStep ==
  ASSUME NEW i \in DOMAIN live, RingInv, Free(i)
  PROVE  RingInv' /\ QueueStep(live, live')
<1>1. PICK D, e : InRing(buf, D, e, live) BY DEF RingInv, Ringed
<1>2. /\ live[i].state = "popped" /\ buf' = Freed(buf, live[i].at)
      /\ live' = Without(live, {i})
  BY DEF Free
<1>3. live[i].at = buf.tail /\ Ringed(buf', live') BY <1>1, <1>2, Freeing
<1>4. live \in Seq(Lives) BY <1>1 DEF InRing, Viewed
<1>5. i = 1
  <2>1. State(buf, buf.tail) = "popped" BY <1>1, <1>2, <1>3, LivePlaces
  <2>2. live # <<>> BY <1>4
  <2>3. 1 \in DOMAIN live /\ live[1].at = buf.tail BY <1>1, <2>1, <2>2, Oldest
  <2> QED BY <1>1, <1>3, <2>3, LivePlaces
<1>6. Shown(live') = Without(Shown(live), {1}) BY <1>2, <1>4, <1>5, ShownWithout
<1>7. 1 \in DOMAIN Shown(live) /\ Shown(live)[1].state = "popped" BY <1>2, <1>5, ShownFields
<1>8. Shown(live) # <<>> BY <1>7
<1> QED BY <1>3, <1>6, <1>7, <1>8 DEF RingInv, QueueStep

\* Flushes.
LEMMA FlushStep == ASSUME RingInv, Flush PROVE RingInv' /\ QueueStep(live, live')
<1> DEFINE P == {i \in DOMAIN live : State(Flushed(buf), live[i].at) \in {"skipped", "free"}}
<1>1. PICK D, e : InRing(buf, D, e, live) BY DEF RingInv, Ringed
<1>2. buf' = Flushed(buf) /\ live' = Without(live, P) BY DEF Flush
<1>3. Ringed(Flushed(buf), Without(live, P)) /\ \A i \in P : live[i].state = "committed"
  BY <1>1, FlushKeeps
<1>4. P \in SUBSET DOMAIN live OBVIOUS
<1> HIDE DEF P
<1>5. live \in Seq(Lives) BY <1>1 DEF InRing, Viewed
<1>6. Shown(live') = Without(Shown(live), P) BY <1>2, <1>5, ShownWithout
<1>7. P \in SUBSET {i \in DOMAIN Shown(live) : Shown(live)[i].state = "committed"}
  BY <1>3, <1>4, ShownFields
<1> QED BY <1>2, <1>3, <1>6, <1>7 DEF RingInv, QueueStep

\* Every step keeps the ring, and is a step of the queue or none.
LEMMA RingSteps == RingInv /\ [BufferNext]_bufferVars => RingInv' /\ QueueStep(live, live')
<1> SUFFICES ASSUME RingInv, [BufferNext]_bufferVars PROVE RingInv' /\ QueueStep(live, live') OBVIOUS
<1>1. CASE UNCHANGED bufferVars BY <1>1 DEF bufferVars, RingInv, QueueStep
<1>2. CASE BufferNext
  BY <1>2, ReserveStep, CommitStep, DiscardStep, PopStep, CanPopStep, FreeStep, FlushStep
  DEF BufferNext, Produce, Consume
<1> QED BY <1>1, <1>2

-----------------------------------------------------------------------------
(* Theorems *)

\* The ring is kept in every state.
LEMMA RingAlways == BufferSpec => []RingInv
BY RingInit, RingSteps, PTL DEF BufferSpec

\* Packets in a ring do not overlap.
LEMMA RingDisjoint == RingInv => Disjoint
<1> SUFFICES ASSUME RingInv PROVE Disjoint OBVIOUS
<1>1. PICK D, e : InRing(buf, D, e, live) BY DEF RingInv, Ringed
<1> DEFINE t == buf.tail
           At(i) == live[i].at
           Far(i) == Behind(t, At(i))
           Up(i) == Far(i) + buf.mem[At(i)].size + 1
<1>2. /\ Packed(buf, D, e) /\ buf \in Buffers /\ D \in SUBSET (0..e) /\ e \in 0..SIZE
  BY <1>1 DEF InRing, Packed
<1>3. t \in Words /\ SIZE \in Nat /\ Words = 0..(SIZE - 1) BY <1>2, BufferFields
<1>4. ASSUME NEW i \in DOMAIN live
      PROVE  /\ At(i) \in Words /\ Far(i) \in D /\ Far(i) < e /\ Place(t, Far(i)) = At(i)
             /\ buf.mem[At(i)].size \in Nat /\ At(i) + buf.mem[At(i)].size + 1 <= SIZE
             /\ Up(i) \in D /\ \A y \in D : y <= Far(i) \/ y >= Up(i)
             /\ \A j \in DOMAIN live : At(j) = At(i) => j = i
  <2>1. /\ At(i) \in Words /\ Far(i) \in D /\ Far(i) # e /\ Place(t, Far(i)) = At(i)
        /\ buf.mem[At(i)].size \in Nat /\ At(i) + buf.mem[At(i)].size + 1 <= SIZE
        /\ Up(i) \in D /\ \A y \in D : y <= Far(i) \/ y >= Up(i)
        /\ \A j \in DOMAIN live : At(j) = At(i) => j = i
    BY <1>1, LivePlaces
  <2>2. Far(i) < e
    <3>1. Far(i) \in D /\ Far(i) # e BY <2>1
    <3> HIDE DEF Far
    <3>2. Far(i) \in 0..e BY <1>2, <3>1
    <3> QED BY <1>2, <1>3, <3>1, <3>2
  <2> QED BY <2>1, <2>2
<1>5. ASSUME NEW i \in DOMAIN live PROVE Extent(live[i]) \subseteq Words
  <2> DEFINE at == At(i)
             s == buf.mem[at].size
  <2>1. Extent(live[i]) = at..(at + s) BY DEF Extent
  <2>2. at \in Words /\ s \in Nat /\ at + s + 1 <= SIZE BY <1>4
  <2> HIDE DEF at, s
  <2> QED BY <1>3, <2>1, <2>2
<1>6. ASSUME NEW i \in DOMAIN live, NEW j \in DOMAIN live, Far(i) < Far(j)
      PROVE  Extent(live[i]) \cap Extent(live[j]) = {}
  <2> SUFFICES ASSUME NEW p \in Extent(live[i]), p \in Extent(live[j]) PROVE FALSE OBVIOUS
  <2> DEFINE a == At(i)  x == Far(i)  m == buf.mem[a].size
             c == At(j)  y == Far(j)  n == buf.mem[c].size
  <2>1. p \in a..(a + m) /\ p \in c..(c + n) BY DEF Extent
  <2>2. /\ a \in Words /\ x \in D /\ Place(t, x) = a /\ m \in Nat /\ a + m + 1 <= SIZE /\ x + m + 1 \in D
        /\ y <= x \/ y >= x + m + 1
        /\ c \in Words /\ y \in D /\ Place(t, y) = c /\ n \in Nat /\ c + n + 1 <= SIZE /\ y + n + 1 \in D
    BY <1>4
  <2>3. x < y BY <1>6
  <2>4. t \in 0..(SIZE - 1) BY <1>3
  <2> HIDE DEF a, x, m, c, y, n, t
  <2>5. x \in Nat /\ y \in Nat /\ x + m + 1 <= y /\ y + n + 1 <= SIZE
    BY <1>2, <1>3, <2>2, <2>3
  <2>6. a = (IF t + x < SIZE THEN t + x ELSE t + x - SIZE) /\ c = IF t + y < SIZE THEN t + y ELSE t + y - SIZE
    BY <2>2 DEF Place
  <2> QED BY <1>3, <2>1, <2>2, <2>4, <2>5, <2>6
<1>7. ASSUME NEW i \in DOMAIN live, NEW j \in DOMAIN live, i # j
      PROVE  Extent(live[i]) \cap Extent(live[j]) = {}
  <2>1. Far(i) # Far(j)
    <3>1. At(i) # At(j) BY <1>4, <1>7
    <3>2. Place(t, Far(i)) = At(i) /\ Place(t, Far(j)) = At(j) BY <1>4
    <3> QED BY <3>1, <3>2
  <2>2. Far(i) \in Int /\ Far(j) \in Int
    <3>1. Far(i) \in D /\ Far(j) \in D BY <1>4
    <3>2. D \in SUBSET Int BY <1>2
    <3> HIDE DEF Far
    <3> QED BY <3>1, <3>2
  <2>3. Far(i) < Far(j) \/ Far(j) < Far(i)
    <3> HIDE DEF Far
    <3> QED BY <2>1, <2>2
  <2>4. CASE Far(i) < Far(j) BY <1>6, <2>4
  <2>5. CASE Far(j) < Far(i)
    <3>1. Extent(live[j]) \cap Extent(live[i]) = {} BY <1>6, <2>5
    <3> QED BY <3>1
  <2> QED BY <2>3, <2>4, <2>5
<1> QED BY <1>5, <1>7 DEF Disjoint

\* What the consumer finds at the tail.
LEMMA RingOldest == RingInv => OldestIsPopped /\ NothingLeaks
<1> SUFFICES ASSUME RingInv PROVE OldestIsPopped /\ NothingLeaks OBVIOUS
<1> DEFINE b == FreeSkipped(buf)
<1>1. PICK D, e : InRing(buf, D, e, live) BY DEF RingInv, Ringed
<1>2. (\E F, f : InRing(b, F, f, live)) /\ State(b, b.tail) # "skipped" BY <1>1, FreeingSkipped
<1> HIDE DEF b
<1>3. /\ live # <<>> => live[1].at = b.tail
      /\ live = <<>> => b.head = b.tail /\ State(b, b.tail) = "free"
  BY <1>2, Oldest
<1> QED BY <1>3 DEF OldestIsPopped, NothingLeaks, b

(***************************************************************************)
(* The packets that users hold lie inside the pool and do not overlap      *)
(* (packet_buffer.c: reserve, commit, free, pop and flush), for pools and  *)
(* packets of any size.                                                    *)
(***************************************************************************)
THEOREM PacketsDisjoint == BufferSpec => []Disjoint
BY RingAlways, RingDisjoint, PTL

(***************************************************************************)
(* The consumer is given the oldest packet that is held, and none is lost  *)
(* behind holes (packet_buffer_pop and free_skipped_packets).              *)
(***************************************************************************)
THEOREM OldestAlwaysPopped == BufferSpec => []OldestIsPopped
BY RingAlways, RingOldest, PTL

(***************************************************************************)
(* When nobody holds a packet, a pop leaves the whole pool as one free     *)
(* slot: no sequence of calls leaks room (packet_buffer.c).                *)
(***************************************************************************)
THEOREM RoomNeverLeaks == BufferSpec => []NothingLeaks
BY RingAlways, RingOldest, PTL

(***************************************************************************)
(* The ring implements the queue that packet_buffer.h:56-60 promises: many *)
(* producers, and one consumer that is given the packets in the order in   *)
(* which they were reserved, one at a time.                                *)
(***************************************************************************)
THEOREM RingImplementsQueue == BufferSpec => ImplementsQueue
<1>1. BufferInit => Queue!Init BY DEF BufferInit, Queue!Init
<1>2. QueueStep(live, live') => [Queue!Next]_(Shown(live))
  <2> SUFFICES ASSUME QueueStep(live, live') PROVE [Queue!Next]_(Shown(live)) OBVIOUS
  <2>0. \A s, P : Queue!Without(s, P) = Without(s, P)
    BY DEF Queue!Without, Queue!InOrder, Queue!Cardinality, Without, InOrder, Cardinality
  <2>1. CASE Shown(live') = Shown(live) BY <2>1 DEF Shown
  <2>2. CASE /\ Len(Shown(live')) = Len(Shown(live)) + 1
             /\ Shown(live')[Len(Shown(live'))].state = "reserved"
             /\ Shown(live') = Append(Shown(live), Shown(live')[Len(Shown(live'))])
    BY <2>2, Zenon DEF Shown, Queue!Next, Queue!Reserve
  <2>3. CASE \E i \in DOMAIN Shown(live) :
               /\ Shown(live)[i].state = "reserved"
               /\ Shown(live') = [Shown(live) EXCEPT ![i].state = "committed"]
    BY <2>3, Zenon DEF Shown, Queue!Next, Queue!Commit
  <2>4. CASE \E i \in DOMAIN Shown(live) : /\ Shown(live)[i].state = "reserved"
                                           /\ Shown(live') = Without(Shown(live), {i})
    BY <2>4, <2>0, Zenon DEF Shown, Queue!Next, Queue!Discard
  <2>5. CASE /\ Shown(live) # <<>> /\ Shown(live)[1].state = "committed"
             /\ Shown(live') = [Shown(live) EXCEPT ![1].state = "popped"]
    BY <2>5, Zenon DEF Shown, Queue!Next, Queue!Pop
  <2>6. CASE /\ Shown(live) # <<>> /\ Shown(live)[1].state = "popped"
             /\ Shown(live') = Without(Shown(live), {1})
    BY <2>6, <2>0, Zenon DEF Shown, Queue!Next, Queue!Free
  <2>7. CASE \E P \in SUBSET {i \in DOMAIN Shown(live) : Shown(live)[i].state = "committed"} :
               Shown(live') = Without(Shown(live), P)
    BY <2>7, <2>0, Zenon DEF Shown, Queue!Next, Queue!Flush
  <2> QED BY <2>1, <2>2, <2>3, <2>4, <2>5, <2>6, <2>7 DEF QueueStep
<1>3. RingInv /\ [BufferNext]_bufferVars => [Queue!Next]_(Shown(live)) BY <1>2, RingSteps
<1> QED BY <1>1, <1>3, RingAlways, PTL DEF BufferSpec, ImplementsQueue, Queue!Spec, Shown
=============================================================================
