----------------------- MODULE ReplayProtectionProofs -----------------------
(***************************************************************************)
(* The replay protection holds for every number of sources, entries,       *)
(* sequence numbers and IV updates.                                        *)
(*                                                                         *)
(* The cache keeps one number for each source and bit, and AcceptedOnce is *)
(* inductive once two facts are added: what was accepted has an IV index   *)
(* the node had reached, and the cache is well formed.  The step that      *)
(* needs care is the IV update: the bit of the index that comes into the   *)
(* window is the one of the index that leaves it, so nothing of the window *)
(* after the update may have been accepted but on the index that stays.    *)
(***************************************************************************)
EXTENDS ReplayProtection, SequenceTheorems, TLAPS

Entries == [src : SOURCES, seqno : Nat]

Caches == [entries : [{0, 1} -> Seq(Entries)], index : {0}, full : BOOLEAN]

\* What the node had reached when it accepted: an index it still has or had.
Reached == \A p \in replay.accepted : p.iv <= replay.iv_index

IInv ==
  /\ replay \in [cache : Caches, iv_index : Nat, accepted : SUBSET Packets]
  /\ Reached
  /\ AcceptedOnce

\* The bit of an IV index selects one of the two caches.
LEMMA Bits ==
  ASSUME NEW a \in Nat
  PROVE  a % 2 \in {0, 1}
BY SMT

\* Adding an entry keeps the cache well formed.
LEMMA AddedType ==
  ASSUME NEW c \in Caches, NEW s \in SOURCES, NEW n \in Nat, NEW b \in {0, 1}
  PROVE  Added(c, s, n, b) \in Caches
<1> DEFINE e == c.entries[b]
           f == [i \in DOMAIN e |-> IF e[i].src = s THEN Entry(s, n) ELSE e[i]]
<1>1. e \in Seq(Entries) /\ Entry(s, n) \in Entries
  BY DEF Caches, Entry, Entries
<1>2. Append(e, Entry(s, n)) \in Seq(Entries)
  BY <1>1
<1>3. f \in Seq(Entries)
  <2>1. DOMAIN e = 1..Len(e) /\ Len(e) \in Nat
    BY <1>1
  <2>2. f \in [1..Len(e) -> Entries]
    BY <1>1, <2>1
  <2> QED
    BY <2>1, <2>2, SeqDef
<1>4. CASE Positions(c, s, b) # {}
  <2>1. Added(c, s, n, b) = [c EXCEPT !.entries[b] = f]
    BY <1>4 DEF Added
  <2> HIDE DEF f
  <2>2. [c.entries EXCEPT ![b] = f] \in [{0, 1} -> Seq(Entries)]
    BY <1>3 DEF Caches
  <2>3. [c EXCEPT !.entries = [c.entries EXCEPT ![b] = f]] \in Caches
    BY <2>2 DEF Caches
  <2> QED
    BY <2>1, <2>3
<1>5. CASE Positions(c, s, b) = {}
  BY <1>2, <1>5 DEF Added, Caches
<1> QED
  BY <1>4, <1>5

\* What was added is found, and so are all lower numbers of that source.
LEMMA AddedFound ==
  ASSUME NEW c \in Caches, NEW s \in SOURCES, NEW n \in Nat, NEW b \in {0, 1},
         NEW k \in Nat, k <= n
  PROVE  HasElem(Added(c, s, n, b), s, k, b)
<1> DEFINE e == c.entries[b]
           f == [i \in DOMAIN e |-> IF e[i].src = s THEN Entry(s, n) ELSE e[i]]
<1>1. e \in Seq(Entries) /\ DOMAIN e = 1..Len(e) /\ Len(e) \in Nat
  BY DEF Caches
<1>2. CASE Positions(c, s, b) # {}
  <2>1. PICK i \in DOMAIN e : e[i].src = s
    BY <1>2 DEF Positions
  <2>2. Added(c, s, n, b).entries[b] = f
    BY <1>2 DEF Added, Caches
  <2>3. i \in DOMAIN f /\ f[i] = Entry(s, n)
    BY <2>1
  <2> QED
    BY <2>2, <2>3 DEF HasElem, Positions, Entry
<1>3. CASE Positions(c, s, b) = {}
  <2> DEFINE g == Append(e, Entry(s, n))
  <2>1. Added(c, s, n, b).entries[b] = g
    BY <1>3 DEF Added, Caches
  <2>2. Len(e) + 1 \in DOMAIN g /\ g[Len(e) + 1] = Entry(s, n)
    BY <1>1
  <2> QED
    BY <2>1, <2>2 DEF HasElem, Positions, Entry
<1> QED
  BY <1>2, <1>3

\* The entries of the other sources, and of the other bit, stay.
LEMMA AddedKeeps ==
  ASSUME NEW c \in Caches, NEW s \in SOURCES, NEW n \in Nat, NEW b \in {0, 1},
         NEW t \in SOURCES, NEW k \in Nat, NEW d \in {0, 1},
         t # s \/ d # b, HasElem(c, t, k, d)
  PROVE  HasElem(Added(c, s, n, b), t, k, d)
<1> DEFINE e == c.entries[b]
           f == [i \in DOMAIN e |-> IF e[i].src = s THEN Entry(s, n) ELSE e[i]]
           a == Added(c, s, n, b)
<1>1. e \in Seq(Entries) /\ DOMAIN e = 1..Len(e) /\ Len(e) \in Nat
  BY DEF Caches
<1>2. PICK i \in DOMAIN c.entries[d] :
        c.entries[d][i].src = t /\ c.entries[d][i].seqno >= k
  BY DEF HasElem, Positions
<1>3. SUFFICES i \in DOMAIN a.entries[d] /\ a.entries[d][i] = c.entries[d][i]
  BY <1>2 DEF HasElem, Positions
<1>4. CASE d # b
  BY <1>2, <1>4 DEF Added, Caches
<1>5. CASE d = b /\ Positions(c, s, b) # {}
  <2>1. a.entries[d] = f
    BY <1>5 DEF Added, Caches
  <2>2. c.entries[d] = e /\ t # s
    BY <1>5
  <2>3. i \in DOMAIN f /\ f[i] = e[i]
    BY <1>2, <2>2
  <2> QED
    BY <2>1, <2>2, <2>3
<1>6. CASE d = b /\ Positions(c, s, b) = {}
  <2>1. a.entries[d] = Append(e, Entry(s, n))
    BY <1>6 DEF Added, Caches
  <2>2. i \in 1..Len(e) /\ c.entries[d] = e
    BY <1>1, <1>2, <1>6
  <2>3. i \in DOMAIN Append(e, Entry(s, n)) /\ Append(e, Entry(s, n))[i] = e[i]
    BY <1>1, <2>2
  <2> QED
    BY <2>1, <2>2, <2>3
<1> QED
  BY <1>4, <1>5, <1>6

\* A number that is not found is above every one that is.
LEMMA NotFoundIsLater ==
  ASSUME NEW c \in Caches, NEW s \in SOURCES, NEW b \in {0, 1},
         NEW k \in Nat, NEW n \in Nat, HasElem(c, s, k, b), ~HasElem(c, s, n, b)
  PROVE  k <= n
<1>1. PICK i \in Positions(c, s, b) : c.entries[b][i].seqno >= k
  BY DEF HasElem
<1>2. c.entries[b] \in Seq(Entries) /\ i \in DOMAIN c.entries[b]
  BY <1>1 DEF Caches, Positions
<1>3. c.entries[b][i] \in Entries
  BY <1>2
<1>4. ~(c.entries[b][i].seqno >= n)
  BY <1>1 DEF HasElem
<1> QED
  BY <1>1, <1>3, <1>4 DEF Entries

\* The node starts with the invariant.
LEMMA InitSound ==
  ASSUME MaxSeqno \in Nat, MaxIv \in Nat, ReplayInit
  PROVE  IInv
<1>1. [ivi \in {0, 1} |-> <<>>] \in [{0, 1} -> Seq(Entries)]
  OBVIOUS
<1>2. Cleared \in Caches
  BY <1>1 DEF Cleared, Caches
<1> QED
  BY <1>2 DEF ReplayInit, IInv, Reached, AcceptedOnce

\* A packet that is let through keeps the invariant.
LEMMA PacketInSound ==
  ASSUME MaxSeqno \in Nat, MaxIv \in Nat, IInv, NEW p \in Packets, TransportPacketIn(p)
  PROVE  IInv'
<1> DEFINE c == replay.cache
           b == p.iv % 2
           w == replay.iv_index
<1>1. p.src \in SOURCES /\ p.seqno \in Nat /\ p.iv \in Nat /\ b \in {0, 1}
  BY Bits DEF Packets
<1>2. c \in Caches /\ w \in Nat /\ replay.accepted \subseteq Packets
  BY DEF IInv
<1>3. /\ replay'.cache = Added(c, p.src, p.seqno, b)
      /\ replay'.iv_index = w
      /\ replay'.accepted = replay.accepted \union {p}
      /\ replay' \in [cache : {replay'.cache}, iv_index : {w}, accepted : {replay'.accepted}]
  BY DEF TransportPacketIn, IInv
<1>4. p.iv \in {w, w - 1} /\ ~HasElem(c, p.src, p.seqno, b)
  BY DEF TransportPacketIn, InWindow
<1>5. replay' \in [cache : Caches, iv_index : Nat, accepted : SUBSET Packets]
  <2>1. Added(c, p.src, p.seqno, b) \in Caches
    BY <1>1, <1>2, AddedType
  <2> QED
    BY <1>2, <1>3, <2>1
<1>6. Reached'
  BY <1>1, <1>2, <1>3, <1>4 DEF Reached, IInv
<1>7. ASSUME NEW q \in replay'.accepted, q.iv \in {w, w - 1}
      PROVE  HasElem(Added(c, p.src, p.seqno, b), q.src, q.seqno, q.iv % 2)
  <2>1. q.src \in SOURCES /\ q.seqno \in Nat /\ q.iv \in Nat /\ q.iv % 2 \in {0, 1}
    BY <1>2, <1>3, Bits DEF Packets
  <2>2. CASE q = p
    BY <1>1, <1>2, <2>2, AddedFound
  <2>3. CASE q \in replay.accepted
    <3>1. HasElem(c, q.src, q.seqno, q.iv % 2)
      BY <1>7, <2>3 DEF IInv, AcceptedOnce, InWindow
    <3>2. CASE q.src = p.src /\ q.iv % 2 = b
      <4>1. q.seqno <= p.seqno
        BY <1>1, <1>2, <1>4, <2>1, <3>1, <3>2, NotFoundIsLater
      <4> QED
        BY <1>1, <1>2, <2>1, <3>2, <4>1, AddedFound
    <3>3. CASE q.src # p.src \/ q.iv % 2 # b
      BY <1>1, <1>2, <2>1, <3>1, <3>3, AddedKeeps
    <3> QED
      BY <3>2, <3>3
  <2> QED
    BY <1>3, <2>2, <2>3
<1>8. AcceptedOnce'
  BY <1>3, <1>7 DEF AcceptedOnce, InWindow
<1> QED
  BY <1>5, <1>6, <1>8 DEF IInv

\* An IV update keeps the invariant: no accepted packet comes into the window.
LEMMA IvUpdateSound ==
  ASSUME MaxSeqno \in Nat, MaxIv \in Nat, IInv, IvUpdate
  PROVE  IInv'
<1> DEFINE w == replay.iv_index
<1>1. /\ w \in Nat /\ replay.accepted \subseteq Packets /\ replay.cache \in Caches
      /\ \A q \in replay.accepted : q.iv <= w
  BY DEF IInv, Reached
<1>2. /\ replay'.cache = replay.cache
      /\ replay'.iv_index = w + 1
      /\ replay'.accepted = replay.accepted
      /\ replay' \in [cache : {replay.cache}, iv_index : {w + 1},
                      accepted : {replay.accepted}]
  BY DEF IvUpdate, IInv
<1>3. replay' \in [cache : Caches, iv_index : Nat, accepted : SUBSET Packets]
  BY <1>1, <1>2
<1>4. \A q \in replay.accepted : q.iv \in Nat
  BY <1>1 DEF Packets
<1>5. Reached'
  BY <1>1, <1>2, <1>4 DEF Reached
<1>6. ASSUME NEW q \in replay.accepted, InWindow(q)'
      PROVE  HasElem(replay.cache, q.src, q.seqno, q.iv % 2)
  <2>1. q.iv = w
    BY <1>1, <1>2, <1>4, <1>6 DEF InWindow
  <2> QED
    BY <2>1 DEF IInv, AcceptedOnce, InWindow
<1>7. AcceptedOnce'
  BY <1>2, <1>6 DEF AcceptedOnce
<1> QED
  BY <1>3, <1>5, <1>7 DEF IInv

\* Nothing that transport_packet_in hands on is a packet it has handed on
\* before, as long as the network layer accepts the IV index: whatever the
\* number of sources and entries, and after any number of IV updates that
\* never clear the cache.
THEOREM NeverAcceptedAgain ==
  ASSUME MaxSeqno \in Nat, MaxIv \in Nat
  PROVE  ReplaySpec => []AcceptedOnce
<1>1. ReplayInit => IInv
  BY InitSound
<1>2. IInv /\ [ReplayNext]_replay => IInv'
  <2> SUFFICES ASSUME IInv, [ReplayNext]_replay
               PROVE  IInv'
    OBVIOUS
  <2>1. ASSUME NEW p \in Packets, TransportPacketIn(p)
        PROVE  IInv'
    BY <2>1, PacketInSound
  <2>2. CASE IvUpdate
    BY <2>2, IvUpdateSound
  <2>3. CASE UNCHANGED replay
    BY <2>3 DEF IInv, Reached, AcceptedOnce, InWindow, Packets, Caches, HasElem, Positions
  <2> QED
    BY <2>1, <2>2, <2>3 DEF ReplayNext
<1>3. IInv => AcceptedOnce
  BY DEF IInv
<1> QED
  BY <1>1, <1>2, <1>3, PTL DEF ReplaySpec
=============================================================================
