------------------------- MODULE FlashManagerProofs -------------------------
(***************************************************************************)
(* What holds of the flash manager for every size of the page, every set   *)
(* of handles with their lengths and values, and every length of the       *)
(* queue, while one handle is kept and the power does not fail when a      *)
(* defragmentation relies on the recovery page.                            *)
(*                                                                         *)
(* Entries, WalkEnd and LastOf walk along the words.  The first part shows *)
(* that a walk along a chain of whole entries passes just these, what each *)
(* write does to a chain and to what is stored, and that a backup copies   *)
(* the live entries of a chain, in order.  The second part names the       *)
(* stages that the page, the recovery page and the manager go through, and *)
(* shows that every flash operation, step and boot leads from one of them  *)
(* to another.  The theorems are what the stages have in common.           *)
(***************************************************************************)
EXTENDS FlashManager, SequenceTheorems, FiniteSetTheorems, WellFoundedInduction, TLAPS

\* Every set of numbers that is not empty has a least one.
LEMMA LeastNumber ==
  ASSUME NEW T \in SUBSET Nat, T # {}
  PROVE  \E x \in T : \A y \in T : x <= y
<1>1. \E x \in T : \A y \in T : ~(<<y, x>> \in OpToRel(<, Nat))  BY NatLessThanWellFounded, WFMin
<1>2. PICK x \in T : \A y \in T : ~(<<y, x>> \in OpToRel(<, Nat)) BY <1>1
<1>3. ASSUME NEW y \in T PROVE x <= y
  <2>1. ~(<<y, x>> \in OpToRel(<, Nat)) BY <1>2
  <2>2. ~ (y < x) BY <2>1 DEF OpToRel
  <2> QED BY <2>2
<1> QED BY <1>3


-----------------------------------------------------------------------------
(* Walks *)

\* What a word of flash holds: a header that was invalidated keeps its length.
Words == [handle : Handles \cup {"blank", "seal", "padding", "invalid", "data"},
          len : 0..SIZE, value : VALUES \cup {NONE}] \ {InvalidHeader}

\* What is computed along a walk: from what is behind a place that it leaves, and
\* of the place itself where it stays.
Along(f, onward, stop, step) ==
  \A i \in 0..SIZE :
    f[i] = IF onward[i] = i THEN stop[i] ELSE step[<<i, f[onward[i]]>>]

\* A walk never goes back, so that there is a function that computes along it.
LEMMA AlongExists ==
  ASSUME NEW V, NEW onward \in [0..SIZE -> 0..SIZE],
         \A i \in 0..SIZE : i <= onward[i],
         NEW stop \in [0..SIZE -> V], NEW step \in [(0..SIZE) \X V -> V]
  PROVE  \E f \in [0..SIZE -> V] : Along(f, onward, stop, step)
<1>0. SIZE \in Nat BY FlashManagerAssumption DEF FlashManagerAssumption
<1> DEFINE Good(f, k) == \A i \in (SIZE - k)..SIZE :
                           f[i] = IF onward[i] = i THEN stop[i] ELSE step[<<i, f[onward[i]]>>]
           Some(k) == \E f \in [0..SIZE -> V] : Good(f, k)
           T == {k \in 0..SIZE : ~Some(k)}
<1>1. ASSUME T # {} PROVE FALSE
  <2>1. PICK k \in T : \A j \in T : k <= j
    <3>1. T \in SUBSET Nat BY <1>0
    <3> HIDE DEF T
    <3> QED BY <1>1, <3>1, LeastNumber
  <2>2. k \in 0..SIZE /\ ~Some(k) BY <2>1
  <2>3. CASE k = 0
    <3>1. onward[SIZE] = SIZE BY <1>0
    <3>2. Good(stop, 0)
      <4>1. ASSUME NEW i \in (SIZE - 0)..SIZE PROVE i = SIZE BY <1>0
      <4> QED BY <3>1, <4>1
    <3>3. Some(0)
      <4> HIDE DEF Good
      <4> QED BY <3>2
    <3> QED BY <2>2, <2>3, <3>3
  <2>4. CASE k # 0
    <3>1. k - 1 \in 0..SIZE /\ ~(k <= k - 1) BY <1>0, <2>2, <2>4
    <3>2. Some(k - 1)
      <4> HIDE DEF Some
      <4> QED BY <2>1, <3>1
    <3>3. PICK g \in [0..SIZE -> V] : Good(g, k - 1) BY <3>2
    <3> DEFINE i == SIZE - k
               x == IF onward[i] = i THEN stop[i] ELSE step[<<i, g[onward[i]]>>]
               f == [g EXCEPT ![i] = x]
    <3>4. i \in 0..SIZE BY <1>0, <2>2
    <3>5. x \in V BY <3>4
    <3>6. f \in [0..SIZE -> V] BY <3>4, <3>5
    <3>7. ASSUME NEW j \in i..SIZE
          PROVE  f[j] = IF onward[j] = j THEN stop[j] ELSE step[<<j, f[onward[j]]>>]
      <4>1. CASE j = i
        <5>1. onward[i] # i => f[onward[i]] = g[onward[i]] BY <3>4
        <5> QED BY <3>4, <4>1, <5>1
      <4>2. CASE j # i
        <5>1. j \in (SIZE - (k - 1))..SIZE /\ j \in 0..SIZE BY <1>0, <2>2, <3>4, <4>2
        <5>2. onward[j] # i BY <1>0, <2>2, <5>1
        <5>3. f[j] = g[j] /\ f[onward[j]] = g[onward[j]] BY <3>4, <4>2, <5>1, <5>2
        <5> QED BY <3>3, <5>1, <5>3
      <4> QED BY <4>1, <4>2
    <3>8. Good(f, k) BY <3>7
    <3>9. Some(k)
      <4> HIDE DEF Good, f
      <4> QED BY <3>6, <3>8
    <3> QED BY <2>2, <3>9
  <2> QED BY <2>3, <2>4
<1>2. Some(SIZE)
  <2> HIDE DEF Some
  <2> QED BY <1>0, <1>1
<1>3. PICK f \in [0..SIZE -> V] : Good(f, SIZE) BY <1>2
<1>4. Along(f, onward, stop, step)
  <2>1. SIZE - SIZE = 0 BY <1>0
  <2> QED BY <1>3, <2>1 DEF Along
<1> QED BY <1>3, <1>4

\* A walk never goes back, and stays within the area.
LEMMA OnwardGoesOn ==
  ASSUME NEW w \in [Places -> Words]
  PROVE  /\ Onward(w) \in [0..SIZE -> 0..SIZE]
         /\ \A i \in 0..SIZE : i <= Onward(w)[i]
<1>0. SIZE \in Nat BY FlashManagerAssumption DEF FlashManagerAssumption
<1>1. ASSUME NEW i \in 0..SIZE
      PROVE  Onward(w)[i] \in 0..SIZE /\ i <= Onward(w)[i]
  <2>1. CASE i = SIZE \/ w[i].handle \in {"blank", "seal"}
    <3>1. Onward(w)[i] = i BY <2>1 DEF Onward
    <3> QED BY <1>0, <3>1
  <2>2. CASE ~(i = SIZE \/ w[i].handle \in {"blank", "seal"})
    <3>1. i \in Places BY <1>0, <2>2 DEF Places
    <3>2. w[i].len \in 0..SIZE BY <3>1 DEF Words
    <3>3. Onward(w)[i] = NextEntry(w, i) BY <2>2 DEF Onward
    <3>4. NextEntry(w, i) = IF i + w[i].len > SIZE THEN SIZE ELSE i + w[i].len BY DEF NextEntry
    <3> QED BY <1>0, <3>2, <3>3, <3>4
  <2> QED BY <2>1, <2>2
<1>2. DOMAIN Onward(w) = 0..SIZE /\ Onward(w) = [i \in 0..SIZE |-> Onward(w)[i]] BY DEF Onward
<1> QED BY <1>1, <1>2

\* The functions that the operators on words choose are there.
LEMMA WalkEndAlong ==
  ASSUME NEW w \in [Places -> Words]
  PROVE  \E f :
           /\ \A i \in 0..SIZE : f[i] = IF Onward(w)[i] = i THEN i ELSE f[Onward(w)[i]]
           /\ WalkEnd(w) = f[0]
<1> DEFINE o == Onward(w)
           stop == [i \in 0..SIZE |-> i]
           step == [p \in (0..SIZE) \X (0..SIZE) |-> p[2]]
           Is(f) == f = [i \in 0..SIZE |-> IF o[i] = i THEN i ELSE f[o[i]]]
<1>1. o \in [0..SIZE -> 0..SIZE] /\ \A i \in 0..SIZE : i <= o[i] BY OnwardGoesOn
<1> HIDE DEF o
<1>2. stop \in [0..SIZE -> 0..SIZE] /\ step \in [(0..SIZE) \X (0..SIZE) -> 0..SIZE] OBVIOUS
<1>3. PICK g \in [0..SIZE -> 0..SIZE] : Along(g, o, stop, step)
  <2> HIDE DEF stop, step
  <2> QED BY <1>1, <1>2, AlongExists
<1>4. \A i \in 0..SIZE : g[i] = IF o[i] = i THEN i ELSE g[o[i]] BY <1>1, <1>3 DEF Along
<1>5. Is(g) BY <1>4
<1> DEFINE c == CHOOSE f : Is(f)
<1>6. Is(c)
  <2> HIDE DEF Is
  <2> QED BY <1>5
<1>7. WalkEnd(w) = c[0] BY DEF WalkEnd, o
<1>8. ASSUME NEW i \in 0..SIZE PROVE c[i] = IF o[i] = i THEN i ELSE c[o[i]]
  <2> HIDE DEF c
  <2> QED BY <1>6
<1> HIDE DEF c
<1> QED BY <1>7, <1>8 DEF o

\* The function that Entries chooses is there.
LEMMA EntriesAlong ==
  ASSUME NEW w \in [Places -> Words]
  PROVE  \E f :
           /\ \A i \in 0..SIZE : f[i] = IF Onward(w)[i] = i THEN {} ELSE {i} \cup f[Onward(w)[i]]
           /\ Entries(w) = f[0]
<1> DEFINE o == Onward(w)
           stop == [i \in 0..SIZE |-> {}]
           step == [p \in (0..SIZE) \X SUBSET (0..SIZE) |-> {p[1]} \cup p[2]]
           Is(f) == f = [i \in 0..SIZE |-> IF o[i] = i THEN {} ELSE {i} \cup f[o[i]]]
<1>1. o \in [0..SIZE -> 0..SIZE] /\ \A i \in 0..SIZE : i <= o[i] BY OnwardGoesOn
<1> HIDE DEF o
<1>2. stop \in [0..SIZE -> SUBSET (0..SIZE)] /\ step \in [(0..SIZE) \X SUBSET (0..SIZE) -> SUBSET (0..SIZE)] OBVIOUS
<1>3. PICK g \in [0..SIZE -> SUBSET (0..SIZE)] : Along(g, o, stop, step)
  <2> HIDE DEF stop, step
  <2> QED BY <1>1, <1>2, AlongExists
<1>4. \A i \in 0..SIZE : g[i] = IF o[i] = i THEN {} ELSE {i} \cup g[o[i]] BY <1>1, <1>3 DEF Along
<1>5. Is(g) BY <1>4
<1> DEFINE c == CHOOSE f : Is(f)
<1>6. Is(c)
  <2> HIDE DEF Is
  <2> QED BY <1>5
<1>7. Entries(w) = c[0] BY DEF Entries, o
<1>8. ASSUME NEW i \in 0..SIZE PROVE c[i] = IF o[i] = i THEN {} ELSE {i} \cup c[o[i]]
  <2> HIDE DEF c
  <2> QED BY <1>6
<1> HIDE DEF c
<1> QED BY <1>7, <1>8 DEF o

\* The function that LastOf chooses is there.
LEMMA LastAlong ==
  ASSUME NEW w \in [Places -> Words], NEW h, NEW backup \in BOOLEAN
  PROVE  \E f :
           /\ \A i \in 0..SIZE, x \in {NOWHERE} \cup Places :
                f[<<i, x>>] = IF Onward(w)[i] = i THEN x
                              ELSE f[<<Onward(w)[i],
                                       IF w[i].handle = h
                                          /\ (backup \/ (Onward(w)[i] < SIZE /\ w[Onward(w)[i]] # Blank))
                                       THEN i ELSE x>>]
           /\ LastOf(w, h, backup) = f[<<0, NOWHERE>>]
<1> DEFINE o == Onward(w)
           F == {NOWHERE} \cup Places
           c(i) == w[i].handle = h /\ (backup \/ (o[i] < SIZE /\ w[o[i]] # Blank))
           stop == [i \in 0..SIZE |-> [x \in F |-> x]]
           step == [p \in (0..SIZE) \X [F -> F] |->
                      [x \in F |-> p[2][IF p[1] \in Places /\ c(p[1]) THEN p[1] ELSE x]]]
           Is(f) == f = [p \in (0..SIZE) \X F |->
                           IF o[p[1]] = p[1] THEN p[2]
                           ELSE f[<<o[p[1]], IF c(p[1]) THEN p[1] ELSE p[2]>>]]
<1>0. SIZE \in Nat BY FlashManagerAssumption DEF FlashManagerAssumption
<1>1. o \in [0..SIZE -> 0..SIZE] /\ \A i \in 0..SIZE : i <= o[i] BY OnwardGoesOn
<1> HIDE DEF o, F, c
<1>2. stop \in [0..SIZE -> [F -> F]] /\ step \in [(0..SIZE) \X [F -> F] -> [F -> F]]
  <2>1. Places \subseteq F BY DEF F
  <2>2. ASSUME NEW p \in (0..SIZE) \X [F -> F]
        PROVE  [x \in F |-> p[2][IF p[1] \in Places /\ c(p[1]) THEN p[1] ELSE x]] \in [F -> F]
    BY <2>1
  <2> QED BY <2>2
<1>3. PICK g \in [0..SIZE -> [F -> F]] : Along(g, o, stop, step)
  <2> HIDE DEF stop, step
  <2> QED BY <1>1, <1>2, AlongExists
<1> DEFINE u == [p \in (0..SIZE) \X F |-> g[p[1]][p[2]]]
<1>4. ASSUME NEW i \in 0..SIZE, NEW x \in F
      PROVE  u[<<i, x>>] = IF o[i] = i THEN x ELSE u[<<o[i], IF c(i) THEN i ELSE x>>]
  <2>1. o[i] \in 0..SIZE BY <1>1
  <2>2. CASE o[i] = i
    <3>1. g[i] = stop[i] BY <1>3, <2>2 DEF Along
    <3> QED BY <2>2, <3>1
  <2>3. CASE o[i] # i
    <3>1. i \in Places BY <1>0, <1>1, <2>3 DEF Places
    <3>2. g[i] = step[<<i, g[o[i]]>>]
      <4> HIDE DEF stop, step
      <4> QED BY <1>3, <2>3 DEF Along
    <3>3. g[o[i]] \in [F -> F] /\ <<i, g[o[i]]>> \in (0..SIZE) \X [F -> F] BY <2>1
    <3>4. step[<<i, g[o[i]]>>] = [y \in F |-> g[o[i]][IF c(i) THEN i ELSE y]] BY <3>1, <3>3
    <3>5. (IF c(i) THEN i ELSE x) \in F BY <3>1 DEF F
    <3>6. g[i][x] = g[o[i]][IF c(i) THEN i ELSE x]
      <4> HIDE DEF step
      <4> QED BY <3>2, <3>4
    <3> HIDE DEF stop, step
    <3> QED BY <2>1, <2>3, <3>5, <3>6
  <2> QED BY <2>2, <2>3
<1>5. Is(u)
  <2>1. u = [p \in (0..SIZE) \X F |-> u[p]] OBVIOUS
  <2>2. ASSUME NEW p \in (0..SIZE) \X F
        PROVE  u[p] = IF o[p[1]] = p[1] THEN p[2]
                      ELSE u[<<o[p[1]], IF c(p[1]) THEN p[1] ELSE p[2]>>]
    <3>1. p = <<p[1], p[2]>> /\ p[1] \in 0..SIZE /\ p[2] \in F OBVIOUS
    <3>2. u[<<p[1], p[2]>>] = IF o[p[1]] = p[1] THEN p[2]
                              ELSE u[<<o[p[1]], IF c(p[1]) THEN p[1] ELSE p[2]>>]
      <4> HIDE DEF u
      <4> QED BY <1>4, <3>1
    <3> HIDE DEF u
    <3> QED BY <3>1, <3>2
  <2> HIDE DEF u
  <2> QED BY <2>1, <2>2
<1> DEFINE d == CHOOSE f : Is(f)
<1>6. Is(d)
  <2> HIDE DEF Is, u
  <2> QED BY <1>5
<1>7. LastOf(w, h, backup) = d[0, NOWHERE] BY Zenon DEF LastOf, o, F, c
<1>8. ASSUME NEW i \in 0..SIZE, NEW x \in F
      PROVE  d[<<i, x>>] = IF o[i] = i THEN x ELSE d[<<o[i], IF c(i) THEN i ELSE x>>]
  <2> HIDE DEF d
  <2> QED BY <1>6
<1> HIDE DEF d
<1> QED BY <1>7, <1>8 DEF o, F, c

-----------------------------------------------------------------------------
(* Chains of entries *)

\* The entries of the words w begin at the places D, each where the one before ends,
\* and the last one ends at e, where a seal is or nothing yet.
Chain(w, D, e) ==
  /\ w \in [Places -> Words]
  /\ D \in SUBSET Places /\ e \in Places /\ 0 \in D \cup {e}
  /\ \A i \in D :
       /\ w[i].handle \in Handles \cup {"invalid"} /\ w[i].len >= 2
       /\ i < e /\ i + w[i].len \in D \cup {e}
       /\ \A j \in D : i < j => i + w[i].len <= j
  /\ w[e] \in {Blank, SealHeader}
  /\ \A j \in Places : j > e => w[j] = Blank

\* The handles of data are none of the others.
LEMMA HandleFacts ==
  /\ SIZE \in Nat /\ SIZE > 2
  /\ "blank" \notin Handles /\ "seal" \notin Handles /\ "padding" \notin Handles
  /\ "invalid" \notin Handles /\ "data" \notin Handles
  /\ \A h \in Handles : LEN[h] \in 2..(SIZE - 1)
  /\ \A v \in VALUES : v \in Nat /\ v # 0
BY FlashManagerAssumption DEF FlashManagerAssumption

\* From an entry a walk goes on to the next one, and it stays at the end.
LEMMA ChainNext ==
  ASSUME NEW w, NEW D, NEW e, Chain(w, D, e)
  PROVE  /\ w \in [Places -> Words]
         /\ \A i \in D : /\ Onward(w)[i] = i + w[i].len /\ NextEntry(w, i) = i + w[i].len
                         /\ Onward(w)[i] \in D \cup {e} /\ i < Onward(w)[i]
                         /\ \A j \in D \cup {e} : i < j => Onward(w)[i] <= j
         /\ Onward(w)[e] = e
         /\ \A i \in D \cup {e} : i \in Places /\ i \in 0..SIZE /\ i <= e
         /\ e < SIZE
<1>0. SIZE \in Nat BY HandleFacts
<1>1. w \in [Places -> Words] /\ e \in Places /\ D \subseteq Places BY DEF Chain
<1>2. e \in 0..SIZE /\ e < SIZE BY <1>0, <1>1 DEF Places
<1>3. Onward(w)[e] = e
  <2>1. w[e].handle \in {"blank", "seal"} BY DEF Chain, Blank, SealHeader, Word
  <2> QED BY <1>2, <2>1 DEF Onward
<1>4. ASSUME NEW i \in D
      PROVE  /\ Onward(w)[i] = i + w[i].len /\ NextEntry(w, i) = i + w[i].len
             /\ Onward(w)[i] \in D \cup {e} /\ i < Onward(w)[i]
             /\ \A j \in D \cup {e} : i < j => Onward(w)[i] <= j
             /\ i \in Places /\ i \in 0..SIZE /\ i <= e
  <2>1. i \in Places /\ i \in 0..SIZE /\ i # SIZE /\ i < e BY <1>0, <1>1, <1>2 DEF Places, Chain
  <2>2. w[i].handle \in Handles \cup {"invalid"} /\ w[i].len >= 2 /\ i + w[i].len \in D \cup {e} BY DEF Chain
  <2>3. w[i].len \in 0..SIZE BY <1>1, <2>1 DEF Words
  <2>4. \A j \in D : j \in 0..(SIZE - 1) /\ j < e BY <1>1 DEF Places, Chain
  <2>5. i + w[i].len <= e BY <1>0, <1>2, <2>2, <2>4
  <2>6. NextEntry(w, i) = i + w[i].len
    <3>1. ~(i + w[i].len > SIZE) BY <1>0, <1>2, <2>1, <2>3, <2>5
    <3> QED BY <3>1 DEF NextEntry
  <2>7. w[i].handle \notin {"blank", "seal"} BY <2>2, HandleFacts
  <2>8. Onward(w)[i] = NextEntry(w, i) BY <2>1, <2>7 DEF Onward
  <2>9. i < i + w[i].len BY <1>0, <2>1, <2>2, <2>3
  <2>10. \A j \in D : i < j => i + w[i].len <= j BY DEF Chain
  <2>11. Onward(w)[i] = i + w[i].len BY <2>6, <2>8
  <2>12. \A j \in D \cup {e} : i < j => Onward(w)[i] <= j BY <2>5, <2>10, <2>11
  <2>13. Onward(w)[i] \in D \cup {e} /\ i < Onward(w)[i] BY <2>2, <2>9, <2>11
  <2>14. i <= e BY <1>0, <1>2, <2>1
  <2> QED BY <2>1, <2>6, <2>11, <2>12, <2>13, <2>14
<1> QED BY <1>0, <1>1, <1>2, <1>3, <1>4

\* What holds at the end of a chain, and of an entry when it holds behind it, holds
\* of all.
LEMMA ChainInduction ==
  ASSUME NEW w, NEW D, NEW e, Chain(w, D, e), NEW T,
         e \in T, \A i \in D : Onward(w)[i] \in T => i \in T
  PROVE  \A i \in D \cup {e} : i \in T
<1> DEFINE o == Onward(w)
           U == {k \in 0..SIZE : k <= e /\ e - k \in D \cup {e} /\ e - k \notin T}
<1>0. /\ SIZE \in Nat /\ e \in 0..SIZE
      /\ \A i \in D \cup {e} : i \in 0..SIZE /\ i <= e
      /\ \A i \in D : o[i] \in D \cup {e} /\ i < o[i]
  BY HandleFacts, ChainNext
<1> HIDE DEF o
<1>1. ASSUME U # {} PROVE FALSE
  <2>1. PICK k \in U : \A j \in U : k <= j
    <3>1. U \in SUBSET Nat BY <1>0
    <3> HIDE DEF U
    <3> QED BY <1>1, <3>1, LeastNumber
  <2> DEFINE i == e - k
  <2>2. k \in 0..SIZE /\ k <= e /\ i \in D \cup {e} /\ i \notin T BY <2>1
  <2>3. i \in D BY <2>2
  <2>4. o[i] \in D \cup {e} /\ i < o[i] /\ o[i] \in 0..SIZE /\ o[i] <= e BY <1>0, <2>3
  <2>5. o[i] \notin T BY <2>2, <2>3 DEF o
  <2> DEFINE j == e - o[i]
  <2>6. j \in 0..SIZE /\ j <= e /\ e - j = o[i] /\ j < k
    <3>1. i = e - k /\ i \in 0..SIZE BY <1>0, <2>2
    <3> HIDE DEF i
    <3> QED BY <1>0, <2>2, <2>4, <3>1
  <2>7. j \in U BY <2>4, <2>5, <2>6
  <2>8. k <= j BY <2>1, <2>7
  <2> HIDE DEF j, U
  <2> QED BY <1>0, <2>2, <2>6, <2>8
<1>2. ASSUME NEW i \in D \cup {e}, i \notin T PROVE FALSE
  <2> DEFINE k == e - i
  <2>1. k \in 0..SIZE /\ k <= e /\ e - k = i BY <1>0
  <2>2. k \in U BY <1>2, <2>1
  <2> HIDE DEF U
  <2> QED BY <1>1, <2>2
<1> QED BY <1>2

\* A walk along a chain passes its entries, and ends where it ends.
LEMMA ChainWalk ==
  ASSUME NEW w, NEW D, NEW e, Chain(w, D, e)
  PROVE  /\ Entries(w) = D /\ WalkEnd(w) = e
         /\ Sealed(w) <=> w[e] = SealHeader
<1> DEFINE o == Onward(w)
<1>0. /\ SIZE \in Nat /\ o[e] = e /\ w \in [Places -> Words]
      /\ \A i \in D \cup {e} : i \in 0..SIZE /\ i <= e
      /\ \A i \in D : /\ o[i] \in D \cup {e} /\ i < o[i]
                      /\ \A j \in D \cup {e} : i < j => o[i] <= j
      /\ e < SIZE /\ 0 \in D \cup {e}
  BY HandleFacts, ChainNext DEF Chain
<1>1. WalkEnd(w) = e
  <2>1. PICK f : /\ \A i \in 0..SIZE : f[i] = IF o[i] = i THEN i ELSE f[o[i]]
                 /\ WalkEnd(w) = f[0]
    BY <1>0, WalkEndAlong
  <2> DEFINE T == {i \in D \cup {e} : f[i] = e}
  <2>2. e \in T BY <1>0, <2>1
  <2>3. \A i \in D : o[i] \in T => i \in T
    <3>1. \A i \in D : f[i] = f[o[i]] BY <1>0, <2>1
    <3> QED BY <3>1
  <2>4. \A i \in D \cup {e} : i \in T
    <3> HIDE DEF T
    <3> QED BY <2>2, <2>3, ChainInduction
  <2> QED BY <1>0, <2>1, <2>4
<1>2. Entries(w) = D
  <2>1. PICK f : /\ \A i \in 0..SIZE : f[i] = IF o[i] = i THEN {} ELSE {i} \cup f[o[i]]
                 /\ Entries(w) = f[0]
    BY <1>0, EntriesAlong
  <2> DEFINE T == {i \in D \cup {e} : f[i] = {j \in D : i <= j}}
  <2>2. e \in T
    <3>1. {j \in D : e <= j} = {}
      <4>1. \A j \in D : j < e BY <1>0 DEF Chain
      <4>2. \A j \in D : ~(e <= j) BY <1>0, <4>1
      <4> QED BY <4>2
    <3>2. f[e] = {} BY <1>0, <2>1
    <3> QED BY <3>1, <3>2
  <2>3. ASSUME NEW i \in D, o[i] \in T PROVE i \in T
    <3>1. f[i] = {i} \cup f[o[i]]
      <4>1. i \in 0..SIZE /\ i \in D \cup {e} /\ o[i] # i
        <5>1. i \in 0..SIZE /\ i < o[i] BY <1>0
        <5>2. o[i] \in 0..SIZE BY <1>0
        <5> HIDE DEF o
        <5> QED BY <1>0, <5>1, <5>2
      <4> HIDE DEF o
      <4> QED BY <2>1, <4>1
    <3>2. f[o[i]] = {j \in D : o[i] <= j} BY <2>3
    <3>3. {j \in D : i <= j} = {i} \cup {j \in D : o[i] <= j} BY <1>0
    <3> QED BY <3>1, <3>2, <3>3
  <2>4. \A i \in D \cup {e} : i \in T
    <3> HIDE DEF T
    <3> QED BY <2>2, <2>3, ChainInduction
  <2>5. f[0] = {j \in D : 0 <= j} BY <1>0, <2>4
  <2>6. \A j \in D : 0 <= j BY <1>0
  <2> QED BY <2>1, <2>5, <2>6
<1>3. Sealed(w) <=> w[e] = SealHeader
  <2>1. w[e] \in {Blank, SealHeader} BY DEF Chain
  <2> QED BY <1>0, <1>1, <2>1 DEF Sealed, Blank, SealHeader, Word
<1> QED BY <1>1, <1>2, <1>3


\* The greatest and the least of some places
LEMMA MaxMin ==
  ASSUME NEW S \in SUBSET (0..SIZE), S # {}
  PROVE  /\ Max(S) \in S /\ \A y \in S : y <= Max(S)
         /\ Min(S) \in S /\ \A y \in S : Min(S) <= y
<1>0. SIZE \in Nat BY HandleFacts
<1>1. \E x \in S : \A y \in S : x <= y
  <2>1. S \in SUBSET Nat OBVIOUS
  <2> QED BY <2>1, LeastNumber
<1>2. \E x \in S : \A y \in S : x >= y
  <2> DEFINE U == {k \in 0..SIZE : SIZE - k \in S}
  <2>1. U # {}
    <3>1. PICK y \in S : TRUE OBVIOUS
    <3>2. SIZE - y \in 0..SIZE /\ SIZE - (SIZE - y) = y BY <1>0
    <3>3. SIZE - y \in U BY <3>2
    <3> QED BY <3>3
  <2>2. PICK k \in U : \A j \in U : k <= j
    <3>1. U \in SUBSET Nat OBVIOUS
    <3> HIDE DEF U
    <3> QED BY <2>1, <3>1, LeastNumber
  <2>3. SIZE - k \in S /\ k \in 0..SIZE BY <2>2
  <2>4. ASSUME NEW y \in S PROVE SIZE - k >= y
    <3>1. SIZE - y \in U BY <1>0
    <3>2. k <= SIZE - y BY <2>2, <3>1
    <3> QED BY <1>0, <2>3, <3>2
  <2> QED BY <2>3, <2>4
<1>3. Max(S) \in S /\ \A y \in S : Max(S) >= y BY <1>2, Zenon DEF Max
<1>4. Min(S) \in S /\ \A y \in S : Min(S) =< y BY <1>1, Zenon DEF Min
<1> QED BY <1>3, <1>4

\* The entries with data, and those of them that count when the page is read: as a
\* backup, or as the area.
Data(w, D) == {i \in D : w[i].handle \in Handles}

Counted(w, D, e, backup) == {i \in Data(w, D) : backup \/ i + w[i].len # e \/ w[e] = SealHeader}

\* Reading finds the last entry of the handle that counts.
LEMMA LastIs ==
  ASSUME NEW w, NEW D, NEW e, Chain(w, D, e), NEW h \in Handles, NEW backup \in BOOLEAN
  PROVE  /\ (\A i \in Counted(w, D, e, backup) : w[i].handle # h)
              => LastOf(w, h, backup) = NOWHERE
         /\ \A m \in Counted(w, D, e, backup) :
              w[m].handle = h /\ (\A j \in Counted(w, D, e, backup) : w[j].handle = h => j <= m)
                => LastOf(w, h, backup) = m
<1> DEFINE o == Onward(w)
           F == {NOWHERE} \cup Places
           K == {i \in Counted(w, D, e, backup) : w[i].handle = h}
           c(i) == w[i].handle = h /\ (backup \/ (o[i] < SIZE /\ w[o[i]] # Blank))
<1>0. /\ SIZE \in Nat /\ o[e] = e /\ w \in [Places -> Words]
      /\ \A i \in D \cup {e} : i \in 0..SIZE /\ i <= e /\ i \in Places
      /\ \A i \in D : /\ o[i] \in D \cup {e} /\ i < o[i] /\ o[i] = i + w[i].len
                      /\ \A j \in D \cup {e} : i < j => o[i] <= j
      /\ e < SIZE /\ 0 \in D \cup {e}
  BY HandleFacts, ChainNext DEF Chain
<1>1. K \subseteq D BY DEF Counted, Data
<1>2. ASSUME NEW i \in D PROVE c(i) <=> i \in K
  <2>1. o[i] < SIZE BY <1>0
  <2>2. o[i] # e => w[o[i]] # Blank
    <3>1. ASSUME o[i] # e PROVE w[o[i]].handle \in Handles \cup {"invalid"} BY <1>0, <3>1 DEF Chain
    <3> QED BY <3>1, HandleFacts DEF Blank, Word
  <2>3. w[e] = SealHeader <=> w[e] # Blank
    <3>1. w[e] \in {Blank, SealHeader} /\ Blank # SealHeader BY DEF Chain, Blank, SealHeader, Word
    <3> QED BY <3>1
  <2>4. w[i].handle = h => i \in Data(w, D) BY DEF Data
  <2>5. o[i] = i + w[i].len BY <1>0
  <2> HIDE DEF o
  <2> QED BY <2>1, <2>2, <2>3, <2>4, <2>5 DEF Counted
<1>3. PICK f : /\ \A i \in 0..SIZE, x \in F :
                    f[<<i, x>>] = IF o[i] = i THEN x ELSE f[<<o[i], IF c(i) THEN i ELSE x>>]
               /\ LastOf(w, h, backup) = f[<<0, NOWHERE>>]
  BY <1>0, LastAlong
<1>4. NOWHERE \in F OBVIOUS
<1>5. \A i \in D, x \in F : f[<<i, x>>] = f[<<o[i], IF i \in K THEN i ELSE x>>]
  <2>1. \A i \in D : o[i] # i /\ i \in 0..SIZE
    <3>1. \A i \in D : i < o[i] /\ i \in 0..SIZE /\ o[i] \in 0..SIZE BY <1>0
    <3> QED BY <1>0, <3>1
  <2> HIDE DEF o, c, K, F
  <2> QED BY <1>2, <1>3, <2>1
<1>6. \A x \in F : f[<<e, x>>] = x BY <1>0, <1>3
<1>7. \A i \in D : i \in F BY <1>0
<1> DEFINE T1 == {i \in D \cup {e} : (\E j \in K : i <= j) \/ \A x \in F : f[<<i, x>>] = x}
<1> HIDE DEF o, c, K, F
<1>8. e \in T1 BY <1>6
<1>9. ASSUME NEW i \in D, o[i] \in T1 PROVE i \in T1
  <2>1. CASE \E j \in K : i <= j BY <2>1
  <2>2. CASE ~ \E j \in K : i <= j
    <3>1. ~ \E j \in K : o[i] <= j
      <4>1. \A j \in K : j \in 0..SIZE BY <1>0, <1>1
      <4>2. i \in 0..SIZE /\ o[i] \in 0..SIZE /\ i < o[i] BY <1>0
      <4> QED BY <1>0, <2>2, <4>1, <4>2
    <3>2. i \notin K BY <1>0, <2>2
    <3>3. \A x \in F : f[<<o[i], x>>] = x BY <1>9, <3>1
    <3> QED BY <1>5, <3>2, <3>3
  <2> QED BY <2>1, <2>2
<1>10. \A i \in D \cup {e} : i \in T1
  <2> HIDE DEF T1
  <2>1. \A i \in D : Onward(w)[i] \in T1 => i \in T1 BY <1>9 DEF o
  <2> QED BY <1>8, <2>1, ChainInduction
<1>11. ASSUME \A i \in Counted(w, D, e, backup) : w[i].handle # h
       PROVE  LastOf(w, h, backup) = NOWHERE
  <2>1. K = {} BY <1>11 DEF K
  <2>2. 0 \in T1 BY <1>0, <1>10
  <2> QED BY <1>3, <1>4, <2>1, <2>2
<1>12. ASSUME NEW m \in Counted(w, D, e, backup), w[m].handle = h,
              \A j \in Counted(w, D, e, backup) : w[j].handle = h => j <= m
       PROVE  LastOf(w, h, backup) = m
  <2>1. m \in K /\ (\A j \in K : j <= m) /\ m \in D BY <1>1, <1>12 DEF K
  <2> DEFINE T2 == {i \in D \cup {e} : m < i \/ \A x \in F : f[<<i, x>>] = m}
  <2>2. e \in T2 BY <2>1, <1>0 DEF Chain
  <2>3. ASSUME NEW i \in D, o[i] \in T2 PROVE i \in T2
    <3>0. /\ i \in 0..SIZE /\ m \in 0..SIZE /\ o[i] \in 0..SIZE /\ i < o[i] /\ i \in F
          /\ i < m => o[i] <= m
      BY <1>0, <1>7, <2>1
    <3>1. CASE m < i BY <3>1
    <3>2. CASE i = m
      <4>1. ~ \E j \in K : o[i] <= j
        <5>1. \A j \in K : j \in 0..SIZE BY <1>0, <1>1
        <5> QED BY <2>1, <3>0, <3>2, <5>1
      <4>2. \A x \in F : f[<<o[i], x>>] = x BY <1>0, <1>10, <4>1
      <4>3. \A x \in F : f[<<i, x>>] = i BY <1>5, <2>1, <3>0, <3>2, <4>2
      <4> QED BY <3>2, <4>3
    <3>3. CASE i < m
      <4>1. ~ (m < o[i]) BY <3>0, <3>3
      <4>2. \A x \in F : f[<<o[i], x>>] = m BY <2>3, <4>1
      <4>3. \A x \in F : (IF i \in K THEN i ELSE x) \in F BY <3>0
      <4> QED BY <1>5, <4>2, <4>3
    <3> QED BY <3>0, <3>1, <3>2, <3>3
  <2>4. \A i \in D \cup {e} : i \in T2
    <3> HIDE DEF T2
    <3>1. \A i \in D : Onward(w)[i] \in T2 => i \in T2 BY <2>3 DEF o
    <3> QED BY <2>2, <3>1, ChainInduction
  <2>5. 0 \in T2 /\ ~ (m < 0) BY <1>0, <2>1, <2>4
  <2> QED BY <1>3, <1>4, <2>5
<1> QED BY <1>11, <1>12


\* The entry at i is written to its end.
Whole(w, i) == \E v \in VALUES : \A j \in (i + 1)..(i + w[i].len - 1) : w[j].value = v

\* The value of such an entry is in each of its words.
LEMMA WholeValue ==
  ASSUME NEW w, NEW D, NEW e, Chain(w, D, e), NEW i \in D, Whole(w, i)
  PROVE  Value(w, i) = w[i + 1].value /\ w[i + 1].value \in VALUES
<1>1. PICK v \in VALUES : \A j \in (i + 1)..(i + w[i].len - 1) : w[j].value = v BY DEF Whole
<1>2. i \in Places /\ w[i].len \in 0..SIZE /\ w[i].len >= 2 BY DEF Chain, Words
<1>3. i + 1 \in (i + 1)..(i + w[i].len - 1) BY <1>2, HandleFacts DEF Places
<1> DEFINE values == {w[j].value : j \in (i + 1)..(i + w[i].len - 1)}
<1>4. values = {v} /\ w[i + 1].value = v BY <1>1, <1>3
<1>5. Value(w, i) = IF \E x \in VALUES : values = {x} THEN CHOOSE x \in VALUES : values = {x} ELSE TORN
  BY DEF Value
<1>6. (CHOOSE x \in VALUES : values = {x}) = v
  <2>1. \A x \in VALUES : values = {x} => x = v BY <1>4
  <2>2. \E x \in VALUES : values = {x} BY <1>1, <1>4
  <2> HIDE DEF values
  <2> QED BY <2>1, <2>2
<1>7. \E x \in VALUES : values = {x} BY <1>1, <1>4
<1> HIDE DEF values
<1> QED BY <1>1, <1>4, <1>5, <1>6, <1>7

\* The entries of a handle that count
Has(w, D, e, backup, h) == {i \in Counted(w, D, e, backup) : w[i].handle = h}

\* What is stored of a handle is the value of the last of them.
LEMMA StoredIs ==
  ASSUME NEW w, NEW D, NEW e, Chain(w, D, e), NEW h \in Handles, NEW backup \in BOOLEAN
  PROVE  /\ Has(w, D, e, backup, h) = {} => StoredIn(w, h, backup) = NONE
         /\ \A m \in Has(w, D, e, backup, h) :
              Whole(w, m) /\ (\A j \in Has(w, D, e, backup, h) : j <= m)
                => StoredIn(w, h, backup) = w[m + 1].value /\ w[m + 1].value \in VALUES
         /\ Has(w, D, e, backup, h) # {}
              => \E m \in Has(w, D, e, backup, h) : \A j \in Has(w, D, e, backup, h) : j <= m
<1> DEFINE H == Has(w, D, e, backup, h)
<1>1. H \subseteq D BY DEF Has, Counted, Data
<1>2. ASSUME H = {} PROVE StoredIn(w, h, backup) = NONE
  <2>1. \A i \in Counted(w, D, e, backup) : w[i].handle # h BY <1>2 DEF Has
  <2>2. LastOf(w, h, backup) = NOWHERE BY <2>1, LastIs
  <2> QED BY <2>2 DEF StoredIn
<1>3. ASSUME NEW m \in H, Whole(w, m), \A j \in H : j <= m
      PROVE  StoredIn(w, h, backup) = w[m + 1].value /\ w[m + 1].value \in VALUES
  <2>1. m \in Counted(w, D, e, backup) /\ w[m].handle = h BY DEF Has
  <2>2. \A j \in Counted(w, D, e, backup) : w[j].handle = h => j <= m BY <1>3 DEF Has
  <2>3. LastOf(w, h, backup) = m BY <2>1, <2>2, LastIs
  <2>4. m \in D /\ m \in Places BY <1>1 DEF Chain
  <2>5. m # NOWHERE BY <2>4, HandleFacts DEF NOWHERE, Places
  <2>6. StoredIn(w, h, backup) = Value(w, m) BY <2>3, <2>5 DEF StoredIn
  <2> QED BY <1>3, <2>4, <2>6, WholeValue
<1>4. ASSUME H # {} PROVE \E m \in H : \A j \in H : j <= m
  <2>1. H \in SUBSET (0..SIZE) BY <1>1, ChainNext
  <2> HIDE DEF H
  <2> QED BY <1>4, <2>1, MaxMin
<1> QED BY <1>2, <1>3, <1>4

\* Each entry of a handle that counts in u stands for one in w, in the same order, and
\* each one in w has one that stands for it or for a later one.
StandsFor(w, D, e, b, u, E, x, c, h, g) ==
  /\ \A i \in Has(w, D, e, b, h) : Whole(w, i) /\ \E k \in Has(u, E, x, c, h) : i <= g[k]
  /\ \A k \in Has(u, E, x, c, h) : /\ g[k] \in Has(w, D, e, b, h) /\ Whole(u, k)
                                    /\ u[k + 1].value = w[g[k] + 1].value
  /\ \A k, l \in Has(u, E, x, c, h) : k <= l => g[k] <= g[l]

\* Then the same is stored.
LEMMA StoredAlike ==
  ASSUME NEW w, NEW D, NEW e, Chain(w, D, e), NEW b \in BOOLEAN,
         NEW u, NEW E, NEW x, Chain(u, E, x), NEW c \in BOOLEAN,
         NEW h \in Handles, NEW g, StandsFor(w, D, e, b, u, E, x, c, h, g)
  PROVE  StoredIn(w, h, b) = StoredIn(u, h, c)
<1> DEFINE H == Has(w, D, e, b, h)
           K == Has(u, E, x, c, h)
<1>0. /\ \A i \in H : Whole(w, i) /\ \E k \in K : i <= g[k]
      /\ \A k \in K : g[k] \in H /\ Whole(u, k) /\ u[k + 1].value = w[g[k] + 1].value
      /\ \A k, l \in K : k <= l => g[k] <= g[l]
  BY DEF StandsFor
<1>1. CASE H = {}
  <2>1. K = {} BY <1>0, <1>1
  <2>2. StoredIn(w, h, b) = NONE BY <1>1, StoredIs
  <2>3. StoredIn(u, h, c) = NONE BY <2>1, StoredIs
  <2> QED BY <2>2, <2>3
<1>2. CASE H # {}
  <2>1. K # {} BY <1>0, <1>2
  <2>2. PICK m \in K : \A j \in K : j <= m BY <2>1, StoredIs
  <2>3. g[m] \in H /\ Whole(u, m) /\ u[m + 1].value = w[g[m] + 1].value /\ Whole(w, g[m]) BY <1>0
  <2>4. ASSUME NEW i \in H PROVE i <= g[m]
    <3>1. PICK k \in K : i <= g[k] BY <1>0
    <3>2. g[k] <= g[m] BY <1>0, <2>2
    <3>3. H \subseteq D BY DEF Has, Counted, Data
    <3>4. i \in 0..SIZE /\ g[k] \in 0..SIZE /\ g[m] \in 0..SIZE
      <4>1. g[k] \in H /\ g[m] \in H BY <1>0, <2>3
      <4>2. \A j \in D : j \in 0..SIZE BY ChainNext
      <4> QED BY <3>3, <4>1, <4>2
    <3> QED BY <3>1, <3>2, <3>4, HandleFacts
  <2>5. StoredIn(u, h, c) = u[m + 1].value BY <2>2, <2>3, StoredIs
  <2>6. StoredIn(w, h, b) = w[g[m] + 1].value BY <2>3, <2>4, StoredIs
  <2> QED BY <2>3, <2>5, <2>6
<1> QED BY <1>1, <1>2


\* The entries of a handle that count in u are those of w, or the later ones of them.
Alike(w, D, e, b, u, E, x, c, h) ==
  /\ \A i \in Has(w, D, e, b, h) : Whole(w, i) /\ \E k \in Has(u, E, x, c, h) : i <= k
  /\ \A k \in Has(u, E, x, c, h) : /\ k \in Has(w, D, e, b, h) /\ Whole(u, k)
                                    /\ u[k + 1].value = w[k + 1].value

\* The same as StoredAlike, when the entries stay where they are.
LEMMA StoredSame ==
  ASSUME NEW w, NEW D, NEW e, Chain(w, D, e), NEW b \in BOOLEAN,
         NEW u, NEW E, NEW x, Chain(u, E, x), NEW c \in BOOLEAN,
         NEW h \in Handles, Alike(w, D, e, b, u, E, x, c, h)
  PROVE  StoredIn(u, h, c) = StoredIn(w, h, b)
<1> DEFINE g == [k \in Places |-> k]
           H == Has(w, D, e, b, h)
           K == Has(u, E, x, c, h)
<1>0. /\ \A i \in H : Whole(w, i) /\ \E k \in K : i <= k
      /\ \A k \in K : k \in H /\ Whole(u, k) /\ u[k + 1].value = w[k + 1].value
  BY DEF Alike
<1>1. \A k \in K : g[k] = k
  <2>1. K \subseteq Places BY DEF Has, Counted, Data, Chain
  <2> QED BY <2>1
<1> HIDE DEF g
<1>2. \A k \in K : g[k] \in H /\ Whole(u, k) /\ u[k + 1].value = w[g[k] + 1].value BY <1>0, <1>1
<1>3. \A k, l \in K : k <= l => g[k] <= g[l] BY <1>1
<1>4. \A i \in H : \E k \in K : i <= g[k] BY <1>0, <1>1
<1>5. StandsFor(w, D, e, b, u, E, x, c, h, g) BY <1>0, <1>2, <1>3, <1>4 DEF StandsFor
<1> QED BY <1>5, StoredAlike

\* What is stored in a page that is read as the area, or as a backup, and the entries
\* that count there
InArea(w, h) == StoredIn(w, h, FALSE)
InBackup(w, h) == StoredIn(w, h, TRUE)
AreaCounted(w, D, e) == Counted(w, D, e, FALSE)

\* The entries T of a handle in u are the entries S of w, or the later ones of them.
Same(w, S, u, T, h) ==
  /\ \A i \in S : w[i].handle = h => Whole(w, i) /\ \E k \in T : u[k].handle = h /\ i <= k
  /\ \A k \in T : u[k].handle = h => /\ k \in S /\ w[k].handle = h /\ Whole(u, k)
                                     /\ u[k + 1].value = w[k + 1].value

\* StoredSame for two pages that are areas
LEMMA AreaSame ==
  ASSUME NEW w, NEW D, NEW e, Chain(w, D, e), NEW u, NEW E, NEW x, Chain(u, E, x),
         NEW h \in Handles, Same(w, AreaCounted(w, D, e), u, AreaCounted(u, E, x), h)
  PROVE  InArea(u, h) = InArea(w, h)
<1> DEFINE b == FALSE
<1>1. Same(w, Counted(w, D, e, b), u, Counted(u, E, x, b), h) BY DEF AreaCounted
<1>2. b \in BOOLEAN OBVIOUS
<1> HIDE DEF b
<1>3. Alike(w, D, e, b, u, E, x, b, h) BY <1>1 DEF Alike, Same, Has
<1>4. StoredIn(u, h, b) = StoredIn(w, h, b) BY <1>2, <1>3, StoredSame
<1> QED BY <1>4 DEF b, InArea

\* StoredSame for an area whose entries a backup has
LEMMA BackupSame ==
  ASSUME NEW w, NEW D, NEW e, Chain(w, D, e), NEW u, NEW E, NEW x, Chain(u, E, x),
         NEW h \in Handles, Same(w, Data(w, D), u, AreaCounted(u, E, x), h)
  PROVE  InArea(u, h) = InBackup(w, h)
<1> DEFINE b == TRUE
           c == FALSE
<1>1. Same(w, Counted(w, D, e, b), u, Counted(u, E, x, c), h) BY DEF AreaCounted, Counted
<1>2. b \in BOOLEAN /\ c \in BOOLEAN OBVIOUS
<1> HIDE DEF b, c
<1>3. Alike(w, D, e, b, u, E, x, c, h) BY <1>1 DEF Alike, Same, Has
<1>4. StoredIn(u, h, c) = StoredIn(w, h, b) BY <1>2, <1>3, StoredSame
<1> QED BY <1>4 DEF b, c, InArea, InBackup

\* StoredIs for an area
LEMMA AreaIs ==
  ASSUME NEW w, NEW D, NEW e, Chain(w, D, e), NEW h \in Handles
  PROVE  /\ (\A i \in AreaCounted(w, D, e) : w[i].handle # h) => InArea(w, h) = NONE
         /\ \A m \in AreaCounted(w, D, e) :
              /\ w[m].handle = h /\ Whole(w, m)
              /\ \A j \in AreaCounted(w, D, e) : w[j].handle = h => j <= m
              => InArea(w, h) = w[m + 1].value /\ w[m + 1].value \in VALUES
<1> DEFINE b == FALSE
           S == Counted(w, D, e, b)
<1>1. b \in BOOLEAN /\ AreaCounted(w, D, e) = S BY DEF AreaCounted
<1> HIDE DEF b
<1>2. ASSUME \A i \in S : w[i].handle # h PROVE StoredIn(w, h, b) = NONE
  <2>1. Has(w, D, e, b, h) = {} BY <1>2 DEF Has
  <2> QED BY <1>1, <2>1, StoredIs
<1>3. ASSUME NEW m \in S, w[m].handle = h, Whole(w, m), \A j \in S : w[j].handle = h => j <= m
      PROVE  StoredIn(w, h, b) = w[m + 1].value /\ w[m + 1].value \in VALUES
  <2>1. m \in Has(w, D, e, b, h) /\ \A j \in Has(w, D, e, b, h) : j <= m BY <1>3 DEF Has
  <2> QED BY <1>1, <1>3, <2>1, StoredIs
<1>4. InArea(w, h) = StoredIn(w, h, b) BY DEF InArea, b
<1> HIDE DEF S
<1> QED BY <1>1, <1>2, <1>3, <1>4

\* Entries are behind each other, and within the area.
LEMMA ChainBounds ==
  ASSUME NEW w, NEW D, NEW e, Chain(w, D, e)
  PROVE  /\ w \in [Places -> Words] /\ SIZE \in Nat /\ e \in Nat /\ e < SIZE /\ e \in Places
         /\ \A i \in D : /\ i \in Nat /\ w[i].len \in Nat /\ w[i].len >= 2 /\ i \in Places
                         /\ i + w[i].len <= e /\ i < e
                         /\ i + w[i].len \in D \cup {e}
                         /\ w[i].handle \in Handles \cup {"invalid"}
         /\ \A i, j \in D : i < j => i + w[i].len <= j
         /\ \A j \in Places : j > e => w[j] = Blank
         /\ \A j \in Places : j \in Nat /\ j < SIZE
<1>0. SIZE \in Nat /\ \A j \in Places : j \in Nat /\ j < SIZE BY HandleFacts DEF Places
<1>1. w \in [Places -> Words] /\ e \in Places /\ D \subseteq Places BY DEF Chain
<1>2. e \in Nat /\ e < SIZE BY <1>0, <1>1
<1>3. ASSUME NEW i \in D
      PROVE  /\ i \in Nat /\ w[i].len \in Nat /\ w[i].len >= 2 /\ i \in Places
             /\ i + w[i].len <= e /\ i < e
             /\ i + w[i].len \in D \cup {e}
             /\ w[i].handle \in Handles \cup {"invalid"}
             /\ \A j \in D : i < j => i + w[i].len <= j
  <2>1. i \in Places /\ i \in Nat BY <1>0, <1>1
  <2>2. w[i].len \in 0..SIZE BY <1>1, <2>1 DEF Words
  <2>3. w[i].len >= 2 /\ i < e /\ i + w[i].len \in D \cup {e} /\ w[i].handle \in Handles \cup {"invalid"}
        /\ \A j \in D : i < j => i + w[i].len <= j
    BY DEF Chain
  <2>4. \A j \in D : j < e /\ j \in Nat BY <1>0, <1>1 DEF Chain
  <2>5. i + w[i].len <= e BY <1>2, <2>3, <2>4
  <2>6. w[i].len \in Nat BY <1>0, <2>2
  <2> QED BY <2>1, <2>3, <2>5, <2>6
<1>4. \A j \in Places : j > e => w[j] = Blank BY DEF Chain
<1> QED BY <1>0, <1>1, <1>2, <1>3, <1>4

\* The words that are written
LEMMA WordFacts ==
  /\ Blank \in Words /\ SealHeader \in Words /\ Blank # SealHeader
  /\ \A h \in Handles : Word(h, LEN[h], NONE) \in Words
  /\ \A v \in VALUES : Word("data", 0, v) \in Words
  /\ \A x \in Words : x.len < SIZE => [x EXCEPT !.handle = "invalid"] \in Words
  /\ \A x \in Words : x # InvalidHeader /\ x.handle = x.handle
<1>0. SIZE \in Nat /\ \A h \in Handles : LEN[h] \in 0..SIZE BY HandleFacts
<1>1. Blank \in Words /\ SealHeader \in Words /\ Blank # SealHeader
  BY <1>0 DEF Words, Blank, SealHeader, InvalidHeader, Word
<1>2. \A h \in Handles : Word(h, LEN[h], NONE) \in Words
  BY <1>0, HandleFacts DEF Words, InvalidHeader, Word
<1>3. \A v \in VALUES : Word("data", 0, v) \in Words
  BY <1>0 DEF Words, InvalidHeader, Word
<1>4. ASSUME NEW x \in Words, x.len < SIZE PROVE [x EXCEPT !.handle = "invalid"] \in Words
  <2> DEFINE y == [x EXCEPT !.handle = "invalid"]
  <2>1. y.len = x.len BY DEF Words
  <2>2. y # InvalidHeader BY <1>0, <1>4, <2>1 DEF InvalidHeader, Word, Words
  <2> QED BY <2>2 DEF Words
<1>5. \A x \in Words : x # InvalidHeader BY DEF Words
<1> QED BY <1>1, <1>2, <1>3, <1>4, <1>5

\* An entry whose words stay is as whole as before.
LEMMA WholeSame ==
  ASSUME NEW w, NEW u, NEW i, Whole(w, i), u[i].len = w[i].len,
         \A j \in (i + 1)..(i + w[i].len - 1) : u[j] = w[j]
  PROVE  Whole(u, i)
BY DEF Whole

\* A chain whose headers keep their lengths stays one.
LEMMA ChainLike ==
  ASSUME NEW w, NEW D, NEW e, Chain(w, D, e), NEW u \in [Places -> Words],
         \A i \in D : u[i].handle \in Handles \cup {"invalid"} /\ u[i].len = w[i].len,
         u[e] \in {Blank, SealHeader}, \A j \in Places : j > e => u[j] = Blank
  PROVE  Chain(u, D, e)
BY DEF Chain

\* A header at its end makes a chain longer.
LEMMA ChainGrown ==
  ASSUME NEW w, NEW D, NEW e, Chain(w, D, e), NEW u \in [Places -> Words],
         \A i \in D : u[i] = w[i],
         u[e].handle \in Handles, u[e].len >= 2, e + u[e].len < SIZE,
         \A j \in Places : j >= e + u[e].len => u[j] = Blank
  PROVE  Chain(u, D \cup {e}, e + u[e].len)
<1> DEFINE x == e + u[e].len
           E == D \cup {e}
<1>1. e \in Nat /\ SIZE \in Nat /\ e \in Places /\ u[e].len \in Nat
  <2>1. e \in Nat /\ SIZE \in Nat /\ e \in Places BY ChainBounds
  <2>2. u[e] \in Words BY <2>1
  <2> QED BY <2>1, <2>2 DEF Words
<1>2. x \in Places /\ x \in Nat /\ e < x BY <1>1 DEF Places
<1>3. /\ \A i \in D : /\ i \in Nat /\ i < e /\ w[i].len >= 2 /\ i + w[i].len \in D \cup {e}
                      /\ w[i].handle \in Handles \cup {"invalid"} /\ i \in Places /\ i + w[i].len <= e
      /\ \A i, j \in D : i < j => i + w[i].len <= j
  BY ChainBounds
<1>4. 0 \in E BY DEF Chain
<1>5. u[x] = Blank /\ \A j \in Places : j > x => u[j] = Blank
  <2>1. x >= x /\ \A j \in Places : j > x => j >= x BY <1>2 DEF Places
  <2> QED BY <1>2, <2>1
<1>6. ASSUME NEW i \in E
      PROVE  /\ u[i].handle \in Handles \cup {"invalid"} /\ u[i].len >= 2
             /\ i < x /\ i + u[i].len \in E \cup {x}
             /\ \A j \in E : i < j => i + u[i].len <= j
  <2>1. CASE i = e
    <3>1. \A j \in E : ~ (e < j) BY <1>1, <1>3
    <3> QED BY <1>2, <2>1, <3>1
  <2>2. CASE i \in D
    <3>1. u[i] = w[i] BY <2>2
    <3>2. i < x /\ i < e /\ i + w[i].len <= e BY <1>1, <1>2, <1>3, <2>2
    <3> HIDE DEF x
    <3> QED BY <1>3, <2>2, <3>1, <3>2
  <2> QED BY <2>1, <2>2
<1>7. E \in SUBSET Places BY <1>1, <1>3
<1> HIDE DEF x, E
<1>8. Chain(u, E, x) BY <1>2, <1>4, <1>5, <1>6, <1>7 DEF Chain
<1> QED BY <1>8 DEF x, E


-----------------------------------------------------------------------------
(* Pages: what the steps leave behind, and what is stored *)

\* The entries at the places S are written to their ends, no two of them are of one
\* handle, and one is of the handle that is kept.
Sound(w, S) == \A i \in S : Whole(w, i)

Apart(w, S) == \A i, j \in S : w[i].handle = w[j].handle => i = j

HasKept(w, S, kept) == \E i \in S : w[i].handle = kept

\* Each handle has one entry, and all are written to their ends.
Tidy(w, D, e) == Chain(w, D, e) /\ Sound(w, Data(w, D)) /\ Apart(w, Data(w, D))

\* The last entry has replaced the one at i, which is still there.
Doubled(w, D, e, i) ==
  /\ Chain(w, D, e) /\ Sound(w, Data(w, D))
  /\ i \in Data(w, D) /\ Apart(w, Data(w, D) \ {i})
  /\ \E j \in D : i < j /\ w[j].handle = w[i].handle /\ j + w[j].len = e

\* The last entry, at t, is not written to its end: the seal behind it is missing.
Torn(w, D, e, t) ==
  /\ Chain(w, D, e) /\ w[e] = Blank
  /\ t \in D /\ t + w[t].len = e
  /\ Sound(w, Data(w, D) \ {t}) /\ Apart(w, Data(w, D) \ {t})

\* All entries count but one that nothing is written behind.
LEMMA CountedFacts ==
  ASSUME NEW w, NEW D, NEW e, Chain(w, D, e)
  PROVE  /\ w[e] = SealHeader => AreaCounted(w, D, e) = Data(w, D)
         /\ D = {} => Data(w, D) = {} /\ AreaCounted(w, D, e) = {}
         /\ \A t \in D : w[e] = Blank /\ t + w[t].len = e => AreaCounted(w, D, e) = Data(w, D) \ {t}
         /\ AreaCounted(w, D, e) \subseteq Data(w, D)
         /\ Data(w, D) \subseteq D
<1>2. w[e] = SealHeader => AreaCounted(w, D, e) = Data(w, D) BY DEF AreaCounted, Counted
<1>3. D = {} => Data(w, D) = {} /\ AreaCounted(w, D, e) = {} BY DEF AreaCounted, Counted, Data
<1>4. ASSUME NEW t \in D, w[e] = Blank, t + w[t].len = e
      PROVE  AreaCounted(w, D, e) = Data(w, D) \ {t}
  <2>1. w[e] # SealHeader BY <1>4, WordFacts
  <2>2. ASSUME NEW i \in D PROVE i + w[i].len # e <=> i # t
    <3>1. /\ i \in Nat /\ t \in Nat /\ e \in Nat /\ w[i].len \in Nat /\ w[t].len \in Nat
          /\ i < e /\ t < e /\ (i < t => i + w[i].len <= t) /\ (t < i => t + w[t].len <= i)
      BY ChainBounds
    <3> QED BY <1>4, <3>1
  <2>3. Data(w, D) \subseteq D BY DEF Data
  <2> QED BY <2>1, <2>2, <2>3 DEF AreaCounted, Counted
<1> QED BY <1>2, <1>3, <1>4 DEF AreaCounted, Counted, Data

\* The word at a place is written.
Update(w, at, word, u) == u = [w EXCEPT ![at] = word]

\* The header at a place is invalidated.
Crossed(w, at, u) == Update(w, at, [w[at] EXCEPT !.handle = "invalid"], u)

\* An entry of h is whole, and not the one at t.
KeptBut(w, D, t, h) == HasKept(w, Data(w, D) \ {t}, h)

\* There is a seal, or no entry yet, and behind it room for an entry of h, up to x.
HasRoom(w, D, e, h, E, x) ==
  (w[e] = SealHeader \/ D = {}) /\ E = D \cup {e} /\ x = e + LEN[h] /\ x < SIZE

\* The header of an entry of h is written.
Headed(w, e, h, u) == Update(w, e, Word(h, LEN[h], NONE), u)

\* A header is written where the area ended: a torn entry, which does not count.
LEMMA HeaderWritten ==
  ASSUME NEW w, NEW D, NEW e, Tidy(w, D, e), NEW h \in Handles,
         NEW E, NEW x, HasRoom(w, D, e, h, E, x),
         NEW u, Headed(w, e, h, u)
  PROVE  /\ Torn(u, E, x, e)
         /\ Data(u, E) \ {e} = Data(w, D)
         /\ \A i \in D : u[i] = w[i]
         /\ \A g \in Handles : InArea(u, g) = InArea(w, g)
<1> USE DEF HasRoom, Headed
<1>0. Chain(w, D, e) /\ Sound(w, Data(w, D)) /\ Apart(w, Data(w, D)) BY DEF Tidy
<1>1. /\ w \in [Places -> Words] /\ SIZE \in Nat /\ e \in Nat /\ e < SIZE /\ e \in Places
      /\ \A i \in D : /\ i \in Nat /\ w[i].len \in Nat /\ w[i].len >= 2 /\ i \in Places
                      /\ i + w[i].len <= e /\ i < e
      /\ \A j \in Places : j > e => w[j] = Blank
      /\ \A j \in Places : j \in Nat /\ j < SIZE
      /\ LEN[h] \in 2..(SIZE - 1) /\ x = e + LEN[h] /\ x < SIZE /\ E = D \cup {e}
  BY <1>0, ChainBounds, HandleFacts
<1>2. u \in [Places -> Words] /\ u[e] = Word(h, LEN[h], NONE) /\ \A j \in Places : j # e => u[j] = w[j]
  <2>1. Word(h, LEN[h], NONE) \in Words BY WordFacts
  <2> QED BY <1>1, <2>1 DEF Update
<1>3. u[e].handle = h /\ u[e].len = LEN[h] BY <1>2 DEF Word
<1>4. \A i \in D : u[i] = w[i] /\ i # e BY <1>1, <1>2
<1>5. \A j \in Places : j >= x => u[j] = Blank BY <1>1, <1>2
<1>6. Chain(u, E, x)
  <2>1. u[e].len >= 2 /\ e + u[e].len < SIZE BY <1>1, <1>3
  <2>3. \A j \in Places : j >= e + u[e].len => u[j] = Blank BY <1>3, <1>5
  <2>4. u[e].handle \in Handles BY <1>3
  <2>2. Chain(u, D \cup {e}, e + u[e].len) BY <1>0, <1>2, <1>4, <2>1, <2>3, <2>4, ChainGrown
  <2> QED BY <1>3, <2>2
<1>7. u[x] = Blank /\ x \in Places BY <1>1, <1>5 DEF Places
<1>8. Data(u, E) \ {e} = Data(w, D) BY <1>4 DEF Data
<1>9. \A i \in Data(w, D) : i \in D /\ Whole(w, i) /\ Whole(u, i) /\ u[i + 1] = w[i + 1]
  <2>1. \A i \in Data(w, D) : i \in D /\ Whole(w, i) BY <1>0 DEF Data, Sound
  <2>2. ASSUME NEW i \in D, Whole(w, i) PROVE Whole(u, i) /\ u[i + 1] = w[i + 1]
    <3>1. \A j \in i..(i + w[i].len - 1) : j \in Places /\ j # e BY <1>1 DEF Places
    <3>2. \A j \in (i + 1)..(i + w[i].len - 1) : u[j] = w[j] BY <1>1, <1>2, <3>1
    <3>3. i + 1 \in (i + 1)..(i + w[i].len - 1) BY <1>1
    <3> QED BY <1>4, <2>2, <3>2, <3>3, WholeSame
  <2> QED BY <2>1, <2>2
<1>10. Torn(u, E, x, e)
  <2>1. Sound(u, Data(u, E) \ {e}) BY <1>8, <1>9 DEF Sound
  <2>2. Apart(u, Data(u, E) \ {e}) BY <1>0, <1>4, <1>8, <1>9 DEF Apart
  <2> QED BY <1>3, <1>6, <1>7, <2>1, <2>2 DEF Torn
<1>11. ASSUME NEW g \in Handles PROVE InArea(u, g) = InArea(w, g)
  <2>1. AreaCounted(w, D, e) = Data(w, D) BY <1>0, CountedFacts
  <2>2. e \in E /\ e + u[e].len = x BY <1>3
  <2>3. AreaCounted(u, E, x) = Data(w, D)
        <3> QED BY <1>6, <1>7, <1>8, <2>2, CountedFacts
  <2>4. ASSUME NEW i \in Data(w, D) PROVE i <= i /\ u[i] = w[i] /\ Whole(w, i) /\ Whole(u, i) /\ u[i + 1] = w[i + 1]
    <3>1. i \in Nat BY <1>1, <1>9
    <3> QED BY <1>4, <1>9, <3>1
    <2>5. Same(w, Data(w, D), u, Data(w, D), g) BY <2>4 DEF Same
  <2> QED BY <1>0, <1>6, <2>1, <2>3, <2>5, AreaSame
<1> QED BY <1>4, <1>8, <1>10, <1>11

\* An entry none of whose words is written
LEMMA EntrySame ==
  ASSUME NEW w, NEW D, NEW e, Chain(w, D, e), NEW u, NEW i \in D,
         \A j \in Places : i <= j /\ j < i + w[i].len => u[j] = w[j]
  PROVE  u[i] = w[i] /\ u[i + 1] = w[i + 1] /\ (Whole(w, i) => Whole(u, i))
<1>1. /\ i \in Nat /\ w[i].len \in Nat /\ w[i].len >= 2 /\ i \in Places /\ i + w[i].len <= e
      /\ e \in Nat /\ e < SIZE /\ SIZE \in Nat
  BY ChainBounds
<1>2. \A j \in i..(i + w[i].len - 1) : u[j] = w[j]
  <2>1. ASSUME NEW j \in i..(i + w[i].len - 1) PROVE j \in Places /\ i <= j /\ j < i + w[i].len
    BY <1>1 DEF Places
  <2> QED BY <2>1
<1>3. i \in i..(i + w[i].len - 1) /\ i + 1 \in i..(i + w[i].len - 1) BY <1>1
<1>4. u[i] = w[i] /\ u[i + 1] = w[i + 1] BY <1>2, <1>3
<1>5. \A j \in (i + 1)..(i + w[i].len - 1) : u[j] = w[j] BY <1>1, <1>2
<1> QED BY <1>4, <1>5, WholeSame

\* Entries that are left alone are the same ones.
LEMMA SameSame ==
  ASSUME NEW w, NEW u, NEW S,
         \A i \in S : /\ i \in Nat /\ u[i] = w[i] /\ u[i + 1] = w[i + 1]
                      /\ Whole(w, i) /\ Whole(u, i),
         NEW h
  PROVE  Same(w, S, u, S, h)
<1>1. \A i \in S : i <= i OBVIOUS
<1> QED BY <1>1 DEF Same

\* A word of the torn entry is written.
LEMMA DataWritten ==
  ASSUME NEW w, NEW D, NEW e, NEW t, Torn(w, D, e, t),
         NEW p \in Places, t < p, p < e, NEW v \in VALUES,
         NEW u, Update(w, p, Word("data", 0, v), u)
  PROVE  /\ Torn(u, D, e, t) /\ Data(u, D) = Data(w, D)
         /\ \A i \in D : u[i] = w[i]
         /\ \A g \in Handles : InArea(u, g) = InArea(w, g)
<1> DEFINE S == Data(w, D) \ {t}
<1>0. Chain(w, D, e) /\ t \in D /\ t + w[t].len = e /\ w[e] = Blank /\ Sound(w, S) /\ Apart(w, S) BY DEF Torn
<1>1. /\ w \in [Places -> Words] /\ SIZE \in Nat /\ e \in Nat /\ e < SIZE /\ e \in Places
      /\ \A i \in D : /\ i \in Nat /\ w[i].len \in Nat /\ w[i].len >= 2 /\ i \in Places
                      /\ i + w[i].len <= e /\ i < e
                      /\ w[i].handle \in Handles \cup {"invalid"}
      /\ \A i, j \in D : i < j => i + w[i].len <= j
      /\ \A j \in Places : j > e => w[j] = Blank
      /\ \A j \in Places : j \in Nat /\ j < SIZE
  BY <1>0, ChainBounds
<1>2. u \in [Places -> Words] /\ \A j \in Places : j # p => u[j] = w[j]
  <2>1. Word("data", 0, v) \in Words BY WordFacts
  <2> QED BY <1>1, <2>1 DEF Update
<1>3. \A i \in D : i # p
  <2>1. ASSUME p \in D PROVE FALSE
    <3>1. t + w[t].len <= p BY <1>0, <1>1, <2>1
    <3> QED BY <1>0, <1>1, <3>1
  <2> QED BY <2>1
<1>4. \A i \in D : u[i] = w[i] BY <1>1, <1>2, <1>3
<1>5. u[e] = Blank /\ \A j \in Places : j > e => u[j] = Blank BY <1>0, <1>1, <1>2
<1>6. Chain(u, D, e) BY <1>0, <1>1, <1>2, <1>4, <1>5, ChainLike
<1>7. Data(u, D) = Data(w, D) BY <1>4 DEF Data
<1>8. ASSUME NEW i \in S
      PROVE  i \in Nat /\ u[i] = w[i] /\ u[i + 1] = w[i + 1] /\ Whole(w, i) /\ Whole(u, i)
  <2>1. i \in D /\ i # t /\ Whole(w, i) BY <1>0 DEF Data, Sound
  <2>2. ASSUME NEW j \in Places, i <= j, j < i + w[i].len PROVE u[j] = w[j]
    <3>1. i < t => i + w[i].len <= t BY <1>0, <1>1, <2>1
    <3>2. t < i => e <= i BY <1>0, <1>1, <2>1
    <3>3. i < t BY <1>0, <1>1, <2>1, <3>2
    <3>4. j # p BY <1>0, <1>1, <2>1, <2>2, <3>1, <3>3
    <3> QED BY <1>2, <3>4
  <2>3. u[i] = w[i] /\ u[i + 1] = w[i + 1] /\ (Whole(w, i) => Whole(u, i)) BY <1>0, <2>1, <2>2, EntrySame
  <2> QED BY <1>1, <2>1, <2>3
<1>9. Torn(u, D, e, t)
  <2>1. Sound(u, Data(u, D) \ {t}) BY <1>7, <1>8 DEF Sound
  <2>2. Apart(u, Data(u, D) \ {t}) BY <1>0, <1>7, <1>8 DEF Apart
  <2>3. t + u[t].len = e BY <1>0, <1>4
  <2> QED BY <1>0, <1>5, <1>6, <2>1, <2>2, <2>3 DEF Torn
<1>10. ASSUME NEW g \in Handles PROVE InArea(u, g) = InArea(w, g)
  <2>1. AreaCounted(w, D, e) = S BY <1>0, CountedFacts
  <2>2. AreaCounted(u, D, e) = S BY <1>6, <1>7, <1>9, CountedFacts DEF Torn
  <2>3. Same(w, S, u, S, g)
    <3> HIDE DEF S
    <3> QED BY <1>8, SameSame
  <2> HIDE DEF S
  <2> QED BY <1>0, <1>6, <2>1, <2>2, <2>3, AreaSame
<1> QED BY <1>4, <1>7, <1>9, <1>10

\* The seal is written behind a torn entry that has all its words: from then on it
\* counts, and is the last of its handle.
LEMMA SealWritten ==
  ASSUME NEW w, NEW D, NEW e, NEW t, Torn(w, D, e, t), NEW h \in Handles, w[t].handle = h,
         NEW v \in VALUES, \A j \in (t + 1)..(e - 1) : w[j].value = v,
         NEW u, Update(w, e, SealHeader, u)
  PROVE  /\ Chain(u, D, e) /\ u[e] = SealHeader
         /\ Data(u, D) = Data(w, D) /\ t \in Data(w, D)
         /\ \A i \in D : u[i] = w[i]
         /\ (\A i \in Data(w, D) \ {t} : w[i].handle # h) => Tidy(u, D, e)
         /\ \A old \in Data(w, D) \ {t} : w[old].handle = h => Doubled(u, D, e, old)
         /\ InArea(u, h) = v
         /\ \A g \in Handles \ {h} : InArea(u, g) = InArea(w, g)
<1> DEFINE S == Data(w, D)
           R == Data(w, D) \ {t}
<1>0. Chain(w, D, e) /\ t \in D /\ t + w[t].len = e /\ w[e] = Blank /\ Sound(w, R) /\ Apart(w, R) BY DEF Torn
<1>1. /\ w \in [Places -> Words] /\ SIZE \in Nat /\ e \in Nat /\ e < SIZE /\ e \in Places
      /\ \A i \in D : /\ i \in Nat /\ w[i].len \in Nat /\ w[i].len >= 2 /\ i \in Places
                      /\ i + w[i].len <= e /\ i < e
                      /\ w[i].handle \in Handles \cup {"invalid"}
      /\ \A i, j \in D : i < j => i + w[i].len <= j
      /\ \A j \in Places : j > e => w[j] = Blank
      /\ \A j \in Places : j \in Nat /\ j < SIZE
  BY <1>0, ChainBounds
<1>2. u \in [Places -> Words] /\ u[e] = SealHeader /\ \A j \in Places : j # e => u[j] = w[j]
  <2>1. SealHeader \in Words BY WordFacts
  <2> QED BY <1>1, <2>1 DEF Update
<1>3. \A i \in D : u[i] = w[i]
  <2>1. \A i \in D : i # e BY <1>1
  <2> QED BY <1>1, <1>2, <2>1
<1>4. Chain(u, D, e)
  <2>1. \A j \in Places : j > e => u[j] = Blank BY <1>1, <1>2
  <2> QED BY <1>0, <1>1, <1>2, <1>3, <2>1, ChainLike
<1>5. Data(u, D) = S /\ t \in S BY <1>0, <1>3 DEF Data
<1>6. ASSUME NEW i \in D
      PROVE  u[i] = w[i] /\ u[i + 1] = w[i + 1] /\ (Whole(w, i) => Whole(u, i))
  <2>1. ASSUME NEW j \in Places, i <= j, j < i + w[i].len PROVE u[j] = w[j]
    <3>1. j # e BY <1>1, <2>1
    <3> QED BY <1>2, <3>1
  <2> QED BY <1>0, <2>1, EntrySame
<1>7. Whole(w, t)
  <2>1. t + w[t].len - 1 = e - 1 BY <1>0, <1>1
  <2>2. \A j \in (t + 1)..(t + w[t].len - 1) : w[j].value = v BY <2>1
  <2> QED BY <2>2 DEF Whole
<1>8. ASSUME NEW i \in S
      PROVE  /\ i \in D /\ i \in Nat /\ u[i] = w[i] /\ u[i + 1] = w[i + 1]
             /\ Whole(w, i) /\ Whole(u, i) /\ i <= t
  <2>1. i \in D /\ (i # t => Whole(w, i)) BY <1>0 DEF Data, Sound
  <2>2. i <= t
    <3>1. t < i => e <= i BY <1>0, <1>1, <2>1
    <3> QED BY <1>0, <1>1, <2>1, <3>1
  <2> QED BY <1>1, <1>6, <1>7, <2>1, <2>2
<1>9. Sound(u, Data(u, D)) BY <1>5, <1>8 DEF Sound
<1>10. ASSUME \A i \in R : w[i].handle # h PROVE Tidy(u, D, e)
  <2>1. Apart(u, Data(u, D)) BY <1>0, <1>5, <1>8, <1>10 DEF Apart
  <2> QED BY <1>4, <1>9, <2>1 DEF Tidy
<1>11. ASSUME NEW old \in R, w[old].handle = h PROVE Doubled(u, D, e, old)
  <2>1. ASSUME NEW i \in S \ {old}, i # t PROVE w[i].handle # h BY <1>0, <1>11, <2>1 DEF Apart
  <2>2. Apart(u, Data(u, D) \ {old}) BY <1>0, <1>5, <1>8, <2>1 DEF Apart
  <2>3. old < t
    <3>1. old \in S /\ old # t OBVIOUS
    <3> QED BY <1>0, <1>1, <1>8, <3>1
  <2>4. u[t] = w[t] /\ u[old] = w[old]
    <3>1. old \in D BY <1>8
    <3> QED BY <1>0, <1>3, <3>1
  <2>5. t \in D /\ old < t /\ u[t].handle = u[old].handle /\ t + u[t].len = e BY <1>0, <1>11, <2>3, <2>4
  <2> QED BY <1>4, <1>5, <1>9, <1>11, <2>2, <2>5 DEF Doubled
<1>12. AreaCounted(u, D, e) = S /\ AreaCounted(w, D, e) = R BY <1>0, <1>2, <1>4, <1>5, CountedFacts
<1>13. InArea(u, h) = v
  <2>1. \A j \in S : u[j].handle = h => j <= t BY <1>8
  <2>2. t \in S /\ u[t].handle = h /\ Whole(u, t) /\ u[t + 1] = w[t + 1] BY <1>5, <1>8
  <2>3. t + 1 \in (t + 1)..(e - 1) BY <1>0, <1>1
  <2>4. u[t + 1].value = v BY <2>2, <2>3
  <2> HIDE DEF S
  <2>5. InArea(u, h) = u[t + 1].value BY <1>4, <1>12, <2>1, <2>2, AreaIs
  <2> QED BY <2>4, <2>5
<1>14. ASSUME NEW g \in Handles \ {h} PROVE InArea(u, g) = InArea(w, g)
  <2>1. \A i \in R : i \in S /\ i <= i
    <3>1. \A i \in R : i \in S /\ i \in Nat BY <1>8
    <3> QED BY <3>1
  <2>2. \A k \in S : k # t => k \in R OBVIOUS
  <2>3. u[t].handle = h BY <1>3, <1>0
  <2> HIDE DEF S, R
  <2>4. Same(w, R, u, S, g) BY <1>8, <2>1, <2>2, <2>3 DEF Same
  <2> QED BY <1>0, <1>4, <1>12, <2>4, AreaSame
<1> QED BY <1>3, <1>4, <1>2, <1>5, <1>10, <1>11, <1>13, <1>14


\* A header is invalidated: its entry is none with data any more.
LEMMA Invalidated ==
  ASSUME NEW w, NEW D, NEW e, Chain(w, D, e), NEW i \in D,
         NEW u, Update(w, i, [w[i] EXCEPT !.handle = "invalid"], u)
  PROVE  /\ Chain(u, D, e) /\ u[e] = w[e] /\ Data(u, D) = Data(w, D) \ {i}
         /\ u[i].handle = "invalid" /\ u[i].len = w[i].len
         /\ \A j \in D \ {i} : /\ j \in Nat /\ u[j] = w[j] /\ u[j + 1] = w[j + 1]
                               /\ (Whole(w, j) => Whole(u, j))
<1>1. /\ w \in [Places -> Words] /\ SIZE \in Nat /\ e \in Nat /\ e < SIZE /\ e \in Places
      /\ \A j \in D : /\ j \in Nat /\ w[j].len \in Nat /\ w[j].len >= 2 /\ j \in Places
                      /\ j + w[j].len <= e /\ j < e
                      /\ w[j].handle \in Handles \cup {"invalid"}
      /\ \A j, k \in D : j < k => j + w[j].len <= k
      /\ \A j \in Places : j > e => w[j] = Blank
      /\ \A j \in Places : j \in Nat /\ j < SIZE
  BY ChainBounds
<1> DEFINE x == [w[i] EXCEPT !.handle = "invalid"]
<1>2. w[i] \in Words /\ w[i].len < SIZE BY <1>1
<1>3. x \in Words /\ x.handle = "invalid" /\ x.len = w[i].len
  <2>1. x.handle = "invalid" /\ x.len = w[i].len BY <1>2 DEF Words
  <2>2. x \in Words BY <1>2, WordFacts
  <2> QED BY <2>1, <2>2
<1>4. Update(w, i, x, u) OBVIOUS
<1> HIDE DEF x
<1>5. u \in [Places -> Words] /\ u[i] = x /\ \A j \in Places : j # i => u[j] = w[j]
  BY <1>1, <1>3, <1>4 DEF Update
<1>6. u[e] = w[e] /\ w[e] \in {Blank, SealHeader} BY <1>1, <1>5 DEF Chain
<1>7. \A j \in D : u[j].handle \in Handles \cup {"invalid"} /\ u[j].len = w[j].len BY <1>1, <1>3, <1>5
<1>8. Chain(u, D, e)
  <2>1. \A j \in Places : j > e => u[j] = Blank BY <1>1, <1>5
  <2> QED BY <1>5, <1>6, <1>7, <2>1, ChainLike
<1>9. Data(u, D) = Data(w, D) \ {i}
  <2>1. u[i].handle \notin Handles BY <1>3, <1>5, HandleFacts
  <2>2. \A j \in D \ {i} : u[j] = w[j] BY <1>1, <1>5
  <2> QED BY <2>1, <2>2 DEF Data
<1>10. ASSUME NEW j \in D \ {i}
       PROVE  j \in Nat /\ u[j] = w[j] /\ u[j + 1] = w[j + 1] /\ (Whole(w, j) => Whole(u, j))
  <2>1. ASSUME NEW k \in Places, j <= k, k < j + w[j].len PROVE u[k] = w[k]
    <3>1. j < i => j + w[j].len <= i BY <1>1
    <3>2. k # i BY <1>1, <2>1, <3>1
    <3> QED BY <1>5, <3>2
  <2> QED BY <1>1, <2>1, EntrySame
<1> QED BY <1>3, <1>5, <1>6, <1>8, <1>9, <1>10

\* The entry that was replaced is invalidated.
LEMMA ReplacedInvalidated ==
  ASSUME NEW w, NEW D, NEW e, NEW i, Doubled(w, D, e, i), w[e] = SealHeader,
         NEW u, Update(w, i, [w[i] EXCEPT !.handle = "invalid"], u)
  PROVE  /\ Tidy(u, D, e) /\ u[e] = SealHeader
         /\ \A h \in Handles : HasKept(w, Data(w, D), h) => HasKept(u, Data(u, D), h)
         /\ \A g \in Handles : InArea(u, g) = InArea(w, g)
<1> DEFINE S == Data(w, D)
           R == Data(w, D) \ {i}
<1>0. Chain(w, D, e) /\ i \in S /\ Sound(w, S) /\ Apart(w, R) BY DEF Doubled
<1>1. PICK j \in D : i < j /\ w[j].handle = w[i].handle BY DEF Doubled
<1>2. /\ i \in D /\ i \in Nat /\ j \in Nat /\ w[i].handle \in Handles /\ j \in R
  <2>1. i \in D /\ w[i].handle \in Handles BY <1>0 DEF Data
  <2>2. i \in Nat /\ j \in Nat BY <1>0, <2>1, ChainBounds
  <2>3. j \in S /\ j # i BY <1>1, <2>1, <2>2 DEF Data
  <2> QED BY <2>1, <2>2, <2>3
<1>3. /\ Chain(u, D, e) /\ u[e] = w[e] /\ Data(u, D) = R
      /\ u[i].handle = "invalid" /\ u[i].len = w[i].len
      /\ \A k \in D \ {i} : k \in Nat /\ u[k] = w[k] /\ u[k + 1] = w[k + 1] /\ (Whole(w, k) => Whole(u, k))
  BY <1>0, <1>2, Invalidated
<1>4. \A k \in S : Whole(w, k) /\ k \in D BY <1>0 DEF Sound, Data
<1>5. \A k \in R : k \in S /\ k \in Nat /\ u[k] = w[k] /\ u[k + 1] = w[k + 1] /\ Whole(w, k) /\ Whole(u, k)
  BY <1>3, <1>4
<1>6. Tidy(u, D, e) BY <1>0, <1>3, <1>5 DEF Tidy, Sound, Apart
<1>7. \A k \in S : k \in R \/ (k = i /\ k <= j) BY <1>1, <1>2
<1>8. ASSUME NEW h \in Handles, HasKept(w, S, h) PROVE HasKept(u, Data(u, D), h)
  <2>1. PICK k \in S : w[k].handle = h BY <1>8 DEF HasKept
  <2>2. \E l \in R : w[l].handle = h BY <1>1, <1>2, <1>7, <2>1
  <2> HIDE DEF R
  <2> QED BY <1>3, <1>5, <2>2 DEF HasKept
<1>9. ASSUME NEW g \in Handles PROVE InArea(u, g) = InArea(w, g)
  <2>1. AreaCounted(w, D, e) = S /\ AreaCounted(u, D, e) = R BY <1>0, <1>3, CountedFacts
  <2>2. \A k \in S : Whole(w, k) BY <1>4
  <2>3. ASSUME NEW k \in S, w[k].handle = g PROVE \E l \in R : u[l].handle = g /\ k <= l
    <3>1. CASE k \in R
      <4>1. k <= k BY <1>5, <3>1
      <4> QED BY <1>5, <2>3, <3>1, <4>1
    <3>2. CASE k = i /\ k <= j BY <1>1, <1>2, <1>5, <2>3, <3>2
    <3> QED BY <1>7, <3>1, <3>2
  <2> HIDE DEF R, S
  <2>4. Same(w, S, u, R, g) BY <1>5, <2>2, <2>3 DEF Same
  <2> QED BY <1>0, <1>3, <2>1, <2>4, AreaSame
<1> QED BY <1>3, <1>6, <1>8, <1>9

\* The only entry of a handle is invalidated.
LEMMA OnlyInvalidated ==
  ASSUME NEW w, NEW D, NEW e, Tidy(w, D, e), w[e] = SealHeader, NEW i \in Data(w, D),
         NEW u, Update(w, i, [w[i] EXCEPT !.handle = "invalid"], u)
  PROVE  /\ Tidy(u, D, e) /\ u[e] = SealHeader
         /\ \A h \in Handles \ {w[i].handle} :
              HasKept(w, Data(w, D), h) => HasKept(u, Data(u, D), h)
         /\ InArea(u, w[i].handle) = NONE
         /\ \A g \in Handles \ {w[i].handle} : InArea(u, g) = InArea(w, g)
<1> DEFINE S == Data(w, D)
           R == Data(w, D) \ {i}
<1>0. Chain(w, D, e) /\ i \in D /\ Sound(w, S) /\ Apart(w, S) /\ w[i].handle \in Handles BY DEF Tidy, Data
<1>3. /\ Chain(u, D, e) /\ u[e] = w[e] /\ Data(u, D) = R
      /\ u[i].handle = "invalid" /\ u[i].len = w[i].len
      /\ \A k \in D \ {i} : k \in Nat /\ u[k] = w[k] /\ u[k + 1] = w[k + 1] /\ (Whole(w, k) => Whole(u, k))
  BY <1>0, Invalidated
<1>4. \A k \in S : Whole(w, k) /\ k \in D BY <1>0 DEF Sound, Data
<1>5. \A k \in R : /\ k \in S /\ k \in Nat /\ u[k] = w[k] /\ u[k + 1] = w[k + 1]
                   /\ Whole(w, k) /\ Whole(u, k) /\ k <= k
  <2>1. \A k \in R : k \in Nat BY <1>3, <1>4
  <2> QED BY <1>3, <1>4, <2>1
<1>6. Tidy(u, D, e) BY <1>0, <1>3, <1>5 DEF Tidy, Sound, Apart
<1>7. \A k \in S : w[k].handle # w[i].handle => k \in R OBVIOUS
<1>8. \A k \in R : w[k].handle # w[i].handle BY <1>0 DEF Apart
<1>9. AreaCounted(w, D, e) = S /\ AreaCounted(u, D, e) = R BY <1>0, <1>3, CountedFacts
<1>10. ASSUME NEW h \in Handles \ {w[i].handle}, HasKept(w, S, h) PROVE HasKept(u, Data(u, D), h)
  <2>1. PICK k \in S : w[k].handle = h BY <1>10 DEF HasKept
  <2>2. k \in R BY <2>1
  <2> HIDE DEF R
  <2> QED BY <1>3, <1>5, <2>1, <2>2 DEF HasKept
<1>11. InArea(u, w[i].handle) = NONE
  <2> HIDE DEF R
  <2>1. \A k \in R : u[k].handle # w[i].handle BY <1>5, <1>8
  <2> QED BY <1>0, <1>3, <1>9, <2>1, AreaIs
<1>12. ASSUME NEW g \in Handles \ {w[i].handle} PROVE InArea(u, g) = InArea(w, g)
  <2>1. g # w[i].handle OBVIOUS
  <2> HIDE DEF R, S
  <2>2. Same(w, S, u, R, g) BY <1>4, <1>5, <1>7, <2>1 DEF Same
  <2> QED BY <1>0, <1>3, <1>9, <2>2, AreaSame
<1> QED BY <1>3, <1>6, <1>10, <1>11, <1>12


\* A torn entry is invalidated.
LEMMA TornInvalidated ==
  ASSUME NEW w, NEW D, NEW e, NEW t, Torn(w, D, e, t),
         NEW u, Crossed(w, t, u)
  PROVE  /\ Torn(u, D, e, t) /\ u[t].handle = "invalid"
         /\ \A h : KeptBut(w, D, t, h) => KeptBut(u, D, t, h)
         /\ \A g \in Handles : InArea(u, g) = InArea(w, g)
<1> USE DEF Crossed, KeptBut
<1> DEFINE R == Data(w, D) \ {t}
<1>0. Chain(w, D, e) /\ t \in D /\ t + w[t].len = e /\ w[e] = Blank /\ Sound(w, R) /\ Apart(w, R) BY DEF Torn
<1>1. /\ Chain(u, D, e) /\ u[e] = w[e] /\ Data(u, D) = R
      /\ u[t].handle = "invalid" /\ u[t].len = w[t].len
      /\ \A k \in D \ {t} : k \in Nat /\ u[k] = w[k] /\ u[k + 1] = w[k + 1] /\ (Whole(w, k) => Whole(u, k))
  BY <1>0, Invalidated
<1>2. Data(u, D) \ {t} = R BY <1>1
<1>3. \A k \in R : k \in Nat /\ u[k] = w[k] /\ u[k + 1] = w[k + 1] /\ Whole(w, k) /\ Whole(u, k)
  <2>1. \A k \in R : k \in D \ {t} /\ Whole(w, k) BY <1>0 DEF Sound, Data
  <2> QED BY <1>1, <2>1
<1> HIDE DEF R
<1>4. t + u[t].len = e BY <1>0, <1>1
<1>5. Torn(u, D, e, t)
  <2>1. Sound(u, Data(u, D) \ {t}) /\ Apart(u, Data(u, D) \ {t}) BY <1>0, <1>2, <1>3 DEF Sound, Apart
  <2> QED BY <1>0, <1>1, <1>4, <2>1 DEF Torn
<1>6. \A h : HasKept(w, R, h) => HasKept(u, Data(u, D) \ {t}, h) BY <1>2, <1>3 DEF HasKept
<1>7. ASSUME NEW g \in Handles PROVE InArea(u, g) = InArea(w, g)
  <2>1. AreaCounted(w, D, e) = R BY <1>0, CountedFacts DEF R
  <2>2. AreaCounted(u, D, e) = R BY <1>0, <1>1, <1>2, <1>4, CountedFacts
  <2>3. Same(w, R, u, R, g) BY <1>3, SameSame
  <2> QED BY <1>0, <1>1, <2>1, <2>2, <2>3, AreaSame
<1> QED BY <1>1, <1>5, <1>6, <1>7 DEF R

\* The seal is written behind an invalid entry.
LEMMA SealRestored ==
  ASSUME NEW w, NEW D, NEW e, NEW t, Torn(w, D, e, t), w[t].handle = "invalid",
         NEW u, Update(w, e, SealHeader, u)
  PROVE  /\ Tidy(u, D, e) /\ u[e] = SealHeader
         /\ \A h : KeptBut(w, D, t, h) => HasKept(u, Data(u, D), h)
         /\ \A g \in Handles : InArea(u, g) = InArea(w, g)
<1> USE DEF KeptBut
<1> DEFINE R == Data(w, D)
<1>0. /\ Chain(w, D, e) /\ t \in D /\ t + w[t].len = e /\ w[e] = Blank
      /\ Data(w, D) \ {t} = R /\ Sound(w, R) /\ Apart(w, R)
  <2>1. t \notin Data(w, D) BY HandleFacts DEF Data
  <2> QED BY <2>1 DEF Torn
<1>1. /\ w \in [Places -> Words] /\ SIZE \in Nat /\ e \in Nat /\ e < SIZE /\ e \in Places
      /\ \A i \in D : /\ i \in Nat /\ w[i].len \in Nat /\ w[i].len >= 2 /\ i \in Places
                      /\ i + w[i].len <= e /\ i < e
                      /\ w[i].handle \in Handles \cup {"invalid"}
      /\ \A j \in Places : j > e => w[j] = Blank
      /\ \A j \in Places : j \in Nat /\ j < SIZE
  BY <1>0, ChainBounds
<1>2. u \in [Places -> Words] /\ u[e] = SealHeader /\ \A j \in Places : j # e => u[j] = w[j]
  <2>1. SealHeader \in Words BY WordFacts
  <2> QED BY <1>1, <2>1 DEF Update
<1>3. \A i \in D : u[i] = w[i]
  <2>1. \A i \in D : i # e BY <1>1
  <2> QED BY <1>1, <1>2, <2>1
<1>4. Chain(u, D, e)
  <2>1. \A j \in Places : j > e => u[j] = Blank BY <1>1, <1>2
  <2> QED BY <1>0, <1>1, <1>2, <1>3, <2>1, ChainLike
<1>5. Data(u, D) = R BY <1>3 DEF Data
<1>6. ASSUME NEW i \in R
      PROVE  i \in Nat /\ u[i] = w[i] /\ u[i + 1] = w[i + 1] /\ Whole(w, i) /\ Whole(u, i)
  <2>1. i \in D /\ Whole(w, i) BY <1>0 DEF Data, Sound
  <2>2. ASSUME NEW j \in Places, i <= j, j < i + w[i].len PROVE u[j] = w[j]
    <3>1. j # e BY <1>1, <2>1, <2>2
    <3> QED BY <1>2, <3>1
  <2> QED BY <1>0, <1>1, <2>1, <2>2, EntrySame
<1> HIDE DEF R
<1>7. Tidy(u, D, e) BY <1>0, <1>4, <1>5, <1>6 DEF Tidy, Sound, Apart
<1>8. \A h : HasKept(w, R, h) => HasKept(u, Data(u, D), h) BY <1>5, <1>6 DEF HasKept
<1>9. ASSUME NEW g \in Handles PROVE InArea(u, g) = InArea(w, g)
  <2>1. AreaCounted(w, D, e) = R BY <1>0, CountedFacts
  <2>2. AreaCounted(u, D, e) = R BY <1>2, <1>4, <1>5, CountedFacts
  <2>3. Same(w, R, u, R, g) BY <1>6, SameSame
  <2> QED BY <1>0, <1>4, <2>1, <2>2, <2>3, AreaSame
<1> QED BY <1>0, <1>2, <1>7, <1>8, <1>9

\* Something is stored of the handles that have an entry that counts, and of no others.
LEMMA KeptInArea ==
  ASSUME NEW w, NEW D, NEW e, Chain(w, D, e), Sound(w, AreaCounted(w, D, e)), NEW h \in Handles
  PROVE  HasKept(w, AreaCounted(w, D, e), h) <=> InArea(w, h) # NONE
<1> DEFINE b == FALSE
<1>1. AreaCounted(w, D, e) = Counted(w, D, e, b) /\ InArea(w, h) = StoredIn(w, h, b) /\ b \in BOOLEAN
  BY DEF AreaCounted, InArea
<1> HIDE DEF b
<1>2. Has(w, D, e, b, h) = {} <=> ~HasKept(w, Counted(w, D, e, b), h) BY DEF Has, HasKept
<1>3. Has(w, D, e, b, h) = {} => StoredIn(w, h, b) = NONE BY <1>1, StoredIs
<1>4. ASSUME Has(w, D, e, b, h) # {} PROVE StoredIn(w, h, b) # NONE
  <2>1. PICK m \in Has(w, D, e, b, h) : \A j \in Has(w, D, e, b, h) : j <= m BY <1>1, <1>4, StoredIs
  <2>2. Whole(w, m) BY <1>1 DEF Has, Sound
  <2>3. StoredIn(w, h, b) \in VALUES BY <1>1, <2>1, <2>2, StoredIs
  <2> QED BY <2>3, HandleFacts DEF NONE
<1> QED BY <1>1, <1>2, <1>3, <1>4

\* The same of a backup
LEMMA KeptInBackup ==
  ASSUME NEW w, NEW D, NEW e, Chain(w, D, e), Sound(w, Data(w, D)), NEW h \in Handles
  PROVE  HasKept(w, Data(w, D), h) <=> InBackup(w, h) # NONE
<1> DEFINE b == TRUE
<1>1. Data(w, D) = Counted(w, D, e, b) /\ InBackup(w, h) = StoredIn(w, h, b) /\ b \in BOOLEAN
  BY DEF Counted, InBackup
<1> HIDE DEF b
<1>2. Has(w, D, e, b, h) = {} <=> ~HasKept(w, Counted(w, D, e, b), h) BY DEF Has, HasKept
<1>3. Has(w, D, e, b, h) = {} => StoredIn(w, h, b) = NONE BY <1>1, StoredIs
<1>4. ASSUME Has(w, D, e, b, h) # {} PROVE StoredIn(w, h, b) # NONE
  <2>1. PICK m \in Has(w, D, e, b, h) : \A j \in Has(w, D, e, b, h) : j <= m BY <1>1, <1>4, StoredIs
  <2>2. Whole(w, m) BY <1>1 DEF Has, Sound
  <2>3. StoredIn(w, h, b) \in VALUES BY <1>1, <2>1, <2>2, StoredIs
  <2> QED BY <2>3, HandleFacts DEF NONE
<1> QED BY <1>1, <1>2, <1>3, <1>4

\* The last entry ends where the area does.
LEMMA LastEnds ==
  ASSUME NEW w, NEW D, NEW e, Chain(w, D, e), NEW t \in D
  PROVE  t + w[t].len = e <=> t = Max(D)
<1>1. /\ e \in Nat
      /\ \A i \in D : /\ i \in Nat /\ w[i].len \in Nat /\ w[i].len >= 2 /\ i \in Places
                      /\ i + w[i].len <= e /\ i < e /\ i + w[i].len \in D \cup {e}
      /\ \A i, j \in D : i < j => i + w[i].len <= j
  BY ChainBounds
<1>2. Max(D) \in D /\ \A y \in D : y <= Max(D)
  <2>1. D \in SUBSET (0..SIZE) /\ D # {} BY ChainNext
  <2> QED BY <2>1, MaxMin
<1> DEFINE m == Max(D)
<1> HIDE DEF m
<1>3. m \in D /\ \A y \in D : y <= m BY <1>2 DEF m
<1>4. m + w[m].len = e
  <2>1. m + w[m].len \notin D BY <1>1, <1>3
  <2> QED BY <1>1, <1>3, <2>1
<1>5. ASSUME t + w[t].len = e PROVE t = m
  <2>1. t < m => e <= m BY <1>1, <1>3, <1>5
  <2> QED BY <1>1, <1>3, <2>1
<1> QED BY <1>4, <1>5 DEF m


-----------------------------------------------------------------------------
(* Boot *)

BootInvalidate(h) == Action("invalidate", h, NONE, "boot")

\* The flash manager has no field but those it is given at boot.
Shape(r) ==
  r \in [mode : {r.mode}, state : {r.state}, seal : {r.seal}, invalid : {r.invalid},
         queue : {r.queue}, phase : {r.phase}, ops : {r.ops}, defrag : {r.defrag},
         found_all : {r.found_all}, owner : {r.owner}]

\* Nothing is under way.
Rested(r, seal, queue) ==
  /\ Shape(r) /\ r.mode = "ready" /\ r.state = "ready" /\ r.seal = seal /\ r.queue = queue
  /\ r.phase = "idle" /\ r.ops = <<>> /\ r.defrag = "none"

\* The handle of the last entry before the seal has no other one, unless it replaced it.
LEMMA NoDuplicates ==
  ASSUME NEW w, NEW D, NEW e, Chain(w, D, e)
  PROVE  /\ Tidy(w, D, e) => Duplicates(w, e) = {}
         /\ \A i : Doubled(w, D, e, i) => Duplicates(w, e) = {i}
         /\ \A t : Torn(w, D, e, t) => Duplicates(w, t) = {}
<1>1. /\ e \in Nat
      /\ \A i \in D : /\ i \in Nat /\ w[i].len \in Nat /\ w[i].len >= 2 /\ i \in 0..SIZE /\ i < e
                      /\ i + w[i].len <= e
  <2>1. \A i \in D : i \in 0..SIZE BY ChainNext
  <2> QED BY <2>1, ChainBounds
<1>2. Entries(w) = D /\ \A h : EntriesOf(w, h) = {i \in D : w[i].handle = h} BY ChainWalk DEF EntriesOf
<1>3. ASSUME NEW S, NEW b \in Nat, S = {i \in D : i < b}, Apart(w, Data(w, S)) PROVE Duplicates(w, b) = {}
  <2>1. CASE S = {}
    <3> QED BY <1>2, <1>3, <2>1 DEF Duplicates
  <2>2. CASE S # {}
    <3>1. S \in SUBSET (0..SIZE) BY <1>1, <1>3
    <3>2. Max(S) \in S /\ \A y \in S : y <= Max(S) BY <2>2, <3>1, MaxMin
    <3> DEFINE m == Max(S)
    <3>3. Duplicates(w, b) = IF w[m].handle \notin Handles THEN {}
                             ELSE {i \in EntriesOf(w, w[m].handle) : i < m}
      BY <1>2, <1>3, <2>2 DEF Duplicates
    <3> HIDE DEF m
    <3>4. m \in S BY <3>2 DEF m
    <3>5. ASSUME w[m].handle \in Handles PROVE {i \in EntriesOf(w, w[m].handle) : i < m} = {}
      <4>1. ASSUME NEW i \in D, w[i].handle = w[m].handle, i < m PROVE FALSE
        <5>1. m \in D /\ m < b /\ m \in 0..SIZE BY <1>1, <1>3, <3>4
        <5>2. i \in S
          <6>1. i < b BY <1>1, <4>1, <5>1
          <6> QED BY <1>3, <6>1
        <5>3. i \in Data(w, S) /\ m \in Data(w, S) BY <3>4, <3>5, <4>1, <5>2 DEF Data
        <5>4. i = m BY <1>3, <4>1, <5>3 DEF Apart
        <5> QED BY <1>1, <4>1, <5>1, <5>4
      <4> QED BY <1>2, <4>1
    <3> QED BY <3>3, <3>5
  <2> QED BY <2>1, <2>2
<1>4. {i \in D : i < e} = D BY <1>1
<1>5. Tidy(w, D, e) => Duplicates(w, e) = {}
  <2> QED BY <1>1, <1>3, <1>4 DEF Tidy
<1>6. ASSUME NEW t, Torn(w, D, e, t) PROVE Duplicates(w, t) = {}
  <2>1. t \in D /\ t = Max(D) BY <1>6, LastEnds DEF Torn
  <2>2. \A y \in D : y <= t
    <3>1. D \in SUBSET (0..SIZE) /\ D # {} BY <1>1, <2>1
    <3> QED BY <2>1, <3>1, MaxMin
  <2>3. D \ {t} = {i \in D : i < t} BY <1>1, <2>1, <2>2
  <2>4. Data(w, D \ {t}) = Data(w, D) \ {t} BY DEF Data
  <2> QED BY <1>1, <1>3, <1>6, <2>1, <2>3, <2>4 DEF Torn
<1>7. ASSUME NEW i, Doubled(w, D, e, i) PROVE Duplicates(w, e) = {i}
  <2>1. PICK j \in D : i < j /\ w[j].handle = w[i].handle /\ j + w[j].len = e BY <1>7 DEF Doubled
  <2>2. j = Max(D) BY <2>1, LastEnds
  <2>3. i \in D /\ w[i].handle \in Handles /\ i \in Nat /\ j \in Nat BY <1>1, <1>7, <2>1 DEF Doubled, Data
  <2>4. Duplicates(w, e) = {k \in EntriesOf(w, w[j].handle) : k < j}
    BY <1>2, <1>4, <2>1, <2>2, <2>3 DEF Duplicates
  <2>5. i \in EntriesOf(w, w[j].handle) /\ i < j BY <1>2, <2>1, <2>3
  <2>6. ASSUME NEW k \in D, w[k].handle = w[j].handle, k < j PROVE k = i
    <3>1. k \in Data(w, D) /\ j \in Data(w, D) BY <2>1, <2>3, <2>6 DEF Data
    <3>2. k # j /\ j # i BY <1>1, <2>1, <2>3, <2>6
    <3>3. Apart(w, Data(w, D) \ {i}) BY <1>7 DEF Doubled
    <3> QED BY <2>6, <3>1, <3>2, <3>3 DEF Apart
  <2> QED BY <1>2, <2>4, <2>5, <2>6
<1> QED BY <1>5, <1>6, <1>7


\* What boot makes of an area that is not empty
LEMMA BootArea ==
  ASSUME NEW w, NEW D, NEW e, Chain(w, D, e), D # {}, NEW meta \in BOOLEAN, meta,
         NEW rec, rec.ptr # "set", NEW r, r = Added(w, meta, Initialized(rec))
  PROVE  /\ Tidy(w, D, e) /\ w[e] = SealHeader => Rested(r, e, <<>>)
         /\ \A i : Doubled(w, D, e, i) /\ w[e] = SealHeader
                     => Rested(r, e, <<BootInvalidate(w[i].handle)>>)
         /\ \A t : Torn(w, D, e, t) => Rested(r, t, <<RecoverSeal>>)
<1>1. Entries(w) = D /\ WalkEnd(w) = e /\ (Sealed(w) <=> w[e] = SealHeader) BY ChainWalk
<1>2. e # SIZE
  <2>1. e \in Nat /\ e < SIZE BY ChainBounds
  <2> QED BY <2>1
<1> DEFINE s == LastEntry(w)
           d == Duplicates(w, s)
           repair == IF Sealed(w) THEN <<>> ELSE <<RecoverSeal>>
           invalidate == IF d = {} THEN <<>> ELSE <<Action("invalidate", w[Min(d)].handle, NONE, "boot")>>
           r0 == Initialized(rec)
           n == InvalidWords(w)
<1>3. r = [r0 EXCEPT !.state = "ready", !.invalid = n, !.seal = s, !.queue = repair \o invalidate]
  <2>1. ~(Entries(w) = {} /\ ~Sealed(w)) BY <1>1
  <2> QED BY <1>1, <1>2, <2>1 DEF Added
<1>4. /\ r0 = [mode |-> "ready", state |-> "building", seal |-> 0, invalid |-> 0, queue |-> <<>>,
               phase |-> "idle", ops |-> <<>>, defrag |-> "none", found_all |-> FALSE, owner |-> FALSE]
  BY DEF Initialized
<1> HIDE DEF n, r0
<1>5. ASSUME NEW seal, NEW queue, s = seal, repair \o invalidate = queue
      PROVE  Rested(r, seal, queue)
  <2>1. r = [r0 EXCEPT !.state = "ready", !.invalid = n, !.seal = seal, !.queue = queue] BY <1>3, <1>5
  <2> QED BY <1>4, <2>1 DEF Rested, Shape
<1>6. w[e] = SealHeader => s = e BY <1>1 DEF LastEntry
<1>7. ASSUME Tidy(w, D, e), w[e] = SealHeader PROVE Rested(r, e, <<>>)
  <2>1. s = e /\ d = {} BY <1>6, <1>7, NoDuplicates
  <2>2. repair = <<>> /\ invalidate = <<>> BY <1>1, <1>7, <2>1
  <2>3. repair \o invalidate = <<>> BY <2>2
  <2> QED BY <1>5, <2>1, <2>3
<1>8. ASSUME NEW i, Doubled(w, D, e, i), w[e] = SealHeader
      PROVE  Rested(r, e, <<BootInvalidate(w[i].handle)>>)
  <2>1. s = e /\ d = {i} BY <1>6, <1>8, NoDuplicates
  <2>2. Min({i}) = i
    <3>1. i \in 0..SIZE BY <1>8, ChainNext DEF Doubled, Data
    <3>2. {i} \in SUBSET (0..SIZE) /\ {i} # {} BY <3>1
    <3>3. Min({i}) \in {i} BY <3>2, MaxMin
    <3> QED BY <3>3
  <2>3. repair = <<>> /\ invalidate = <<BootInvalidate(w[i].handle)>>
    BY <1>1, <1>8, <2>1, <2>2 DEF BootInvalidate
  <2> DEFINE b == BootInvalidate(w[i].handle)
  <2>4. repair \o invalidate = <<b>>
    <3> HIDE DEF b
    <3>1. <<>> \o <<b>> = <<b>>
      <4>1. <<b>> \in Seq({b}) OBVIOUS
      <4> QED BY <4>1
    <3> HIDE DEF repair, invalidate
    <3> QED BY <2>3, <3>1 DEF b
  <2> QED BY <1>5, <2>1, <2>4
<1>9. ASSUME NEW t, Torn(w, D, e, t) PROVE Rested(r, t, <<RecoverSeal>>)
  <2>1. ~Sealed(w) BY <1>1, <1>9, WordFacts DEF Torn
  <2>2. s = t
    <3>1. t = Max(D) BY <1>9, LastEnds DEF Torn
    <3> QED BY <1>1, <2>1, <3>1 DEF LastEntry
  <2>3. d = {} BY <1>9, <2>2, NoDuplicates
  <2>4. repair = <<RecoverSeal>> /\ invalidate = <<>> BY <2>1, <2>3
  <2>5. repair \o invalidate = <<RecoverSeal>>
    <3> DEFINE b == RecoverSeal
    <3> HIDE DEF b
    <3>1. <<b>> \o <<>> = <<b>>
      <4>1. <<b>> \in Seq({b}) OBVIOUS
      <4> QED BY <4>1
    <3> HIDE DEF repair, invalidate
    <3> QED BY <2>4, <3>1 DEF b
  <2> QED BY <1>5, <2>2, <2>5
<1> QED BY <1>7, <1>8, <1>9


-----------------------------------------------------------------------------
(* Compaction *)

\* What is true at the beginning, and after each number when it is true of it, is
\* true up to the end.
LEMMA UpTo ==
  ASSUME NEW n \in Nat, NEW T, 0 \in T, \A k \in 0..(n - 1) : k \in T => k + 1 \in T
  PROVE  \A k \in 0..n : k \in T
<1> DEFINE U == {k \in 0..n : k \notin T}
<1>1. ASSUME U # {} PROVE FALSE
  <2>1. PICK k \in U : \A j \in U : k <= j
    <3>1. U \in SUBSET Nat OBVIOUS
    <3> HIDE DEF U
    <3> QED BY <1>1, <3>1, LeastNumber
  <2>2. k \in 0..n /\ k \notin T /\ k # 0 BY <2>1
  <2>3. k - 1 \in 0..(n - 1) /\ k - 1 \in 0..n /\ (k - 1) + 1 = k /\ ~(k <= k - 1) BY <2>2
  <2>4. k - 1 \notin U BY <2>1, <2>3
  <2>5. k - 1 \in T BY <2>3, <2>4
  <2> QED BY <2>2, <2>3, <2>5
<1> QED BY <1>1

\* The words of the entries with data
Live(w, D) == UNION {i..(i + w[i].len - 1) : i \in Data(w, D)}

\* The function that LiveWords chooses is there.
LEMMA LiveAlong ==
  ASSUME NEW w, NEW D, NEW e, Chain(w, D, e)
  PROVE  \E c \in [0..SIZE -> Seq(Words)] :
           /\ c[0] = <<>> /\ LiveWords(w) = c[SIZE]
           /\ \A n \in 1..SIZE : c[n] = IF n - 1 \in Live(w, D) THEN Append(c[n - 1], w[n - 1])
                                        ELSE c[n - 1]
<1> DEFINE L == Live(w, D)
           V == Seq(Words)
           onward == [k \in 0..SIZE |-> IF k = SIZE THEN k ELSE k + 1]
           stop == [k \in 0..SIZE |-> <<>>]
           step == [q \in (0..SIZE) \X V |->
                      IF SIZE - q[1] - 1 \in L /\ q[1] # SIZE THEN Append(q[2], w[SIZE - q[1] - 1]) ELSE q[2]]
           Is(f) == f = [n \in 0..SIZE |-> IF n = 0 THEN <<>>
                                           ELSE IF n - 1 \in L THEN Append(f[n - 1], w[n - 1])
                                           ELSE f[n - 1]]
<1>0. SIZE \in Nat /\ w \in [Places -> Words] BY ChainBounds
<1> HIDE DEF L
<1>1. onward \in [0..SIZE -> 0..SIZE] /\ \A i \in 0..SIZE : i <= onward[i] BY <1>0
<1>2. stop \in [0..SIZE -> V] /\ step \in [(0..SIZE) \X V -> V]
  <2>1. stop \in [0..SIZE -> V] OBVIOUS
  <2>2. ASSUME NEW q \in (0..SIZE) \X V
        PROVE  (IF SIZE - q[1] - 1 \in L /\ q[1] # SIZE THEN Append(q[2], w[SIZE - q[1] - 1]) ELSE q[2]) \in V
    <3>1. q[1] \in 0..SIZE /\ q[2] \in V OBVIOUS
    <3>2. q[1] # SIZE => SIZE - q[1] - 1 \in Places BY <1>0, <3>1 DEF Places
    <3>3. q[1] # SIZE => w[SIZE - q[1] - 1] \in Words BY <1>0, <3>2
    <3> QED BY <3>1, <3>3
  <2> QED BY <2>1, <2>2
<1>3. PICK g \in [0..SIZE -> V] : Along(g, onward, stop, step)
  <2> HIDE DEF stop, step, onward, V
  <2> QED BY <1>1, <1>2, AlongExists
<1> DEFINE u == [n \in 0..SIZE |-> g[SIZE - n]]
<1>4. u \in [0..SIZE -> V]
  <2>1. \A n \in 0..SIZE : SIZE - n \in 0..SIZE BY <1>0
  <2> HIDE DEF V
  <2> QED BY <2>1
<1>5. ASSUME NEW n \in 0..SIZE
      PROVE  u[n] = IF n = 0 THEN <<>> ELSE IF n - 1 \in L THEN Append(u[n - 1], w[n - 1]) ELSE u[n - 1]
  <2> DEFINE k == SIZE - n
  <2>1. k \in 0..SIZE /\ u[n] = g[k] BY <1>0
  <2>2. g[k] = IF onward[k] = k THEN stop[k] ELSE step[<<k, g[onward[k]]>>]
    <3> HIDE DEF k, onward, stop, step
    <3> QED BY <1>3, <2>1 DEF Along
  <2>3. CASE n = 0
    <3>1. onward[k] = k /\ stop[k] = <<>> BY <1>0, <2>1, <2>3
    <3> QED BY <2>1, <2>2, <2>3, <3>1
  <2>4. CASE n # 0
    <3>1. onward[k] = k + 1 /\ k + 1 = SIZE - (n - 1) /\ k + 1 \in 0..SIZE /\ k # SIZE
          /\ SIZE - k - 1 = n - 1 /\ onward[k] # k /\ n - 1 \in 0..SIZE
      BY <1>0, <2>4
    <3>2. u[n - 1] = g[k + 1] BY <3>1
    <3>3. <<k, g[k + 1]>> \in (0..SIZE) \X V
      <4> HIDE DEF k, V
      <4> QED BY <1>3, <2>1, <3>1
    <3>4. step[<<k, g[k + 1]>>] = IF n - 1 \in L THEN Append(g[k + 1], w[n - 1]) ELSE g[k + 1]
      <4> HIDE DEF k, V
      <4> QED BY <3>1, <3>3
    <3> HIDE DEF k, onward, stop, step, u
    <3> QED BY <2>1, <2>2, <2>4, <3>1, <3>2, <3>4
  <2> QED BY <2>3, <2>4
<1>6. Is(u)
  <2>1. u = [n \in 0..SIZE |-> u[n]] OBVIOUS
  <2> HIDE DEF u
  <2> QED BY <1>5, <2>1
<1> DEFINE d == CHOOSE f : Is(f)
<1>7. Is(d)
  <2> HIDE DEF Is, u
  <2> QED BY <1>6
<1>8. LiveWords(w) = d[SIZE]
  <2>1. {i \in Entries(w) : w[i].handle \in Handles} = Data(w, D) BY ChainWalk DEF Data
  <2>2. UNION {i..(i + w[i].len - 1) : i \in Data(w, D)} = L BY DEF L, Live
  <2> QED BY <2>1, <2>2, Zenon DEF LiveWords
<1> HIDE DEF d
<1>9. ASSUME NEW n \in 0..SIZE
      PROVE  d[n] = IF n = 0 THEN <<>> ELSE IF n - 1 \in L THEN Append(d[n - 1], w[n - 1]) ELSE d[n - 1]
  <2> QED BY <1>7
<1>10. d[0] = <<>>
  <2> QED BY <1>0, <1>9
<1>11. \A n \in 1..SIZE : d[n] = IF n - 1 \in L THEN Append(d[n - 1], w[n - 1]) ELSE d[n - 1]
  <2>1. \A n \in 1..SIZE : n \in 0..SIZE /\ n # 0 BY <1>0
  <2> QED BY <1>9, <2>1
<1>12. d \in [0..SIZE -> V]
  <2> DEFINE T == {n \in 0..SIZE : d[n] \in V}
  <2>0. <<>> \in V /\ \A q \in V, x \in Words : Append(q, x) \in V
    <3>1. <<>> \in V OBVIOUS
    <3>2. ASSUME NEW q \in V, NEW x \in Words PROVE Append(q, x) \in V OBVIOUS
    <3> QED BY <3>1, <3>2
  <2> HIDE DEF V
  <2>1. 0 \in T BY <1>0, <1>10, <2>0
  <2>2. ASSUME NEW n \in 0..(SIZE - 1), n \in T PROVE n + 1 \in T
    <3>1. n + 1 \in 1..SIZE /\ n + 1 \in 0..SIZE /\ (n + 1) - 1 = n /\ n \in Places BY <1>0 DEF Places
    <3>2. w[n] \in Words /\ d[n] \in V BY <1>0, <2>2, <3>1
    <3>3. d[n + 1] = IF n \in L THEN Append(d[n], w[n]) ELSE d[n] BY <1>11, <3>1
    <3> QED BY <2>0, <3>1, <3>2, <3>3
  <2>3. \A n \in 0..SIZE : n \in T
    <3> HIDE DEF T
    <3> QED BY <1>0, <2>1, <2>2, UpTo
  <2>4. d = [n \in 0..SIZE |-> d[n]]
    <3> QED BY <1>7
  <2> QED BY <2>3, <2>4
<1> QED BY <1>8, <1>10, <1>11, <1>12 DEF L


\* p counts the words of entries with data before each place: where such a word goes.
Packing(w, D, e, p) ==
  /\ p \in [0..SIZE -> Nat] /\ p[0] = 0 /\ p[e] = Len(LiveWords(w)) /\ p[e] <= e
  /\ \A m, n \in 0..SIZE : m <= n => p[m] <= p[n]
  /\ \A i \in Data(w, D), d \in 0..SIZE : d <= w[i].len => p[i + d] = p[i] + d
  /\ \A i \in D : i \notin Data(w, D) => p[i + w[i].len] = p[i]
  /\ \A n \in Live(w, D) : p[n] + 1 <= p[e] /\ LiveWords(w)[p[n] + 1] = w[n]
  /\ LiveWords(w) \in Seq(Words)

\* Which words are of entries with data
LEMMA LiveFacts ==
  ASSUME NEW w, NEW D, NEW e, Chain(w, D, e)
  PROVE  /\ \A n \in Live(w, D) : n \in Nat /\ n < e
         /\ \A i \in Data(w, D), d \in Nat : d < w[i].len => i + d \in Live(w, D)
         /\ \A i \in D, d \in Nat : i \notin Data(w, D) /\ d < w[i].len => i + d \notin Live(w, D)
<1>1. /\ e \in Nat
      /\ \A i \in D : /\ i \in Nat /\ w[i].len \in Nat /\ w[i].len >= 2
                      /\ i + w[i].len <= e /\ i < e
      /\ \A i, j \in D : i < j => i + w[i].len <= j
  BY ChainBounds
<1>2. Data(w, D) \subseteq D BY DEF Data
<1>3. ASSUME NEW n \in Live(w, D) PROVE n \in Nat /\ n < e
  <2>1. PICK i \in Data(w, D) : n \in i..(i + w[i].len - 1) BY DEF Live
  <2>2. i \in D BY <1>2
  <2> QED BY <1>1, <2>1, <2>2
<1>4. ASSUME NEW i \in Data(w, D), NEW d \in Nat, d < w[i].len PROVE i + d \in Live(w, D)
  <2>1. i \in D BY <1>2
  <2>2. i + d \in i..(i + w[i].len - 1) BY <1>1, <1>4, <2>1
  <2> QED BY <2>2 DEF Live
<1>5. ASSUME NEW i \in D, NEW d \in Nat, i \notin Data(w, D), d < w[i].len, i + d \in Live(w, D) PROVE FALSE
  <2>1. PICK k \in Data(w, D) : i + d \in k..(k + w[k].len - 1) BY <1>5 DEF Live
  <2>2. k \in D /\ k # i BY <1>2, <1>5
  <2>3. i < k => i + w[i].len <= k BY <1>1, <2>2
  <2>4. k < i => k + w[k].len <= i BY <1>1, <2>2
  <2> QED BY <1>1, <1>5, <2>1, <2>2, <2>3, <2>4
<1> QED BY <1>3, <1>4, <1>5

\* There is such a count.
LEMMA PackingExists ==
  ASSUME NEW w, NEW D, NEW e, Chain(w, D, e)
  PROVE  \E p : Packing(w, D, e, p)
<1> DEFINE L == Live(w, D)
<1>1. /\ w \in [Places -> Words] /\ SIZE \in Nat /\ e \in Nat /\ e < SIZE
      /\ \A i \in D : /\ i \in Nat /\ w[i].len \in Nat /\ w[i].len >= 2 /\ i \in Places
                      /\ i + w[i].len <= e /\ i < e
      /\ \A j \in Places : j \in Nat /\ j < SIZE
  BY ChainBounds
<1>2. /\ \A n \in L : n \in Nat /\ n < e
      /\ \A i \in Data(w, D), d \in Nat : d < w[i].len => i + d \in L
      /\ \A i \in D, d \in Nat : i \notin Data(w, D) /\ d < w[i].len => i + d \notin L
  BY LiveFacts
<1>3. PICK c \in [0..SIZE -> Seq(Words)] :
        /\ c[0] = <<>> /\ LiveWords(w) = c[SIZE]
        /\ \A n \in 1..SIZE : c[n] = IF n - 1 \in L THEN Append(c[n - 1], w[n - 1]) ELSE c[n - 1]
  BY LiveAlong
<1> HIDE DEF L
<1> DEFINE p == [n \in 0..SIZE |-> Len(c[n])]
<1>4. p \in [0..SIZE -> Nat] /\ \A n \in 0..SIZE : p[n] = Len(c[n]) /\ c[n] \in Seq(Words) /\ p[n] \in Nat
  OBVIOUS
<1> HIDE DEF p
<1>5. p[0] = 0
  <2>1. 0 \in 0..SIZE BY <1>1
  <2>2. Len(<<>>) = 0 OBVIOUS
  <2> QED BY <1>3, <1>4, <2>1, <2>2
<1>6. ASSUME NEW n \in 0..(SIZE - 1)
      PROVE  /\ n \in L => /\ p[n + 1] = p[n] + 1 /\ c[n + 1][p[n] + 1] = w[n]
                           /\ \A k \in 1..p[n] : c[n + 1][k] = c[n][k]
             /\ n \notin L => p[n + 1] = p[n] /\ c[n + 1] = c[n]
  <2>1. n + 1 \in 1..SIZE /\ n + 1 \in 0..SIZE /\ (n + 1) - 1 = n /\ n \in Places /\ n \in 0..SIZE
    BY <1>1 DEF Places
  <2>2. w[n] \in Words /\ c[n] \in Seq(Words) BY <1>1, <2>1
  <2>3. c[n + 1] = IF n \in L THEN Append(c[n], w[n]) ELSE c[n] BY <1>3, <2>1
  <2>4. p[n] = Len(c[n]) /\ p[n + 1] = Len(c[n + 1]) BY <1>4, <2>1
  <2>5. ASSUME n \in L
        PROVE  /\ p[n + 1] = p[n] + 1 /\ c[n + 1][p[n] + 1] = w[n]
               /\ \A k \in 1..p[n] : c[n + 1][k] = c[n][k]
    <3>1. c[n + 1] = Append(c[n], w[n]) BY <2>3, <2>5
    <3>2. /\ Len(Append(c[n], w[n])) = Len(c[n]) + 1
          /\ \A k \in 1..Len(c[n]) : Append(c[n], w[n])[k] = c[n][k]
          /\ Append(c[n], w[n])[Len(c[n]) + 1] = w[n]
      BY <2>2, AppendProperties
    <3> QED BY <2>4, <3>1, <3>2
  <2> QED BY <2>3, <2>4, <2>5
\* monotone
<1>7. ASSUME NEW m \in 0..SIZE, NEW d \in 0..SIZE, m + d <= SIZE
      PROVE  p[m] <= p[m + d]
  <2> DEFINE T == {k \in 0..d : p[m] <= p[m + k]}
  <2>1. 0 \in T
    <3>1. m + 0 = m /\ p[m] \in Nat BY <1>1, <1>4
    <3>2. p[m] <= p[m + 0] BY <3>1
    <3> QED BY <3>2
  <2>2. ASSUME NEW k \in 0..(d - 1), k \in T PROVE k + 1 \in T
    <3>1. m + k \in 0..(SIZE - 1) /\ m + (k + 1) = (m + k) + 1 /\ k + 1 \in 0..d /\ m + k \in 0..SIZE
          /\ m + k + 1 \in 0..SIZE
      BY <1>1, <1>7
    <3>2. p[(m + k) + 1] \in {p[m + k], p[m + k] + 1} BY <1>6, <3>1
    <3>3. p[m] \in Nat /\ p[m + k] \in Nat /\ p[m] <= p[m + k] BY <1>4, <2>2, <3>1
    <3>4. p[m] <= p[(m + k) + 1] BY <3>2, <3>3
    <3> QED BY <3>1, <3>4
  <2>3. \A k \in 0..d : k \in T
    <3> HIDE DEF T
    <3>1. d \in Nat BY <1>1
    <3> QED BY <2>1, <2>2, <3>1, UpTo
  <2> QED BY <2>3
<1>8. \A m, n \in 0..SIZE : m <= n => p[m] <= p[n]
  <2>1. ASSUME NEW m \in 0..SIZE, NEW n \in 0..SIZE, m <= n PROVE p[m] <= p[n]
    <3>1. n - m \in 0..SIZE /\ m + (n - m) = n /\ n <= SIZE BY <1>1, <2>1
    <3> QED BY <1>7, <3>1
  <2> QED BY <2>1
<1>9. ASSUME NEW i \in Data(w, D), NEW d \in 0..SIZE, d <= w[i].len PROVE p[i + d] = p[i] + d
  <2> DEFINE l == w[i].len
             T == {k \in 0..d : p[i + k] = p[i] + k}
  <2>0. i \in D /\ l \in Nat /\ i \in Nat /\ i + l < SIZE /\ d \in Nat /\ d <= l
    <3>1. i \in D BY DEF Data
    <3> QED BY <1>1, <1>9, <3>1
  <2>1. 0 \in T
    <3>1. i \in Nat /\ i \in 0..SIZE BY <1>1, <2>0
    <3>2. i + 0 = i /\ p[i] \in Nat BY <1>4, <3>1
    <3>3. p[i + 0] = p[i] + 0 BY <3>2
    <3> QED BY <3>3
  <2>2. ASSUME NEW k \in 0..(d - 1), k \in T PROVE k + 1 \in T
    <3>0. k < l
      <4> HIDE DEF l
      <4> QED BY <2>0
    <3>1. i + k \in 0..(SIZE - 1) /\ i + (k + 1) = (i + k) + 1 /\ k + 1 \in 0..d /\ k \in Nat
          /\ i \in 0..SIZE
      <4> HIDE DEF l
      <4> QED BY <1>1, <2>0, <3>0
    <3>2. p[(i + k) + 1] = p[i + k] + 1 BY <1>2, <1>6, <3>0, <3>1
    <3>3. p[i] \in Nat /\ p[i + k] = p[i] + k BY <1>4, <2>2, <3>1
    <3>4. p[(i + k) + 1] = (p[i] + k) + 1 BY <3>2, <3>3
    <3>5. (p[i] + k) + 1 = p[i] + (k + 1) BY <3>1, <3>3
    <3>6. p[i + (k + 1)] = p[i] + (k + 1) BY <3>1, <3>4, <3>5
    <3> QED BY <3>1, <3>6
  <2>3. \A k \in 0..d : k \in T
    <3> HIDE DEF T
    <3> QED BY <2>0, <2>1, <2>2, UpTo
  <2> QED BY <2>0, <2>3
<1>10. ASSUME NEW i \in D, i \notin Data(w, D) PROVE p[i + w[i].len] = p[i]
  <2> DEFINE l == w[i].len
             T == {k \in 0..l : p[i + k] = p[i]}
  <2>0. l \in Nat /\ i \in Nat /\ i + l < SIZE BY <1>1
  <2> HIDE DEF l
  <2>1. 0 \in T
    <3>1. i + 0 = i BY <2>0
    <3> QED BY <2>0, <3>1
  <2>2. ASSUME NEW k \in 0..(l - 1), k \in T PROVE k + 1 \in T
    <3>1. i + k \in 0..(SIZE - 1) /\ i + (k + 1) = (i + k) + 1 /\ k + 1 \in 0..l /\ k \in Nat /\ k < l
      BY <1>1, <2>0
    <3>2. p[(i + k) + 1] = p[i + k] BY <1>2, <1>6, <1>10, <3>1 DEF l
    <3> QED BY <2>2, <3>1, <3>2
  <2>3. \A k \in 0..l : k \in T
    <3> HIDE DEF T
    <3> QED BY <2>0, <2>1, <2>2, UpTo
  <2> QED BY <2>0, <2>3 DEF l
<1>11. p[e] = p[SIZE] /\ c[e] = c[SIZE]
  <2> DEFINE d == SIZE - e
             T == {k \in 0..d : p[e + k] = p[e] /\ c[e + k] = c[e]}
  <2>0. d \in Nat /\ e + d = SIZE BY <1>1
  <2> HIDE DEF d
  <2>1. 0 \in T
    <3>1. e + 0 = e BY <1>1
    <3> QED BY <2>0, <3>1
  <2>2. ASSUME NEW k \in 0..(d - 1), k \in T PROVE k + 1 \in T
    <3>1. e + k \in 0..(SIZE - 1) /\ e + (k + 1) = (e + k) + 1 /\ k + 1 \in 0..d /\ ~(e + k < e)
      BY <1>1, <2>0
    <3>2. p[(e + k) + 1] = p[e + k] /\ c[(e + k) + 1] = c[e + k] BY <1>2, <1>6, <3>1
    <3> QED BY <2>2, <3>1, <3>2
  <2>3. \A k \in 0..d : k \in T
    <3> HIDE DEF T
    <3> QED BY <2>0, <2>1, <2>2, UpTo
  <2>4. d \in T BY <2>0, <2>3
  <2> QED BY <2>0, <2>4
<1>12. ASSUME NEW n \in L PROVE p[n] + 1 <= p[e] /\ c[SIZE][p[n] + 1] = w[n]
  <2>0. n \in Nat /\ n < e /\ n \in 0..(SIZE - 1) /\ n + 1 \in 0..SIZE /\ p[n] \in Nat
    <3>1. n \in Nat /\ n < e BY <1>2
    <3>2. n \in 0..(SIZE - 1) /\ n + 1 \in 0..SIZE /\ n \in 0..SIZE BY <1>1, <3>1
    <3> QED BY <1>4, <3>1, <3>2
  <2> DEFINE d == SIZE - (n + 1)
             T == {k \in 0..d : p[n] + 1 <= p[n + 1 + k] /\ c[n + 1 + k][p[n] + 1] = w[n]}
  <2>1. d \in Nat /\ n + 1 + d = SIZE BY <1>1, <2>0
  <2> HIDE DEF d
  <2>2. 0 \in T
    <3>1. n + 1 + 0 = n + 1 /\ 0 \in 0..d BY <2>0, <2>1
    <3>2. p[n + 1] = p[n] + 1 /\ c[n + 1][p[n] + 1] = w[n] BY <1>6, <2>0
    <3>3. p[n] + 1 <= p[n + 1] BY <2>0, <3>2
    <3> QED BY <3>1, <3>2, <3>3
  <2>3. ASSUME NEW k \in 0..(d - 1), k \in T PROVE k + 1 \in T
    <3> DEFINE m == n + 1 + k
    <3>1. m \in 0..(SIZE - 1) /\ n + 1 + (k + 1) = m + 1 /\ k + 1 \in 0..d /\ m \in 0..SIZE /\ m + 1 \in 0..SIZE
      BY <1>1, <2>0, <2>1
    <3>2. p[n] + 1 <= p[m] /\ c[m][p[n] + 1] = w[n] BY <2>3
    <3> HIDE DEF m
    <3>3. p[m] \in Nat /\ p[m + 1] \in Nat BY <1>4, <3>1
    <3>4. p[n] + 1 \in 1..p[m] BY <2>0, <3>2, <3>3
    <3>5. p[n] + 1 <= p[m + 1] /\ c[m + 1][p[n] + 1] = w[n]
      <4>1. CASE m \in L
        <5>1. p[m + 1] = p[m] + 1 /\ c[m + 1][p[n] + 1] = c[m][p[n] + 1] BY <1>6, <3>1, <3>4, <4>1
        <5> QED BY <2>0, <3>2, <3>3, <5>1
      <4>2. CASE m \notin L BY <1>6, <3>1, <3>2, <4>2
      <4> QED BY <4>1, <4>2
    <3> QED BY <3>1, <3>5
  <2>4. \A k \in 0..d : k \in T
    <3> HIDE DEF T
    <3> QED BY <2>1, <2>2, <2>3, UpTo
  <2>5. d \in T BY <2>1, <2>4
  <2> QED BY <1>11, <2>1, <2>5
<1>13. p[e] <= e
  <2> DEFINE T == {k \in 0..SIZE : p[k] <= k}
  <2>1. 0 \in T
    <3>1. 0 \in 0..SIZE /\ p[0] <= 0 BY <1>1, <1>5
    <3> QED BY <3>1
  <2>2. ASSUME NEW k \in 0..(SIZE - 1), k \in T PROVE k + 1 \in T
    <3>1. k + 1 \in 0..SIZE /\ k \in 0..SIZE BY <1>1
    <3>2. p[k + 1] \in {p[k], p[k] + 1} /\ p[k] \in Nat /\ p[k] <= k BY <1>4, <1>6, <2>2, <3>1
    <3>3. p[k + 1] <= k + 1 BY <3>2
    <3> QED BY <3>1, <3>3
  <2>3. \A k \in 0..SIZE : k \in T
    <3> HIDE DEF T
    <3> QED BY <1>1, <2>1, <2>2, UpTo
  <2>4. e \in T BY <1>1, <2>3
  <2> QED BY <2>4
<1>14. p[e] = Len(LiveWords(w)) /\ LiveWords(w) \in Seq(Words)
  <2>1. SIZE \in 0..SIZE BY <1>1
  <2> QED BY <1>3, <1>4, <1>11, <2>1
<1>15. \A n \in L : p[n] + 1 <= p[e] /\ LiveWords(w)[p[n] + 1] = w[n] BY <1>3, <1>12
<1>16. Packing(w, D, e, p) BY <1>4, <1>5, <1>8, <1>9, <1>10, <1>13, <1>14, <1>15 DEF Packing, L
<1> QED BY <1>16


\* The words m of a backup are copied.
Copied(u, words, m) ==
  /\ u = [j \in Places |-> u[j]]
  /\ \A j \in Places : u[j] = IF j < m /\ j < Len(words) THEN words[j + 1] ELSE Blank

\* u is a copy of the words of the entries of w with data, each entry where p says.
Backup(w, D, e, p, u, E, x) ==
  /\ Packing(w, D, e, p) /\ Copied(u, LiveWords(w), Len(LiveWords(w)))
  /\ E = {p[i] : i \in Data(w, D)} /\ x = p[e]

\* The entries with data are behind each other in the copy, as they were.
LEMMA Packed ==
  ASSUME NEW w, NEW D, NEW e, Chain(w, D, e), NEW p, NEW u, NEW E, NEW x, Backup(w, D, e, p, u, E, x)
  PROVE  /\ Chain(u, E, x) /\ u[x] = Blank /\ Data(u, E) = E
         /\ \A i \in Data(w, D) : /\ u[p[i]] = w[i] /\ u[p[i] + 1] = w[i + 1]
                                  /\ (Whole(w, i) => Whole(u, p[i]))
         /\ \A i, j \in Data(w, D) : i < j => p[i] < p[j]
<1> DEFINE l == LiveWords(w)
<1>0. Packing(w, D, e, p) /\ Copied(u, l, Len(l)) /\ E = {p[i] : i \in Data(w, D)} /\ x = p[e] BY DEF Backup
<1>1. /\ w \in [Places -> Words] /\ SIZE \in Nat /\ e \in Nat /\ e < SIZE /\ e \in Places
      /\ \A i \in D : /\ i \in Nat /\ w[i].len \in Nat /\ w[i].len >= 2 /\ i \in Places
                      /\ i + w[i].len <= e /\ i < e /\ i + w[i].len \in D \cup {e}
      /\ \A i, j \in D : i < j => i + w[i].len <= j
      /\ \A j \in Places : j \in Nat /\ j < SIZE
  BY ChainBounds
<1>2. /\ p \in [0..SIZE -> Nat] /\ p[0] = 0 /\ x = Len(l) /\ x <= e
      /\ \A m, n \in 0..SIZE : m <= n => p[m] <= p[n]
      /\ \A i \in Data(w, D), d \in 0..SIZE : d <= w[i].len => p[i + d] = p[i] + d
      /\ \A i \in D : i \notin Data(w, D) => p[i + w[i].len] = p[i]
      /\ \A n \in Live(w, D) : p[n] + 1 <= x /\ l[p[n] + 1] = w[n]
      /\ l \in Seq(Words)
  BY <1>0 DEF Packing
<1>3. \A i \in Data(w, D), d \in Nat : d < w[i].len => i + d \in Live(w, D) BY LiveFacts
<1>4. Data(w, D) \subseteq D /\ \A i \in Data(w, D) : w[i].handle \in Handles BY DEF Data
<1>5. \A i \in 0..SIZE : p[i] \in Nat BY <1>2
<1>6. x \in Nat /\ x < SIZE /\ x \in Places
  <2>1. x \in Nat BY <1>2
  <2> QED BY <1>1, <1>2, <2>1 DEF Places
<1>7. u \in [Places -> Words] /\ \A j \in Places : u[j] = IF j < x THEN l[j + 1] ELSE Blank
  <2>1. u = [j \in Places |-> u[j]]
        /\ \A j \in Places : u[j] = IF j < x THEN l[j + 1] ELSE Blank
    BY <1>0, <1>2 DEF Copied
  <2>2. ASSUME NEW j \in Places PROVE u[j] \in Words
    <3>1. Blank \in Words BY WordFacts
    <3>2. ASSUME j < x PROVE l[j + 1] \in Words
      <4>1. j + 1 \in 1..Len(l) BY <1>1, <1>2, <1>6, <3>2
      <4> HIDE DEF l
      <4> QED BY <1>2, <4>1, ElementOfSeq
    <3> HIDE DEF l
    <3> QED BY <2>1, <3>1, <3>2
  <2> QED BY <2>1, <2>2
<1> HIDE DEF l
<1>8. ASSUME NEW i \in Data(w, D), NEW d \in Nat, d < w[i].len
      PROVE  u[p[i] + d] = w[i + d] /\ p[i] + d < x /\ p[i] + d \in Places
  <2>1. i + d \in Live(w, D) /\ i \in D BY <1>3, <1>4, <1>8
  <2>2. d \in 0..SIZE /\ d <= w[i].len /\ i \in 0..SIZE /\ i + d \in 0..SIZE BY <1>1, <1>8, <2>1
  <2>3. p[i + d] = p[i] + d /\ p[i + d] \in Nat BY <1>2, <1>5, <2>2
  <2>4. p[i + d] + 1 <= x /\ l[p[i + d] + 1] = w[i + d] BY <1>2, <2>1
  <2>5. p[i + d] < x /\ p[i + d] \in Places BY <1>1, <1>6, <2>3, <2>4 DEF Places
  <2>6. u[p[i + d]] = w[i + d] BY <1>7, <2>4, <2>5
  <2> QED BY <2>3, <2>5, <2>6
<1>9. \A i \in Data(w, D) : /\ u[p[i]] = w[i] /\ u[p[i] + 1] = w[i + 1]
                            /\ p[i] < x /\ p[i] \in Places /\ p[i] \in Nat
  <2>1. ASSUME NEW i \in Data(w, D)
        PROVE  /\ u[p[i]] = w[i] /\ u[p[i] + 1] = w[i + 1]
               /\ p[i] < x /\ p[i] \in Places /\ p[i] \in Nat
    <3>1. i \in D /\ i \in Nat /\ w[i].len \in Nat /\ w[i].len >= 2 /\ i \in 0..SIZE BY <1>1, <1>4
    <3>2. 0 < w[i].len /\ 1 < w[i].len /\ 0 \in Nat /\ 1 \in Nat BY <3>1
    <3>3. u[p[i] + 1] = w[i + 1] BY <1>8, <3>2
    <3>4. u[p[i] + 0] = w[i + 0] /\ p[i] + 0 < x /\ p[i] + 0 \in Places BY <1>8, <3>2
    <3>5. p[i] \in Nat /\ p[i] + 0 = p[i] /\ i + 0 = i BY <1>5, <3>1
    <3> QED BY <3>3, <3>4, <3>5
  <2> QED BY <2>1
<1>10. ASSUME NEW i \in Data(w, D), Whole(w, i) PROVE Whole(u, p[i])
  <2>0. i \in D /\ i \in Nat /\ w[i].len \in Nat /\ p[i] \in Nat /\ u[p[i]] = w[i] BY <1>1, <1>4, <1>9
  <2>1. PICK v \in VALUES : \A j \in (i + 1)..(i + w[i].len - 1) : w[j].value = v BY <1>10 DEF Whole
  <2>2. ASSUME NEW j \in (p[i] + 1)..(p[i] + u[p[i]].len - 1) PROVE u[j].value = v
    <3> DEFINE q == p[i]
               n == w[i].len
               d == j - q
    <3>0. q \in Nat /\ n \in Nat /\ i \in Nat /\ j \in (q + 1)..(q + n - 1) BY <2>0
    <3>1. d \in Nat /\ d < n /\ q + d = j /\ i + d \in (i + 1)..(i + n - 1)
      <4> HIDE DEF q, n
      <4> QED BY <3>0
    <3> HIDE DEF d
    <3>2. u[q + d] = w[i + d] BY <1>8, <3>1
    <3> QED BY <2>1, <3>1, <3>2
  <2> QED BY <2>2 DEF Whole
<1>11. ASSUME NEW i \in Data(w, D), NEW j \in D \cup {e}, i < j PROVE p[i] + w[i].len <= p[j]
  <2>1. i \in D /\ i \in Nat /\ w[i].len \in Nat /\ i + w[i].len <= j /\ j \in 0..SIZE /\ i + w[i].len \in 0..SIZE
        /\ w[i].len \in 0..SIZE
    BY <1>1, <1>4, <1>11
  <2>2. p[i + w[i].len] <= p[j] BY <1>2, <2>1
  <2>3. p[i + w[i].len] = p[i] + w[i].len
    <3>1. w[i].len <= w[i].len BY <2>1
    <3> QED BY <1>2, <2>1, <3>1
  <2> QED BY <2>2, <2>3
<1>12. \A i, j \in Data(w, D) : i < j => p[i] < p[j]
  <2>1. ASSUME NEW i \in Data(w, D), NEW j \in Data(w, D), i < j PROVE p[i] < p[j]
    <3>1. i \in D /\ j \in D /\ w[i].len \in Nat /\ w[i].len >= 2 /\ p[i] \in Nat /\ p[j] \in Nat
      BY <1>1, <1>4, <1>9
    <3>2. p[i] + w[i].len <= p[j] BY <1>11, <2>1, <3>1
    <3> QED BY <3>1, <3>2
  <2> QED BY <2>1
<1>13. \A i \in D \cup {e} : p[i] \in E \cup {x}
  <2> DEFINE T == {i \in D \cup {e} : p[i] \in E \cup {x}}
  <2>1. e \in T BY <1>0
  <2>2. ASSUME NEW i \in D, Onward(w)[i] \in T PROVE i \in T
    <3>1. CASE i \in Data(w, D) BY <1>0, <3>1
    <3>2. CASE i \notin Data(w, D)
      <4>1. Onward(w)[i] = i + w[i].len BY ChainNext
      <4>2. p[i + w[i].len] = p[i] BY <1>2, <3>2
      <4> QED BY <2>2, <4>1, <4>2
    <3> QED BY <3>1, <3>2
  <2>3. \A i \in D \cup {e} : i \in T
    <3> HIDE DEF T
    <3> QED BY <2>1, <2>2, ChainInduction
  <2> QED BY <2>3
<1>14. 0 \in E \cup {x}
  <2>1. 0 \in D \cup {e} BY DEF Chain
  <2> QED BY <1>2, <1>13, <2>1
<1>15. u[x] = Blank /\ \A j \in Places : j > x => u[j] = Blank
  <2>1. ~(x < x) /\ \A j \in Places : j > x => ~(j < x) BY <1>1, <1>6
  <2> QED BY <1>6, <1>7, <2>1
<1>16. ASSUME NEW k \in E
       PROVE  /\ u[k].handle \in Handles /\ u[k].len >= 2 /\ k < x /\ k \in Places
              /\ k + u[k].len \in E \cup {x}
              /\ \A j \in E : k < j => k + u[k].len <= j
  <2>1. PICK i \in Data(w, D) : k = p[i] BY <1>0
  <2>2. u[k] = w[i] /\ k < x /\ k \in Places BY <1>9, <2>1
  <2>3. i \in D /\ w[i].len \in Nat /\ w[i].len >= 2 /\ i + w[i].len \in D \cup {e} /\ i \in Nat
        /\ w[i].len \in 0..SIZE
    BY <1>1, <1>4
  <2>4. k + u[k].len \in E \cup {x}
    <3>1. p[i + w[i].len] = p[i] + w[i].len
      <4>1. w[i].len <= w[i].len BY <2>3
      <4> QED BY <1>2, <2>3, <4>1
    <3> QED BY <1>0, <1>13, <2>1, <2>2, <2>3, <3>1
  <2>5. ASSUME NEW j \in E, k < j PROVE k + u[k].len <= j
    <3>1. PICK m \in Data(w, D) : j = p[m] BY <1>0
    <3>2. m \in D /\ m \in Nat /\ p[i] \in Nat /\ p[m] \in Nat BY <1>1, <1>4, <1>9
    <3>3. m < i => p[m] < p[i] BY <1>12
    <3>4. i < m BY <2>1, <2>3, <2>5, <3>1, <3>2, <3>3
    <3>5. p[i] + w[i].len <= p[m] BY <1>11, <3>2, <3>4
    <3> QED BY <2>1, <2>2, <3>1, <3>5
  <2> QED BY <1>4, <2>2, <2>3, <2>4, <2>5
<1>17. Chain(u, E, x)
  <2>1. E \in SUBSET Places BY <1>16
  <2>2. u[x] \in {Blank, SealHeader} BY <1>15
  <2>3. \A k \in E : /\ u[k].handle \in Handles \cup {"invalid"} /\ u[k].len >= 2
                     /\ k < x /\ k + u[k].len \in E \cup {x}
                     /\ \A j \in E : k < j => k + u[k].len <= j
    BY <1>16
  <2> QED BY <1>6, <1>7, <1>14, <1>15, <2>1, <2>2, <2>3 DEF Chain
<1>18. Data(u, E) = E BY <1>16 DEF Data
<1> QED BY <1>9, <1>10, <1>12, <1>15, <1>17, <1>18


\* A backup of an area has what the area has, and is as tidy.
LEMMA PackedAlike ==
  ASSUME NEW w, NEW D, NEW e, Chain(w, D, e), Sound(w, Data(w, D)),
         NEW p, NEW u, NEW E, NEW x, Backup(w, D, e, p, u, E, x)
  PROVE  /\ u[x] = Blank /\ Chain(u, E, x) /\ Sound(u, Data(u, E))
         /\ Tidy(w, D, e) => Tidy(u, E, x)
         /\ \A i : Doubled(w, D, e, i) => Doubled(u, E, x, p[i]) /\ u[p[i]] = w[i]
         /\ \A h : HasKept(w, Data(w, D), h) => HasKept(u, Data(u, E), h)
         /\ w[e] = SealHeader => \A g \in Handles : InBackup(u, g) = InArea(w, g)
<1> DEFINE S == Data(w, D)
<1>0. Packing(w, D, e, p) /\ E = {p[i] : i \in S} /\ x = p[e] BY DEF Backup
<1>1. /\ Chain(u, E, x) /\ u[x] = Blank /\ Data(u, E) = E
      /\ \A i \in S : /\ u[p[i]] = w[i] /\ u[p[i] + 1] = w[i + 1]
                      /\ (Whole(w, i) => Whole(u, p[i]))
      /\ \A i, j \in S : i < j => p[i] < p[j]
  BY Packed
<1>2. \A i \in S : i \in D /\ Whole(w, i) /\ p[i] \in E BY <1>0 DEF Sound, Data
<1>3. \A k \in E : \E i \in S : k = p[i] BY <1>0
<1>4. Sound(u, Data(u, E)) BY <1>1, <1>2, <1>3 DEF Sound
<1>5. \A h : HasKept(w, S, h) => HasKept(u, Data(u, E), h)
  <2> HIDE DEF S
  <2> QED BY <1>1, <1>2 DEF HasKept
<1>6. ASSUME NEW R, Apart(w, R), R \subseteq S PROVE Apart(u, {p[i] : i \in R})
  <2>1. ASSUME NEW k \in {p[i] : i \in R}, NEW m \in {p[i] : i \in R}, u[k].handle = u[m].handle
        PROVE  k = m
    <3>1. PICK i \in R : k = p[i] OBVIOUS
    <3>2. PICK j \in R : m = p[j] OBVIOUS
    <3>3. w[i].handle = w[j].handle BY <1>1, <1>6, <2>1, <3>1, <3>2
    <3>4. i = j BY <1>6, <3>3 DEF Apart
    <3> QED BY <3>1, <3>2, <3>4
  <2> QED BY <2>1 DEF Apart
<1>7. Tidy(w, D, e) => Tidy(u, E, x)
  <2>1. Tidy(w, D, e) => Apart(w, S) BY DEF Tidy
  <2>2. Apart(w, S) => Apart(u, E) BY <1>0, <1>6
  <2> QED BY <1>1, <1>4, <2>1, <2>2 DEF Tidy
<1>8. ASSUME NEW i, Doubled(w, D, e, i) PROVE Doubled(u, E, x, p[i]) /\ u[p[i]] = w[i]
  <2>1. PICK j \in D : i < j /\ w[j].handle = w[i].handle /\ j + w[j].len = e BY <1>8 DEF Doubled
  <2>2. i \in S /\ j \in S /\ Apart(w, S \ {i}) BY <1>8, <2>1 DEF Doubled, Data
  <2>3. Apart(u, {p[k] : k \in S \ {i}}) BY <1>6, <2>2
  <2>4. {p[k] : k \in S \ {i}} = E \ {p[i]}
    <3>1. ASSUME NEW k \in S, k # i PROVE p[k] # p[i]
      <4>1. k \in D /\ i \in D BY <1>2, <2>2
      <4>2. k \in Nat /\ i \in Nat BY <4>1, ChainBounds
      <4>3. k < i \/ i < k BY <3>1, <4>2
      <4>4. p[k] < p[i] \/ p[i] < p[k] BY <1>1, <2>2, <4>3
      <4>5. p[k] \in Nat /\ p[i] \in Nat
        <5>1. p[k] \in E /\ p[i] \in E BY <1>2, <2>2
        <5> QED BY <1>1, <5>1, ChainBounds
      <4> QED BY <4>4, <4>5
    <3> QED BY <1>0, <3>1
  <2>5. p[j] \in E /\ p[i] < p[j] /\ u[p[j]] = w[j] /\ u[p[i]] = w[i] BY <1>1, <1>2, <2>1, <2>2
  <2>6. p[j] + w[j].len = x
    <3>1. w[j].len \in 0..SIZE /\ w[j].len <= w[j].len
      <4>1. SIZE \in Nat /\ w[j].len \in Nat /\ j \in Nat /\ j + w[j].len <= e /\ e \in Nat /\ e < SIZE
        BY ChainBounds
      <4> QED BY <4>1
    <3>2. p[j + w[j].len] = p[j] + w[j].len BY <1>0, <2>2, <3>1 DEF Packing
    <3> QED BY <1>0, <2>1, <3>2
  <2>7. p[i] \in Data(u, E) BY <1>1, <1>2, <2>2
  <2>8. p[j] + u[p[j]].len = x /\ u[p[j]].handle = u[p[i]].handle BY <2>1, <2>5, <2>6
  <2>9. Apart(u, Data(u, E) \ {p[i]}) BY <1>1, <2>3, <2>4
  <2>10. Doubled(u, E, x, p[i]) BY <1>1, <1>4, <2>5, <2>7, <2>8, <2>9 DEF Doubled
  <2> QED BY <2>5, <2>10
<1>9. ASSUME w[e] = SealHeader, NEW g \in Handles PROVE InBackup(u, g) = InArea(w, g)
  <2> DEFINE b == TRUE
             c == FALSE
             H == Has(u, E, x, b, g)
             K == Has(w, D, e, c, g)
  <2>1. b \in BOOLEAN /\ c \in BOOLEAN /\ InBackup(u, g) = StoredIn(u, g, b) /\ InArea(w, g) = StoredIn(w, g, c)
    BY DEF InBackup, InArea
  <2>2. H = {k \in E : u[k].handle = g} BY <1>1 DEF Has, Counted
  <2>3. K = {i \in S : w[i].handle = g}
    <3>1. AreaCounted(w, D, e) = S BY <1>9, CountedFacts
    <3> QED BY <3>1 DEF Has, AreaCounted
  <2> HIDE DEF b, c, S
  <2>4. \A i \in H : Whole(u, i)
    <3>1. \A k \in E : Whole(u, k) BY <1>1, <1>4 DEF Sound
    <3> QED BY <2>2, <3>1
  <2>5. \A k \in K : p[k] \in H /\ Whole(w, k) /\ w[k + 1].value = u[p[k] + 1].value BY <1>1, <1>2, <2>2, <2>3
  <2>6. \A k, l \in K : k <= l => p[k] <= p[l]
    <3>1. ASSUME NEW k \in K, NEW l \in K, k <= l PROVE p[k] <= p[l]
      <4>1. k \in S /\ l \in S BY <2>3
      <4>2. k \in Nat /\ l \in Nat BY <1>2, <4>1, ChainBounds
      <4>3. p[k] \in Nat /\ p[l] \in Nat
        <5>1. p[k] \in E /\ p[l] \in E BY <1>2, <4>1
        <5> QED BY <1>1, <5>1, ChainBounds
      <4>4. CASE k = l BY <4>3, <4>4
      <4>5. CASE k # l
        <5>1. k < l BY <3>1, <4>2, <4>5
        <5> QED BY <1>1, <4>1, <4>3, <5>1
      <4> QED BY <4>4, <4>5
    <3> QED BY <3>1
  <2>7. \A i \in H : \E k \in K : i <= p[k]
    <3>1. ASSUME NEW i \in H PROVE \E k \in K : i <= p[k]
      <4>1. i \in E /\ u[i].handle = g BY <2>2
      <4>2. PICK k \in S : i = p[k] BY <1>3, <4>1
      <4>3. k \in K BY <1>1, <2>3, <4>1, <4>2
      <4>4. i \in Nat BY <1>1, <4>1, ChainBounds
      <4>5. i <= p[k] BY <4>2, <4>4
      <4> QED BY <4>3, <4>5
    <3> QED BY <3>1
  <2>8. StandsFor(u, E, x, b, w, D, e, c, g, p) BY <2>4, <2>5, <2>6, <2>7 DEF StandsFor
  <2>9. StoredIn(u, g, b) = StoredIn(w, g, c) BY <1>1, <2>1, <2>8, StoredAlike
  <2> QED BY <2>1, <2>9
<1> QED BY <1>1, <1>4, <1>5, <1>7, <1>8, <1>9


-----------------------------------------------------------------------------
(* Flash operations that remain *)

\* What the flash can be asked to do
Operations ==
  [on : {"page", "recovery"}, write : {"erase", "meta", "word", "pointer", "no_pointer"},
   at : Nat, word : Words \cup {InvalidHeader}]

\* The first k of the operations F are done.
Remaining(ops, F, k) == k \in 0..Len(F) /\ ops = SubSeq(F, k + 1, Len(F))

Rest(ops, F, k) ==
  /\ ops \in Seq(Operations) /\ Len(ops) = Len(F) - k /\ k \in 0..Len(F)
  /\ \A j \in 1..(Len(F) - k) : ops[j] = F[k + j]

NextOp(ops, F, k) ==
  /\ k < Len(F) /\ k + 1 \in 1..Len(F) /\ Head(ops) = F[k + 1]
  /\ Remaining(Tail(ops), F, k + 1)

\* The operations that remain, and the next of them
LEMMA RemainingNext ==
  ASSUME NEW F \in Seq(Operations), NEW k, NEW ops, Remaining(ops, F, k)
  PROVE  /\ Rest(ops, F, k)
         /\ ops = <<>> <=> k = Len(F)
         /\ ops # <<>> => NextOp(ops, F, k)
<1>1. k \in 0..Len(F) /\ ops = SubSeq(F, k + 1, Len(F)) /\ Len(F) \in Nat BY DEF Remaining
<1>2. \A j \in (k + 1)..Len(F) : F[j] \in Operations
  <2>1. \A j \in (k + 1)..Len(F) : j \in 1..Len(F) BY <1>1
  <2> QED BY <2>1, ElementOfSeq
<1>3. /\ ops \in Seq(Operations) /\ Len(ops) = IF k + 1 <= Len(F) THEN Len(F) - (k + 1) + 1 ELSE 0
      /\ \A j \in 1..(Len(F) - (k + 1) + 1) : ops[j] = F[k + 1 + j - 1]
  BY <1>1, <1>2, SubSeqProperties
<1>4. Len(ops) = Len(F) - k BY <1>1, <1>3
<1>5. \A j \in 1..(Len(F) - k) : ops[j] = F[k + j]
  <2>1. Len(F) - (k + 1) + 1 = Len(F) - k BY <1>1
  <2>2. \A j \in 1..(Len(F) - k) : k + 1 + j - 1 = k + j BY <1>1
  <2> QED BY <1>3, <2>1, <2>2
<1>6. ops = <<>> <=> k = Len(F)
  <2>1. ops = <<>> <=> Len(ops) = 0 BY <1>3, EmptySeq
  <2> QED BY <1>1, <1>4, <2>1
<1>7. ASSUME ops # <<>> PROVE NextOp(ops, F, k)
  <2>1. k < Len(F) /\ k + 1 \in 1..Len(F) /\ Len(F) \in (k + 1)..Len(F) BY <1>1, <1>6, <1>7
  <2>2. Head(ops) = F[k + 1] /\ Tail(ops) = SubSeq(F, k + 1 + 1, Len(F)) BY <1>1, <2>1, HeadTailOfSubSeq
  <2>3. k + 1 \in 0..Len(F) BY <2>1
  <2> QED BY <2>1, <2>2, <2>3 DEF Remaining, NextOp
<1>8. Rest(ops, F, k) BY <1>1, <1>3, <1>4, <1>5 DEF Rest
<1> QED BY <1>6, <1>7, <1>8

\* At first all operations remain.
LEMMA RemainingAll ==
  ASSUME NEW F \in Seq(Operations)
  PROVE  Remaining(F, F, 0)
<1>1. Len(F) \in Nat /\ SubSeq(F, 1, Len(F)) = F BY SubSeqFull, LenProperties
<1> QED BY <1>1 DEF Remaining

Invalidation(at) == WriteWord("page", at, InvalidHeader)

\* The operations of a replacement, with the place of the entry that is replaced
ReplaceOps(s, h, v, old) ==
  LET written == EntryOps(s, h, v) \o <<WriteWord("page", s + LEN[h], SealHeader)>>
  IN IF old = NOWHERE THEN written ELSE Append(written, Invalidation(old))

Replacement(F, s, h, v, old) == F = ReplaceOps(s, h, v, old)

\* The operations of a backup of the words l, and of a write back of the words u
BackupFrom(l) ==
  <<Erase("recovery"), WriteMeta("recovery")>> \o WriteAll("recovery", l)
    \o <<SetPointer, Erase("page")>>

WriteBackFrom(u) == <<WriteMeta("page")>> \o WriteAll("page", [j \in 1..(SIZE - 1) |-> u[j - 1]])

\* The parts of an operation
LEMMA OperationFacts ==
  /\ \A on \in {"page", "recovery"}, at \in Nat, word \in Words \cup {InvalidHeader} :
       WriteWord(on, at, word) \in Operations
  /\ \A on \in {"page", "recovery"} : Erase(on) \in Operations /\ WriteMeta(on) \in Operations
  /\ SetPointer \in Operations /\ ClearPointer \in Operations
  /\ \A on, at, word : /\ WriteWord(on, at, word).on = on /\ WriteWord(on, at, word).write = "word"
                       /\ WriteWord(on, at, word).at = at /\ WriteWord(on, at, word).word = word
  /\ \A on : /\ Erase(on).on = on /\ Erase(on).write = "erase" /\ Erase(on).word = Blank
             /\ WriteMeta(on).on = on /\ WriteMeta(on).write = "meta" /\ WriteMeta(on).word = Blank
  /\ SetPointer.on = "recovery" /\ SetPointer.write = "pointer"
  /\ ClearPointer.on = "recovery" /\ ClearPointer.write = "no_pointer"
  /\ Blank # SealHeader /\ InvalidHeader # SealHeader
<1>1. Blank \in Words BY WordFacts
<1>2. Blank # SealHeader /\ InvalidHeader # SealHeader BY DEF Blank, SealHeader, InvalidHeader, Word
<1> QED BY <1>1, <1>2 DEF Operations, WriteWord, Erase, WriteMeta, SetPointer, ClearPointer, Op

ReplaceList(F, s, h, v, old) ==
  /\ Len(F) = IF old = NOWHERE THEN LEN[h] + 1 ELSE LEN[h] + 2
  /\ F[1] = WriteWord("page", s, Word(h, LEN[h], NONE))
  /\ \A j \in 2..LEN[h] : F[j] = WriteWord("page", s + j - 1, Word("data", 0, v))
  /\ F[LEN[h] + 1] = WriteWord("page", s + LEN[h], SealHeader)
  /\ old # NOWHERE => F[LEN[h] + 2] = Invalidation(old)

\* The operations of a replacement
LEMMA ReplaceOpsAre ==
  ASSUME NEW s \in Nat, NEW h \in Handles, NEW v \in VALUES, NEW old \in Places \cup {NOWHERE},
         NEW F, Replacement(F, s, h, v, old)
  PROVE  F \in Seq(Operations) /\ ReplaceList(F, s, h, v, old)
<1> DEFINE n == LEN[h]
           A == EntryOps(s, h, v)
           x == WriteWord("page", s + n, SealHeader)
           W == A \o <<x>>
           y == Invalidation(old)
<1>1. n \in Nat /\ n >= 2 BY HandleFacts
<1>2. /\ Word(h, n, NONE) \in Words /\ Word("data", 0, v) \in Words /\ SealHeader \in Words BY WordFacts
<1>3. \A j \in 1..n : A[j] = WriteWord("page", s + j - 1, IF j = 1 THEN Word(h, n, NONE) ELSE Word("data", 0, v))
  BY DEF EntryOps, EntryWords
<1>4. x \in Operations /\ (old # NOWHERE => y \in Operations)
  <2>1. s + n \in Nat BY <1>1
  <2>2. x \in Operations BY <1>2, <2>1, OperationFacts
  <2>3. old # NOWHERE => old \in Nat BY HandleFacts DEF Places
  <2> QED BY <2>2, <2>3, OperationFacts DEF Invalidation
<1>5. A \in Seq(Operations) /\ Len(A) = n
  <2>1. \A j \in 1..n : A[j] \in Operations
    <3>1. ASSUME NEW j \in 1..n PROVE A[j] \in Operations
      <4>1. s + j - 1 \in Nat BY <1>1
      <4> QED BY <1>2, <1>3, <4>1, OperationFacts
    <3> QED BY <3>1
  <2>2. A = [j \in 1..n |-> A[j]] BY DEF EntryOps
  <2>3. A \in [1..n -> Operations]
    <3> HIDE DEF A, n
    <3> QED BY <2>1, <2>2
  <2> HIDE DEF A, n
  <2> QED BY <1>1, <2>3
<1> HIDE DEF A, n, x, y
<1>6. <<x>> \in Seq(Operations) /\ Len(<<x>>) = 1 /\ <<x>>[1] = x BY <1>4
<1>7. /\ W \in Seq(Operations) /\ Len(W) = n + 1
      /\ \A j \in 1..(n + 1) : W[j] = IF j <= n THEN A[j] ELSE <<x>>[j - n]
  BY <1>5, <1>6, ConcatProperties
<1>8. (\A j \in 1..n : W[j] = A[j]) /\ W[n + 1] = x
  <2>1. \A j \in 1..n : j \in 1..(n + 1) /\ j <= n BY <1>1
  <2>2. n + 1 \in 1..(n + 1) /\ ~(n + 1 <= n) /\ (n + 1) - n = 1 BY <1>1
  <2> HIDE DEF W
  <2> QED BY <1>6, <1>7, <2>1, <2>2
<1> HIDE DEF W
<1>9. F = IF old = NOWHERE THEN W ELSE Append(W, y) BY DEF Replacement, ReplaceOps, W, A, x, y, n
<1>10. old # NOWHERE => /\ Append(W, y) \in Seq(Operations) /\ Len(Append(W, y)) = n + 1 + 1
                        /\ \A j \in 1..(n + 1) : Append(W, y)[j] = W[j]
                        /\ Append(W, y)[n + 1 + 1] = y
  BY <1>4, <1>7, AppendProperties
<1>11. /\ F \in Seq(Operations) /\ Len(F) = IF old = NOWHERE THEN n + 1 ELSE n + 2
       /\ \A j \in 1..(n + 1) : F[j] = W[j]
       /\ old # NOWHERE => F[n + 2] = y
  <2>1. n + 1 + 1 = n + 2 BY <1>1
  <2> QED BY <1>7, <1>9, <1>10, <2>1
<1>12. /\ \A j \in 1..n : F[j] = WriteWord("page", s + j - 1, IF j = 1 THEN Word(h, n, NONE) ELSE Word("data", 0, v))
       /\ F[n + 1] = x
  <2>1. \A j \in 1..n : j \in 1..(n + 1) BY <1>1
  <2>2. n + 1 \in 1..(n + 1) BY <1>1
  <2>3. \A j \in 1..n : F[j] = A[j] BY <1>8, <1>11, <2>1
  <2> QED BY <1>3, <1>8, <1>11, <2>2, <2>3
<1>13. F[1] = WriteWord("page", s, Word(h, n, NONE))
  <2>1. 1 \in 1..n /\ s + 1 - 1 = s BY <1>1
  <2> QED BY <1>12, <2>1
<1>14. \A j \in 2..n : F[j] = WriteWord("page", s + j - 1, Word("data", 0, v))
  <2>1. \A j \in 2..n : j \in 1..n /\ j # 1 BY <1>1
  <2> QED BY <1>12, <2>1
<1> QED BY <1>11, <1>12, <1>13, <1>14 DEF n, x, y, ReplaceList


\* The word operations of a list of words
LEMMA WriteAllAre ==
  ASSUME NEW on \in {"page", "recovery"}, NEW l \in Seq(Words), NEW B, B = WriteAll(on, l)
  PROVE  /\ B \in Seq(Operations) /\ Len(B) = Len(l)
         /\ \A j \in 1..Len(l) : B[j] = WriteWord(on, j - 1, l[j])
<1>1. Len(l) \in Nat /\ DOMAIN l = 1..Len(l) /\ \A j \in 1..Len(l) : l[j] \in Words
  BY ElementOfSeq, LenProperties
<1>2. \A j \in 1..Len(l) : B[j] = WriteWord(on, j - 1, l[j]) BY <1>1 DEF WriteAll
<1>3. \A j \in 1..Len(l) : B[j] \in Operations
  <2>1. ASSUME NEW j \in 1..Len(l) PROVE B[j] \in Operations
    <3>1. j - 1 \in Nat BY <1>1
    <3> QED BY <1>1, <1>2, <3>1, OperationFacts
  <2> QED BY <2>1
<1>4. B = [j \in 1..Len(l) |-> B[j]] BY <1>1 DEF WriteAll
<1> QED BY <1>1, <1>2, <1>3, <1>4

BackupList(F, l) ==
  /\ Len(l) \in Nat /\ Len(F) = Len(l) + 4
  /\ F[1] = Erase("recovery") /\ F[2] = WriteMeta("recovery")
  /\ \A j \in 1..Len(l) : F[j + 2] = WriteWord("recovery", j - 1, l[j])
  /\ F[Len(l) + 3] = SetPointer /\ F[Len(l) + 4] = Erase("page")

\* The operations of a backup
LEMMA BackupOpsAre ==
  ASSUME NEW l \in Seq(Words), NEW F, F = BackupFrom(l)
  PROVE  F \in Seq(Operations) /\ BackupList(F, l)
<1> DEFINE n == Len(l)
           A == <<Erase("recovery"), WriteMeta("recovery")>>
           B == WriteAll("recovery", l)
           C == <<SetPointer, Erase("page")>>
           W == A \o B
<1>1. n \in Nat BY LenProperties
<1>2. A \in Seq(Operations) /\ Len(A) = 2 /\ A[1] = Erase("recovery") /\ A[2] = WriteMeta("recovery")
  <2>1. Erase("recovery") \in Operations /\ WriteMeta("recovery") \in Operations BY OperationFacts
  <2> QED BY <2>1
<1>3. C \in Seq(Operations) /\ Len(C) = 2 /\ C[1] = SetPointer /\ C[2] = Erase("page")
  <2>1. SetPointer \in Operations /\ Erase("page") \in Operations BY OperationFacts
  <2> QED BY <2>1
<1>4. B \in Seq(Operations) /\ Len(B) = n /\ \A j \in 1..n : B[j] = WriteWord("recovery", j - 1, l[j])
  BY WriteAllAre
<1>5. F = W \o C BY DEF BackupFrom
<1> HIDE DEF A, B, C, n
<1>6. W \in Seq(Operations) /\ Len(W) = n + 2 /\ \A j \in 1..(n + 2) : W[j] = IF j <= 2 THEN A[j] ELSE B[j - 2]
  <2>1. 2 + n = n + 2 BY <1>1
  <2>2. /\ W \in Seq(Operations) /\ Len(W) = Len(A) + Len(B)
        /\ \A j \in 1..(Len(A) + Len(B)) : W[j] = IF j <= Len(A) THEN A[j] ELSE B[j - Len(A)]
    BY <1>2, <1>4, ConcatProperties
  <2> HIDE DEF W
  <2> QED BY <1>2, <1>4, <2>1, <2>2
<1> HIDE DEF W
<1>7. F \in Seq(Operations) /\ Len(F) = n + 4 /\ \A j \in 1..(n + 4) : F[j] = IF j <= n + 2 THEN W[j] ELSE C[j - (n + 2)]
  <2>1. n + 2 + 2 = n + 4 BY <1>1
  <2>2. /\ F \in Seq(Operations) /\ Len(F) = Len(W) + Len(C)
        /\ \A j \in 1..(Len(W) + Len(C)) : F[j] = IF j <= Len(W) THEN W[j] ELSE C[j - Len(W)]
    <3>1. W \in Seq(Operations) BY <1>6
    <3>2. C \in Seq(Operations) BY <1>3
    <3> QED BY <1>5, <3>1, <3>2, ConcatProperties
  <2> QED BY <1>3, <1>6, <2>1, <2>2
<1>8. F[1] = A[1] /\ F[2] = A[2]
  <2>1. /\ 1 \in 1..(n + 4) /\ 1 <= n + 2 /\ 1 \in 1..(n + 2)
        /\ 2 \in 1..(n + 4) /\ 2 <= n + 2 /\ 2 \in 1..(n + 2) BY <1>1
  <2> QED BY <1>6, <1>7, <2>1
<1>9. \A j \in 1..n : F[j + 2] = B[j]
  <2>1. ASSUME NEW j \in 1..n PROVE F[j + 2] = B[j]
    <3>1. j + 2 \in 1..(n + 4) /\ j + 2 <= n + 2 /\ j + 2 \in 1..(n + 2) /\ ~(j + 2 <= 2) /\ (j + 2) - 2 = j
      BY <1>1
    <3> QED BY <1>6, <1>7, <3>1
  <2> QED BY <2>1
<1>10. F[n + 3] = C[1] /\ F[n + 4] = C[2]
  <2>1. /\ n + 3 \in 1..(n + 4) /\ ~(n + 3 <= n + 2) /\ (n + 3) - (n + 2) = 1
        /\ n + 4 \in 1..(n + 4) /\ ~(n + 4 <= n + 2) /\ (n + 4) - (n + 2) = 2 BY <1>1
  <2> QED BY <1>7, <2>1
<1> QED BY <1>1, <1>2, <1>3, <1>4, <1>7, <1>8, <1>9, <1>10 DEF n, BackupList

WriteBackList(F, u) ==
  /\ Len(F) = SIZE /\ F[1] = WriteMeta("page")
  /\ \A j \in 1..(SIZE - 1) : F[j + 1] = WriteWord("page", j - 1, u[j - 1])

\* The operations of a write back
LEMMA WriteBackOpsAre ==
  ASSUME NEW u \in [Places -> Words], NEW F, F = WriteBackFrom(u)
  PROVE  F \in Seq(Operations) /\ WriteBackList(F, u)
<1> DEFINE l == [j \in 1..(SIZE - 1) |-> u[j - 1]]
           A == <<WriteMeta("page")>>
           B == WriteAll("page", l)
           m == SIZE - 1
<1>1. SIZE \in Nat /\ m \in Nat /\ m + 1 = SIZE BY HandleFacts
<1>2. l \in Seq(Words) /\ Len(l) = m /\ \A j \in 1..m : l[j] = u[j - 1]
  <2>1. \A j \in 1..m : j - 1 \in Places BY <1>1 DEF Places
  <2>2. l = [j \in 1..m |-> l[j]] /\ \A j \in 1..m : l[j] \in Words BY <2>1
  <2> HIDE DEF l, m
  <2>3. l \in Seq(Words) /\ Len(l) = m BY <1>1, <2>2
  <2> QED BY <2>3 DEF l, m
<1>3. A \in Seq(Operations) /\ Len(A) = 1 /\ A[1] = WriteMeta("page")
  <2>1. WriteMeta("page") \in Operations BY OperationFacts
  <2> QED BY <2>1
<1> HIDE DEF l
<1>4. B \in Seq(Operations) /\ Len(B) = m /\ \A j \in 1..m : B[j] = WriteWord("page", j - 1, l[j])
  BY <1>2, WriteAllAre
<1>5. F = A \o B BY DEF WriteBackFrom, l
<1> HIDE DEF A, B, m
<1>6. F \in Seq(Operations) /\ Len(F) = 1 + m /\ \A j \in 1..(1 + m) : F[j] = IF j <= 1 THEN A[j] ELSE B[j - 1]
  <2>1. /\ F \in Seq(Operations) /\ Len(F) = Len(A) + Len(B)
        /\ \A j \in 1..(Len(A) + Len(B)) : F[j] = IF j <= Len(A) THEN A[j] ELSE B[j - Len(A)]
    <3>1. A \in Seq(Operations) BY <1>3
    <3>2. B \in Seq(Operations) BY <1>4
    <3> QED BY <1>5, <3>1, <3>2, ConcatProperties
  <2> QED BY <1>3, <1>4, <2>1
<1>7. 1 + m = SIZE BY <1>1
<1>8. F[1] = A[1]
  <2>1. 1 \in 1..(1 + m) /\ 1 <= 1 BY <1>1
  <2> QED BY <1>6, <2>1
<1>9. \A j \in 1..m : F[j + 1] = B[j]
  <2>1. ASSUME NEW j \in 1..m PROVE F[j + 1] = B[j]
    <3>1. j + 1 \in 1..(1 + m) /\ ~(j + 1 <= 1) /\ (j + 1) - 1 = j BY <1>1
    <3> QED BY <1>6, <3>1
  <2> QED BY <2>1
<1> QED BY <1>2, <1>3, <1>4, <1>6, <1>7, <1>8, <1>9 DEF m, WriteBackList

-----------------------------------------------------------------------------
(* What a flash operation does to the page and to the recovery page *)

AreaShape(p) == p \in [meta : BOOLEAN, words : {p.words}]

RecoveryShape(c) == c \in [ptr : {"blank", "set", "null"}, meta : BOOLEAN, words : {c.words}]

PageAfter(p, op) == IF op.on = "page" THEN Performed(p, op) ELSE p

RecoveryAfter(c, op) ==
  IF op.on = "page" THEN c ELSE [Performed(c, op) EXCEPT !.ptr = Pointer(c.ptr, op)]

\* The word x is written to the page, or the header there is invalidated.
Wrote(p, c, p2, c2, at, x) ==
  AreaShape(p2) /\ p2.meta = p.meta /\ Update(p.words, at, x, p2.words) /\ c2 = c

CrossedOut(p, c, p2, c2, at) ==
  AreaShape(p2) /\ p2.meta = p.meta /\ Crossed(p.words, at, p2.words) /\ c2 = c

\* A word of the page is written, or a header of it invalidated.
LEMMA PageWritten ==
  ASSUME NEW p, AreaShape(p), NEW c, NEW op, NEW p2, p2 = PageAfter(p, op),
         NEW c2, c2 = RecoveryAfter(c, op), NEW at
  PROVE  /\ \A x \in Words : op = WriteWord("page", at, x) => Wrote(p, c, p2, c2, at, x)
         /\ op = Invalidation(at) => CrossedOut(p, c, p2, c2, at)
<1>1. ASSUME NEW x \in Words, op = WriteWord("page", at, x) PROVE Wrote(p, c, p2, c2, at, x)
  <2>1. x # InvalidHeader BY WordFacts
  <2>2. p2 = Performed(p, WriteWord("page", at, x)) /\ c2 = c
    BY <1>1 DEF PageAfter, RecoveryAfter, WriteWord, Op
  <2>3. p2 = [p EXCEPT !.words[at] = x] BY <2>1, <2>2 DEF Performed, WriteWord, Op, Written
  <2> DEFINE u == [p.words EXCEPT ![at] = x]
  <2>4. p2 = [p EXCEPT !.words = u] BY <2>3
  <2> HIDE DEF u
  <2>6. p2.words = u /\ p2.meta = p.meta /\ AreaShape(p2) BY <2>4 DEF AreaShape
  <2> QED BY <2>2, <2>6 DEF u, Update, Wrote
<1>2. ASSUME op = Invalidation(at) PROVE CrossedOut(p, c, p2, c2, at)
  <2>2. p2 = Performed(p, WriteWord("page", at, InvalidHeader)) /\ c2 = c
    BY <1>2 DEF PageAfter, RecoveryAfter, Invalidation, WriteWord, Op
  <2>3. p2 = [p EXCEPT !.words[at] = [p.words[at] EXCEPT !.handle = "invalid"]]
    BY <2>2 DEF Performed, WriteWord, Op, Written
  <2> DEFINE x == [p.words[at] EXCEPT !.handle = "invalid"]
             u == [p.words EXCEPT ![at] = x]
  <2> HIDE DEF x
  <2>4. p2 = [p EXCEPT !.words = u] BY <2>3 DEF x
  <2> HIDE DEF u
  <2>6. p2.words = u /\ p2.meta = p.meta /\ AreaShape(p2) BY <2>4 DEF AreaShape
  <2> QED BY <2>2, <2>6 DEF u, x, Update, Crossed, CrossedOut
<1> QED BY <1>1, <1>2

MetaWritten(p, c, p2, c2) == AreaShape(p2) /\ p2.meta /\ p2.words = p.words /\ c2 = c

PageGone(p, c, p2, c2) == AreaShape(p2) /\ ~p2.meta /\ p2.words = BlankPage.words /\ c2 = c

\* The page is erased, or gets its metadata.
LEMMA PageErased ==
  ASSUME NEW p, AreaShape(p), NEW c, NEW op, NEW p2, p2 = PageAfter(p, op),
         NEW c2, c2 = RecoveryAfter(c, op)
  PROVE  /\ op = Erase("page") => PageGone(p, c, p2, c2)
         /\ op = WriteMeta("page") => MetaWritten(p, c, p2, c2)
<1>1. ASSUME op = Erase("page") PROVE PageGone(p, c, p2, c2)
  <2> DEFINE u == BlankPage.words
  <2> HIDE DEF u
  <2>1. p2 = [p EXCEPT !.meta = FALSE, !.words = u] BY <1>1 DEF u, PageAfter, Performed, Erase, Op
  <2>2. c2 = c BY <1>1 DEF RecoveryAfter, Erase, Op
  <2> QED BY <2>1, <2>2 DEF AreaShape, PageGone, u
<1>2. ASSUME op = WriteMeta("page") PROVE MetaWritten(p, c, p2, c2)
  <2>1. p2 = [p EXCEPT !.meta = TRUE] BY <1>2 DEF PageAfter, Performed, WriteMeta, Op
  <2>2. c2 = c BY <1>2 DEF RecoveryAfter, WriteMeta, Op
  <2> QED BY <2>1, <2>2 DEF AreaShape, MetaWritten
<1> QED BY <1>1, <1>2

BackupGone(p, c, p2, c2) ==
  p2 = p /\ RecoveryShape(c2) /\ c2.ptr = "blank" /\ c2.words = BlankPage.words

BackupMeta(p, c, p2, c2) ==
  p2 = p /\ RecoveryShape(c2) /\ c2.ptr = c.ptr /\ c2.meta /\ c2.words = c.words

BackupWrote(p, c, p2, c2, at, x) ==
  p2 = p /\ RecoveryShape(c2) /\ c2.ptr = c.ptr /\ c2.meta = c.meta /\ Update(c.words, at, x, c2.words)

PointerIs(ptr, p, c, p2, c2) ==
  p2 = p /\ RecoveryShape(c2) /\ c2.ptr = ptr /\ c2.meta = c.meta /\ c2.words = c.words

\* The recovery page is erased, written to, or its pointer is set or cleared.
LEMMA RecoveryWritten ==
  ASSUME NEW p, NEW c, RecoveryShape(c), NEW op, NEW p2, p2 = PageAfter(p, op),
         NEW c2, c2 = RecoveryAfter(c, op), NEW at
  PROVE  /\ op = Erase("recovery") => BackupGone(p, c, p2, c2)
         /\ op = WriteMeta("recovery") => BackupMeta(p, c, p2, c2)
         /\ \A x \in Words : op = WriteWord("recovery", at, x) => BackupWrote(p, c, p2, c2, at, x)
         /\ op = SetPointer => PointerIs("set", p, c, p2, c2)
         /\ op = ClearPointer => PointerIs("null", p, c, p2, c2)
<1>1. ASSUME op = Erase("recovery") PROVE BackupGone(p, c, p2, c2)
  <2> DEFINE u == BlankPage.words
  <2> HIDE DEF u
  <2>1. c2 = [[c EXCEPT !.meta = FALSE, !.words = u] EXCEPT !.ptr = "blank"]
    BY <1>1 DEF u, RecoveryAfter, Performed, Pointer, Erase, Op
  <2>2. p2 = p BY <1>1 DEF PageAfter, Erase, Op
  <2> QED BY <2>1, <2>2 DEF RecoveryShape, BackupGone, u
<1>2. ASSUME op = WriteMeta("recovery") PROVE BackupMeta(p, c, p2, c2)
  <2>1. c2 = [[c EXCEPT !.meta = TRUE] EXCEPT !.ptr = c.ptr]
    BY <1>2 DEF RecoveryAfter, Performed, Pointer, WriteMeta, Op
  <2>2. p2 = p BY <1>2 DEF PageAfter, WriteMeta, Op
  <2> QED BY <2>1, <2>2 DEF RecoveryShape, BackupMeta
<1>3. ASSUME NEW x \in Words, op = WriteWord("recovery", at, x) PROVE BackupWrote(p, c, p2, c2, at, x)
  <2>1. x # InvalidHeader BY WordFacts
  <2>2. c2 = [[c EXCEPT !.words[at] = x] EXCEPT !.ptr = c.ptr]
    BY <1>3, <2>1 DEF RecoveryAfter, Performed, Pointer, WriteWord, Op, Written
  <2> DEFINE v == [c.words EXCEPT ![at] = x]
  <2>3. c2 = [[c EXCEPT !.words = v] EXCEPT !.ptr = c.ptr] BY <2>2
  <2> HIDE DEF v
  <2>4. c2.words = v /\ c2.ptr = c.ptr /\ c2.meta = c.meta /\ RecoveryShape(c2) BY <2>3 DEF RecoveryShape
  <2>5. p2 = p BY <1>3 DEF PageAfter, WriteWord, Op
  <2> QED BY <2>4, <2>5 DEF v, Update, BackupWrote
<1>4. ASSUME op = SetPointer PROVE PointerIs("set", p, c, p2, c2)
  <2>1. c2 = [c EXCEPT !.ptr = "set"] /\ p2 = p
    BY <1>4 DEF PageAfter, RecoveryAfter, Performed, Pointer, SetPointer, Op
  <2> QED BY <2>1 DEF RecoveryShape, PointerIs
<1>5. ASSUME op = ClearPointer PROVE PointerIs("null", p, c, p2, c2)
  <2>1. c2 = [c EXCEPT !.ptr = "null"] /\ p2 = p
    BY <1>5 DEF PageAfter, RecoveryAfter, Performed, Pointer, ClearPointer, Op
  <2> QED BY <2>1 DEF RecoveryShape, PointerIs
<1> QED BY <1>1, <1>2, <1>3, <1>4, <1>5

-----------------------------------------------------------------------------
(* The inductive invariant: the stages of the page p, the recovery page c and *)
(* the flash manager r, when the handle "kept" is the one that is kept        *)

Actions == Requests \cup {BuildMetadata, RecoverSeal} \cup {BootInvalidate(h) : h \in Handles}

StoredAt(p, c, h) == IF c.ptr = "set" THEN InBackup(c.words, h) ELSE InArea(p.words, h)

\* What KeptRequest asks of a request
Allowed(act, value, kept) ==
  /\ act.op = "replace" => act.handle = kept \/ value # NONE
  /\ act.op = "invalidate" => act.handle # kept

\* Only the first action can be one of the boot's.
QueueOk(q, value, kept) ==
  /\ q \in Seq(Actions)
  /\ \A j \in 2..Len(q) : q[j] \in Requests
  /\ \A j \in 1..Len(q) : q[j] \in Requests => Allowed(q[j], value, kept)

\* A walk finds whole entries, one of each handle, save for the entry that the
\* first action of the queue invalidates after a boot.
Clean(w, D, e, kept, q) ==
  /\ HasKept(w, Data(w, D), kept)
  /\ \/ Tidy(w, D, e) /\ (q # <<>> => Head(q) \in Requests)
     \/ q # <<>> /\ \E i \in D : Head(q) = BootInvalidate(w[i].handle) /\ Doubled(w, D, e, i)

SealedClean(w, D, e, kept, q) == w[e] = SealHeader /\ Clean(w, D, e, kept, q)

Ready(c, r) == r.mode = "ready" /\ r.defrag = "none" /\ c.ptr # "set"

Building(p, c, r) ==
  /\ Ready(c, r) /\ r.state = "building" /\ r.seal = 0 /\ r.invalid = 0
  /\ p.words = BlankPage.words /\ r.queue # <<>> /\ Head(r.queue) = BuildMetadata
  /\ \/ r.phase = "idle" /\ r.ops = <<>>
     \/ r.phase = "wait" /\ r.ops = <<WriteMeta("page")>>
     \/ r.phase = "wait" /\ r.ops = <<>> /\ p.meta

\* There is no entry yet.
Fresh(p, c, r) ==
  /\ Ready(c, r) /\ r.state = "ready" /\ r.seal = 0 /\ r.invalid = 0 /\ p.meta
  /\ p.words = BlankPage.words /\ r.phase = "idle" /\ r.ops = <<>>
  /\ r.queue # <<>> => Head(r.queue) \in Requests

\* The power has failed before the new seal was written.
Broken(p, c, r, kept) ==
  /\ Ready(c, r) /\ r.state = "ready" /\ p.meta /\ r.phase = "idle" /\ r.ops = <<>>
  /\ r.queue # <<>> /\ Head(r.queue) = RecoverSeal
  /\ \E D, e : /\ Torn(p.words, D, e, r.seal)
               /\ HasKept(p.words, Data(p.words, D) \ {r.seal}, kept)

Idle(p, c, r, kept) ==
  /\ Ready(c, r) /\ r.state = "ready" /\ p.meta /\ r.phase \in {"idle", "processing"} /\ r.ops = <<>>
  /\ r.phase = "processing" => r.queue # <<>>
  /\ \E D : SealedClean(p.words, D, r.seal, kept, r.queue)

\* The entry of h that is replaced is at old.
Replaces(w, S, h, old) ==
  IF old = NOWHERE THEN \A i \in S : w[i].handle # h ELSE old \in S /\ w[old].handle = h

\* The new entry is at s, of k words so far.
Starting(w, s, h, old, kept) ==
  \E D : /\ Tidy(w, D, s) /\ (w[s] = SealHeader \/ D = {})
         /\ h = kept \/ HasKept(w, Data(w, D), kept)
         /\ Replaces(w, Data(w, D), h, old)

Writing(w, s, h, v, old, k, kept) ==
  \E D : /\ Torn(w, D, s + LEN[h], s) /\ w[s].handle = h
         /\ h = kept \/ HasKept(w, Data(w, D) \ {s}, kept)
         /\ Replaces(w, Data(w, D) \ {s}, h, old)
         /\ \A j \in 1..(LEN[h] - 1) : w[s + j] = IF j < k THEN Word("data", 0, v) ELSE Blank

EntryWritten(w, e, old, kept) ==
  \E D : /\ w[e] = SealHeader /\ HasKept(w, Data(w, D), kept)
         /\ IF old = NOWHERE THEN Tidy(w, D, e) ELSE Doubled(w, D, e, old)

Replaced(w, e, kept) ==
  \E D : w[e] = SealHeader /\ HasKept(w, Data(w, D), kept) /\ Tidy(w, D, e)

ReplacingAt(w, s, h, v, old, k, kept) ==
  \/ k = 0 /\ Starting(w, s, h, old, kept)
  \/ k \in 1..LEN[h] /\ Writing(w, s, h, v, old, k, kept)
  \/ k = LEN[h] + 1 /\ EntryWritten(w, s + LEN[h], old, kept)
  \/ k = LEN[h] + 2 /\ Replaced(w, s + LEN[h], kept)

Replacing(p, c, r, kept) ==
  /\ Ready(c, r) /\ r.state = "ready" /\ p.meta /\ r.phase = "wait" /\ r.queue # <<>>
  /\ \E h \in Handles, v \in VALUES, old \in Places \cup {NOWHERE}, k \in Nat :
       /\ Head(r.queue) = Action("replace", h, v, "user")
       /\ r.seal \in Nat /\ r.seal + LEN[h] < SIZE
       /\ Remaining(r.ops, ReplaceOps(r.seal, h, v, old), k)
       /\ ReplacingAt(p.words, r.seal, h, v, old, k, kept)

\* The only operation, if it is not done, is the one that invalidates the entry.
Invalidating(p, c, r, kept) ==
  /\ Ready(c, r) /\ r.state = "ready" /\ p.meta /\ r.phase = "wait" /\ r.queue # <<>>
  /\ \E D : LET w == p.words IN
       /\ w[r.seal] = SealHeader /\ HasKept(w, Data(w, D), kept)
       /\ Head(r.queue).op = "invalidate"
       /\ \/ r.ops = <<>> /\ Tidy(w, D, r.seal)
          \/ \E i \in Data(w, D) :
               /\ r.ops = <<Invalidation(i)>>
               /\ Head(r.queue).handle = w[i].handle
               /\ \/ Head(r.queue) \in Requests /\ Tidy(w, D, r.seal)
                  \/ Head(r.queue) = BootInvalidate(w[i].handle) /\ Doubled(w, D, r.seal, i)

Recovering(p, c, r, kept) ==
  /\ Ready(c, r) /\ r.state = "ready" /\ p.meta /\ r.phase = "wait" /\ r.queue # <<>>
  /\ Head(r.queue) = RecoverSeal
  /\ \E D : LET w == p.words IN
       \/ /\ r.ops = <<>> /\ w[r.seal] = SealHeader
          /\ HasKept(w, Data(w, D), kept) /\ Tidy(w, D, r.seal)
       \/ \E t \in D :
            /\ Torn(w, D, r.seal, t) /\ HasKept(w, Data(w, D) \ {t}, kept)
            /\ IF w[t].handle = "invalid" THEN r.ops = <<WriteWord("page", r.seal, SealHeader)>>
               ELSE r.ops = <<Invalidation(t), WriteWord("page", r.seal, SealHeader)>>

Defragging(r, step) ==
  /\ r.mode = "defrag" /\ r.state = "defrag" /\ r.phase = "processing" /\ r.owner /\ r.found_all
  /\ r.queue # <<>> /\ r.defrag = step

\* The page is copied: the first k operations of the backup are done.
BackingUp(p, c, r, kept) ==
  /\ Defragging(r, "backup") /\ p.meta
  /\ \E D, e, k : LET l == LiveWords(p.words) IN
       /\ SealedClean(p.words, D, e, kept, r.queue)
       /\ k \in 0..(Len(l) + 3) /\ Remaining(r.ops, BackupFrom(l), k)
       /\ c.ptr = "set" <=> k = Len(l) + 3
       /\ k >= 1 => Copied(c.words, l, k - 2)
       /\ k >= 2 => c.meta

\* The backup is what counts.
BackedUp(c, r, E, x, kept) ==
  c.ptr = "set" /\ c.meta /\ c.words[x] = Blank /\ Clean(c.words, E, x, kept, r.queue)

Erased(p, c, r, kept) ==
  /\ Defragging(r, "backup") /\ r.ops = <<>> /\ p.words = BlankPage.words
  /\ \E E, x : BackedUp(c, r, E, x, kept)

WritingBack(p, c, r, kept) ==
  /\ Defragging(r, "write_back")
  /\ \E E, x, k : /\ BackedUp(c, r, E, x, kept)
                  /\ k \in 0..SIZE /\ Remaining(r.ops, WriteBackFrom(c.words), k)
                  /\ k >= 1 => p.meta
                  /\ p.words = [j \in Places |-> IF j < k - 1 THEN c.words[j] ELSE Blank]

Sealing(p, c, r, kept) ==
  /\ p.meta
  /\ \E E, x :
       /\ BackedUp(c, r, E, x, kept)
       /\ \/ /\ Defragging(r, "seal") /\ r.ops = <<WriteWord("page", x, SealHeader)>>
             /\ p.words = c.words
          \/ /\ Defragging(r, "seal") /\ r.ops = <<>> /\ Update(c.words, x, SealHeader, p.words)
          \/ /\ Defragging(r, "end") /\ r.ops = <<ClearPointer>>
             /\ Update(c.words, x, SealHeader, p.words)

Ending(p, c, r, kept) ==
  /\ Defragging(r, "end") /\ r.ops = <<>> /\ p.meta /\ c.ptr # "set"
  /\ \E D, e : SealedClean(p.words, D, e, kept, r.queue)

Stage(p, c, r, kept) ==
  \/ Building(p, c, r) \/ Fresh(p, c, r) \/ Broken(p, c, r, kept) \/ Idle(p, c, r, kept)
  \/ Replacing(p, c, r, kept) \/ Invalidating(p, c, r, kept) \/ Recovering(p, c, r, kept)
  \/ BackingUp(p, c, r, kept) \/ Erased(p, c, r, kept) \/ WritingBack(p, c, r, kept)
  \/ Sealing(p, c, r, kept) \/ Ending(p, c, r, kept)

Invariant(p, c, r, kept) ==
  /\ AreaShape(p) /\ RecoveryShape(c) /\ Shape(r)
  /\ QueueOk(r.queue, StoredAt(p, c, kept), kept)
  /\ Stage(p, c, r, kept)

KInv(kept) == Invariant(page, recovery, ram, kept)


-----------------------------------------------------------------------------
(* The flash operations of a replacement *)

\* Only legal writes lead from the words w to the words u.
LegalWords(w, u) ==
  \A i \in Places : u[i] # w[i] =>
    OverwriteLegal(w[i], IF u[i].handle = "invalid" THEN InvalidHeader ELSE u[i])

\* The writes that clear bits
LEMMA LegalUpdate ==
  ASSUME NEW w \in [Places -> Words], NEW at \in Places, NEW x, NEW u, Update(w, at, x, u),
         \/ w[at] = Blank
         \/ w[at] = SealHeader /\ x.handle \in Handles
         \/ w[at].handle \in Handles /\ x.handle = "invalid"
  PROVE  LegalWords(w, u)
<1>1. u[at] = x /\ \A i \in Places \ {at} : u[i] = w[i] BY DEF Update
<1>2. SUFFICES OverwriteLegal(w[at], IF u[at].handle = "invalid" THEN InvalidHeader ELSE u[at])
  BY <1>1 DEF LegalWords
<1>3. "invalid" \notin Handles BY HandleFacts
<1> QED BY <1>1, <1>3 DEF OverwriteLegal

\* The header goes where the seal is, or to the start of the blank page.
LEMMA ReplaceHeader ==
  ASSUME NEW w, NEW s, NEW h \in Handles, NEW old, NEW kept, Starting(w, s, h, old, kept),
         s + LEN[h] < SIZE, NEW u, Update(w, s, Word(h, LEN[h], NONE), u), NEW v
  PROVE  /\ Writing(u, s, h, v, old, 1, kept)
         /\ \A g \in Handles : InArea(u, g) = InArea(w, g)
         /\ LegalWords(w, u)
<1>1. PICK D : /\ Tidy(w, D, s) /\ (w[s] = SealHeader \/ D = {})
               /\ h = kept \/ HasKept(w, Data(w, D), kept)
               /\ Replaces(w, Data(w, D), h, old)
  BY DEF Starting
<1> DEFINE E == D \cup {s}
           S == Data(w, D)
<1>2. Chain(w, D, s) BY <1>1 DEF Tidy
<1>3. /\ w \in [Places -> Words] /\ s \in Places /\ s \in Nat /\ SIZE \in Nat
      /\ \A j \in Places : j > s => w[j] = Blank
  BY <1>2, ChainBounds
<1>4. /\ Torn(u, E, s + LEN[h], s) /\ Data(u, E) \ {s} = S /\ \A i \in D : u[i] = w[i]
      /\ \A g \in Handles : InArea(u, g) = InArea(w, g)
  <2> DEFINE x == s + LEN[h]
  <2>1. Tidy(w, D, s) BY <1>1
  <2>2. HasRoom(w, D, s, h, E, x) /\ Headed(w, s, h, u) BY <1>1 DEF HasRoom, Headed
  <2> HIDE DEF x, E, S
  <2>3. /\ Torn(u, E, x, s) /\ Data(u, E) \ {s} = Data(w, D)
        /\ \A i \in D : u[i] = w[i]
        /\ \A g \in Handles : InArea(u, g) = InArea(w, g)
    BY <2>1, <2>2, HeaderWritten
  <2> QED BY <2>3 DEF x, S
<1>5. u[s] = Word(h, LEN[h], NONE) /\ \A j \in Places \ {s} : u[j] = w[j] BY <1>3 DEF Update
<1>6. u[s].handle = h BY <1>5 DEF Word
<1>7. \A i \in S : u[i].handle = w[i].handle BY <1>4 DEF Data
<1>8. \A j \in 1..(LEN[h] - 1) : u[s + j] = IF j < 1 THEN Word("data", 0, v) ELSE Blank
  <2>1. LEN[h] \in Nat BY HandleFacts
  <2>2. ASSUME NEW j \in 1..(LEN[h] - 1) PROVE u[s + j] = Blank
    <3>1. s + j \in Places /\ s + j > s /\ s + j # s BY <1>3, <2>1 DEF Places
    <3> QED BY <1>3, <1>5, <3>1
  <2>3. \A j \in 1..(LEN[h] - 1) : ~(j < 1) BY <2>1
  <2> QED BY <2>2, <2>3
<1> HIDE DEF S
<1>9. h = kept \/ HasKept(u, S, kept) BY <1>1, <1>7 DEF HasKept, S
<1>10. Replaces(u, S, h, old) BY <1>1, <1>7 DEF Replaces, S
<1>11. Writing(u, s, h, v, old, 1, kept)
  <2> HIDE DEF E
  <2> QED BY <1>4, <1>6, <1>8, <1>9, <1>10 DEF Writing
<1>12. LegalWords(w, u)
  <2>1. w[s] = Blank \/ w[s] = SealHeader BY <1>2 DEF Chain
  <2>2. Word(h, LEN[h], NONE).handle \in Handles BY DEF Word
  <2> QED BY <1>3, <2>1, <2>2, LegalUpdate
<1> QED BY <1>4, <1>11, <1>12

\* The data words follow.
LEMMA ReplaceData ==
  ASSUME NEW w, NEW s, NEW h \in Handles, NEW v \in VALUES, NEW old, NEW kept, NEW k \in Nat,
         k >= 1, k < LEN[h], Writing(w, s, h, v, old, k, kept),
         NEW u, Update(w, s + k, Word("data", 0, v), u)
  PROVE  /\ Writing(u, s, h, v, old, k + 1, kept)
         /\ \A g \in Handles : InArea(u, g) = InArea(w, g)
         /\ LegalWords(w, u)
<1> DEFINE n == LEN[h]
           e == s + n
           x == Word("data", 0, v)
<1>1. PICK D : /\ Torn(w, D, e, s) /\ w[s].handle = h
               /\ h = kept \/ HasKept(w, Data(w, D) \ {s}, kept)
               /\ Replaces(w, Data(w, D) \ {s}, h, old)
               /\ \A j \in 1..(n - 1) : w[s + j] = IF j < k THEN x ELSE Blank
  BY DEF Writing
<1>2. Chain(w, D, e) /\ s \in D BY <1>1 DEF Torn
<1>3. n \in Nat /\ n >= 2 BY HandleFacts
<1>4. /\ w \in [Places -> Words] /\ s \in Nat /\ s \in Places /\ SIZE \in Nat /\ e \in Nat /\ e < SIZE
      /\ \A i \in D : i \in Places
  BY <1>2, ChainBounds
<1>5. s + k \in Places /\ s < s + k /\ s + k < e /\ s + k # s BY <1>3, <1>4 DEF Places
<1>6. /\ Torn(u, D, e, s) /\ Data(u, D) = Data(w, D) /\ \A i \in D : u[i] = w[i]
      /\ \A g \in Handles : InArea(u, g) = InArea(w, g)
  <2> HIDE DEF e
  <2> QED BY <1>1, <1>5, DataWritten
<1>7. u[s + k] = x /\ \A j \in Places \ {s + k} : u[j] = w[j] BY <1>4, <1>5 DEF Update
<1>8. \A j \in 1..(n - 1) : u[s + j] = IF j < k + 1 THEN x ELSE Blank
  <2>1. ASSUME NEW j \in 1..(n - 1) PROVE u[s + j] = IF j < k + 1 THEN x ELSE Blank
    <3>1. CASE j = k
      <4>1. j < k + 1 BY <3>1
      <4> QED BY <1>7, <3>1, <4>1
    <3>2. CASE j # k
      <4>1. s + j \in Places \ {s + k} BY <1>3, <1>4, <3>2 DEF Places
      <4>2. j < k <=> j < k + 1 BY <1>3, <3>2
      <4> QED BY <1>1, <1>7, <4>1, <4>2
    <3> QED BY <3>1, <3>2
  <2> QED BY <2>1
<1> DEFINE S == Data(w, D) \ {s}
<1>9. \A i \in S : u[i].handle = w[i].handle BY <1>6 DEF Data
<1> HIDE DEF S
<1>10. h = kept \/ HasKept(u, S, kept) BY <1>1, <1>9 DEF HasKept, S
<1>11. Replaces(u, S, h, old) BY <1>1, <1>9 DEF Replaces, S
<1>12. S = Data(u, D) \ {s} /\ u[s].handle = h BY <1>1, <1>2, <1>6 DEF S
<1>13. Writing(u, s, h, v, old, k + 1, kept)
  BY <1>6, <1>8, <1>10, <1>11, <1>12 DEF Writing
<1>14. LegalWords(w, u)
  <2>1. w[s + k] = Blank
    <3>1. k \in 1..(n - 1) /\ ~(k < k) BY <1>3
    <3> QED BY <1>1, <3>1
  <2> QED BY <1>4, <1>5, <2>1, LegalUpdate
<1> QED BY <1>6, <1>13, <1>14

\* The entry of h from s on is n words long, up to e.
Behind(s, h, n, e) == n = LEN[h] /\ e = s + n

\* The handle h holds v now.
NowHolds(w, u, h, v) == InArea(u, h) = v /\ \A g \in Handles \ {h} : InArea(u, g) = InArea(w, g)

\* With its seal the entry counts.
LEMMA ReplaceSeal ==
  ASSUME NEW w, NEW s, NEW h \in Handles, NEW v \in VALUES, NEW old, NEW kept \in Handles,
         NEW n, NEW e, Behind(s, h, n, e),
         Writing(w, s, h, v, old, n, kept), NEW u, Update(w, e, SealHeader, u)
  PROVE  EntryWritten(u, e, old, kept) /\ NowHolds(w, u, h, v) /\ LegalWords(w, u)
<1> DEFINE x == Word("data", 0, v)
<1>0. n = LEN[h] /\ e = s + n BY DEF Behind
<1>1. PICK D : /\ Torn(w, D, e, s) /\ w[s].handle = h
               /\ h = kept \/ HasKept(w, Data(w, D) \ {s}, kept)
               /\ Replaces(w, Data(w, D) \ {s}, h, old)
               /\ \A j \in 1..(n - 1) : w[s + j] = IF j < n THEN x ELSE Blank
  BY <1>0 DEF Writing
<1>2. Chain(w, D, e) /\ s \in D /\ w[e] = Blank BY <1>1 DEF Torn
<1>3. n \in Nat /\ n >= 2 BY <1>0, HandleFacts
<1>4. /\ w \in [Places -> Words] /\ s \in Nat /\ s \in Places /\ SIZE \in Nat /\ e \in Nat /\ e < SIZE
      /\ e \in Places
  BY <1>2, ChainBounds
<1>5. \A j \in (s + 1)..(e - 1) : w[j].value = v
  <2>1. ASSUME NEW j \in (s + 1)..(e - 1) PROVE w[j].value = v
    <3>1. j - s \in 1..(n - 1) /\ j - s < n /\ s + (j - s) = j BY <1>0, <1>3, <1>4
    <3>2. w[j] = x BY <1>1, <3>1
    <3> QED BY <3>2 DEF Word
  <2> QED BY <2>1
<1> HIDE DEF x
<1>6. /\ Chain(u, D, e) /\ u[e] = SealHeader /\ Data(u, D) = Data(w, D) /\ s \in Data(w, D)
      /\ \A i \in D : u[i] = w[i]
      /\ (\A i \in Data(w, D) \ {s} : w[i].handle # h) => Tidy(u, D, e)
      /\ \A o \in Data(w, D) \ {s} : w[o].handle = h => Doubled(u, D, e, o)
      /\ InArea(u, h) = v
      /\ \A g \in Handles \ {h} : InArea(u, g) = InArea(w, g)
  BY <1>1, <1>5, SealWritten
<1>7. HasKept(u, Data(u, D), kept)
  <2>1. u[s] = w[s] /\ s \in Data(u, D) BY <1>2, <1>6
  <2>2. CASE h = kept BY <1>1, <2>1, <2>2 DEF HasKept
  <2>3. CASE HasKept(w, Data(w, D) \ {s}, kept)
    <3>1. PICK i \in Data(w, D) \ {s} : w[i].handle = kept BY <2>3 DEF HasKept
    <3>2. i \in Data(u, D) /\ u[i].handle = kept BY <1>6, <3>1 DEF Data
    <3> QED BY <3>2 DEF HasKept
  <2> QED BY <1>1, <2>2, <2>3
<1>8. IF old = NOWHERE THEN Tidy(u, D, e) ELSE Doubled(u, D, e, old) BY <1>1, <1>6 DEF Replaces
<1>9. EntryWritten(u, e, old, kept) BY <1>6, <1>7, <1>8 DEF EntryWritten
<1>10. LegalWords(w, u) BY <1>2, <1>4, LegalUpdate
<1> QED BY <1>6, <1>9, <1>10 DEF NowHolds

\* The entry that was replaced goes.
LEMMA ReplaceOld ==
  ASSUME NEW w, NEW e, NEW old \in Places, NEW kept \in Handles, EntryWritten(w, e, old, kept),
         NEW u, Crossed(w, old, u)
  PROVE  /\ Replaced(u, e, kept)
         /\ \A g \in Handles : InArea(u, g) = InArea(w, g)
         /\ LegalWords(w, u)
<1>1. PICK D : w[e] = SealHeader /\ HasKept(w, Data(w, D), kept) /\ Doubled(w, D, e, old)
  <2>1. old # NOWHERE BY HandleFacts DEF Places, NOWHERE
  <2> QED BY <2>1 DEF EntryWritten
<1>0. Update(w, old, [w[old] EXCEPT !.handle = "invalid"], u) BY DEF Crossed
<1>2. /\ Tidy(u, D, e) /\ u[e] = SealHeader /\ HasKept(u, Data(u, D), kept)
      /\ \A g \in Handles : InArea(u, g) = InArea(w, g)
  BY <1>0, <1>1, ReplacedInvalidated
<1>3. LegalWords(w, u)
  <2>1. w \in [Places -> Words] /\ w[old].handle \in Handles BY <1>1 DEF Doubled, Data, Chain
  <2>2. [w[old] EXCEPT !.handle = "invalid"].handle = "invalid"
    <3>1. w[old] \in Words BY <2>1
    <3> QED BY <3>1 DEF Words
  <2> QED BY <1>0, <2>1, <2>2, LegalUpdate
<1> QED BY <1>2, <1>3 DEF Replaced


-----------------------------------------------------------------------------
(* The stages go on with their flash operations *)

Advanced(r, r2) ==
  /\ Shape(r2) /\ r2.mode = r.mode /\ r2.state = r.state /\ r2.seal = r.seal
  /\ r2.invalid = r.invalid /\ r2.queue = r.queue /\ r2.phase = r.phase /\ r2.ops = Tail(r.ops)
  /\ r2.defrag = r.defrag /\ r2.found_all = r.found_all /\ r2.owner = r.owner

\* Effective of a flash manager r
EffectiveOf(r) ==
  /\ r.phase = "wait"
  /\ IF Head(r.queue).op = "replace"
     THEN \A j \in DOMAIN r.ops : r.ops[j].word # SealHeader
     ELSE r.ops = <<>>

SameStored(p, c, p2, c2) == \A g \in Handles : StoredAt(p2, c2, g) = StoredAt(p, c, g)

\* The request "act" takes effect.
Takes(act, p, c, p2, c2) ==
  /\ act \in Requests
  /\ StoredAt(p2, c2, act.handle) = act.value
  /\ \A g \in Handles \ {act.handle} : StoredAt(p2, c2, g) = StoredAt(p, c, g)

\* What an operation may do to what is stored: nothing, or what the request at the
\* head of the queue asks for, which is then carried out.
Effects(p, c, r, p2, c2, r2) ==
  \/ /\ SameStored(p, c, p2, c2)
     /\ (EffectiveOf(r2) <=> EffectiveOf(r)) \/ (r.queue # <<>> /\ Head(r.queue) \notin Requests)
  \/ ~EffectiveOf(r) /\ EffectiveOf(r2) /\ r.queue # <<>> /\ Takes(Head(r.queue), p, c, p2, c2)

LegalStep(p, p2) == p2.meta = p.meta => LegalWords(p.words, p2.words)

\* A request is one of an entry and a value, or of an entry.
LEMMA RequestFacts ==
  /\ \A h \in Handles, v \in VALUES :
       LET act == Action("replace", h, v, "user")
       IN act \in Requests /\ act.op = "replace" /\ act.handle = h /\ act.value = v /\ act.own = "user"
  /\ \A act \in Requests :
       /\ act.own = "user" /\ act.handle \in Handles
       /\ \/ act.op = "replace" /\ act.value \in VALUES
             /\ act = Action("replace", act.handle, act.value, "user")
          \/ act.op = "invalidate" /\ act.value = NONE
  /\ BuildMetadata.op = "build_metadata" /\ BuildMetadata.own = "boot"
  /\ RecoverSeal.op = "recover_seal" /\ RecoverSeal.own = "boot"
  /\ \A h : BootInvalidate(h).op = "invalidate" /\ BootInvalidate(h).own = "boot" /\ BootInvalidate(h).handle = h
  /\ BuildMetadata \notin Requests /\ RecoverSeal \notin Requests /\ BuildMetadata # RecoverSeal
  /\ \A h : BootInvalidate(h) \notin Requests /\ BootInvalidate(h) # RecoverSeal /\ BootInvalidate(h) # BuildMetadata
<1>1. \A act \in Requests :
       /\ act.own = "user" /\ act.handle \in Handles
       /\ \/ act.op = "replace" /\ act.value \in VALUES
             /\ act = Action("replace", act.handle, act.value, "user")
          \/ act.op = "invalidate" /\ act.value = NONE
  BY DEF Requests, Action
<1>2. \A h \in Handles, v \in VALUES :
       LET act == Action("replace", h, v, "user")
       IN act \in Requests /\ act.op = "replace" /\ act.handle = h /\ act.value = v /\ act.own = "user"
  BY DEF Requests, Action
<1>3. /\ BuildMetadata.op = "build_metadata" /\ BuildMetadata.own = "boot"
      /\ RecoverSeal.op = "recover_seal" /\ RecoverSeal.own = "boot"
      /\ \A h : BootInvalidate(h).op = "invalidate" /\ BootInvalidate(h).own = "boot" /\ BootInvalidate(h).handle = h
  BY DEF BuildMetadata, RecoverSeal, BootInvalidate, Action
<1> QED BY <1>1, <1>2, <1>3

NoSeal(ops) == \A j \in DOMAIN ops : ops[j].word # SealHeader

\* A replacement has its effect when the new seal is written.
LEMMA ReplaceEffective ==
  ASSUME NEW s \in Nat, NEW h \in Handles, NEW v \in VALUES, NEW old \in Places \cup {NOWHERE},
         NEW F, Replacement(F, s, h, v, old), NEW k \in Nat, NEW ops, Remaining(ops, F, k)
  PROVE  NoSeal(ops) <=> k > LEN[h]
<1> DEFINE n == LEN[h]
<1>1. /\ F \in Seq(Operations)
      /\ Len(F) = IF old = NOWHERE THEN n + 1 ELSE n + 2
      /\ F[n + 1] = WriteWord("page", s + n, SealHeader)
      /\ old # NOWHERE => F[n + 2] = Invalidation(old)
  <2>1. F \in Seq(Operations) /\ ReplaceList(F, s, h, v, old) BY ReplaceOpsAre
  <2> QED BY <2>1 DEF ReplaceList
<1>2. n \in Nat BY HandleFacts
<1>3. /\ ops \in Seq(Operations) /\ Len(ops) = Len(F) - k /\ k \in 0..Len(F)
      /\ \A j \in 1..(Len(F) - k) : ops[j] = F[k + j]
  <2>1. F \in Seq(Operations) BY <1>1
  <2>2. Rest(ops, F, k) BY <2>1, RemainingNext
  <2> QED BY <2>2 DEF Rest
<1>4. DOMAIN ops = 1..(Len(F) - k) BY <1>3
<1> HIDE DEF n
<1>5. CASE k > n
  <2>1. ASSUME NEW j \in 1..(Len(F) - k) PROVE ops[j].word # SealHeader
    <3>1. k + j = n + 2 /\ old # NOWHERE
      <4>1. CASE old = NOWHERE
        <5>1. Len(F) = n + 1 BY <1>1, <4>1
        <5> QED BY <1>2, <1>5, <5>1
      <4>2. CASE old # NOWHERE
        <5>1. Len(F) = n + 2 BY <1>1, <4>2
        <5> QED BY <1>2, <1>5, <4>2, <5>1
      <4> QED BY <4>1, <4>2
    <3>2. ops[j] = Invalidation(old) BY <1>1, <1>3, <3>1
    <3>3. ops[j].word = InvalidHeader BY <3>2, OperationFacts DEF Invalidation
    <3> QED BY <3>3, OperationFacts
  <2> QED BY <1>4, <1>5, <2>1 DEF n, NoSeal
<1>6. CASE ~(k > n)
  <2> DEFINE j == n + 1 - k
  <2>1. j \in 1..(Len(F) - k) /\ k + j = n + 1 BY <1>1, <1>2, <1>6
  <2>2. ops[j] = WriteWord("page", s + n, SealHeader) BY <1>1, <1>3, <2>1
  <2>3. ops[j].word = SealHeader BY <2>2, OperationFacts
  <2> HIDE DEF j
  <2> QED BY <1>4, <1>6, <2>1, <2>3 DEF n, NoSeal
<1> QED BY <1>5, <1>6


\* The flash gets to the first operation of r.
Operated(p, c, r, p2, c2, r2) ==
  /\ AreaShape(p) /\ RecoveryShape(c) /\ r.ops # <<>> /\ Advanced(r, r2)
  /\ p2 = PageAfter(p, Head(r.ops)) /\ c2 = RecoveryAfter(c, Head(r.ops))

\* What a step on the flash has to show
Carried(p, c, r, p2, c2, r2, kept) ==
  /\ AreaShape(p2) /\ RecoveryShape(c2) /\ Stage(p2, c2, r2, kept)
  /\ Effects(p, c, r, p2, c2, r2) /\ LegalStep(p, p2)

\* While the pointer is not set, it is the page that counts.
LEMMA AreaCounts ==
  ASSUME NEW p, NEW c, c.ptr # "set", NEW p2
  PROVE  /\ \A g : StoredAt(p, c, g) = InArea(p.words, g)
         /\ (\A g \in Handles : InArea(p2.words, g) = InArea(p.words, g)) => SameStored(p, c, p2, c)
BY DEF StoredAt, SameStored

\* A word of the page is written.
LEMMA WordOperated ==
  ASSUME NEW p, NEW c, NEW r, NEW p2, NEW c2, NEW r2, Operated(p, c, r, p2, c2, r2), NEW at
  PROVE  /\ \A x \in Words : Head(r.ops) = WriteWord("page", at, x) => Wrote(p, c, p2, c2, at, x)
         /\ Head(r.ops) = Invalidation(at) => CrossedOut(p, c, p2, c2, at)
<1> DEFINE op == Head(r.ops)
<1>1. AreaShape(p) /\ p2 = PageAfter(p, op) /\ c2 = RecoveryAfter(c, op) BY DEF Operated
<1> HIDE DEF op
<1>2. /\ \A x \in Words : op = WriteWord("page", at, x) => Wrote(p, c, p2, c2, at, x)
      /\ op = Invalidation(at) => CrossedOut(p, c, p2, c2, at)
  BY <1>1, PageWritten
<1> QED BY <1>2 DEF op

\* A replacement goes on: its entry, its seal, the entry it replaces.
LEMMA ReplacingOperates ==
  ASSUME NEW p, NEW c, NEW r, NEW p2, NEW c2, NEW r2, Operated(p, c, r, p2, c2, r2),
         NEW kept \in Handles, Replacing(p, c, r, kept)
  PROVE  Carried(p, c, r, p2, c2, r2, kept)
<1>1. /\ Ready(c, r) /\ r.state = "ready" /\ p.meta /\ r.phase = "wait" /\ r.queue # <<>>
      /\ c.ptr # "set" /\ RecoveryShape(c) /\ r.ops # <<>> /\ Advanced(r, r2)
  BY DEF Replacing, Ready, Operated
<1> DEFINE s == r.seal
           w == p.words
           u == p2.words
<1>2. PICK h \in Handles, v \in VALUES, old \in Places \cup {NOWHERE}, k \in Nat :
        /\ Head(r.queue) = Action("replace", h, v, "user")
        /\ s \in Nat /\ s + LEN[h] < SIZE
        /\ Remaining(r.ops, ReplaceOps(s, h, v, old), k)
        /\ ReplacingAt(w, s, h, v, old, k, kept)
  BY DEF Replacing
<1> DEFINE F == ReplaceOps(s, h, v, old)
           n == LEN[h]
<1>3. Replacement(F, s, h, v, old) /\ Remaining(r.ops, F, k) BY <1>2 DEF Replacement
<1> HIDE DEF F
<1>4. F \in Seq(Operations) /\ ReplaceList(F, s, h, v, old) BY <1>2, <1>3, ReplaceOpsAre
<1>5. NextOp(r.ops, F, k) BY <1>1, <1>3, <1>4, RemainingNext
<1>6. k < Len(F) /\ Head(r.ops) = F[k + 1] /\ Remaining(r2.ops, F, k + 1) BY <1>1, <1>5 DEF NextOp, Advanced
<1>7. n \in Nat /\ n >= 2 /\ SIZE \in Nat BY HandleFacts
<1>8. (EffectiveOf(r) <=> k > n) /\ (EffectiveOf(r2) <=> k + 1 > n)
  <2>1. Head(r.queue).op = "replace" BY <1>2, RequestFacts
  <2>2. NoSeal(r.ops) <=> k > n
    BY <1>2, <1>3, ReplaceEffective
  <2>3. k + 1 \in Nat BY <1>2
  <2>4. NoSeal(r2.ops) <=> k + 1 > n
    BY <1>2, <1>3, <1>6, <2>3, ReplaceEffective
  <2>5. r2.phase = r.phase /\ r2.queue = r.queue BY <1>1 DEF Advanced
  <2> QED BY <1>1, <2>1, <2>2, <2>4, <2>5 DEF EffectiveOf, NoSeal
<1> DEFINE Goes == /\ AreaShape(p2) /\ p2.meta = p.meta /\ c2 = c
                   /\ ReplacingAt(u, s, h, v, old, k + 1, kept)
                   /\ LegalWords(w, u)
                   /\ \/ k # n /\ \A g \in Handles : InArea(u, g) = InArea(w, g)
                      \/ /\ k = n /\ InArea(u, h) = v
                         /\ \A g \in Handles \ {h} : InArea(u, g) = InArea(w, g)
<1>9. ASSUME k = 0 PROVE Goes
  <2>1. Starting(w, s, h, old, kept) BY <1>2, <1>7, <1>9 DEF ReplacingAt
  <2>2. Head(r.ops) = WriteWord("page", s, Word(h, LEN[h], NONE)) BY <1>4, <1>6, <1>9 DEF ReplaceList
  <2>3. s \in Places BY <1>2, <1>7 DEF Places
  <2>4. Word(h, LEN[h], NONE) \in Words BY WordFacts
  <2>5. Wrote(p, c, p2, c2, s, Word(h, LEN[h], NONE)) BY <2>2, <2>4, WordOperated
  <2>9. AreaShape(p2) /\ p2.meta = p.meta /\ c2 = c /\ Update(w, s, Word(h, LEN[h], NONE), u)
    BY <2>5 DEF Wrote
  <2>6. Writing(u, s, h, v, old, 1, kept) /\ LegalWords(w, u) /\ \A g \in Handles : InArea(u, g) = InArea(w, g)
    <3> HIDE DEF s, w, u
    <3> QED BY <1>2, <2>1, <2>9, ReplaceHeader
  <2>7. ReplacingAt(u, s, h, v, old, k + 1, kept) BY <1>7, <1>9, <2>6 DEF ReplacingAt
  <2>8. k # n BY <1>7, <1>9
  <2> QED BY <2>9, <2>6, <2>7, <2>8
<1>10. ASSUME 1 <= k /\ k < n PROVE Goes
  <2>1. Writing(w, s, h, v, old, k, kept) BY <1>2, <1>7, <1>10 DEF ReplacingAt
  <2>2. Head(r.ops) = WriteWord("page", s + k, Word("data", 0, v))
    <3>1. k + 1 \in 2..n /\ s + (k + 1) - 1 = s + k BY <1>2, <1>7, <1>10
    <3> QED BY <1>4, <1>6, <3>1 DEF ReplaceList
  <2>3. s + k \in Places BY <1>2, <1>7, <1>10 DEF Places
  <2>4. Word("data", 0, v) \in Words BY WordFacts
  <2>5. Wrote(p, c, p2, c2, s + k, Word("data", 0, v)) BY <2>2, <2>4, WordOperated
  <2>9. AreaShape(p2) /\ p2.meta = p.meta /\ c2 = c /\ Update(w, s + k, Word("data", 0, v), u)
    BY <2>5 DEF Wrote
  <2>6. Writing(u, s, h, v, old, k + 1, kept) /\ LegalWords(w, u) /\ \A g \in Handles : InArea(u, g) = InArea(w, g)
    <3> HIDE DEF s, w, u
    <3> QED BY <1>10, <2>1, <2>9, ReplaceData
  <2>7. ReplacingAt(u, s, h, v, old, k + 1, kept)
    <3>1. k + 1 \in 1..n BY <1>7, <1>10
    <3> QED BY <2>6, <3>1 DEF ReplacingAt
  <2>8. k # n BY <1>7, <1>10
  <2> QED BY <2>9, <2>6, <2>7, <2>8
<1>11. ASSUME k = n PROVE Goes
  <2>1. Writing(w, s, h, v, old, n, kept) BY <1>2, <1>7, <1>11 DEF ReplacingAt
  <2>2. Head(r.ops) = WriteWord("page", s + n, SealHeader) BY <1>4, <1>6, <1>11 DEF ReplaceList
  <2>3. s + n \in Places BY <1>2, <1>7 DEF Places
  <2>4. SealHeader \in Words BY WordFacts
  <2>5. Wrote(p, c, p2, c2, s + n, SealHeader) BY <2>2, <2>4, WordOperated
  <2>9. AreaShape(p2) /\ p2.meta = p.meta /\ c2 = c /\ Update(w, s + n, SealHeader, u) BY <2>5 DEF Wrote
  <2>6. /\ EntryWritten(u, s + n, old, kept) /\ LegalWords(w, u)
        /\ InArea(u, h) = v /\ \A g \in Handles \ {h} : InArea(u, g) = InArea(w, g)
    <3> DEFINE e == s + n
    <3>1. Behind(s, h, n, e) BY DEF Behind
    <3> HIDE DEF s, w, u, n, e
    <3>2. Writing(w, s, h, v, old, n, kept) /\ Update(w, e, SealHeader, u) BY <2>1, <2>9 DEF e
    <3>3. EntryWritten(u, e, old, kept) /\ NowHolds(w, u, h, v) /\ LegalWords(w, u)
      BY <3>1, <3>2, ReplaceSeal
    <3> QED BY <3>3 DEF e, NowHolds
  <2>7. ReplacingAt(u, s, h, v, old, k + 1, kept) BY <1>11, <2>6 DEF ReplacingAt
  <2> QED BY <1>11, <2>9, <2>6, <2>7
<1>12. ASSUME k > n PROVE Goes
  <2>1. k = n + 1 /\ old # NOWHERE
    <3>1. old # NOWHERE
      <4>1. SUFFICES ASSUME old = NOWHERE PROVE FALSE OBVIOUS
      <4>2. Len(F) = n + 1 BY <1>4, <4>1 DEF ReplaceList
      <4> QED BY <1>6, <1>7, <1>12, <4>2
    <3>2. Len(F) = n + 2 BY <1>4, <3>1 DEF ReplaceList
    <3> QED BY <1>6, <1>7, <1>12, <3>1, <3>2
  <2>2. EntryWritten(w, s + n, old, kept) BY <1>2, <1>7, <2>1 DEF ReplacingAt
  <2>3. Head(r.ops) = Invalidation(old)
    <3>1. k + 1 = n + 2 BY <1>7, <2>1
    <3> QED BY <1>4, <1>6, <2>1, <3>1 DEF ReplaceList
  <2>4. old \in Places BY <1>2, <2>1
  <2>5. CrossedOut(p, c, p2, c2, old) BY <2>3, WordOperated
  <2>9. AreaShape(p2) /\ p2.meta = p.meta /\ c2 = c /\ Crossed(w, old, u) BY <2>5 DEF CrossedOut
  <2>6. Replaced(u, s + n, kept) /\ LegalWords(w, u) /\ \A g \in Handles : InArea(u, g) = InArea(w, g)
    <3> DEFINE e == s + n
    <3> HIDE DEF s, w, u, n, e
    <3>1. EntryWritten(w, e, old, kept) BY <2>2 DEF e
    <3>2. Replaced(u, e, kept) /\ LegalWords(w, u) /\ \A g \in Handles : InArea(u, g) = InArea(w, g)
      BY <3>1, <2>4, <2>9, ReplaceOld
    <3> QED BY <3>2 DEF e
  <2>7. ReplacingAt(u, s, h, v, old, k + 1, kept)
    <3>1. k + 1 = n + 2 BY <1>7, <2>1
    <3> QED BY <2>6, <3>1 DEF ReplacingAt
  <2>8. k # n BY <1>7, <1>12
  <2> QED BY <2>9, <2>6, <2>7, <2>8
<1>13. Goes
  <2> HIDE DEF Goes, F, n
  <2> QED BY <1>2, <1>7, <1>9, <1>10, <1>11, <1>12 DEF n
<1>14. Replacing(p2, c2, r2, kept)
  <2>1. Ready(c2, r2) /\ r2.state = "ready" /\ r2.phase = "wait" /\ r2.queue = r.queue /\ r2.seal = s
    BY <1>1, <1>13 DEF Ready, Advanced
  <2>2. k + 1 \in Nat BY <1>2
  <2>3. Remaining(r2.ops, ReplaceOps(s, h, v, old), k + 1) BY <1>6 DEF F
  <2>4. ReplacingAt(u, s, h, v, old, k + 1, kept) /\ p2.meta BY <1>1, <1>13
  <2> HIDE DEF u
  <2> QED BY <1>1, <1>2, <2>1, <2>2, <2>3, <2>4 DEF Replacing, u
<1>15. Effects(p, c, r, p2, c2, r2)
  <2>1. CASE k # n
    <3>1. SameStored(p, c, p2, c2) BY <1>1, <1>13, <2>1, AreaCounts
    <3>2. EffectiveOf(r2) <=> EffectiveOf(r) BY <1>2, <1>7, <1>8, <2>1
    <3> QED BY <3>1, <3>2 DEF Effects
  <2>2. CASE k = n
    <3>1. ~EffectiveOf(r) /\ EffectiveOf(r2) BY <1>2, <1>7, <1>8, <2>2
    <3>2. LET act == Head(r.queue) IN act \in Requests /\ act.handle = h /\ act.value = v
      BY <1>2, RequestFacts
    <3>3. InArea(u, h) = v /\ \A g \in Handles \ {h} : InArea(u, g) = InArea(w, g) BY <1>13, <2>2
    <3>4. \A g : StoredAt(p, c, g) = InArea(w, g) /\ StoredAt(p2, c2, g) = InArea(u, g)
      BY <1>1, <1>13 DEF StoredAt
    <3>5. Takes(Head(r.queue), p, c, p2, c2) BY <3>2, <3>3, <3>4 DEF Takes
    <3> QED BY <1>1, <3>1, <3>5 DEF Effects
  <2> QED BY <2>1, <2>2
<1>16. AreaShape(p2) /\ RecoveryShape(c2) /\ LegalStep(p, p2) BY <1>1, <1>13 DEF LegalStep
<1> QED BY <1>14, <1>15, <1>16 DEF Carried, Stage


\* The other operations
LEMMA OtherOperated ==
  ASSUME NEW p, NEW c, NEW r, NEW p2, NEW c2, NEW r2, Operated(p, c, r, p2, c2, r2), NEW at
  PROVE  /\ Head(r.ops) = Erase("page") => PageGone(p, c, p2, c2)
         /\ Head(r.ops) = WriteMeta("page") => MetaWritten(p, c, p2, c2)
         /\ Head(r.ops) = Erase("recovery") => BackupGone(p, c, p2, c2)
         /\ Head(r.ops) = WriteMeta("recovery") => BackupMeta(p, c, p2, c2)
         /\ \A x \in Words : Head(r.ops) = WriteWord("recovery", at, x) => BackupWrote(p, c, p2, c2, at, x)
         /\ Head(r.ops) = SetPointer => PointerIs("set", p, c, p2, c2)
         /\ Head(r.ops) = ClearPointer => PointerIs("null", p, c, p2, c2)
<1> DEFINE op == Head(r.ops)
<1>1. AreaShape(p) /\ RecoveryShape(c) /\ p2 = PageAfter(p, op) /\ c2 = RecoveryAfter(c, op) BY DEF Operated
<1> HIDE DEF op
<1>2. /\ op = Erase("page") => PageGone(p, c, p2, c2)
      /\ op = WriteMeta("page") => MetaWritten(p, c, p2, c2)
  BY <1>1, PageErased
<1>3. /\ op = Erase("recovery") => BackupGone(p, c, p2, c2)
      /\ op = WriteMeta("recovery") => BackupMeta(p, c, p2, c2)
      /\ \A x \in Words : op = WriteWord("recovery", at, x) => BackupWrote(p, c, p2, c2, at, x)
      /\ op = SetPointer => PointerIs("set", p, c, p2, c2)
      /\ op = ClearPointer => PointerIs("null", p, c, p2, c2)
  BY <1>1, RecoveryWritten
<1> QED BY <1>2, <1>3 DEF op

\* The page gets its metadata.
LEMMA BuildingOperates ==
  ASSUME NEW p, NEW c, NEW r, NEW p2, NEW c2, NEW r2, Operated(p, c, r, p2, c2, r2),
         NEW kept \in Handles, Building(p, c, r)
  PROVE  Carried(p, c, r, p2, c2, r2, kept)
<1>1. /\ Ready(c, r) /\ r.state = "building" /\ r.seal = 0 /\ r.invalid = 0
      /\ p.words = BlankPage.words /\ r.queue # <<>> /\ Head(r.queue) = BuildMetadata
      /\ r.phase = "wait" /\ r.ops = <<WriteMeta("page")>>
      /\ RecoveryShape(c) /\ Advanced(r, r2)
  BY DEF Building, Operated
<1>2. Head(r.ops) = WriteMeta("page") /\ Tail(r.ops) = <<>> BY <1>1
<1>3. MetaWritten(p, c, p2, c2) BY <1>2, OtherOperated
<1>4. AreaShape(p2) /\ p2.meta /\ p2.words = p.words /\ c2 = c BY <1>3 DEF MetaWritten
<1>5. Building(p2, c2, r2) BY <1>1, <1>2, <1>4 DEF Building, Ready, Advanced
<1>6. Effects(p, c, r, p2, c2, r2)
  <2>1. SameStored(p, c, p2, c2) BY <1>4 DEF SameStored, StoredAt
  <2>2. Head(r.queue) \notin Requests BY <1>1, RequestFacts
  <2> QED BY <1>1, <2>1, <2>2 DEF Effects
<1>7. LegalStep(p, p2) BY <1>4 DEF LegalStep, LegalWords
<1> QED BY <1>1, <1>4, <1>5, <1>6, <1>7 DEF Carried, Stage

\* An entry is invalidated, at a user's request or after a boot.
LEMMA InvalidatingOperates ==
  ASSUME NEW p, NEW c, NEW r, NEW p2, NEW c2, NEW r2, Operated(p, c, r, p2, c2, r2),
         NEW kept \in Handles, Invalidating(p, c, r, kept), NEW value, QueueOk(r.queue, value, kept)
  PROVE  Carried(p, c, r, p2, c2, r2, kept)
<1>1. /\ Ready(c, r) /\ r.state = "ready" /\ p.meta /\ r.phase = "wait" /\ r.queue # <<>>
      /\ c.ptr # "set" /\ RecoveryShape(c) /\ r.ops # <<>> /\ Advanced(r, r2)
  BY DEF Invalidating, Ready, Operated
<1> DEFINE e == r.seal
           w == p.words
           u == p2.words
           act == Head(r.queue)
<1>2. PICK D :
       /\ w[e] = SealHeader /\ HasKept(w, Data(w, D), kept) /\ act.op = "invalidate"
       /\ \/ r.ops = <<>> /\ Tidy(w, D, e)
          \/ \E i \in Data(w, D) :
               /\ r.ops = <<Invalidation(i)>>
               /\ act.handle = w[i].handle
               /\ \/ act \in Requests /\ Tidy(w, D, e)
                  \/ act = BootInvalidate(w[i].handle) /\ Doubled(w, D, e, i)
  BY DEF Invalidating
<1>3. PICK i \in Data(w, D) :
        /\ r.ops = <<Invalidation(i)>>
        /\ act.handle = w[i].handle
        /\ \/ act \in Requests /\ Tidy(w, D, e)
           \/ act = BootInvalidate(w[i].handle) /\ Doubled(w, D, e, i)
  BY <1>1, <1>2
<1>4. Head(r.ops) = Invalidation(i) /\ Tail(r.ops) = <<>> BY <1>3
<1>5. CrossedOut(p, c, p2, c2, i) BY <1>4, WordOperated
<1>6. AreaShape(p2) /\ p2.meta = p.meta /\ Crossed(w, i, u) /\ c2 = c BY <1>5 DEF CrossedOut
<1>7. Update(w, i, [w[i] EXCEPT !.handle = "invalid"], u) BY <1>6 DEF Crossed
<1> DEFINE h == w[i].handle
<1>8. h \in Handles BY DEF Data
<1>9. act \in Requests => h # kept
  <2>1. r.queue \in Seq(Actions) /\ \A j \in 1..Len(r.queue) : r.queue[j] \in Requests => Allowed(r.queue[j], value, kept)
    BY DEF QueueOk
  <2>2. act = r.queue[1] /\ 1 \in 1..Len(r.queue) BY <1>1, <2>1
  <2> QED BY <1>2, <1>3, <2>1, <2>2 DEF Allowed
<1>10. /\ Tidy(u, D, e) /\ u[e] = SealHeader /\ HasKept(u, Data(u, D), kept)
       /\ \A g \in Handles \ {h} : InArea(u, g) = InArea(w, g)
       /\ act \in Requests => InArea(u, h) = NONE
       /\ act \notin Requests => InArea(u, h) = InArea(w, h)
  <2> HIDE DEF e, w, u, act
  <2>1. CASE act \in Requests /\ Tidy(w, D, e)
    <3>1. /\ Tidy(u, D, e) /\ u[e] = SealHeader
          /\ \A g \in Handles \ {h} : HasKept(w, Data(w, D), g) => HasKept(u, Data(u, D), g)
          /\ InArea(u, h) = NONE
          /\ \A g \in Handles \ {h} : InArea(u, g) = InArea(w, g)
      BY <1>2, <1>7, <2>1, OnlyInvalidated
    <3> QED BY <1>2, <1>9, <2>1, <3>1
  <2>2. CASE act = BootInvalidate(w[i].handle) /\ Doubled(w, D, e, i)
    <3>1. /\ Tidy(u, D, e) /\ u[e] = SealHeader
          /\ \A g \in Handles : HasKept(w, Data(w, D), g) => HasKept(u, Data(u, D), g)
          /\ \A g \in Handles : InArea(u, g) = InArea(w, g)
      BY <1>2, <1>7, <2>2, ReplacedInvalidated
    <3>2. act \notin Requests BY <2>2, RequestFacts
    <3> QED BY <1>2, <1>8, <3>1, <3>2
  <2> QED BY <1>3, <2>1, <2>2
<1>11. Invalidating(p2, c2, r2, kept)
  <2>1. /\ Ready(c2, r2) /\ r2.state = "ready" /\ p2.meta /\ r2.phase = "wait" /\ r2.queue = r.queue
        /\ r2.seal = e /\ r2.ops = <<>>
    BY <1>1, <1>4, <1>6 DEF Ready, Advanced
  <2> QED BY <1>1, <1>2, <1>10, <2>1 DEF Invalidating
<1>12. Effects(p, c, r, p2, c2, r2)
  <2>1. \A g : StoredAt(p, c, g) = InArea(w, g) /\ StoredAt(p2, c2, g) = InArea(u, g)
    BY <1>1, <1>6 DEF StoredAt
  <2>2. CASE act \in Requests
    <3>1. ~EffectiveOf(r)
      <4>1. act.op # "replace" BY <1>2
      <4> QED BY <1>1, <4>1 DEF EffectiveOf
    <3>2. EffectiveOf(r2)
      <4>1. r2.phase = "wait" /\ r2.ops = <<>> /\ Head(r2.queue).op # "replace"
        BY <1>1, <1>2, <1>4 DEF Advanced
      <4> QED BY <4>1 DEF EffectiveOf
    <3>3. act.value = NONE
      <4>1. act.op # "replace" BY <1>2
      <4> QED BY <2>2, <4>1, RequestFacts
    <3>4. Takes(act, p, c, p2, c2) BY <1>3, <1>10, <2>1, <2>2, <3>3 DEF Takes
    <3> QED BY <1>1, <3>1, <3>2, <3>4 DEF Effects
  <2>3. CASE act \notin Requests
    <3>1. SameStored(p, c, p2, c2) BY <1>10, <2>1, <2>3 DEF SameStored
    <3> QED BY <1>1, <2>3, <3>1 DEF Effects
  <2> QED BY <2>2, <2>3
<1>13. LegalStep(p, p2)
  <2>1. w \in [Places -> Words] /\ i \in Places
    <3>1. Chain(w, D, e) BY <1>3 DEF Tidy, Doubled
    <3> QED BY <3>1 DEF Chain, Data
  <2>2. [w[i] EXCEPT !.handle = "invalid"].handle = "invalid"
    <3>1. w[i] \in Words BY <2>1
    <3> QED BY <3>1 DEF Words
  <2>3. LegalWords(w, u) BY <1>7, <1>8, <2>1, <2>2, LegalUpdate
  <2> QED BY <2>3 DEF LegalStep
<1> QED BY <1>1, <1>6, <1>11, <1>12, <1>13 DEF Carried, Stage

\* The torn entry is invalidated, and the seal placed behind it.
LEMMA RecoveringOperates ==
  ASSUME NEW p, NEW c, NEW r, NEW p2, NEW c2, NEW r2, Operated(p, c, r, p2, c2, r2),
         NEW kept \in Handles, Recovering(p, c, r, kept)
  PROVE  Carried(p, c, r, p2, c2, r2, kept)
<1>1. /\ Ready(c, r) /\ r.state = "ready" /\ p.meta /\ r.phase = "wait" /\ r.queue # <<>>
      /\ c.ptr # "set" /\ RecoveryShape(c) /\ r.ops # <<>> /\ Advanced(r, r2)
      /\ Head(r.queue) = RecoverSeal
  BY DEF Recovering, Ready, Operated
<1> DEFINE e == r.seal
           w == p.words
           u == p2.words
           x == WriteWord("page", e, SealHeader)
<1>2. PICK D, t :
        /\ t \in D /\ Torn(w, D, e, t) /\ HasKept(w, Data(w, D) \ {t}, kept)
        /\ IF w[t].handle = "invalid" THEN r.ops = <<x>> ELSE r.ops = <<Invalidation(t), x>>
  BY <1>1 DEF Recovering
<1>3. Chain(w, D, e) /\ w[e] = Blank BY <1>2 DEF Torn
<1>4. w \in [Places -> Words] /\ e \in Places /\ t \in Places BY <1>2, <1>3 DEF Chain
<1> DEFINE Goes == /\ AreaShape(p2) /\ p2.meta = p.meta /\ c2 = c /\ LegalWords(w, u)
                   /\ \A g \in Handles : InArea(u, g) = InArea(w, g)
                   /\ Recovering(p2, c2, r2, kept)
<1>5. /\ r2.state = "ready" /\ r2.phase = "wait" /\ r2.queue = r.queue /\ r2.seal = e
      /\ r2.ops = Tail(r.ops) /\ (c2 = c => Ready(c2, r2))
  BY <1>1 DEF Advanced, Ready
<1>6. ASSUME w[t].handle = "invalid" PROVE Goes
  <2>0. r.ops = <<x>> BY <1>2, <1>6
  <2>1. Head(r.ops) = x /\ Tail(r.ops) = <<>>
    <3> HIDE DEF x
    <3> QED BY <2>0
  <2>2. SealHeader \in Words BY WordFacts
  <2>3. Wrote(p, c, p2, c2, e, SealHeader) BY <2>1, <2>2, WordOperated
  <2>4. AreaShape(p2) /\ p2.meta = p.meta /\ Update(w, e, SealHeader, u) /\ c2 = c BY <2>3 DEF Wrote
  <2>5. /\ Tidy(u, D, e) /\ u[e] = SealHeader /\ HasKept(u, Data(u, D), kept)
        /\ \A g \in Handles : InArea(u, g) = InArea(w, g)
    <3>1. KeptBut(w, D, t, kept) BY <1>2 DEF KeptBut
    <3>2. Torn(w, D, e, t) BY <1>2
    <3>3. w[t].handle = "invalid" BY <1>6
    <3> HIDE DEF e, w, u
    <3> QED BY <2>4, <3>1, <3>2, <3>3, SealRestored
  <2>6. LegalWords(w, u)
    <3> HIDE DEF e, w, u
    <3> QED BY <1>3, <1>4, <2>4, LegalUpdate
  <2>7. Recovering(p2, c2, r2, kept) BY <1>1, <1>5, <2>1, <2>4, <2>5 DEF Recovering
  <2> QED BY <2>4, <2>5, <2>6, <2>7
<1>7. ASSUME w[t].handle # "invalid" PROVE Goes
  <2> DEFINE y == Invalidation(t)
  <2>0. r.ops = <<y, x>> BY <1>2, <1>7
  <2>1. Head(r.ops) = Invalidation(t) /\ Tail(r.ops) = <<x>>
    <3>1. Head(r.ops) = y /\ Tail(r.ops) = <<x>>
      <4> HIDE DEF x, y
      <4> QED BY <2>0
    <3> QED BY <3>1
  <2>3. CrossedOut(p, c, p2, c2, t) BY <2>1, WordOperated
  <2>4. AreaShape(p2) /\ p2.meta = p.meta /\ Update(w, t, [w[t] EXCEPT !.handle = "invalid"], u) /\ c2 = c
    BY <2>3 DEF CrossedOut, Crossed
  <2>5. /\ Torn(u, D, e, t) /\ u[t].handle = "invalid" /\ HasKept(u, Data(u, D) \ {t}, kept)
        /\ \A g \in Handles : InArea(u, g) = InArea(w, g)
    <3>1. KeptBut(w, D, t, kept) BY <1>2 DEF KeptBut
    <3>2. Torn(w, D, e, t) /\ Crossed(w, t, u) BY <1>2, <2>3 DEF CrossedOut
    <3> HIDE DEF e, w, u
    <3>3. /\ Torn(u, D, e, t) /\ u[t].handle = "invalid" /\ KeptBut(u, D, t, kept)
          /\ \A g \in Handles : InArea(u, g) = InArea(w, g)
      BY <3>1, <3>2, TornInvalidated
    <3> QED BY <3>3 DEF KeptBut
  <2>6. LegalWords(w, u)
    <3>1. w[t].handle \in Handles BY <1>2, <1>3, <1>7, ChainBounds
    <3>2. [w[t] EXCEPT !.handle = "invalid"].handle = "invalid"
      <4>1. w[t] \in Words BY <1>4
      <4> QED BY <4>1 DEF Words
    <3> HIDE DEF e, w, u
    <3> QED BY <1>4, <2>4, <3>1, <3>2, LegalUpdate
  <2>7. Recovering(p2, c2, r2, kept) BY <1>1, <1>2, <1>5, <2>1, <2>4, <2>5 DEF Recovering
  <2> QED BY <2>4, <2>5, <2>6, <2>7
<1>8. Goes BY <1>6, <1>7
<1>9. Effects(p, c, r, p2, c2, r2)
  <2>1. SameStored(p, c, p2, c2) BY <1>1, <1>8, AreaCounts
  <2>2. Head(r.queue) \notin Requests BY <1>1, RequestFacts
  <2> QED BY <1>1, <2>1, <2>2 DEF Effects
<1>10. LegalStep(p, p2) BY <1>8 DEF LegalStep
<1> QED BY <1>1, <1>8, <1>9, <1>10 DEF Carried, Stage


-----------------------------------------------------------------------------
(* The flash operations of a defragmentation *)

\* One word more is copied.
LEMMA CopiedNext ==
  ASSUME NEW u, NEW l, NEW m \in Places, Copied(u, l, m), m < Len(l), Len(l) \in Nat,
         NEW u2, Update(u, m, l[m + 1], u2)
  PROVE  Copied(u2, l, m + 1)
<1>0. m \in Nat /\ \A j \in Places : j \in Nat BY HandleFacts DEF Places
<1>1. u = [j \in Places |-> u[j]] /\ \A j \in Places : u[j] = IF j < m /\ j < Len(l) THEN l[j + 1] ELSE Blank
  BY DEF Copied
<1>2. u2 = [u EXCEPT ![m] = l[m + 1]] BY DEF Update
<1>3. DOMAIN u = Places BY <1>1
<1>4. DOMAIN u2 = Places /\ u2 = [j \in DOMAIN u2 |-> u2[j]] BY <1>2, <1>3
<1>5. u2[m] = l[m + 1] /\ \A j \in Places : j # m => u2[j] = u[j] BY <1>2, <1>3
<1>6. ASSUME NEW j \in Places PROVE u2[j] = IF j < m + 1 /\ j < Len(l) THEN l[j + 1] ELSE Blank
  <2>1. CASE j = m
    <3>1. j < m + 1 /\ j < Len(l) BY <1>0, <2>1
    <3> QED BY <1>5, <2>1, <3>1
  <2>2. CASE j # m
    <3>1. j < m + 1 <=> j < m BY <1>0, <2>2
    <3> QED BY <1>1, <1>5, <2>2, <3>1
  <2> QED BY <2>1, <2>2
<1>7. u2 = [j \in Places |-> u2[j]] BY <1>4
<1> QED BY <1>6, <1>7 DEF Copied

\* What counts in a complete backup is what counts in the area.
SameBackup(w, u) == \A g \in Handles : InBackup(u, g) = InArea(w, g)

\* A complete backup has what the area has, and is as clean.
LEMMA BackupClean ==
  ASSUME NEW w, NEW D, NEW e, NEW kept, NEW q, SealedClean(w, D, e, kept, q),
         NEW u, Copied(u, LiveWords(w), Len(LiveWords(w)))
  PROVE  SameBackup(w, u) /\ \E E, x : u[x] = Blank /\ Clean(u, E, x, kept, q)
<1>1. w[e] = SealHeader /\ Clean(w, D, e, kept, q) BY DEF SealedClean
<1>2. HasKept(w, Data(w, D), kept) BY <1>1 DEF Clean
<1>3. Chain(w, D, e) /\ Sound(w, Data(w, D)) BY <1>1 DEF Clean, Tidy, Doubled
<1>4. PICK p : Packing(w, D, e, p) BY <1>3, PackingExists
<1> DEFINE E == {p[i] : i \in Data(w, D)}
           x == p[e]
<1>5. Backup(w, D, e, p, u, E, x) BY <1>4 DEF Backup
<1> HIDE DEF E, x
<1>6. /\ u[x] = Blank /\ Chain(u, E, x) /\ Sound(u, Data(u, E))
      /\ Tidy(w, D, e) => Tidy(u, E, x)
      /\ \A i : Doubled(w, D, e, i) => Doubled(u, E, x, p[i]) /\ u[p[i]] = w[i]
      /\ \A h : HasKept(w, Data(w, D), h) => HasKept(u, Data(u, E), h)
      /\ w[e] = SealHeader => \A g \in Handles : InBackup(u, g) = InArea(w, g)
  BY <1>3, <1>5, PackedAlike
<1>7. Clean(u, E, x, kept, q)
  <2>1. HasKept(u, Data(u, E), kept) BY <1>2, <1>6
  <2>2. CASE Tidy(w, D, e) /\ (q # <<>> => Head(q) \in Requests) BY <1>6, <2>1, <2>2 DEF Clean
  <2>3. CASE q # <<>> /\ \E i \in D : Head(q) = BootInvalidate(w[i].handle) /\ Doubled(w, D, e, i)
    <3>1. PICK i \in D : Head(q) = BootInvalidate(w[i].handle) /\ Doubled(w, D, e, i) BY <2>3
    <3>2. Doubled(u, E, x, p[i]) /\ u[p[i]] = w[i] BY <1>6, <3>1
    <3>3. p[i] \in E BY <3>2 DEF Doubled, Data
    <3>4. Head(q) = BootInvalidate(u[p[i]].handle) BY <3>1, <3>2
    <3> QED BY <2>1, <2>3, <3>2, <3>3, <3>4 DEF Clean
  <2> QED BY <1>1, <2>2, <2>3 DEF Clean
<1>8. SameBackup(w, u) BY <1>1, <1>6 DEF SameBackup
<1> QED BY <1>6, <1>7, <1>8

\* The backup with a seal behind it is an area.
LEMMA SealedBackup ==
  ASSUME NEW v, NEW E, NEW x, NEW kept, NEW q, Clean(v, E, x, kept, q), v[x] = Blank,
         NEW u, Update(v, x, SealHeader, u)
  PROVE  SealedClean(u, E, x, kept, q) /\ SameBackup(u, v)
<1>1. HasKept(v, Data(v, E), kept) BY DEF Clean
<1>2. Chain(v, E, x) /\ Sound(v, Data(v, E)) BY DEF Clean, Tidy, Doubled
<1>3. /\ v \in [Places -> Words] /\ x \in Nat /\ x \in Places
      /\ \A i \in E : /\ i \in Nat /\ i < x /\ i \in Places /\ v[i].len \in Nat /\ v[i].len >= 2
                      /\ i + v[i].len <= x /\ v[i].handle \in Handles \cup {"invalid"}
      /\ \A j \in Places : j > x => v[j] = Blank
  BY <1>2, ChainBounds
<1>4. u \in [Places -> Words] /\ u[x] = SealHeader /\ \A j \in Places : j # x => u[j] = v[j]
  <2>1. SealHeader \in Words BY WordFacts
  <2> QED BY <1>3, <2>1 DEF Update
<1>5. \A i \in E : u[i] = v[i] /\ u[i + 1] = v[i + 1] /\ (Whole(v, i) => Whole(u, i))
  <2>1. ASSUME NEW i \in E PROVE u[i] = v[i] /\ u[i + 1] = v[i + 1] /\ (Whole(v, i) => Whole(u, i))
    <3>1. \A j \in Places : i <= j /\ j < i + v[i].len => u[j] = v[j]
      <4>1. ASSUME NEW j \in Places, j < i + v[i].len PROVE j # x
        <5>1. j \in Nat BY HandleFacts DEF Places
        <5> QED BY <1>3, <4>1, <5>1
      <4> QED BY <1>4, <4>1
    <3> QED BY <1>2, <3>1, EntrySame
  <2> QED BY <2>1
<1>6. Chain(u, E, x)
  <2>1. \A i \in E : u[i].handle \in Handles \cup {"invalid"} /\ u[i].len = v[i].len BY <1>3, <1>5
  <2>2. u[x] \in {Blank, SealHeader} BY <1>4
  <2>3. \A j \in Places : j > x => u[j] = Blank
    <3>1. \A j \in Places : j > x => j # x BY <1>3 DEF Places
    <3> QED BY <1>3, <1>4, <3>1
  <2> QED BY <1>2, <1>4, <2>1, <2>2, <2>3, ChainLike
<1> DEFINE S == Data(v, E)
<1>7. Data(u, E) = S /\ \A i \in S : i \in E BY <1>5 DEF Data
<1> HIDE DEF S
<1>8. Sound(v, S) /\ Sound(u, S) BY <1>2, <1>5, <1>7 DEF Sound, S
<1>9. HasKept(u, S, kept) BY <1>1, <1>5, <1>7 DEF HasKept, S
<1>10. Clean(u, E, x, kept, q)
  <2>1. CASE Tidy(v, E, x) /\ (q # <<>> => Head(q) \in Requests)
    <3>1. Apart(v, S) BY <2>1 DEF Tidy, S
    <3>2. Apart(u, S) BY <1>5, <1>7, <3>1 DEF Apart
    <3>3. Tidy(u, E, x) BY <1>6, <1>7, <1>8, <3>2 DEF Tidy
    <3> QED BY <1>7, <1>9, <2>1, <3>3 DEF Clean
  <2>2. CASE q # <<>> /\ \E i \in E : Head(q) = BootInvalidate(v[i].handle) /\ Doubled(v, E, x, i)
    <3>1. PICK i \in E : Head(q) = BootInvalidate(v[i].handle) /\ Doubled(v, E, x, i) BY <2>2
    <3>2. /\ i \in S /\ Apart(v, S \ {i})
          /\ \E j \in E : i < j /\ v[j].handle = v[i].handle /\ j + v[j].len = x
      BY <3>1 DEF Doubled, S
    <3>3. Apart(u, S \ {i}) BY <1>5, <1>7, <3>2 DEF Apart
    <3>4. \E j \in E : i < j /\ u[j].handle = u[i].handle /\ j + u[j].len = x BY <1>5, <3>2
    <3>5. Doubled(u, E, x, i) BY <1>6, <1>7, <1>8, <3>2, <3>3, <3>4 DEF Doubled
    <3>6. Head(q) = BootInvalidate(u[i].handle) BY <1>5, <3>1
    <3> QED BY <1>7, <1>9, <2>2, <3>5, <3>6 DEF Clean
  <2> QED BY <2>1, <2>2 DEF Clean
<1>11. SameBackup(u, v)
  <2>1. ASSUME NEW g \in Handles PROVE InBackup(v, g) = InArea(u, g)
    <3>1. AreaCounted(u, E, x) = S BY <1>4, <1>6, <1>7, CountedFacts
    <3>2. \A i \in S : /\ i \in Nat /\ u[i] = v[i] /\ u[i + 1] = v[i + 1] /\ Whole(v, i) /\ Whole(u, i)
      BY <1>3, <1>5, <1>7, <1>8 DEF Sound
    <3>3. Same(v, S, u, S, g) BY <3>2, SameSame
    <3>4. Same(v, Data(v, E), u, AreaCounted(u, E, x), g) BY <3>1, <3>3 DEF S
    <3> QED BY <1>2, <1>6, <3>4, BackupSame
  <2> QED BY <2>1 DEF SameBackup
<1> QED BY <1>4, <1>10, <1>11 DEF SealedClean


\* While a defragmentation goes on, no request takes effect.
LEMMA DefragEffects ==
  ASSUME NEW p, NEW c, NEW r, NEW p2, NEW c2, NEW r2, NEW step, Defragging(r, step), Advanced(r, r2),
         SameStored(p, c, p2, c2)
  PROVE  Effects(p, c, r, p2, c2, r2) /\ Defragging(r2, step) /\ r2.queue = r.queue
<1>1. r.phase = "processing" /\ r2.phase = "processing" BY DEF Defragging, Advanced
<1>2. ~EffectiveOf(r) /\ ~EffectiveOf(r2) BY <1>1 DEF EffectiveOf
<1>3. Defragging(r2, step) /\ r2.queue = r.queue BY DEF Defragging, Advanced
<1> QED BY <1>2, <1>3 DEF Effects

\* The backup of l is at its operation k.
BackupAt(p, c, r, l, k, kept) ==
  /\ p.meta
  /\ \E D, e : SealedClean(p.words, D, e, kept, r.queue) /\ l = LiveWords(p.words)
  /\ k \in 0..(Len(l) + 3) /\ Remaining(r.ops, BackupFrom(l), k)
  /\ c.ptr = "set" <=> k = Len(l) + 3
  /\ k >= 1 => Copied(c.words, l, k - 2)
  /\ k >= 2 => c.meta

\* The words that a backup copies
LEMMA BackupAtFacts ==
  ASSUME NEW p, NEW c, NEW r, NEW l, NEW k, NEW kept, BackupAt(p, c, r, l, k, kept)
  PROVE  l \in Seq(Words) /\ Len(l) \in Nat /\ Len(l) < SIZE /\ k \in Nat /\ k <= Len(l) + 3
<1> DEFINE w == p.words
<1>1. PICK D, e : SealedClean(w, D, e, kept, r.queue) /\ l = LiveWords(w) BY DEF BackupAt
<1>2. Chain(w, D, e) BY <1>1 DEF SealedClean, Clean, Tidy, Doubled
<1> HIDE DEF w
<1>3. PICK f : Packing(w, D, e, f) BY <1>2, PackingExists
<1>4. l \in Seq(Words) /\ Len(l) <= e BY <1>1, <1>3 DEF Packing
<1>5. Len(l) \in Nat BY <1>4, LenProperties
<1>6. SIZE \in Nat /\ e \in Nat /\ e < SIZE BY <1>2, ChainBounds
<1>7. Len(l) < SIZE BY <1>4, <1>5, <1>6
<1>8. k \in 0..(Len(l) + 3) BY DEF BackupAt
<1>9. k \in Nat /\ k <= Len(l) + 3 BY <1>5, <1>8
<1> QED BY <1>4, <1>5, <1>7, <1>9

\* The backup goes on: an operation on the recovery page.
LEMMA BackupAdvances ==
  ASSUME NEW p, NEW c, NEW r, NEW p2, NEW c2, NEW r2, NEW l, NEW k, NEW kept,
         BackupAt(p, c, r, l, k, kept), NEW j, j = k + 1, k < Len(l) + 3,
         Remaining(r2.ops, BackupFrom(l), j), r2.queue = r.queue, p2 = p,
         c2.ptr = "set" <=> j = Len(l) + 3, Copied(c2.words, l, k - 1), k >= 1 => c2.meta
  PROVE  BackupAt(p2, c2, r2, l, j, kept)
<1>1. l \in Seq(Words) /\ Len(l) \in Nat /\ k \in Nat BY BackupAtFacts
<1>2. j \in 0..(Len(l) + 3) /\ j - 2 = k - 1 /\ (j >= 2 => k >= 1) BY <1>1
<1> QED BY <1>2 DEF BackupAt

\* The page is copied to the recovery page, the pointer set, and the page erased.
LEMMA BackingUpOperates ==
  ASSUME NEW p, NEW c, NEW r, NEW p2, NEW c2, NEW r2, Operated(p, c, r, p2, c2, r2),
         NEW kept \in Handles, BackingUp(p, c, r, kept)
  PROVE  Carried(p, c, r, p2, c2, r2, kept)
<1>1. /\ Defragging(r, "backup") /\ r.queue # <<>> /\ p.meta
      /\ AreaShape(p) /\ RecoveryShape(c) /\ r.ops # <<>> /\ Advanced(r, r2)
  BY DEF BackingUp, Defragging, Operated
<1> DEFINE l == LiveWords(p.words)
           F == BackupFrom(l)
           n == Len(l)
<1>2. PICK k : BackupAt(p, c, r, l, k, kept)
  <2>1. PICK D, e, k : /\ SealedClean(p.words, D, e, kept, r.queue)
                       /\ k \in 0..(n + 3) /\ Remaining(r.ops, F, k)
                       /\ c.ptr = "set" <=> k = n + 3
                       /\ k >= 1 => Copied(c.words, l, k - 2)
                       /\ k >= 2 => c.meta
    BY DEF BackingUp
  <2> QED BY <1>1, <2>1 DEF BackupAt
<1>3. l \in Seq(Words) /\ n \in Nat /\ n < SIZE /\ k \in Nat /\ k <= n + 3 BY <1>2, BackupAtFacts
<1>4. /\ Remaining(r.ops, F, k) /\ (c.ptr = "set" <=> k = n + 3)
      /\ (k >= 1 => Copied(c.words, l, k - 2)) /\ (k >= 2 => c.meta)
  BY <1>2 DEF BackupAt
<1>5. PICK D, e : SealedClean(p.words, D, e, kept, r.queue) BY <1>2 DEF BackupAt
<1> HIDE DEF l
<1>6. F \in Seq(Operations) /\ BackupList(F, l) BY <1>3, BackupOpsAre
<1>7. /\ Len(F) = n + 4 /\ F[1] = Erase("recovery") /\ F[2] = WriteMeta("recovery")
      /\ \A j \in 1..n : F[j + 2] = WriteWord("recovery", j - 1, l[j])
      /\ F[n + 3] = SetPointer /\ F[n + 4] = Erase("page")
  BY <1>6 DEF BackupList
<1> HIDE DEF F
<1>8. NextOp(r.ops, F, k) BY <1>1, <1>4, <1>6, RemainingNext
<1>9. Head(r.ops) = F[k + 1] /\ Remaining(r2.ops, F, k + 1) BY <1>1, <1>8 DEF NextOp, Advanced
<1>10. Len(l) = n /\ SIZE \in Nat BY HandleFacts
<1> HIDE DEF n
<1> DEFINE j == k + 1
<1>11. j \in Nat /\ j = k + 1 /\ Remaining(r2.ops, F, j) /\ Head(r.ops) = F[j] BY <1>3, <1>9
<1> HIDE DEF j
\* An operation on the recovery page that leaves the pointer
<1>12. ASSUME p2 = p, RecoveryShape(c2), k < n + 2, c2.ptr # "set", Copied(c2.words, l, k - 1), k >= 1 => c2.meta
       PROVE  Carried(p, c, r, p2, c2, r2, kept)
  <2>1. c.ptr # "set" BY <1>3, <1>4, <1>12
  <2>2. SameStored(p, c, p2, c2) BY <1>12, <2>1 DEF SameStored, StoredAt
  <2>3. Effects(p, c, r, p2, c2, r2) /\ Defragging(r2, "backup") /\ r2.queue = r.queue
    BY <1>1, <2>2, DefragEffects
  <2>4. c2.ptr = "set" <=> j = n + 3 BY <1>3, <1>11, <1>12
  <2>5. BackupAt(p2, c2, r2, l, j, kept)
    <3>1. Remaining(r2.ops, BackupFrom(l), j) /\ k < Len(l) + 3 BY <1>3, <1>10, <1>11, <1>12 DEF F
    <3> QED BY <1>2, <1>10, <1>11, <1>12, <2>3, <2>4, <3>1, BackupAdvances
  <2>6. BackingUp(p2, c2, r2, kept) BY <1>1, <1>12, <2>3, <2>5 DEF BackingUp, BackupAt
  <2>7. LegalStep(p, p2) BY <1>12 DEF LegalStep, LegalWords
  <2> QED BY <1>1, <1>12, <2>3, <2>6, <2>7 DEF Carried, Stage
<1>13. CASE k = 0
  <2>1. Head(r.ops) = Erase("recovery") BY <1>7, <1>11, <1>13
  <2>2. p2 = p /\ RecoveryShape(c2) /\ c2.ptr = "blank" /\ c2.words = BlankPage.words
    BY <2>1, OtherOperated DEF BackupGone
  <2>3. Copied(c2.words, l, k - 1)
    <3>1. c2.words = [i \in Places |-> Blank] BY <2>2 DEF BlankPage
    <3>2. \A i \in Places : ~(i < k - 1) BY <1>10, <1>13 DEF Places
    <3> QED BY <3>1, <3>2 DEF Copied
  <2> QED BY <1>3, <1>12, <1>13, <2>2, <2>3
<1>14. CASE k = 1
  <2>1. Head(r.ops) = WriteMeta("recovery") BY <1>7, <1>11, <1>14
  <2>2. p2 = p /\ RecoveryShape(c2) /\ c2.ptr = c.ptr /\ c2.meta /\ c2.words = c.words
    BY <2>1, OtherOperated DEF BackupMeta
  <2>3. Copied(c2.words, l, k - 1)
    <3>1. Copied(c.words, l, k - 2) BY <1>4, <1>14
    <3>2. \A i \in Places : ~(i < k - 2) /\ ~(i < k - 1) BY <1>10, <1>14 DEF Places
    <3> QED BY <2>2, <3>1, <3>2 DEF Copied
  <2>4. c.ptr # "set" /\ k < n + 2 BY <1>3, <1>4, <1>14
  <2> QED BY <1>12, <2>2, <2>3, <2>4
<1>15. CASE k >= 2 /\ k < n + 2
  <2> DEFINE m == k - 2
  <2>1. m \in Nat /\ m + 1 \in 1..n /\ m < n /\ m \in Places /\ k = m + 2 /\ k - 1 = m + 1 /\ j = (m + 1) + 2
        /\ m + 1 - 1 = m
    BY <1>3, <1>10, <1>11, <1>15 DEF Places
  <2> DEFINE y == l[m + 1]
  <2>2. y \in Words /\ Head(r.ops) = WriteWord("recovery", m, y)
    <3>1. y \in Words BY <1>3, <1>10, <2>1, ElementOfSeq
    <3>2. F[j] = WriteWord("recovery", m, y) BY <1>7, <2>1
    <3> QED BY <1>11, <3>1, <3>2
  <2> HIDE DEF m
  <2>3. BackupWrote(p, c, p2, c2, m, y)
    <3> HIDE DEF y
    <3> QED BY <2>2, OtherOperated
  <2>4. /\ p2 = p /\ RecoveryShape(c2) /\ c2.ptr = c.ptr /\ c2.meta = c.meta
        /\ Update(c.words, m, l[m + 1], c2.words)
    BY <2>3 DEF BackupWrote
  <2>5. Copied(c2.words, l, k - 1)
    <3>1. Copied(c.words, l, m) BY <1>3, <1>4, <1>15 DEF m
    <3>2. Copied(c2.words, l, m + 1) BY <1>3, <1>10, <2>1, <2>4, <3>1, CopiedNext
    <3> QED BY <2>1, <3>2
  <2>6. c.ptr # "set" /\ c.meta BY <1>3, <1>4, <1>15
  <2> QED BY <1>12, <1>15, <2>4, <2>5, <2>6
<1>16. CASE k = n + 2
  <2>1. Head(r.ops) = SetPointer
    <3>1. j = n + 3 BY <1>3, <1>11, <1>16
    <3> QED BY <1>7, <1>11, <3>1
  <2>2. p2 = p /\ RecoveryShape(c2) /\ c2.ptr = "set" /\ c2.meta = c.meta /\ c2.words = c.words
    BY <2>1, OtherOperated DEF PointerIs
  <2>3. c.ptr # "set" /\ c.meta /\ Copied(c.words, l, n)
    <3>1. k - 2 = n /\ k >= 1 /\ k >= 2 /\ k # n + 3 BY <1>3, <1>16
    <3> QED BY <1>4, <3>1
  <2>4. SameStored(p, c, p2, c2)
    <3>1. SameBackup(p.words, c.words) BY <1>5, <1>10, <2>3, BackupClean DEF l
    <3> QED BY <2>2, <2>3, <3>1 DEF SameBackup, SameStored, StoredAt
  <2>5. Effects(p, c, r, p2, c2, r2) /\ Defragging(r2, "backup") /\ r2.queue = r.queue
    BY <1>1, <2>4, DefragEffects
  <2>6. BackupAt(p2, c2, r2, l, j, kept)
    <3>1. Remaining(r2.ops, BackupFrom(l), j) /\ k < Len(l) + 3 /\ j = Len(l) + 3
      BY <1>3, <1>10, <1>11, <1>16 DEF F
    <3>2. Copied(c2.words, l, k - 1)
      <4>1. \A i \in Places : i \in Nat BY <1>10 DEF Places
      <4>2. \A i \in Places : i < n => (i < n <=> i < k - 1) BY <1>3, <1>16, <4>1
      <4> QED BY <1>10, <2>2, <2>3, <4>2 DEF Copied
    <3> QED BY <1>2, <1>11, <2>2, <2>3, <2>5, <3>1, <3>2, BackupAdvances
  <2>7. BackingUp(p2, c2, r2, kept) BY <1>1, <2>2, <2>5, <2>6 DEF BackingUp, BackupAt
  <2>8. LegalStep(p, p2) BY <2>2 DEF LegalStep, LegalWords
  <2> QED BY <1>1, <2>2, <2>5, <2>7, <2>8 DEF Carried, Stage
<1>17. CASE k = n + 3
  <2>1. Head(r.ops) = Erase("page")
    <3>1. j = n + 4 BY <1>3, <1>11, <1>17
    <3> QED BY <1>7, <1>11, <3>1
  <2>2. AreaShape(p2) /\ ~p2.meta /\ p2.words = BlankPage.words /\ c2 = c
    BY <2>1, OtherOperated DEF PageGone
  <2>3. c.ptr = "set" /\ c.meta /\ Copied(c.words, l, n)
    <3>1. k - 2 = n + 1 /\ k >= 1 /\ k >= 2 BY <1>3, <1>17
    <3>2. c.ptr = "set" /\ c.meta /\ Copied(c.words, l, n + 1) BY <1>4, <1>17, <3>1
    <3>3. \A i \in Places : i \in Nat BY <1>10 DEF Places
    <3>4. \A i \in Places : i < n => (i < n <=> i < n + 1) BY <1>3, <3>3
    <3>5. Copied(c.words, l, n) BY <1>10, <3>2, <3>4 DEF Copied
    <3> QED BY <3>2, <3>5
  <2>4. SameStored(p, c, p2, c2) BY <2>2, <2>3 DEF SameStored, StoredAt
  <2>5. Effects(p, c, r, p2, c2, r2) /\ Defragging(r2, "backup") /\ r2.queue = r.queue
    BY <1>1, <2>4, DefragEffects
  <2>6. PICK E, x : c.words[x] = Blank /\ Clean(c.words, E, x, kept, r.queue)
    BY <1>5, <1>10, <2>3, BackupClean DEF l
  <2>7. r2.ops = <<>>
    <3>1. Len(F) = j BY <1>3, <1>7, <1>11, <1>17
    <3> QED BY <1>6, <1>11, <3>1, RemainingNext
  <2>8. BackedUp(c2, r2, E, x, kept) BY <2>2, <2>3, <2>5, <2>6 DEF BackedUp
  <2>9. Erased(p2, c2, r2, kept) BY <2>2, <2>5, <2>7, <2>8 DEF Erased
  <2>10. LegalStep(p, p2) BY <1>1, <2>2 DEF LegalStep
  <2> QED BY <1>1, <2>2, <2>5, <2>9, <2>10 DEF Carried, Stage
<1> QED BY <1>3, <1>13, <1>14, <1>15, <1>16, <1>17

\* The backup is written back: the metadata, and then a word after the other.
LEMMA WritingBackOperates ==
  ASSUME NEW p, NEW c, NEW r, NEW p2, NEW c2, NEW r2, Operated(p, c, r, p2, c2, r2),
         NEW kept \in Handles, WritingBack(p, c, r, kept)
  PROVE  Carried(p, c, r, p2, c2, r2, kept)
<1>1. /\ Defragging(r, "write_back") /\ AreaShape(p) /\ RecoveryShape(c) /\ r.ops # <<>> /\ Advanced(r, r2)
  BY DEF WritingBack, Operated
<1> DEFINE v == c.words
           F == WriteBackFrom(v)
<1>2. PICK E, x, k : /\ BackedUp(c, r, E, x, kept)
                     /\ k \in 0..SIZE /\ Remaining(r.ops, F, k)
                     /\ k >= 1 => p.meta
                     /\ p.words = [i \in Places |-> IF i < k - 1 THEN v[i] ELSE Blank]
  BY DEF WritingBack
<1>3. c.ptr = "set" /\ c.meta /\ v[x] = Blank /\ Clean(v, E, x, kept, r.queue) BY <1>2 DEF BackedUp
<1>4. v \in [Places -> Words] BY <1>3 DEF Clean, Tidy, Doubled, Chain
<1> HIDE DEF v
<1>5. F \in Seq(Operations) /\ WriteBackList(F, v) BY <1>4, WriteBackOpsAre
<1>6. /\ Len(F) = SIZE /\ F[1] = WriteMeta("page")
      /\ \A i \in 1..(SIZE - 1) : F[i + 1] = WriteWord("page", i - 1, v[i - 1])
  BY <1>5 DEF WriteBackList
<1> HIDE DEF F
<1>7. NextOp(r.ops, F, k) BY <1>1, <1>2, <1>5, RemainingNext
<1>8. k < SIZE /\ Head(r.ops) = F[k + 1] /\ Remaining(r2.ops, F, k + 1)
  BY <1>1, <1>6, <1>7 DEF NextOp, Advanced
<1>9. SIZE \in Nat /\ k \in Nat /\ \A i \in Places : i \in Nat BY <1>2, HandleFacts DEF Places
<1> DEFINE j == k + 1
<1>10. j \in Nat /\ j = k + 1 /\ j \in 0..SIZE /\ j >= 1 /\ Remaining(r2.ops, F, j) /\ Head(r.ops) = F[j]
  BY <1>8, <1>9
<1> HIDE DEF j
<1>11. ASSUME AreaShape(p2), p2.meta, c2 = c, LegalStep(p, p2),
              p2.words = [i \in Places |-> IF i < j - 1 THEN v[i] ELSE Blank]
       PROVE  Carried(p, c, r, p2, c2, r2, kept)
  <2>1. SameStored(p, c, p2, c2) BY <1>3, <1>11 DEF SameStored, StoredAt
  <2>2. Effects(p, c, r, p2, c2, r2) /\ Defragging(r2, "write_back") /\ r2.queue = r.queue
    BY <1>1, <2>1, DefragEffects
  <2>3. BackedUp(c2, r2, E, x, kept) BY <1>2, <1>11, <2>2 DEF BackedUp
  <2>4. Remaining(r2.ops, WriteBackFrom(c2.words), j) BY <1>10, <1>11 DEF F, v
  <2>5. p2.words = [i \in Places |-> IF i < j - 1 THEN c2.words[i] ELSE Blank] BY <1>11 DEF v
  <2>6. WritingBack(p2, c2, r2, kept) BY <1>10, <1>11, <2>2, <2>3, <2>4, <2>5 DEF WritingBack
  <2> QED BY <1>1, <1>11, <2>2, <2>6 DEF Carried, Stage
<1>12. CASE k = 0
  <2>1. Head(r.ops) = WriteMeta("page") BY <1>6, <1>10, <1>12
  <2>2. AreaShape(p2) /\ p2.meta /\ p2.words = p.words /\ c2 = c BY <2>1, OtherOperated DEF MetaWritten
  <2>3. p2.words = [i \in Places |-> IF i < j - 1 THEN v[i] ELSE Blank]
    <3>1. \A i \in Places : ~(i < k - 1) /\ ~(i < j - 1) BY <1>9, <1>10, <1>12
    <3> QED BY <1>2, <2>2, <3>1
  <2>4. LegalStep(p, p2) BY <2>2 DEF LegalStep, LegalWords
  <2> QED BY <1>11, <2>2, <2>3, <2>4
<1>13. CASE k # 0
  <2> DEFINE m == k - 1
             y == v[m]
             w == p.words
  <2>1. m \in Places /\ m \in Nat /\ k \in 1..(SIZE - 1) /\ k = m + 1 /\ j - 1 = m + 1
    BY <1>8, <1>9, <1>10, <1>13 DEF Places
  <2>2. y \in Words /\ Head(r.ops) = WriteWord("page", m, y) BY <1>4, <1>6, <1>10, <2>1
  <2> HIDE DEF y
  <2>3. Wrote(p, c, p2, c2, m, y) BY <2>2, WordOperated
  <2>4. AreaShape(p2) /\ p2.meta = p.meta /\ Update(w, m, y, p2.words) /\ c2 = c BY <2>3 DEF Wrote
  <2>5. p2.meta BY <1>2, <1>9, <1>13, <2>4
  <2> HIDE DEF m
  <2>6. w = [i \in Places |-> IF i < m THEN v[i] ELSE Blank] BY <1>2, <2>1 DEF m
  <2> HIDE DEF w
  <2>7. p2.words = [i \in Places |-> IF i < j - 1 THEN v[i] ELSE Blank]
    <3>1. p2.words = [w EXCEPT ![m] = y] BY <2>4 DEF Update
    <3>2. ASSUME NEW i \in Places PROVE [w EXCEPT ![m] = y][i] = IF i < m + 1 THEN v[i] ELSE Blank
      <4>1. CASE i = m
        <5>1. i < m + 1 BY <2>1, <4>1
        <5>2. y = v[m] BY DEF y, m
        <5> QED BY <2>6, <4>1, <5>1, <5>2
      <4>2. CASE i # m
        <5>1. i < m + 1 <=> i < m BY <1>9, <2>1, <4>2
        <5> QED BY <2>6, <4>2, <5>1
      <4> QED BY <4>1, <4>2
    <3>3. DOMAIN w = Places BY <2>6
    <3>4. [w EXCEPT ![m] = y] = [i \in Places |-> [w EXCEPT ![m] = y][i]] BY <3>3
    <3> QED BY <2>1, <3>1, <3>2, <3>4
  <2>8. LegalStep(p, p2)
    <3>1. w \in [Places -> Words]
      <4>1. \A i \in Places : v[i] \in Words /\ Blank \in Words BY <1>4, WordFacts
      <4> QED BY <2>6, <4>1
    <3>2. w[m] = Blank BY <2>1, <2>6
    <3>3. LegalWords(w, p2.words) BY <2>1, <2>4, <3>1, <3>2, LegalUpdate
    <3> QED BY <3>3 DEF LegalStep, w
  <2> QED BY <1>11, <2>4, <2>5, <2>7, <2>8
<1> QED BY <1>12, <1>13

\* The seal follows, and then the backup counts no more.
LEMMA SealingOperates ==
  ASSUME NEW p, NEW c, NEW r, NEW p2, NEW c2, NEW r2, Operated(p, c, r, p2, c2, r2),
         NEW kept \in Handles, Sealing(p, c, r, kept)
  PROVE  Carried(p, c, r, p2, c2, r2, kept)
<1>1. p.meta /\ AreaShape(p) /\ RecoveryShape(c) /\ r.ops # <<>> /\ Advanced(r, r2)
  BY DEF Sealing, Operated
<1>2. PICK E, x :
       /\ BackedUp(c, r, E, x, kept)
       /\ \/ /\ Defragging(r, "seal") /\ r.ops = <<WriteWord("page", x, SealHeader)>>
             /\ p.words = c.words
          \/ /\ Defragging(r, "seal") /\ r.ops = <<>> /\ Update(c.words, x, SealHeader, p.words)
          \/ /\ Defragging(r, "end") /\ r.ops = <<ClearPointer>>
             /\ Update(c.words, x, SealHeader, p.words)
  BY DEF Sealing
<1> DEFINE v == c.words
           w == p.words
<1>3. c.ptr = "set" /\ c.meta /\ v[x] = Blank /\ Clean(v, E, x, kept, r.queue) BY <1>2 DEF BackedUp
<1>4. v \in [Places -> Words] /\ x \in Places BY <1>3 DEF Clean, Tidy, Doubled, Chain
<1>5. ASSUME Defragging(r, "seal"), r.ops = <<WriteWord("page", x, SealHeader)>>, w = v
      PROVE  Carried(p, c, r, p2, c2, r2, kept)
  <2> DEFINE y == WriteWord("page", x, SealHeader)
  <2>1. Head(r.ops) = y /\ Tail(r.ops) = <<>>
    <3>1. r.ops = <<y>> BY <1>5
    <3> HIDE DEF y
    <3> QED BY <3>1
  <2>2. SealHeader \in Words BY WordFacts
  <2>3. Wrote(p, c, p2, c2, x, SealHeader) BY <2>1, <2>2, WordOperated
  <2>4. AreaShape(p2) /\ p2.meta = p.meta /\ Update(w, x, SealHeader, p2.words) /\ c2 = c BY <2>3 DEF Wrote
  <2>5. SameStored(p, c, p2, c2) BY <1>3, <2>4 DEF SameStored, StoredAt
  <2>6. Effects(p, c, r, p2, c2, r2) /\ Defragging(r2, "seal") /\ r2.queue = r.queue
    BY <1>1, <1>5, <2>5, DefragEffects
  <2>7. BackedUp(c2, r2, E, x, kept) BY <1>2, <2>4, <2>6 DEF BackedUp
  <2>8. Update(c2.words, x, SealHeader, p2.words) BY <1>5, <2>4
  <2>9. r2.ops = <<>> BY <1>1, <2>1 DEF Advanced
  <2>10. Sealing(p2, c2, r2, kept) BY <1>1, <2>4, <2>6, <2>7, <2>8, <2>9 DEF Sealing
  <2>11. LegalStep(p, p2)
    <3>1. w \in [Places -> Words] /\ w[x] = Blank BY <1>3, <1>4, <1>5
    <3> HIDE DEF w
    <3>2. LegalWords(w, p2.words) BY <1>4, <2>4, <3>1, LegalUpdate
    <3> QED BY <3>2 DEF LegalStep, w
  <2> QED BY <1>1, <2>4, <2>6, <2>10, <2>11 DEF Carried, Stage
<1>6. ASSUME Defragging(r, "end"), r.ops = <<ClearPointer>>, Update(v, x, SealHeader, w)
      PROVE  Carried(p, c, r, p2, c2, r2, kept)
  <2>1. Head(r.ops) = ClearPointer /\ Tail(r.ops) = <<>> BY <1>6
  <2>2. p2 = p /\ RecoveryShape(c2) /\ c2.ptr = "null" BY <2>1, OtherOperated DEF PointerIs
  <2>3. SealedClean(w, E, x, kept, r.queue) /\ SameBackup(w, v)
    <3> HIDE DEF v, w
    <3> QED BY <1>3, <1>6, SealedBackup
  <2>4. SameStored(p, c, p2, c2) BY <1>3, <2>2, <2>3 DEF SameStored, StoredAt, SameBackup
  <2>5. Effects(p, c, r, p2, c2, r2) /\ Defragging(r2, "end") /\ r2.queue = r.queue
    BY <1>1, <1>6, <2>4, DefragEffects
  <2>6. r2.ops = <<>> BY <1>1, <2>1 DEF Advanced
  <2>7. Ending(p2, c2, r2, kept) BY <1>1, <2>2, <2>3, <2>5, <2>6 DEF Ending
  <2>8. LegalStep(p, p2) BY <2>2 DEF LegalStep, LegalWords
  <2> QED BY <1>1, <2>2, <2>5, <2>7, <2>8 DEF Carried, Stage
<1> QED BY <1>1, <1>2, <1>5, <1>6

\* The first action of the queue is one that may be there.
LEMMA QueueHead ==
  ASSUME NEW q, NEW value, NEW kept, QueueOk(q, value, kept), q # <<>>
  PROVE  /\ Head(q) \in Actions /\ Head(q) = q[1] /\ q \in Seq(Actions) /\ Len(q) \in Nat /\ Len(q) >= 1
         /\ Head(q) \in Requests => Allowed(Head(q), value, kept)
<1>1. q \in Seq(Actions) /\ \A j \in 1..Len(q) : q[j] \in Requests => Allowed(q[j], value, kept)
  BY DEF QueueOk
<1>2. Len(q) \in Nat /\ Len(q) >= 1 /\ Head(q) = q[1] BY <1>1
<1>3. 1 \in 1..Len(q) BY <1>2
<1>4. q[1] \in Actions BY <1>1, <1>3, ElementOfSeq
<1> QED BY <1>1, <1>2, <1>3, <1>4

\* A handle that is kept goes on having a value, whatever takes effect.
LEMMA QueueKept ==
  ASSUME NEW p, NEW c, NEW r, NEW p2, NEW c2, NEW r2, NEW kept \in Handles,
         QueueOk(r.queue, StoredAt(p, c, kept), kept), Effects(p, c, r, p2, c2, r2), r2.queue = r.queue
  PROVE  QueueOk(r2.queue, StoredAt(p2, c2, kept), kept)
<1> DEFINE v == StoredAt(p, c, kept)
           v2 == StoredAt(p2, c2, kept)
           q == r.queue
<1>1. v # NONE => v2 # NONE
  <2>1. CASE SameStored(p, c, p2, c2) BY <2>1 DEF SameStored
  <2>2. CASE q # <<>> /\ Takes(Head(q), p, c, p2, c2)
    <3> DEFINE act == Head(q)
    <3>1. /\ act \in Requests /\ StoredAt(p2, c2, act.handle) = act.value
          /\ \A g \in Handles \ {act.handle} : StoredAt(p2, c2, g) = StoredAt(p, c, g)
      BY <2>2 DEF Takes
    <3>2. Allowed(act, v, kept) BY <2>2, <3>1, QueueHead
    <3> HIDE DEF act
    <3>3. CASE act.handle = kept
      <4>1. act.op # "invalidate" BY <3>2, <3>3 DEF Allowed
      <4>2. act.value \in VALUES BY <3>1, <4>1, RequestFacts
      <4>3. act.value # NONE BY <4>2, HandleFacts DEF NONE
      <4> QED BY <3>1, <3>3, <4>3
    <3>4. CASE act.handle # kept BY <3>1, <3>4
    <3> QED BY <3>3, <3>4
  <2> QED BY <2>1, <2>2 DEF Effects
<1> HIDE DEF v, v2
<1>2. QueueOk(q, v, kept) BY DEF v
<1>3. QueueOk(q, v2, kept) BY <1>1, <1>2 DEF QueueOk, Allowed
<1> QED BY <1>3 DEF v2

\* A flash operation keeps the invariant.
LEMMA FlashOperates ==
  ASSUME NEW p, NEW c, NEW r, NEW p2, NEW c2, NEW r2, Operated(p, c, r, p2, c2, r2),
         NEW kept \in Handles, Invariant(p, c, r, kept)
  PROVE  Invariant(p2, c2, r2, kept) /\ Effects(p, c, r, p2, c2, r2) /\ LegalStep(p, p2)
<1> DEFINE v == StoredAt(p, c, kept)
<1>1. QueueOk(r.queue, v, kept) /\ Stage(p, c, r, kept) BY DEF Invariant
<1>2. r.ops # <<>> /\ Shape(r2) /\ r2.queue = r.queue BY DEF Operated, Advanced
<1> HIDE DEF v
<1>3. Carried(p, c, r, p2, c2, r2, kept)
  <2>1. ~Fresh(p, c, r) BY <1>2 DEF Fresh
  <2>2. ~Broken(p, c, r, kept) BY <1>2 DEF Broken
  <2>3. ~Idle(p, c, r, kept) BY <1>2 DEF Idle
  <2>4. ~Erased(p, c, r, kept) BY <1>2 DEF Erased
  <2>5. ~Ending(p, c, r, kept) BY <1>2 DEF Ending
  <2>6. CASE Building(p, c, r) BY <2>6, BuildingOperates
  <2>7. CASE Replacing(p, c, r, kept) BY <2>7, ReplacingOperates
  <2>8. CASE Invalidating(p, c, r, kept) BY <1>1, <2>8, InvalidatingOperates
  <2>9. CASE Recovering(p, c, r, kept) BY <2>9, RecoveringOperates
  <2>10. CASE BackingUp(p, c, r, kept) BY <2>10, BackingUpOperates
  <2>11. CASE WritingBack(p, c, r, kept) BY <2>11, WritingBackOperates
  <2>12. CASE Sealing(p, c, r, kept) BY <2>12, SealingOperates
  <2> QED BY <1>1, <2>1, <2>2, <2>3, <2>4, <2>5, <2>6, <2>7, <2>8, <2>9, <2>10, <2>11, <2>12 DEF Stage
<1>4. AreaShape(p2) /\ RecoveryShape(c2) /\ Stage(p2, c2, r2, kept) /\ Effects(p, c, r, p2, c2, r2) /\ LegalStep(p, p2)
  BY <1>3 DEF Carried
<1>5. QueueOk(r.queue, StoredAt(p, c, kept), kept) BY <1>1 DEF v
<1>6. QueueOk(r2.queue, StoredAt(p2, c2, kept), kept) BY <1>2, <1>4, <1>5, QueueKept
<1> QED BY <1>2, <1>4, <1>6 DEF Invariant


-----------------------------------------------------------------------------
(* Requests *)

\* A request is put at the end of the queue.
Appended(r, r2) ==
  /\ Shape(r2) /\ r2.mode = r.mode /\ r2.state = r.state /\ r2.seal = r.seal
  /\ r2.invalid = r.invalid /\ r2.phase = r.phase /\ r2.ops = r.ops
  /\ r2.defrag = r.defrag /\ r2.found_all = r.found_all /\ r2.owner = r.owner
  /\ r2.queue # <<>>
  /\ IF r.queue = <<>> THEN Head(r2.queue) \in Requests ELSE Head(r2.queue) = Head(r.queue)

\* What counts of the queue is its head.
LEMMA CleanAppended ==
  ASSUME NEW w, NEW D, NEW e, NEW kept, NEW r, NEW r2, Appended(r, r2)
  PROVE  /\ Clean(w, D, e, kept, r.queue) => Clean(w, D, e, kept, r2.queue)
         /\ SealedClean(w, D, e, kept, r.queue) => SealedClean(w, D, e, kept, r2.queue)
BY DEF Appended, Clean, SealedClean

\* No stage ends with a request.
LEMMA RequestStays ==
  ASSUME NEW p, NEW c, NEW r, NEW r2, Appended(r, r2), NEW kept, Stage(p, c, r, kept)
  PROVE  Stage(p, c, r2, kept)
<1>1. /\ r2.mode = r.mode /\ r2.state = r.state /\ r2.seal = r.seal
      /\ r2.invalid = r.invalid /\ r2.phase = r.phase /\ r2.ops = r.ops
      /\ r2.defrag = r.defrag /\ r2.found_all = r.found_all /\ r2.owner = r.owner
      /\ r2.queue # <<>>
      /\ r.queue # <<>> => Head(r2.queue) = Head(r.queue)
      /\ r.queue = <<>> => Head(r2.queue) \in Requests
  BY DEF Appended
<1>2. Ready(c, r) <=> Ready(c, r2) BY <1>1 DEF Ready
<1>3. ASSUME NEW step, Defragging(r, step) PROVE Defragging(r2, step) BY <1>1, <1>3 DEF Defragging
<1>4. ASSUME NEW E, NEW x, BackedUp(c, r, E, x, kept) PROVE BackedUp(c, r2, E, x, kept)
  BY <1>4, CleanAppended DEF BackedUp
<1>5. CASE Building(p, c, r)
  <2>1. Building(p, c, r2) BY <1>1, <1>2, <1>5 DEF Building
  <2> QED BY <2>1 DEF Stage
<1>6. CASE Fresh(p, c, r)
  <2>1. Fresh(p, c, r2) BY <1>1, <1>2, <1>6 DEF Fresh
  <2> QED BY <2>1 DEF Stage
<1>7. CASE Broken(p, c, r, kept)
  <2>1. Broken(p, c, r2, kept) BY <1>1, <1>2, <1>7 DEF Broken
  <2> QED BY <2>1 DEF Stage
<1>8. CASE Idle(p, c, r, kept)
  <2>1. PICK D : SealedClean(p.words, D, r.seal, kept, r.queue) BY <1>8 DEF Idle
  <2>2. SealedClean(p.words, D, r2.seal, kept, r2.queue) BY <1>1, <2>1, CleanAppended
  <2>3. Idle(p, c, r2, kept) BY <1>1, <1>2, <1>8, <2>2 DEF Idle
  <2> QED BY <2>3 DEF Stage
<1>9. CASE Replacing(p, c, r, kept)
  <2>1. Replacing(p, c, r2, kept) BY <1>1, <1>2, <1>9 DEF Replacing
  <2> QED BY <2>1 DEF Stage
<1>10. CASE Invalidating(p, c, r, kept)
  <2>1. Invalidating(p, c, r2, kept) BY <1>1, <1>2, <1>10 DEF Invalidating
  <2> QED BY <2>1 DEF Stage
<1>11. CASE Recovering(p, c, r, kept)
  <2>1. Recovering(p, c, r2, kept) BY <1>1, <1>2, <1>11 DEF Recovering
  <2> QED BY <2>1 DEF Stage
<1>12. CASE BackingUp(p, c, r, kept)
  <2> DEFINE l == LiveWords(p.words)
  <2>1. Defragging(r, "backup") /\ p.meta /\ \E k : BackupAt(p, c, r, l, k, kept)
    BY <1>12 DEF BackingUp, BackupAt
  <2>2. PICK k : BackupAt(p, c, r, l, k, kept) BY <2>1
  <2>3. BackupAt(p, c, r2, l, k, kept)
    <3>1. r2.ops = r.ops BY <1>1
    <3>2. PICK D, e : SealedClean(p.words, D, e, kept, r.queue) BY <2>2 DEF BackupAt
    <3>3. SealedClean(p.words, D, e, kept, r2.queue) BY <3>2, CleanAppended
    <3> QED BY <2>2, <3>1, <3>3 DEF BackupAt
  <2>4. BackingUp(p, c, r2, kept)
    <3>1. Defragging(r2, "backup") BY <1>3, <2>1
    <3> QED BY <2>1, <2>3, <3>1 DEF BackingUp, BackupAt
  <2> QED BY <2>4 DEF Stage
<1>13. CASE Erased(p, c, r, kept)
  <2>1. Erased(p, c, r2, kept) BY <1>1, <1>3, <1>4, <1>13 DEF Erased
  <2> QED BY <2>1 DEF Stage
<1>14. CASE WritingBack(p, c, r, kept)
  <2> DEFINE At(k) ==
               /\ k \in 0..SIZE /\ Remaining(r.ops, WriteBackFrom(c.words), k)
               /\ k >= 1 => p.meta
               /\ p.words = [j \in Places |-> IF j < k - 1 THEN c.words[j] ELSE Blank]
  <2>1. PICK E, x, k : BackedUp(c, r, E, x, kept) /\ At(k) BY <1>14 DEF WritingBack
  <2>2. BackedUp(c, r2, E, x, kept) BY <1>4, <2>1
  <2>3. Defragging(r2, "write_back") /\ r2.ops = r.ops BY <1>1, <1>3, <1>14 DEF WritingBack
  <2>4. WritingBack(p, c, r2, kept) BY <2>1, <2>2, <2>3 DEF WritingBack
  <2> QED BY <2>4 DEF Stage
<1>15. CASE Sealing(p, c, r, kept)
  <2>1. Sealing(p, c, r2, kept) BY <1>1, <1>3, <1>4, <1>15 DEF Sealing
  <2> QED BY <2>1 DEF Stage
<1>16. CASE Ending(p, c, r, kept)
  <2>1. Ending(p, c, r2, kept) BY <1>1, <1>3, <1>16, CleanAppended DEF Ending
  <2> QED BY <2>1 DEF Stage
<1> QED BY <1>5, <1>6, <1>7, <1>8, <1>9, <1>10, <1>11, <1>12, <1>13, <1>14, <1>15, <1>16 DEF Stage

\* A request keeps the invariant, if it leaves the handle that is kept alone.
LEMMA RequestKeeps ==
  ASSUME NEW p, NEW c, NEW r, NEW kept, Invariant(p, c, r, kept),
         NEW act \in Requests, Allowed(act, StoredAt(p, c, kept), kept),
         NEW r2, r2 = [r EXCEPT !.queue = Append(@, act)]
  PROVE  Invariant(p, c, r2, kept)
<1> DEFINE v == StoredAt(p, c, kept)
           q == r.queue
           q2 == Append(q, act)
<1>1. AreaShape(p) /\ RecoveryShape(c) /\ Shape(r) /\ QueueOk(q, v, kept) /\ Stage(p, c, r, kept)
  BY DEF Invariant
<1>2. q \in Seq(Actions) /\ act \in Actions /\ Len(q) \in Nat BY <1>1 DEF QueueOk, Actions
<1>3. /\ q2 \in Seq(Actions) /\ Len(q2) = Len(q) + 1 /\ q2[Len(q) + 1] = act
      /\ \A j \in 1..Len(q) : q2[j] = q[j]
  BY <1>2, AppendProperties
<1> HIDE DEF v
<1>4. QueueOk(q2, v, kept)
  <2>1. /\ \A j \in 2..Len(q) : q[j] \in Requests
        /\ \A j \in 1..Len(q) : q[j] \in Requests => Allowed(q[j], v, kept)
    BY <1>1 DEF QueueOk
  <2>2. Allowed(act, v, kept) BY DEF v
  <2> HIDE DEF q2, q
  <2>3. ASSUME NEW j \in 2..Len(q2) PROVE q2[j] \in Requests
    <3>1. j \in 2..Len(q) \/ j = Len(q) + 1 BY <1>2, <1>3
    <3>2. j \in 2..Len(q) => j \in 1..Len(q) BY <1>2
    <3> QED BY <1>3, <2>1, <3>1, <3>2
  <2>4. ASSUME NEW j \in 1..Len(q2), q2[j] \in Requests PROVE Allowed(q2[j], v, kept)
    <3>1. j \in 1..Len(q) \/ j = Len(q) + 1 BY <1>2, <1>3
    <3> QED BY <1>3, <2>1, <2>2, <2>4, <3>1
  <2> QED BY <1>3, <2>3, <2>4 DEF QueueOk
<1>5. r2 = [r EXCEPT !.queue = q2] OBVIOUS
<1>6. q2 # <<>> /\ Head(q2) = q2[1]
  <2> HIDE DEF q2, q
  <2> QED BY <1>2, <1>3
<1>7. IF q = <<>> THEN Head(q2) \in Requests ELSE Head(q2) = Head(q)
  <2>1. CASE q = <<>>
    <3>1. Len(q) = 0 BY <2>1
    <3> QED BY <1>3, <1>6, <2>1, <3>1
  <2>2. CASE q # <<>>
    <3>1. Head(q) = q[1] /\ 1 \in 1..Len(q) BY <1>1, <1>2, <2>2
    <3> QED BY <1>3, <1>6, <2>2, <3>1
  <2> QED BY <2>1, <2>2
<1> HIDE DEF q2
<1>8. Appended(r, r2) /\ r2.queue = q2
  <2>1. Shape(r) BY <1>1
  <2> QED BY <1>5, <1>6, <1>7, <2>1 DEF Shape, Appended
<1>9. Stage(p, c, r2, kept) BY <1>1, <1>8, RequestStays
<1>10. QueueOk(r2.queue, StoredAt(p, c, kept), kept) /\ Shape(r2) BY <1>4, <1>8 DEF v, Appended
<1> QED BY <1>1, <1>9, <1>10 DEF Invariant


-----------------------------------------------------------------------------
(* The flash manager takes up an action *)

\* The action at the head of the queue is over.
Dropped(r, r2) ==
  /\ Shape(r2) /\ r2.mode = r.mode /\ r2.seal = r.seal /\ r2.invalid = r.invalid
  /\ r2.queue = Tail(r.queue) /\ r2.phase = "idle" /\ r2.ops = r.ops /\ r2.defrag = r.defrag

\* Flash operations begin.
Started(r, r2, seal, ops) ==
  /\ Shape(r2) /\ r2.mode = r.mode /\ r2.state = r.state /\ r2.seal = seal
  /\ r2.queue = r.queue /\ r2.phase = "wait" /\ r2.ops = ops /\ r2.defrag = r.defrag

\* Behind the head of the queue there are only requests.
LEMMA QueueTail ==
  ASSUME NEW q, NEW value, NEW kept, QueueOk(q, value, kept), q # <<>>
  PROVE  /\ QueueOk(Tail(q), value, kept)
         /\ Tail(q) # <<>> => Head(Tail(q)) \in Requests
<1>1. /\ q \in Seq(Actions) /\ \A j \in 2..Len(q) : q[j] \in Requests
      /\ \A j \in 1..Len(q) : q[j] \in Requests => Allowed(q[j], value, kept)
  BY DEF QueueOk
<1> DEFINE t == Tail(q)
<1>2. /\ t \in Seq(Actions) /\ Len(q) \in Nat /\ Len(q) >= 1 /\ Len(t) = Len(q) - 1
      /\ \A j \in 1..Len(t) : t[j] = q[j + 1]
  BY <1>1, HeadTailProperties
<1> HIDE DEF t
<1>3. \A j \in 1..Len(t) : t[j] \in Requests /\ Allowed(t[j], value, kept)
  <2>1. \A j \in 1..Len(t) : j + 1 \in 2..Len(q) /\ j + 1 \in 1..Len(q) BY <1>2
  <2> QED BY <1>1, <1>2, <2>1
<1>4. QueueOk(t, value, kept)
  <2>1. \A j \in 2..Len(t) : j \in 1..Len(t) BY <1>2
  <2> QED BY <1>2, <1>3, <2>1 DEF QueueOk
<1>5. t # <<>> => Head(t) \in Requests
  <2>1. t # <<>> => Head(t) = t[1] /\ 1 \in 1..Len(t) BY <1>2
  <2> QED BY <1>3, <2>1
<1> QED BY <1>4, <1>5 DEF t

\* The head of the queue is dropped.
LEMMA FreeDrops ==
  ASSUME NEW r, Shape(r), NEW r2, r2 = FreePacketBuffer(r)
  PROVE  Dropped(r, r2) /\ r2.state = r.state
<1> DEFINE t == Tail(r.queue)
<1>1. r2 = [r EXCEPT !.queue = t, !.phase = "idle"] BY DEF FreePacketBuffer
<1> HIDE DEF t
<1>2. /\ Shape(r2) /\ r2.mode = r.mode /\ r2.seal = r.seal /\ r2.invalid = r.invalid
      /\ r2.queue = t /\ r2.phase = "idle" /\ r2.ops = r.ops /\ r2.defrag = r.defrag
      /\ r2.state = r.state
  BY <1>1 DEF Shape
<1> QED BY <1>2 DEF Dropped, t

\* The first entry of a handle
LEMMA FoundFirst ==
  ASSUME NEW h, Found(h) \in SUBSET (0..SIZE), Found(h) # {}
  PROVE  Min(Found(h)) \in Found(h) /\ \A i \in Found(h) : Min(Found(h)) <= i
BY MaxMin

\* A replacement is dropped when the area is full, or its operations begin.
LEMMA ReplaceStarts ==
  ASSUME NEW r, Shape(r), r.seal \in Nat, NEW h \in Handles, NEW v \in VALUES, Found(h) \in SUBSET Places,
         NEW act, act = Action("replace", h, v, "user"), NEW r2, r2 = ExecuteAction(r, act)
  PROVE  /\ r.seal + LEN[h] >= SIZE => Dropped(r, r2) /\ r2.state = r.state
         /\ r.seal + LEN[h] < SIZE /\ Found(h) = {}
              => Started(r, r2, r.seal, ReplaceOps(r.seal, h, v, NOWHERE))
         /\ r.seal + LEN[h] < SIZE /\ Found(h) # {}
              => Started(r, r2, r.seal, ReplaceOps(r.seal, h, v, Min(Found(h))))
<1> DEFINE seal == r.seal + LEN[h]
           s == r.seal
           W == EntryOps(s, h, v) \o <<WriteWord("page", seal, SealHeader)>>
           written == [r EXCEPT !.phase = "wait", !.ops = W]
           old == Min(Found(h))
           y == Invalidation(old)
<1>0. seal \in Nat /\ SIZE \in Nat BY HandleFacts
<1>1. act.op = "replace" /\ act.handle = h /\ act.value = v BY DEF Action
<1>2. r2 = ExecuteReplace(r, act) BY <1>1 DEF ExecuteAction
<1>3. r2 = IF seal >= SIZE THEN FreePacketBuffer(r)
           ELSE IF Found(h) = {} THEN written
           ELSE InvalidateFirst(written, h)
  BY <1>1, <1>2 DEF ExecuteReplace
<1>4. /\ ReplaceOps(s, h, v, NOWHERE) = W
      /\ old # NOWHERE => ReplaceOps(s, h, v, old) = Append(W, y)
  BY DEF ReplaceOps
<1> HIDE DEF W
<1>5. Shape(written) /\ Started(r, written, s, W)
  BY DEF Shape, Started
<1>6. CASE seal >= SIZE
  <2>1. r2 = FreePacketBuffer(r) /\ ~(seal < SIZE) BY <1>0, <1>3, <1>6
  <2> QED BY <1>6, <2>1, FreeDrops
<1>7. CASE ~(seal >= SIZE) /\ Found(h) = {} BY <1>3, <1>4, <1>5, <1>7
<1>8. CASE ~(seal >= SIZE) /\ Found(h) # {}
  <2>1. old \in Found(h)
    <3>1. Found(h) \in SUBSET (0..SIZE)
      <4>1. Places \subseteq 0..SIZE BY HandleFacts DEF Places
      <4> QED BY <4>1
    <3> QED BY <1>8, <3>1, FoundFirst
  <2>2. old # NOWHERE
    <3>1. old \in Places BY <2>1
    <3> HIDE DEF old
    <3> QED BY <3>1, HandleFacts DEF Places, NOWHERE
  <2> DEFINE n == written.invalid + page.words[old].len
             X == Append(W, y)
  <2>3. r2 = [written EXCEPT !.invalid = n, !.ops = X]
    <3>1. r2 = InvalidateFirst(written, h) BY <1>3, <1>8
    <3>2. written.ops = W BY <1>5 DEF Started
    <3>3. InvalidateFirst(written, h) = [written EXCEPT !.invalid = n, !.ops = Append(written.ops, y)]
      BY DEF InvalidateFirst, Invalidation
    <3> HIDE DEF written, n, y
    <3> QED BY <3>1, <3>2, <3>3
  <2> HIDE DEF n, X, written
  <2>4. Started(r, r2, s, X) BY <1>5, <2>3 DEF Shape, Started
  <2>5. Started(r, r2, s, ReplaceOps(s, h, v, old)) BY <1>4, <2>2, <2>4 DEF X
  <2> QED BY <1>8, <2>5
<1> QED BY <1>6, <1>7, <1>8

\* An invalidation is dropped when there is no entry, or its operation begins.
LEMMA InvalidateStarts ==
  ASSUME NEW r, Shape(r), r.ops = <<>>, NEW act, act.op = "invalidate", NEW r2, r2 = ExecuteAction(r, act)
  PROVE  /\ Found(act.handle) = {} => Dropped(r, r2) /\ r2.state = r.state
         /\ Found(act.handle) # {} => Started(r, r2, r.seal, <<Invalidation(Min(Found(act.handle)))>>)
<1> DEFINE h == act.handle
           old == Min(Found(h))
           y == Invalidation(old)
           r1 == [r EXCEPT !.phase = "wait"]
           n == r1.invalid + page.words[old].len
           X == <<y>>
<1>1. r2 = IF Found(h) = {} THEN FreePacketBuffer(r) ELSE InvalidateFirst(r1, h)
  BY DEF ExecuteAction, ExecuteInvalidate
<1>2. Found(h) = {} => Dropped(r, r2) /\ r2.state = r.state BY <1>1, FreeDrops
<1>3. Shape(r1) /\ Started(r, r1, r.seal, r.ops) BY DEF Shape, Started
<1>4. Append(<<>>, y) = X
  <2> HIDE DEF y
  <2> QED OBVIOUS
<1>5. InvalidateFirst(r1, h) = [r1 EXCEPT !.invalid = n, !.ops = Append(r1.ops, y)]
  BY DEF InvalidateFirst, Invalidation
<1>6. r1.ops = <<>> BY <1>3 DEF Started
<1> HIDE DEF X, r1, n, y, old
<1>7. ASSUME Found(h) # {} PROVE Started(r, r2, r.seal, X)
  <2>1. r2 = [r1 EXCEPT !.invalid = n, !.ops = X] BY <1>1, <1>4, <1>5, <1>6, <1>7
  <2> QED BY <1>3, <2>1 DEF Shape, Started
<1> QED BY <1>2, <1>7 DEF X, y, old

\* The operations that repair a torn area
LEMMA RecoverStarts ==
  ASSUME NEW r, Shape(r), NEW D, NEW e, NEW t, Torn(page.words, D, e, t),
         NEW r2, r2 = ExecuteAction(r, RecoverSeal)
  PROVE  /\ page.words[t].handle = "invalid" => Started(r, r2, e, <<WriteWord("page", e, SealHeader)>>)
         /\ page.words[t].handle # "invalid"
              => Started(r, r2, e, <<Invalidation(t), WriteWord("page", e, SealHeader)>>)
<1> DEFINE w == page.words
           last == LastEntry(w)
           next == NextEntry(w, last)
           x == WriteWord("page", e, SealHeader)
           y == Invalidation(t)
<1>1. Chain(w, D, e) /\ w[e] = Blank /\ t \in D /\ t + w[t].len = e BY DEF Torn
<1>2. Entries(w) = D /\ (Sealed(w) <=> w[e] = SealHeader) BY <1>1, ChainWalk
<1>3. ~Sealed(w) BY <1>1, <1>2, WordFacts
<1>4. last = t
  <2>1. t = Max(D) BY <1>1, LastEnds
  <2> QED BY <1>2, <1>3, <2>1 DEF LastEntry
<1>5. next = e /\ ~(e >= SIZE)
  <2>1. e \in Nat /\ SIZE \in Nat /\ e < SIZE BY <1>1, ChainBounds
  <2>2. NextEntry(w, t) = IF t + w[t].len > SIZE THEN SIZE ELSE t + w[t].len BY DEF NextEntry
  <2>3. NextEntry(w, t) = e BY <1>1, <2>1, <2>2
  <2> QED BY <1>4, <2>1, <2>3
<1> DEFINE invalid == IF w[last].handle = "invalid" THEN <<>> ELSE <<WriteWord("page", last, InvalidHeader)>>
           sealed == IF next >= SIZE THEN <<>> ELSE <<WriteWord("page", next, SealHeader)>>
           ops == invalid \o sealed
<1>6. r2 = [r EXCEPT !.phase = "wait", !.seal = next, !.ops = ops]
  <2>1. RecoverSeal.op = "recover_seal" BY RequestFacts
  <2>2. r2 = ExecuteRecoverSeal(r) BY <2>1 DEF ExecuteAction
  <2>3. ~(Entries(w) = {} /\ ~Sealed(w)) BY <1>1, <1>2
  <2> QED BY <2>2, <2>3 DEF ExecuteRecoverSeal
<1>7. sealed = <<x>> BY <1>5
<1>8. invalid = IF w[t].handle = "invalid" THEN <<>> ELSE <<y>> BY <1>4 DEF Invalidation
<1> HIDE DEF x, y, invalid, sealed
<1>9. w[t].handle = "invalid" => ops = <<x>>
  <2>1. <<>> \o <<x>> = <<x>>
    <3>1. <<x>> \in Seq({x}) OBVIOUS
    <3> QED BY <3>1
  <2> QED BY <1>7, <1>8, <2>1
<1>10. w[t].handle # "invalid" => ops = <<y, x>>
  <2>1. <<y>> \o <<x>> = <<y, x>>
    <3> DEFINE S == {x, y}
               A == <<y>>
               B == <<x>>
    <3>1. A \in Seq(S) /\ B \in Seq(S) /\ Len(A) = 1 /\ Len(B) = 1 /\ A[1] = y /\ B[1] = x OBVIOUS
    <3> HIDE DEF S, A, B
    <3>2. /\ A \o B \in Seq(S) /\ Len(A \o B) = 2
          /\ \A j \in 1..2 : (A \o B)[j] = IF j <= 1 THEN A[j] ELSE B[j - 1]
      <4>1. /\ A \o B \in Seq(S) /\ Len(A \o B) = Len(A) + Len(B)
            /\ \A j \in 1..(Len(A) + Len(B)) : (A \o B)[j] = IF j <= Len(A) THEN A[j] ELSE B[j - Len(A)]
        BY <3>1, ConcatProperties
      <4> QED BY <3>1, <4>1
    <3> DEFINE C == A \o B
    <3>3. C \in Seq(S) /\ Len(C) = 2 /\ C[1] = y /\ C[2] = x BY <3>1, <3>2
    <3> HIDE DEF C
    <3>4. C = <<y, x>> BY <3>3
    <3> QED BY <3>4 DEF A, B, C
  <2> QED BY <1>7, <1>8, <2>1
<1> HIDE DEF ops, next
<1>11. Started(r, r2, e, ops)
  <2>1. r2 = [r EXCEPT !.phase = "wait", !.seal = e, !.ops = ops] BY <1>5, <1>6
  <2> QED BY <2>1 DEF Shape, Started
<1> QED BY <1>9, <1>10, <1>11 DEF x, y

\* The metadata of a page that has none
LEMMA BuildStarts ==
  ASSUME NEW r, Shape(r), NEW r2, r2 = ExecuteAction(r, BuildMetadata)
  PROVE  Started(r, r2, r.seal, <<WriteMeta("page")>>) /\ r2.invalid = r.invalid
<1> DEFINE ops == <<WriteMeta("page")>>
<1>1. BuildMetadata.op = "build_metadata" BY RequestFacts
<1>2. r2 = [r EXCEPT !.phase = "wait", !.ops = ops] BY <1>1 DEF ExecuteAction, ExecuteBuildMetadata
<1> HIDE DEF ops
<1>3. Started(r, r2, r.seal, ops) /\ r2.invalid = r.invalid BY <1>2 DEF Shape, Started
<1> QED BY <1>3 DEF ops

\* What becomes of the queue: its first action stays there, without an effect on what
\* is stored, or it is over.
Proceeds(r, r2) ==
  \/ /\ r2.queue = r.queue
     /\ (EffectiveOf(r2) <=> EffectiveOf(r)) \/ (r.queue # <<>> /\ Head(r.queue) \notin Requests)
  \/ r.queue # <<>> /\ r2.queue = Tail(r.queue) /\ ~EffectiveOf(r2)

\* What a step of the flash manager has to show
Proceeded(p, c, r, r2, kept) ==
  /\ Shape(r2) /\ QueueOk(r2.queue, StoredAt(p, c, kept), kept)
  /\ Stage(p, c, r2, kept) /\ Proceeds(r, r2)

\* A queue whose first action is a request finds a tidy area.
LEMMA CleanTidy ==
  ASSUME NEW w, NEW D, NEW e, NEW kept, NEW q, Clean(w, D, e, kept, q)
  PROVE  /\ Chain(w, D, e) /\ HasKept(w, Data(w, D), kept)
         /\ (q # <<>> => Head(q) \in Requests) => Tidy(w, D, e)
BY RequestFacts DEF Clean, Tidy, Doubled

\* Nothing is under way, and the head of the queue is a request.
LEMMA IdleAgain ==
  ASSUME NEW p, NEW c, NEW r, NEW kept, Ready(c, r), r.state = "ready", p.meta, r.phase = "idle",
         r.ops = <<>>, NEW D, Tidy(p.words, D, r.seal), p.words[r.seal] = SealHeader,
         HasKept(p.words, Data(p.words, D), kept), r.queue # <<>> => Head(r.queue) \in Requests
  PROVE  Idle(p, c, r, kept)
<1>1. SealedClean(p.words, D, r.seal, kept, r.queue) BY DEF SealedClean, Clean
<1>2. r.phase \in {"idle", "processing"} /\ (r.phase = "processing" => r.queue # <<>>) OBVIOUS
<1> QED BY <1>1, <1>2 DEF Idle

\* An action that is over leaves the queue to the requests behind it.
LEMMA DropProceeds ==
  ASSUME NEW p, NEW c, NEW r, NEW kept, QueueOk(r.queue, StoredAt(p, c, kept), kept), r.queue # <<>>,
         NEW r2, Dropped(r, r2)
  PROVE  /\ Shape(r2) /\ QueueOk(r2.queue, StoredAt(p, c, kept), kept) /\ Proceeds(r, r2)
         /\ r2.queue # <<>> => Head(r2.queue) \in Requests
<1> DEFINE v == StoredAt(p, c, kept)
<1>1. QueueOk(Tail(r.queue), v, kept) /\ (Tail(r.queue) # <<>> => Head(Tail(r.queue)) \in Requests)
  <2> HIDE DEF v
  <2>1. QueueOk(r.queue, v, kept) BY DEF v
  <2> QED BY <2>1, QueueTail
<1>2. Shape(r2) /\ r2.queue = Tail(r.queue) /\ r2.phase = "idle" BY DEF Dropped
<1>3. ~EffectiveOf(r2) BY <1>2 DEF EffectiveOf
<1>4. Proceeds(r, r2) BY <1>2, <1>3 DEF Proceeds
<1> QED BY <1>1, <1>2, <1>4

\* A request is refused: there is no room, or no entry.
LEMMA RefuseProceeds ==
  ASSUME NEW p, NEW c, NEW r, NEW kept, Fresh(p, c, r) \/ Idle(p, c, r, kept), r.queue # <<>>,
         Head(r.queue) \in Requests, QueueOk(r.queue, StoredAt(p, c, kept), kept),
         NEW r2, Dropped(r, r2), r2.state = r.state
  PROVE  Proceeded(p, c, r, r2, kept)
<1> DEFINE w == p.words
<1>1. /\ Shape(r2) /\ QueueOk(r2.queue, StoredAt(p, c, kept), kept) /\ Proceeds(r, r2)
      /\ r2.queue # <<>> => Head(r2.queue) \in Requests
  BY DropProceeds
<1>2. /\ r2.mode = r.mode /\ r2.seal = r.seal /\ r2.invalid = r.invalid /\ r2.phase = "idle"
      /\ r2.ops = r.ops /\ r2.defrag = r.defrag
  BY DEF Dropped
<1>3. CASE Fresh(p, c, r)
  <2>1. Fresh(p, c, r2) BY <1>1, <1>2, <1>3 DEF Fresh, Ready
  <2> QED BY <1>1, <2>1 DEF Proceeded, Stage
<1>4. CASE Idle(p, c, r, kept)
  <2>1. PICK D : SealedClean(w, D, r.seal, kept, r.queue) BY <1>4 DEF Idle
  <2>2. w[r.seal] = SealHeader /\ Clean(w, D, r.seal, kept, r.queue) BY <2>1 DEF SealedClean
  <2>3. Tidy(w, D, r.seal) /\ HasKept(w, Data(w, D), kept) BY <2>2, CleanTidy
  <2>4. Ready(c, r2) /\ r2.state = "ready" /\ p.meta /\ r2.ops = <<>> BY <1>2, <1>4 DEF Idle, Ready
  <2>5. Idle(p, c, r2, kept) BY <1>1, <1>2, <2>2, <2>3, <2>4, IdleAgain
  <2> QED BY <1>1, <2>5 DEF Proceeded, Stage
<1> QED BY <1>3, <1>4

\* The entries that are found are those with data.
LEMMA FoundIs ==
  ASSUME NEW D, NEW e, Chain(page.words, D, e), NEW h \in Handles
  PROVE  /\ Found(h) = {i \in Data(page.words, D) : page.words[i].handle = h}
         /\ Found(h) \in SUBSET Places /\ Found(h) \in SUBSET (0..SIZE)
<1>1. Entries(page.words) = D BY ChainWalk
<1>2. \A i \in D : i \in Places /\ i \in 0..SIZE BY ChainNext
<1> QED BY <1>1, <1>2 DEF Found, EntriesOf, Data

\* A blank page is an area without an entry.
LEMMA BlankTidy ==
  /\ Tidy(BlankPage.words, {}, 0) /\ Data(BlankPage.words, {}) = {}
  /\ \A h \in Handles : InArea(BlankPage.words, h) = NONE
<1> DEFINE w == BlankPage.words
<1>1. w = [i \in Places |-> Blank] BY DEF BlankPage
<1>2. 0 \in Places BY HandleFacts DEF Places
<1>3. w \in [Places -> Words] BY <1>1, WordFacts
<1>4. Data(w, {}) = {} BY DEF Data
<1>5. Chain(w, {}, 0) BY <1>1, <1>2, <1>3 DEF Chain
<1>6. Tidy(w, {}, 0) BY <1>4, <1>5 DEF Tidy, Sound, Apart
<1>7. ASSUME NEW h \in Handles PROVE InArea(w, h) = NONE
  <2> DEFINE b == FALSE
             D == {}
  <2>1. b \in BOOLEAN /\ InArea(w, h) = StoredIn(w, h, b) BY DEF InArea
  <2>2. Chain(w, D, 0) BY <1>5
  <2>3. Has(w, D, 0, b, h) = {} BY <1>4 DEF Has, Counted
  <2> HIDE DEF b, w, D
  <2> QED BY <2>1, <2>2, <2>3, StoredIs
<1> QED BY <1>4, <1>6, <1>7

\* A new entry of h can be written: it is the first one, or another one is kept.
RoomFor(w, D, e, h, kept) ==
  /\ Tidy(w, D, e) /\ (w[e] = SealHeader \/ D = {})
  /\ h = kept \/ HasKept(w, Data(w, D), kept)

\* The flash manager is ready to take up the action at the head of the queue.
TakesUp(p, c, r) ==
  /\ Ready(c, r) /\ Shape(r) /\ r.state = "ready" /\ p.meta /\ r.phase # "wait" /\ r.ops = <<>>
  /\ r.queue # <<>> /\ r.seal \in Nat

\* A replacement begins.
LEMMA ReplaceProceeds ==
  ASSUME NEW c, NEW r, TakesUp(page, c, r), NEW kept \in Handles, NEW h \in Handles, NEW v \in VALUES,
         Head(r.queue) = Action("replace", h, v, "user"),
         NEW D, RoomFor(page.words, D, r.seal, h, kept), r.seal + LEN[h] < SIZE,
         NEW r2, r2 = ExecuteAction(r, Head(r.queue))
  PROVE  Shape(r2) /\ r2.queue = r.queue /\ Proceeds(r, r2) /\ Replacing(page, c, r2, kept)
<1> DEFINE w == page.words
           s == r.seal
           act == Head(r.queue)
           old == IF Found(h) = {} THEN NOWHERE ELSE Min(Found(h))
           F == ReplaceOps(s, h, v, old)
<1>1. /\ Tidy(w, D, s) /\ (w[s] = SealHeader \/ D = {})
      /\ h = kept \/ HasKept(w, Data(w, D), kept)
  BY DEF RoomFor
<1>2. Chain(w, D, s) BY <1>1 DEF Tidy
<1>3. /\ Found(h) = {i \in Data(w, D) : w[i].handle = h}
      /\ Found(h) \in SUBSET Places /\ Found(h) \in SUBSET (0..SIZE)
  BY <1>2, FoundIs
<1>4. /\ Ready(c, r) /\ Shape(r) /\ r.state = "ready" /\ page.meta /\ r.phase # "wait" /\ r.ops = <<>>
      /\ r.queue # <<>> /\ s \in Nat
  BY DEF TakesUp
<1>5. Started(r, r2, s, F)
  <2>1. /\ Found(h) = {} => Started(r, r2, s, ReplaceOps(s, h, v, NOWHERE))
        /\ Found(h) # {} => Started(r, r2, s, ReplaceOps(s, h, v, Min(Found(h))))
    BY <1>3, <1>4, ReplaceStarts
  <2> QED BY <2>1
<1>6. old \in Places \cup {NOWHERE} /\ Replaces(w, Data(w, D), h, old)
  <2>1. CASE Found(h) = {} BY <1>3, <2>1 DEF Replaces
  <2>2. CASE Found(h) # {}
    <3>1. Min(Found(h)) \in Found(h) BY <1>3, <2>2, FoundFirst
    <3>2. old \in Found(h) BY <2>2, <3>1
    <3> HIDE DEF old
    <3>3. old \in Places /\ old \in Data(w, D) /\ w[old].handle = h BY <1>3, <3>2
    <3>4. old # NOWHERE BY <3>3, HandleFacts DEF Places, NOWHERE
    <3> QED BY <3>3, <3>4 DEF Replaces
  <2> QED BY <2>1, <2>2
<1> HIDE DEF old
<1>7. Starting(w, s, h, old, kept) BY <1>1, <1>6 DEF Starting
<1>8. F \in Seq(Operations) /\ Remaining(F, F, 0)
  <2>1. Replacement(F, s, h, v, old) BY DEF Replacement
  <2> HIDE DEF F
  <2>2. F \in Seq(Operations) BY <1>4, <1>6, <2>1, ReplaceOpsAre
  <2> QED BY <2>2, RemainingAll
<1>9. /\ Shape(r2) /\ r2.mode = r.mode /\ r2.state = r.state /\ r2.seal = s
      /\ r2.queue = r.queue /\ r2.phase = "wait" /\ r2.ops = F /\ r2.defrag = r.defrag
  BY <1>5 DEF Started
<1>10. Replacing(page, c, r2, kept)
  <2>1. Ready(c, r2) /\ r2.state = "ready" /\ r2.queue # <<>> BY <1>4, <1>9 DEF Ready
  <2>2. ReplacingAt(w, s, h, v, old, 0, kept) BY <1>7 DEF ReplacingAt
  <2>3. Remaining(r2.ops, ReplaceOps(r2.seal, h, v, old), 0) BY <1>8, <1>9
  <2>4. 0 \in Nat OBVIOUS
  <2> HIDE DEF F
  <2> QED BY <1>4, <1>6, <1>9, <2>1, <2>2, <2>3, <2>4 DEF Replacing
<1>11. Proceeds(r, r2)
  <2>1. ~EffectiveOf(r) BY <1>4 DEF EffectiveOf
  <2>2. ~EffectiveOf(r2)
    <3> DEFINE k == 0
    <3>1. k \in Nat /\ Replacement(F, s, h, v, old) /\ Remaining(F, F, k) /\ ~(k > LEN[h])
      BY <1>8, HandleFacts DEF Replacement
    <3> HIDE DEF k, F
    <3>2. ~NoSeal(F) BY <1>4, <1>6, <3>1, ReplaceEffective
    <3>3. Head(r2.queue).op = "replace" BY <1>9, RequestFacts
    <3> QED BY <1>9, <3>2, <3>3 DEF EffectiveOf, NoSeal
  <2> QED BY <1>9, <2>1, <2>2 DEF Proceeds
<1> QED BY <1>9, <1>10, <1>11

\* An invalidation begins, or there is nothing to invalidate.
LEMMA InvalidateProceeds ==
  ASSUME NEW c, NEW r, Shape(r), NEW kept \in Handles, Idle(page, c, r, kept), r.queue # <<>>,
         QueueOk(r.queue, StoredAt(page, c, kept), kept), Head(r.queue).op = "invalidate",
         NEW r2, r2 = ExecuteAction(r, Head(r.queue))
  PROVE  Proceeded(page, c, r, r2, kept)
<1> DEFINE w == page.words
           e == r.seal
           act == Head(r.queue)
           h == act.handle
           old == Min(Found(h))
           F == <<Invalidation(old)>>
<1>1. /\ Ready(c, r) /\ r.state = "ready" /\ page.meta /\ r.phase # "wait" /\ r.ops = <<>>
  BY DEF Idle
<1>2. PICK D : SealedClean(w, D, e, kept, r.queue) BY DEF Idle
<1>3. w[e] = SealHeader /\ Clean(w, D, e, kept, r.queue) BY <1>2 DEF SealedClean
<1>4. Chain(w, D, e) /\ HasKept(w, Data(w, D), kept) BY <1>3, CleanTidy
<1>5. /\ Found(h) = {} => Dropped(r, r2) /\ r2.state = r.state
      /\ Found(h) # {} => Started(r, r2, e, F)
  BY <1>1, InvalidateStarts
\* The operation is there.
<1>6. ASSUME Found(h) # {}, old \in Data(w, D), h = w[old].handle,
             \/ act \in Requests /\ Tidy(w, D, e)
             \/ act = BootInvalidate(w[old].handle) /\ Doubled(w, D, e, old)
      PROVE  Proceeded(page, c, r, r2, kept)
  <2>1. Started(r, r2, e, F) BY <1>5, <1>6
  <2>2. /\ Shape(r2) /\ r2.mode = r.mode /\ r2.state = r.state /\ r2.seal = e
        /\ r2.queue = r.queue /\ r2.phase = "wait" /\ r2.ops = F /\ r2.defrag = r.defrag
    BY <2>1 DEF Started
  <2>3. Ready(c, r2) /\ r2.state = "ready" /\ r2.queue # <<>> BY <1>1, <2>2 DEF Ready
  <2> HIDE DEF old
  <2>4. /\ w[r2.seal] = SealHeader /\ HasKept(w, Data(w, D), kept) /\ Head(r2.queue).op = "invalidate"
        /\ r2.ops = <<Invalidation(old)>> /\ Head(r2.queue).handle = w[old].handle
        /\ \/ Head(r2.queue) \in Requests /\ Tidy(w, D, r2.seal)
           \/ Head(r2.queue) = BootInvalidate(w[old].handle) /\ Doubled(w, D, r2.seal, old)
    BY <1>3, <1>4, <1>6, <2>2
  <2>5. Invalidating(page, c, r2, kept)
    <3>1. old \in Data(w, D) /\ page.meta /\ r2.phase = "wait" BY <1>1, <1>6, <2>2
    <3>2. \E i \in Data(w, D) :
            /\ r2.ops = <<Invalidation(i)>>
            /\ Head(r2.queue).handle = w[i].handle
            /\ \/ Head(r2.queue) \in Requests /\ Tidy(w, D, r2.seal)
               \/ Head(r2.queue) = BootInvalidate(w[i].handle) /\ Doubled(w, D, r2.seal, i)
      BY <2>4, <3>1
    <3> QED BY <2>3, <2>4, <3>1, <3>2 DEF Invalidating
  <2>6. Proceeds(r, r2)
    <3>1. ~EffectiveOf(r) BY <1>1 DEF EffectiveOf
    <3>2. ~EffectiveOf(r2)
      <4> DEFINE y == Invalidation(old)
      <4>1. r2.ops # <<>>
        <5>1. r2.ops = <<y>> BY <2>2
        <5> HIDE DEF y
        <5>2. <<y>> \in Seq({y}) /\ Len(<<y>>) = 1 OBVIOUS
        <5>3. <<y>> # <<>> BY <5>2, EmptySeq
        <5> QED BY <5>1, <5>3
      <4>2. Head(r2.queue).op # "replace" BY <2>2
      <4> QED BY <4>1, <4>2 DEF EffectiveOf
    <3> QED BY <2>2, <3>1, <3>2 DEF Proceeds
  <2>7. QueueOk(r2.queue, StoredAt(page, c, kept), kept) BY <2>2
  <2> QED BY <2>2, <2>5, <2>6, <2>7 DEF Proceeded, Stage
<1>7. CASE act \in Requests
  <2>1. Tidy(w, D, e) BY <1>3, <1>7, CleanTidy
  <2>2. h \in Handles BY <1>7, RequestFacts
  <2>3. /\ Found(h) = {i \in Data(w, D) : w[i].handle = h} /\ Found(h) \in SUBSET (0..SIZE)
    BY <1>4, <2>2, FoundIs
  <2>4. CASE Found(h) = {} BY <1>5, <1>7, <2>4, RefuseProceeds
  <2>5. CASE Found(h) # {}
    <3>1. old \in Found(h) BY <2>3, <2>5, FoundFirst
    <3> HIDE DEF old
    <3> QED BY <1>6, <1>7, <2>1, <2>3, <2>5, <3>1
  <2> QED BY <2>4, <2>5
<1>8. CASE act \notin Requests
  <2>1. PICK i \in D : act = BootInvalidate(w[i].handle) /\ Doubled(w, D, e, i) BY <1>3, <1>8 DEF Clean
  <2>2. h = w[i].handle BY <2>1, RequestFacts
  <2>3. /\ i \in Data(w, D) /\ Apart(w, Data(w, D) \ {i})
        /\ \E j \in D : i < j /\ w[j].handle = w[i].handle /\ j + w[j].len = e
    BY <2>1 DEF Doubled
  <2>4. h \in Handles BY <2>2, <2>3 DEF Data
  <2>5. /\ Found(h) = {k \in Data(w, D) : w[k].handle = h} /\ Found(h) \in SUBSET (0..SIZE)
    BY <1>4, <2>4, FoundIs
  <2>6. i \in Found(h) BY <2>2, <2>3, <2>5
  <2>7. old \in Found(h) /\ old <= i BY <2>5, <2>6, FoundFirst
  <2> HIDE DEF old
  <2>8. old = i
    <3>1. PICK j \in D : i < j /\ w[j].handle = w[i].handle BY <2>3
    <3>2. j \in Data(w, D) BY <2>2, <2>4, <3>1 DEF Data
    <3>3. old \in Data(w, D) /\ w[old].handle = h BY <2>5, <2>7
    <3>4. old \in D BY <3>3 DEF Data
    <3>5. old \in Nat /\ i \in Nat /\ j \in Nat BY <1>4, <3>1, <3>4, ChainBounds
    <3>6. ASSUME old # i PROVE FALSE
      <4>1. i # j BY <3>1, <3>5
      <4>2. old \in Data(w, D) \ {i} /\ j \in Data(w, D) \ {i} BY <3>2, <3>3, <3>6, <4>1
      <4>3. old = j BY <2>2, <2>3, <3>1, <3>3, <4>2 DEF Apart
      <4> QED BY <2>7, <3>1, <3>5, <4>3
    <3> QED BY <3>6
  <2> QED BY <1>6, <2>1, <2>2, <2>3, <2>6, <2>8
<1> QED BY <1>7, <1>8

\* The page gets its metadata, the area its seal again.
LEMMA BootProceeds ==
  ASSUME NEW c, NEW r, Shape(r), NEW kept \in Handles, r.phase = "idle",
         Building(page, c, r) \/ Broken(page, c, r, kept),
         QueueOk(r.queue, StoredAt(page, c, kept), kept), NEW r2, r2 = ExecuteAction(r, Head(r.queue))
  PROVE  Proceeded(page, c, r, r2, kept)
<1>0. ASSUME Head(r.queue) \notin Requests, r2.queue = r.queue, r.queue # <<>>, Shape(r2), Stage(page, c, r2, kept)
      PROVE  Proceeded(page, c, r, r2, kept)
  BY <1>0 DEF Proceeded, Proceeds
<1>1. CASE Building(page, c, r)
  <2> DEFINE F == <<WriteMeta("page")>>
  <2>1. /\ Ready(c, r) /\ r.state = "building" /\ r.seal = 0 /\ r.invalid = 0
        /\ page.words = BlankPage.words /\ r.queue # <<>> /\ Head(r.queue) = BuildMetadata
    BY <1>1 DEF Building
  <2>2. Started(r, r2, r.seal, F) /\ r2.invalid = r.invalid BY <2>1, BuildStarts
  <2>3. Building(page, c, r2) BY <2>1, <2>2 DEF Building, Started, Ready
  <2> QED BY <1>0, <2>1, <2>2, <2>3, RequestFacts DEF Stage, Started
<1>2. CASE Broken(page, c, r, kept)
  <2> DEFINE w == page.words
             t == r.seal
  <2>1. /\ Ready(c, r) /\ r.state = "ready" /\ page.meta
        /\ r.queue # <<>> /\ Head(r.queue) = RecoverSeal
    BY <1>2 DEF Broken
  <2>2. PICK D, e : Torn(w, D, e, t) /\ HasKept(w, Data(w, D) \ {t}, kept) BY <1>2 DEF Broken
  <2> DEFINE X == <<WriteWord("page", e, SealHeader)>>
             Y == <<Invalidation(t), WriteWord("page", e, SealHeader)>>
  <2>3. /\ w[t].handle = "invalid" => Started(r, r2, e, X)
        /\ w[t].handle # "invalid" => Started(r, r2, e, Y)
    BY <2>1, <2>2, RecoverStarts
  <2>4. t \in D BY <2>2 DEF Torn
  <2> DEFINE F == IF w[t].handle = "invalid" THEN X ELSE Y
  <2>5. Started(r, r2, e, F) BY <2>3
  <2>6. IF w[t].handle = "invalid" THEN F = X ELSE F = Y OBVIOUS
  <2> HIDE DEF F, X, Y
  <2>7. /\ Shape(r2) /\ r2.mode = r.mode /\ r2.state = r.state /\ r2.seal = e
        /\ r2.queue = r.queue /\ r2.phase = "wait" /\ r2.ops = F /\ r2.defrag = r.defrag
    BY <2>5 DEF Started
  <2>8. Recovering(page, c, r2, kept)
    <3>1. Ready(c, r2) /\ r2.state = "ready" /\ r2.queue # <<>> /\ Head(r2.queue) = RecoverSeal
      BY <2>1, <2>7 DEF Ready
    <3>2. /\ Torn(w, D, r2.seal, t) /\ HasKept(w, Data(w, D) \ {t}, kept)
          /\ IF w[t].handle = "invalid" THEN r2.ops = <<WriteWord("page", r2.seal, SealHeader)>>
             ELSE r2.ops = <<Invalidation(t), WriteWord("page", r2.seal, SealHeader)>>
      BY <2>2, <2>6, <2>7 DEF X, Y
    <3> QED BY <2>1, <2>4, <2>7, <3>1, <3>2 DEF Recovering
  <2>9. Head(r.queue) \notin Requests BY <2>1, RequestFacts
  <2>10. Stage(page, c, r2, kept) BY <2>8 DEF Stage
  <2> QED BY <1>0, <2>1, <2>7, <2>9, <2>10
<1> QED BY <1>1, <1>2

\* When there is no entry yet, a request is the one that stores the handle that is
\* kept, or finds nothing.
LEMMA FreshProceeds ==
  ASSUME NEW c, NEW r, Shape(r), NEW kept \in Handles, Fresh(page, c, r), r.queue # <<>>,
         QueueOk(r.queue, StoredAt(page, c, kept), kept), NEW r2, r2 = ExecuteAction(r, Head(r.queue))
  PROVE  Proceeded(page, c, r, r2, kept)
<1> DEFINE act == Head(r.queue)
           v0 == StoredAt(page, c, kept)
           w == page.words
           D == {}
<1>1. /\ Ready(c, r) /\ r.state = "ready" /\ r.seal = 0 /\ page.meta
      /\ w = BlankPage.words /\ r.phase = "idle" /\ r.ops = <<>> /\ act \in Requests
  BY DEF Fresh
<1>2. Tidy(w, D, r.seal) /\ Data(w, D) = {} /\ v0 = NONE
  <2>1. c.ptr # "set" BY <1>1 DEF Ready
  <2> QED BY <1>1, <2>1, BlankTidy DEF StoredAt
<1>3. Chain(w, D, r.seal) BY <1>2 DEF Tidy
<1>4. Allowed(act, v0, kept)
  <2> HIDE DEF v0
  <2>1. QueueOk(r.queue, v0, kept) BY DEF v0
  <2> QED BY <1>1, <2>1, QueueHead
<1>5. act.handle \in Handles BY <1>1, RequestFacts
<1>6. Found(act.handle) = {} BY <1>2, <1>3, <1>5, FoundIs
<1> HIDE DEF v0
<1>7. CASE act.op = "invalidate"
  <2>1. Dropped(r, r2) /\ r2.state = r.state BY <1>1, <1>6, <1>7, InvalidateStarts
  <2> QED BY <1>1, <2>1, RefuseProceeds
<1>8. CASE act.op = "replace"
  <2> DEFINE h == act.handle
             v == act.value
  <2>1. h \in Handles /\ v \in VALUES /\ act = Action("replace", h, v, "user") BY <1>1, <1>8, RequestFacts
  <2>2. h = kept BY <1>2, <1>4, <1>8 DEF Allowed
  <2>3. r.seal \in Nat /\ SIZE \in Nat /\ LEN[h] \in Nat BY <1>1, <2>1, HandleFacts
  <2>4. Found(h) \in SUBSET Places BY <1>6
  <2>5. CASE r.seal + LEN[h] >= SIZE
    <3>1. Dropped(r, r2) /\ r2.state = r.state BY <2>1, <2>3, <2>4, <2>5, ReplaceStarts
    <3> QED BY <1>1, <3>1, RefuseProceeds
  <2>6. CASE r.seal + LEN[h] < SIZE
    <3>1. RoomFor(w, D, r.seal, h, kept) BY <1>2, <2>2 DEF RoomFor
    <3>2. TakesUp(page, c, r) BY <1>1, <2>3 DEF TakesUp
    <3>3. Head(r.queue) = Action("replace", h, v, "user") BY <2>1
    <3> HIDE DEF D, h, v
    <3>4. Shape(r2) /\ r2.queue = r.queue /\ Proceeds(r, r2) /\ Replacing(page, c, r2, kept)
      BY <2>1, <2>6, <3>1, <3>2, <3>3, ReplaceProceeds
    <3> QED BY <3>4 DEF Proceeded, Stage
  <2> QED BY <2>3, <2>5, <2>6
<1> QED BY <1>1, <1>7, <1>8, RequestFacts

\* When nothing is under way, the action at the head of the queue is executed.
LEMMA IdleProceeds ==
  ASSUME NEW c, NEW r, Shape(r), NEW kept \in Handles, Idle(page, c, r, kept), r.queue # <<>>,
         QueueOk(r.queue, StoredAt(page, c, kept), kept), NEW r2, r2 = ExecuteAction(r, Head(r.queue))
  PROVE  Proceeded(page, c, r, r2, kept)
<1> DEFINE act == Head(r.queue)
           w == page.words
<1>1. /\ Ready(c, r) /\ r.state = "ready" /\ page.meta /\ r.phase # "wait" /\ r.ops = <<>>
  BY DEF Idle
<1>2. PICK D : SealedClean(w, D, r.seal, kept, r.queue) BY DEF Idle
<1>3. w[r.seal] = SealHeader /\ Clean(w, D, r.seal, kept, r.queue) BY <1>2 DEF SealedClean
<1>4. CASE act.op = "invalidate" BY <1>4, InvalidateProceeds
<1>5. CASE act.op # "invalidate"
  <2>1. act \in Requests /\ act.op = "replace" BY <1>3, <1>5, RequestFacts DEF Clean
  <2>2. Tidy(w, D, r.seal) /\ HasKept(w, Data(w, D), kept) BY <1>3, <2>1, CleanTidy
  <2> DEFINE h == act.handle
             v == act.value
  <2>3. h \in Handles /\ v \in VALUES /\ act = Action("replace", h, v, "user") BY <2>1, RequestFacts
  <2>4. Chain(w, D, r.seal) BY <2>2 DEF Tidy
  <2>5. r.seal \in Nat /\ SIZE \in Nat /\ LEN[h] \in Nat
    <3>1. r.seal \in Nat BY <2>4, ChainBounds
    <3> QED BY <2>3, <3>1, HandleFacts
  <2>6. Found(h) \in SUBSET Places BY <2>3, <2>4, FoundIs
  <2>7. CASE r.seal + LEN[h] >= SIZE
    <3>1. Dropped(r, r2) /\ r2.state = r.state BY <2>3, <2>5, <2>6, <2>7, ReplaceStarts
    <3> QED BY <2>1, <3>1, RefuseProceeds
  <2>8. CASE r.seal + LEN[h] < SIZE
    <3>1. RoomFor(w, D, r.seal, h, kept) BY <1>3, <2>2 DEF RoomFor
    <3>2. TakesUp(page, c, r) BY <1>1, <2>5 DEF TakesUp
    <3>3. Head(r.queue) = Action("replace", h, v, "user") BY <2>3
    <3> HIDE DEF h, v
    <3>4. Shape(r2) /\ r2.queue = r.queue /\ Proceeds(r, r2) /\ Replacing(page, c, r2, kept)
      BY <2>3, <2>8, <3>1, <3>2, <3>3, ReplaceProceeds
    <3> QED BY <3>4 DEF Proceeded, Stage
  <2> QED BY <2>5, <2>7, <2>8
<1> QED BY <1>4, <1>5

\* A defragmentation ends: the seal is where a walk finds it.
LEMMA DefragEnds ==
  ASSUME NEW r, Shape(r), r.owner, NEW D, NEW e, Chain(page.words, D, e), page.words[e] = SealHeader,
         NEW r2, r2 = DefragEnded(r)
  PROVE  /\ Shape(r2) /\ r2.mode = "ready" /\ r2.state = "ready" /\ r2.seal = e
         /\ r2.queue = r.queue /\ r2.phase = r.phase /\ r2.ops = r.ops /\ r2.defrag = "none"
<1>1. WalkEnd(page.words) = e /\ Sealed(page.words) BY ChainWalk
<1> DEFINE ended == [r EXCEPT !.mode = "ready", !.defrag = "none", !.found_all = FALSE, !.owner = FALSE]
<1>2. r2 = [ended EXCEPT !.state = "ready", !.invalid = 0, !.seal = e] BY <1>1 DEF DefragEnded
<1>3. /\ Shape(ended) /\ ended.mode = "ready" /\ ended.queue = r.queue /\ ended.phase = r.phase
      /\ ended.ops = r.ops /\ ended.defrag = "none"
  BY DEF Shape
<1> HIDE DEF ended
<1> QED BY <1>2, <1>3 DEF Shape

\* A defragmentation begins, or has nothing to do.
LEMMA DefragProceeds ==
  ASSUME NEW c, NEW r, Shape(r), NEW kept \in Handles, Idle(page, c, r, kept), r.queue # <<>>,
         QueueOk(r.queue, StoredAt(page, c, kept), kept), NEW r2, r2 = DefragStarted(r)
  PROVE  Proceeded(page, c, r, r2, kept)
<1> DEFINE w == page.words
           e == r.seal
           started == [r EXCEPT !.phase = "processing", !.mode = "defrag", !.state = "defrag",
                                !.owner = TRUE]
<1>1. /\ Ready(c, r) /\ r.state = "ready" /\ page.meta /\ r.phase # "wait" /\ r.ops = <<>>
  BY DEF Idle
<1>2. PICK D : SealedClean(w, D, e, kept, r.queue) BY DEF Idle
<1>3. w[e] = SealHeader /\ Clean(w, D, e, kept, r.queue) BY <1>2 DEF SealedClean
<1>4. Chain(w, D, e) BY <1>3, CleanTidy
<1>5. /\ Shape(started) /\ started.owner /\ started.queue = r.queue /\ started.phase = "processing"
      /\ started.ops = <<>> /\ started.mode = "defrag" /\ started.state = "defrag"
  BY <1>1 DEF Shape
<1>6. r2 = IF EntriesOf(w, "invalid") = {} THEN DefragEnded(started)
           ELSE [started EXCEPT !.defrag = "backup", !.found_all = TRUE, !.ops = BackupOps]
  BY DEF DefragStarted
<1> HIDE DEF started
<1>7. ASSUME Shape(r2), r2.queue = r.queue, r2.phase = "processing", Stage(page, c, r2, kept)
      PROVE  Proceeded(page, c, r, r2, kept)
  <2>1. ~EffectiveOf(r) /\ ~EffectiveOf(r2) BY <1>1, <1>7 DEF EffectiveOf
  <2> QED BY <1>7, <2>1 DEF Proceeded, Proceeds
<1>8. CASE EntriesOf(w, "invalid") = {}
  <2>1. r2 = DefragEnded(started) BY <1>6, <1>8
  <2>2. /\ Shape(r2) /\ r2.mode = "ready" /\ r2.state = "ready" /\ r2.seal = e
        /\ r2.queue = r.queue /\ r2.phase = "processing" /\ r2.ops = <<>> /\ r2.defrag = "none"
    BY <1>3, <1>4, <1>5, <2>1, DefragEnds
  <2>3. Ready(c, r2) BY <1>1, <2>2 DEF Ready
  <2>4. SealedClean(w, D, r2.seal, kept, r2.queue) BY <1>2, <2>2
  <2>5. Idle(page, c, r2, kept) BY <1>1, <2>2, <2>3, <2>4 DEF Idle
  <2> QED BY <1>7, <2>2, <2>5 DEF Stage
<1>9. CASE EntriesOf(w, "invalid") # {}
  <2> DEFINE F == BackupOps
             l == LiveWords(w)
             k == 0
  <2> HIDE DEF F
  <2>1. r2 = [started EXCEPT !.defrag = "backup", !.found_all = TRUE, !.ops = F] BY <1>6, <1>9 DEF F
  <2>2. /\ Shape(r2) /\ r2.mode = "defrag" /\ r2.state = "defrag" /\ r2.phase = "processing" /\ r2.owner
        /\ r2.found_all /\ r2.queue = r.queue /\ r2.defrag = "backup" /\ r2.ops = F
    BY <1>5, <2>1 DEF Shape
  <2>3. F = BackupFrom(l) BY DEF F, BackupOps, BackupFrom
  <2>4. PICK f : Packing(w, D, e, f) BY <1>4, PackingExists
  <2>5. l \in Seq(Words) BY <2>4 DEF Packing
  <2> HIDE DEF l
  <2>6. F \in Seq(Operations) /\ Len(l) \in Nat BY <2>3, <2>5, BackupOpsAre, LenProperties
  <2>7. Remaining(F, F, 0) BY <2>6, RemainingAll
  <2>8. Defragging(r2, "backup") BY <2>2 DEF Defragging
  <2>9. BackupAt(page, c, r2, l, k, kept)
    <3>1. k \in 0..(Len(l) + 3) /\ k # Len(l) + 3 /\ ~(k >= 1) /\ ~(k >= 2) BY <2>6
    <3>2. Remaining(r2.ops, BackupFrom(l), k) BY <2>2, <2>3, <2>7
    <3>3. SealedClean(w, D, e, kept, r2.queue) BY <1>2, <2>2
    <3>4. c.ptr # "set" BY <1>1 DEF Ready
    <3> HIDE DEF k, e
    <3>5. \E D1, e1 : SealedClean(page.words, D1, e1, kept, r2.queue) /\ l = LiveWords(page.words)
      BY <3>3 DEF l
    <3> QED BY <1>1, <3>1, <3>2, <3>4, <3>5 DEF BackupAt
  <2>10. BackingUp(page, c, r2, kept)
    <3> HIDE DEF k
    <3> QED BY <2>8, <2>9 DEF BackingUp, BackupAt
  <2> QED BY <1>7, <2>2, <2>10 DEF Stage
<1> QED BY <1>8, <1>9

\* What process_action_queue makes of r
Processed(r, r2) ==
  r2 = IF r.phase = "idle" /\ DefragRequired(r, Head(r.queue))
       THEN DefragStarted(r) ELSE ExecuteAction(r, Head(r.queue))

\* Taking up an action keeps the invariant.
LEMMA ProcessKeeps ==
  ASSUME NEW c, NEW r, NEW kept \in Handles, Invariant(page, c, r, kept), r.mode = "ready",
         r.queue # <<>>, r.phase # "wait", NEW r2, Processed(r, r2)
  PROVE  Proceeded(page, c, r, r2, kept)
<1>1. Shape(r) /\ QueueOk(r.queue, StoredAt(page, c, kept), kept) /\ Stage(page, c, r, kept) BY DEF Invariant
<1>2. Building(page, c, r) \/ Fresh(page, c, r) \/ Broken(page, c, r, kept) \/ Idle(page, c, r, kept)
  <2>1. ~Replacing(page, c, r, kept) /\ ~Invalidating(page, c, r, kept) /\ ~Recovering(page, c, r, kept)
    BY DEF Replacing, Invalidating, Recovering
  <2>2. \A step : ~Defragging(r, step) BY DEF Defragging
  <2>3. /\ ~BackingUp(page, c, r, kept) /\ ~Erased(page, c, r, kept) /\ ~WritingBack(page, c, r, kept)
        /\ ~Sealing(page, c, r, kept) /\ ~Ending(page, c, r, kept)
    BY <2>2 DEF BackingUp, Erased, WritingBack, Sealing, Ending
  <2> QED BY <1>1, <2>1, <2>3 DEF Stage
<1>3. r2 = IF r.phase = "idle" /\ DefragRequired(r, Head(r.queue))
           THEN DefragStarted(r) ELSE ExecuteAction(r, Head(r.queue))
  BY DEF Processed
<1>4. CASE Building(page, c, r) \/ Broken(page, c, r, kept)
  <2>1. Head(r.queue) = BuildMetadata \/ Head(r.queue) = RecoverSeal BY <1>4 DEF Building, Broken
  <2>2. ~DefragRequired(r, Head(r.queue)) BY <2>1, RequestFacts DEF DefragRequired
  <2>3. r.phase = "idle" BY <1>4 DEF Building, Broken
  <2>4. r2 = ExecuteAction(r, Head(r.queue)) BY <1>3, <2>2
  <2> QED BY <1>1, <1>4, <2>3, <2>4, BootProceeds
<1>5. CASE Fresh(page, c, r)
  <2>1. r.invalid = 0 BY <1>5 DEF Fresh
  <2>2. ~DefragRequired(r, Head(r.queue)) BY <2>1 DEF DefragRequired
  <2>3. r2 = ExecuteAction(r, Head(r.queue)) BY <1>3, <2>2
  <2> QED BY <1>1, <1>5, <2>3, FreshProceeds
<1>6. CASE Idle(page, c, r, kept)
  <2>1. CASE r2 = DefragStarted(r) BY <1>1, <1>6, <2>1, DefragProceeds
  <2>2. CASE r2 = ExecuteAction(r, Head(r.queue)) BY <1>1, <1>6, <2>2, IdleProceeds
  <2> QED BY <1>3, <2>1, <2>2
<1> QED BY <1>2, <1>4, <1>5, <1>6

\* An action that has all its flash operations done keeps the invariant.
LEMMA EndKeeps ==
  ASSUME NEW c, NEW r, NEW kept \in Handles, Invariant(page, c, r, kept), r.mode = "ready",
         r.phase = "wait", r.ops = <<>>, NEW r2, r2 = EndAction(r, Head(r.queue))
  PROVE  Proceeded(page, c, r, r2, kept)
<1> DEFINE w == page.words
           act == Head(r.queue)
<1>1. Shape(r) /\ QueueOk(r.queue, StoredAt(page, c, kept), kept) /\ Stage(page, c, r, kept) BY DEF Invariant
<1>2. \/ Building(page, c, r) \/ Replacing(page, c, r, kept) \/ Invalidating(page, c, r, kept)
      \/ Recovering(page, c, r, kept)
  <2>1. ~Fresh(page, c, r) /\ ~Broken(page, c, r, kept) /\ ~Idle(page, c, r, kept) BY DEF Fresh, Broken, Idle
  <2>2. \A step : ~Defragging(r, step) BY DEF Defragging
  <2>3. /\ ~BackingUp(page, c, r, kept) /\ ~Erased(page, c, r, kept) /\ ~WritingBack(page, c, r, kept)
        /\ ~Sealing(page, c, r, kept) /\ ~Ending(page, c, r, kept)
    BY <2>2 DEF BackingUp, Erased, WritingBack, Sealing, Ending
  <2> QED BY <1>1, <2>1, <2>3 DEF Stage
<1>3. ASSUME r.queue # <<>>, Dropped(r, r2), Stage(page, c, r2, kept) PROVE Proceeded(page, c, r, r2, kept)
  BY <1>1, <1>3, DropProceeds DEF Proceeded
\* The area is tidy up to the seal.
<1>4. ASSUME r.queue # <<>>, Ready(c, r), r.state = "ready", page.meta, Shape(r2), r2.mode = r.mode,
             r2.state = r.state, r2.queue = Tail(r.queue), r2.phase = "idle", r2.ops = r.ops,
             r2.defrag = r.defrag, w[r2.seal] = SealHeader,
             NEW D, Tidy(w, D, r2.seal), HasKept(w, Data(w, D), kept)
      PROVE  Proceeded(page, c, r, r2, kept)
  <2> DEFINE v == StoredAt(page, c, kept)
  <2>1. QueueOk(Tail(r.queue), v, kept) /\ (Tail(r.queue) # <<>> => Head(Tail(r.queue)) \in Requests)
    <3> HIDE DEF v
    <3>1. QueueOk(r.queue, v, kept) BY <1>1 DEF v
    <3> QED BY <1>4, <3>1, QueueTail
  <2>2. QueueOk(r2.queue, v, kept) /\ (r2.queue # <<>> => Head(r2.queue) \in Requests) BY <1>4, <2>1
  <2>3. Ready(c, r2) BY <1>4 DEF Ready
  <2>4. Idle(page, c, r2, kept) BY <1>4, <2>2, <2>3, IdleAgain
  <2>5. Proceeds(r, r2) BY <1>4 DEF Proceeds, EffectiveOf
  <2> QED BY <1>4, <2>2, <2>4, <2>5 DEF Proceeded, Stage
<1>5. CASE Building(page, c, r)
  <2>1. /\ Ready(c, r) /\ r.state = "building" /\ r.seal = 0 /\ r.invalid = 0
        /\ page.words = BlankPage.words /\ r.queue # <<>> /\ act = BuildMetadata
    BY <1>5 DEF Building
  <2>2. page.meta
    <3> DEFINE y == WriteMeta("page")
    <3>1. <<y>> # <<>>
      <4> HIDE DEF y
      <4>1. <<y>> \in Seq({y}) /\ Len(<<y>>) = 1 OBVIOUS
      <4> QED BY <4>1, EmptySeq
    <3> QED BY <1>5, <3>1 DEF Building
  <2> DEFINE r1 == [r EXCEPT !.state = "ready"]
  <2>3. /\ Shape(r1) /\ r1.mode = r.mode /\ r1.state = "ready" /\ r1.seal = r.seal /\ r1.invalid = r.invalid
        /\ r1.queue = r.queue /\ r1.ops = r.ops /\ r1.defrag = r.defrag
    BY <1>1 DEF Shape
  <2>4. r2 = FreePacketBuffer(r1) BY <2>1, RequestFacts DEF EndAction
  <2> HIDE DEF r1
  <2>5. Dropped(r1, r2) /\ r2.state = "ready" BY <2>3, <2>4, FreeDrops
  <2>6. Dropped(r, r2) BY <2>3, <2>5 DEF Dropped
  <2>7. r2.queue # <<>> => Head(r2.queue) \in Requests BY <1>1, <2>1, <2>6, DropProceeds
  <2>8. Fresh(page, c, r2) BY <2>1, <2>2, <2>5, <2>6, <2>7 DEF Fresh, Ready, Dropped
  <2> QED BY <1>3, <2>1, <2>6, <2>8 DEF Stage
<1>6. CASE Replacing(page, c, r, kept)
  <2> DEFINE s == r.seal
  <2>1. /\ Ready(c, r) /\ r.state = "ready" /\ page.meta /\ r.queue # <<>> BY <1>6 DEF Replacing
  <2>2. PICK h \in Handles, v \in VALUES, old \in Places \cup {NOWHERE}, k \in Nat :
          /\ act = Action("replace", h, v, "user")
          /\ s \in Nat /\ s + LEN[h] < SIZE
          /\ Remaining(r.ops, ReplaceOps(s, h, v, old), k)
          /\ ReplacingAt(w, s, h, v, old, k, kept)
    BY <1>6 DEF Replacing
  <2> DEFINE F == ReplaceOps(s, h, v, old)
             n == LEN[h]
             e == s + n
  <2>3. Replacement(F, s, h, v, old) /\ Remaining(r.ops, F, k) BY <2>2 DEF Replacement
  <2> HIDE DEF F
  <2>4. F \in Seq(Operations) /\ ReplaceList(F, s, h, v, old) BY <2>2, <2>3, ReplaceOpsAre
  <2>5. k = Len(F) BY <2>3, <2>4, RemainingNext
  <2>6. Len(F) = IF old = NOWHERE THEN n + 1 ELSE n + 2 BY <2>4 DEF ReplaceList
  <2>7. n \in Nat BY HandleFacts
  <2>8. PICK D : w[e] = SealHeader /\ HasKept(w, Data(w, D), kept) /\ Tidy(w, D, e)
    <3>1. \/ k = 0 /\ Starting(w, s, h, old, kept)
          \/ k \in 1..n /\ Writing(w, s, h, v, old, k, kept)
          \/ k = n + 1 /\ EntryWritten(w, e, old, kept)
          \/ k = n + 2 /\ Replaced(w, e, kept)
      BY <2>2 DEF ReplacingAt
    <3> HIDE DEF n, e, s, w
    <3>2. CASE old = NOWHERE
      <4>1. k = n + 1 BY <2>5, <2>6, <3>2
      <4>2. EntryWritten(w, e, old, kept)
        <5>1. k # 0 /\ ~(k \in 1..n) /\ k # n + 2 BY <2>7, <4>1
        <5> QED BY <3>1, <5>1
      <4> QED BY <3>2, <4>2 DEF EntryWritten
    <3>3. CASE old # NOWHERE
      <4>1. k = n + 2 BY <2>5, <2>6, <3>3
      <4>2. Replaced(w, e, kept)
        <5>1. k # 0 /\ ~(k \in 1..n) /\ k # n + 1 BY <2>7, <4>1
        <5> QED BY <3>1, <5>1
      <4> QED BY <4>2 DEF Replaced
    <3> QED BY <3>2, <3>3
  <2>9. act.op = "replace" /\ act.handle = h BY <2>2 DEF Action
  <2> DEFINE r1 == [r EXCEPT !.seal = e]
  <2> HIDE DEF e
  <2>10. r2 = FreePacketBuffer(r1)
    <3>1. w[e].handle = "seal" BY <2>8 DEF SealHeader, Word
    <3> QED BY <2>9, <3>1 DEF EndAction, e
  <2>11. /\ Shape(r1) /\ r1.mode = r.mode /\ r1.state = r.state /\ r1.seal = e
         /\ r1.queue = r.queue /\ r1.ops = r.ops /\ r1.defrag = r.defrag
    BY <1>1 DEF Shape
  <2> HIDE DEF r1
  <2>12. Dropped(r1, r2) /\ r2.state = r1.state BY <2>10, <2>11, FreeDrops
  <2>13. /\ Shape(r2) /\ r2.mode = r.mode /\ r2.state = r.state /\ r2.queue = Tail(r.queue)
         /\ r2.phase = "idle" /\ r2.ops = r.ops /\ r2.defrag = r.defrag /\ r2.seal = e
    BY <2>11, <2>12 DEF Dropped
  <2> QED BY <1>4, <2>1, <2>8, <2>13
<1>7. CASE Invalidating(page, c, r, kept) \/ Recovering(page, c, r, kept)
  <2>1. Ready(c, r) /\ r.state = "ready" /\ page.meta /\ r.queue # <<>> BY <1>7 DEF Invalidating, Recovering
  <2>2. act.op # "replace" /\ act.op # "build_metadata"
    BY <1>7, RequestFacts DEF Invalidating, Recovering
  <2>3. PICK D : w[r.seal] = SealHeader /\ HasKept(w, Data(w, D), kept) /\ Tidy(w, D, r.seal)
    <3>1. \A y : <<y>> # <<>>
      <4> TAKE y
      <4>1. <<y>> \in Seq({y}) /\ Len(<<y>>) = 1 OBVIOUS
      <4> QED BY <4>1, EmptySeq
    <3>2. \A x, y : <<x, y>> # <<>>
      <4> TAKE x, y
      <4>1. <<x, y>> \in Seq({x, y}) /\ Len(<<x, y>>) = 2 OBVIOUS
      <4> QED BY <4>1, EmptySeq
    <3>3. CASE Invalidating(page, c, r, kept) BY <3>1, <3>3 DEF Invalidating
    <3>4. CASE Recovering(page, c, r, kept) BY <3>1, <3>2, <3>4 DEF Recovering
    <3> QED BY <1>7, <3>3, <3>4
  <2>4. r2 = FreePacketBuffer(r) BY <2>2 DEF EndAction
  <2>5. Dropped(r, r2) /\ r2.state = r.state BY <1>1, <2>4, FreeDrops
  <2>6. /\ Shape(r2) /\ r2.mode = r.mode /\ r2.queue = Tail(r.queue)
        /\ r2.phase = "idle" /\ r2.ops = r.ops /\ r2.defrag = r.defrag /\ r2.seal = r.seal
    BY <2>5 DEF Dropped
  <2> QED BY <1>4, <2>1, <2>3, <2>5, <2>6
<1> QED BY <1>2, <1>5, <1>6, <1>7

\* Each step of a defragmentation, when its flash operations are done, keeps the
\* invariant.
LEMMA DefragKeeps ==
  ASSUME NEW r, NEW kept \in Handles, Invariant(page, recovery, r, kept), r.mode = "defrag",
         r.ops = <<>>, NEW r2, r2 = DefragContinued(r)
  PROVE  Proceeded(page, recovery, r, r2, kept)
<1> DEFINE w == page.words
           u == recovery.words
<1>1. Shape(r) /\ QueueOk(r.queue, StoredAt(page, recovery, kept), kept) /\ Stage(page, recovery, r, kept)
  BY DEF Invariant
<1>2. ~BackingUp(page, recovery, r, kept)
  <2>1. ASSUME BackingUp(page, recovery, r, kept) PROVE FALSE
    <3>1. PICK D, e, k : LET l == LiveWords(page.words) IN
            /\ SealedClean(page.words, D, e, kept, r.queue)
            /\ k \in 0..(Len(l) + 3) /\ Remaining(r.ops, BackupFrom(l), k)
      BY <2>1 DEF BackingUp
    <3> DEFINE l == LiveWords(page.words)
               F == BackupFrom(l)
    <3>2. Chain(w, D, e) BY <3>1, CleanTidy DEF SealedClean
    <3>3. PICK f : Packing(w, D, e, f) BY <3>2, PackingExists
    <3>4. l \in Seq(Words) BY <3>3 DEF Packing
    <3>5. k \in 0..(Len(l) + 3) /\ Remaining(r.ops, F, k) BY <3>1
    <3> HIDE DEF l
    <3>6. F \in Seq(Operations) /\ BackupList(F, l) BY <3>4, BackupOpsAre
    <3>7. Len(l) \in Nat /\ Len(F) = Len(l) + 4 BY <3>6 DEF BackupList
    <3> HIDE DEF F
    <3>8. k = Len(F) BY <3>5, <3>6, RemainingNext
    <3> QED BY <3>5, <3>7, <3>8
  <2> QED BY <2>1
<1>3. \/ Erased(page, recovery, r, kept) \/ WritingBack(page, recovery, r, kept)
      \/ Sealing(page, recovery, r, kept) \/ Ending(page, recovery, r, kept)
  <2>1. ~Ready(recovery, r) BY DEF Ready
  <2>2. /\ ~Building(page, recovery, r) /\ ~Fresh(page, recovery, r) /\ ~Broken(page, recovery, r, kept)
        /\ ~Idle(page, recovery, r, kept) /\ ~Replacing(page, recovery, r, kept)
        /\ ~Invalidating(page, recovery, r, kept) /\ ~Recovering(page, recovery, r, kept)
    BY <2>1 DEF Building, Fresh, Broken, Idle, Replacing, Invalidating, Recovering
  <2> QED BY <1>1, <1>2, <2>2 DEF Stage
<1>4. ASSUME NEW step, Defragging(r, step), Shape(r2), r2.queue = r.queue, r2.phase = "processing",
             Stage(page, recovery, r2, kept)
      PROVE  Proceeded(page, recovery, r, r2, kept)
  <2>1. ~EffectiveOf(r) /\ ~EffectiveOf(r2) BY <1>4 DEF EffectiveOf, Defragging
  <2> QED BY <1>1, <1>4, <2>1 DEF Proceeded, Proceeds
<1>5. CASE Erased(page, recovery, r, kept)
  <2> DEFINE F == WriteBackOps
             k == 0
  <2> HIDE DEF F
  <2>1. Defragging(r, "backup") /\ w = BlankPage.words BY <1>5 DEF Erased
  <2>2. PICK E, x : BackedUp(recovery, r, E, x, kept) BY <1>5 DEF Erased
  <2>3. recovery.meta /\ Clean(u, E, x, kept, r.queue) BY <2>2 DEF BackedUp
  <2>4. u \in [Places -> Words]
    <3>1. Chain(u, E, x) BY <2>3, CleanTidy
    <3> QED BY <3>1 DEF Chain
  <2>5. r2 = [r EXCEPT !.defrag = "write_back", !.ops = F] BY <2>1 DEF DefragContinued, Defragging, F
  <2>6. /\ Shape(r2) /\ r2.mode = r.mode /\ r2.state = r.state /\ r2.phase = r.phase /\ r2.owner = r.owner
        /\ r2.found_all = r.found_all /\ r2.queue = r.queue /\ r2.defrag = "write_back" /\ r2.ops = F
    BY <1>1, <2>5 DEF Shape
  <2>7. Defragging(r2, "write_back") BY <2>1, <2>6 DEF Defragging
  <2>8. F = WriteBackFrom(u)
    <3> DEFINE A == <<WriteMeta("page")>>
               B == WriteAll("page", [j \in 1..(SIZE - 1) |-> recovery.words[j - 1]])
    <3>1. F = (IF recovery.meta THEN A ELSE <<>>) \o B BY DEF F, WriteBackOps
    <3>2. WriteBackFrom(u) = A \o B BY DEF WriteBackFrom
    <3> HIDE DEF A, B
    <3> QED BY <2>3, <3>1, <3>2
  <2>9. F \in Seq(Operations) BY <2>4, <2>8, WriteBackOpsAre
  <2>10. Remaining(F, F, 0) BY <2>9, RemainingAll
  <2>11. Remaining(r2.ops, WriteBackFrom(u), k) BY <2>6, <2>8, <2>10
  <2>12. BackedUp(recovery, r2, E, x, kept) BY <2>2, <2>6 DEF BackedUp
  <2>13. w = [j \in Places |-> IF j < k - 1 THEN u[j] ELSE Blank]
    <3>1. \A j \in Places : ~(j < k - 1) BY HandleFacts DEF Places
    <3>2. w = [j \in Places |-> Blank] BY <2>1 DEF BlankPage
    <3> HIDE DEF w, u, k
    <3> QED BY <3>1, <3>2
  <2>14. k \in 0..SIZE /\ ~(k >= 1) BY HandleFacts
  <2> HIDE DEF k
  <2>15. WritingBack(page, recovery, r2, kept)
    <3> DEFINE B(m) == page.words = [j \in Places |-> IF j < m - 1 THEN recovery.words[j] ELSE Blank]
    <3>1. B(k) BY <2>13
    <3> HIDE DEF B
    <3>2. k >= 1 => page.meta BY <2>14
    <3>3. \E E1, x1, m : /\ BackedUp(recovery, r2, E1, x1, kept)
                         /\ m \in 0..SIZE /\ Remaining(r2.ops, WriteBackFrom(recovery.words), m)
                         /\ m >= 1 => page.meta
                         /\ B(m)
      BY <2>11, <2>12, <2>14, <3>1, <3>2
    <3> QED BY <2>7, <3>3 DEF WritingBack, B
  <2>16. r2.phase = "processing" BY <2>7 DEF Defragging
  <2> QED BY <1>4, <2>1, <2>6, <2>15, <2>16 DEF Stage
<1>6. CASE WritingBack(page, recovery, r, kept)
  <2>1. Defragging(r, "write_back") BY <1>6 DEF WritingBack
  <2>2. PICK E, x, k : /\ BackedUp(recovery, r, E, x, kept)
                       /\ k \in 0..SIZE /\ Remaining(r.ops, WriteBackFrom(recovery.words), k)
                       /\ k >= 1 => page.meta
                       /\ page.words = [j \in Places |-> IF j < k - 1 THEN recovery.words[j] ELSE Blank]
    BY <1>6 DEF WritingBack
  <2>3. u[x] = Blank /\ Clean(u, E, x, kept, r.queue) BY <2>2 DEF BackedUp
  <2>4. Chain(u, E, x) /\ HasKept(u, Data(u, E), kept) BY <2>3, CleanTidy
  <2>5. u \in [Places -> Words] BY <2>4 DEF Chain
  <2>6. k = SIZE
    <3> DEFINE F == WriteBackFrom(u)
    <3>1. F \in Seq(Operations) /\ WriteBackList(F, u) BY <2>5, WriteBackOpsAre
    <3>2. Remaining(r.ops, F, k) BY <2>2
    <3>3. Len(F) = SIZE BY <3>1 DEF WriteBackList
    <3> HIDE DEF F
    <3>4. k = Len(F) BY <3>1, <3>2, RemainingNext
    <3> QED BY <3>3, <3>4
  <2>7. page.meta BY <2>2, <2>6, HandleFacts
  <2>8. w = u
    <3>1. w = [j \in Places |-> IF j < SIZE - 1 THEN u[j] ELSE Blank] BY <2>2, <2>6
    <3>2. ASSUME NEW j \in Places PROVE (IF j < SIZE - 1 THEN u[j] ELSE Blank) = u[j]
      <4>1. x \in Nat /\ x < SIZE /\ j \in Nat /\ j < SIZE /\ SIZE \in Nat BY <2>4, ChainBounds
      <4>2. j > x => u[j] = Blank BY <2>4, ChainBounds
      <4> HIDE DEF u
      <4>3. CASE j < SIZE - 1 BY <4>3
      <4>4. CASE ~(j < SIZE - 1)
        <5>1. j = x \/ j > x BY <4>1, <4>4
        <5> QED BY <2>3, <4>2, <4>4, <5>1
      <4> QED BY <4>3, <4>4
    <3> HIDE DEF w, u
    <3> QED BY <2>5, <3>1, <3>2
  <2>9. WalkEnd(w) = x /\ ~Sealed(w)
    <3>1. WalkEnd(u) = x /\ (Sealed(u) <=> u[x] = SealHeader) BY <2>4, ChainWalk
    <3>2. u[x] # SealHeader BY <2>3, WordFacts
    <3> QED BY <2>8, <3>1, <3>2
  <2>10. x # 0 /\ x # SIZE
    <3>1. PICK i \in Data(u, E) : u[i].handle = kept BY <2>4 DEF HasKept
    <3>2. i \in E BY <3>1 DEF Data
    <3>3. i \in Nat /\ i < x /\ x \in Nat /\ x < SIZE BY <2>4, <3>2, ChainBounds
    <3> QED BY <3>3, HandleFacts
  <2> DEFINE y == WriteWord("page", x, SealHeader)
  <2>11. SealOps(r) = <<y>>
    <3>1. r.found_all BY <2>1 DEF Defragging
    <3> HIDE DEF w
    <3> QED BY <2>9, <2>10, <3>1 DEF SealOps, w
  <2> HIDE DEF y
  <2>12. r2 = [r EXCEPT !.defrag = "seal", !.ops = <<y>>]
    BY <2>1, <2>11 DEF DefragContinued, Defragging
  <2>13. /\ Shape(r2) /\ r2.mode = r.mode /\ r2.state = r.state /\ r2.phase = r.phase /\ r2.owner = r.owner
         /\ r2.found_all = r.found_all /\ r2.queue = r.queue /\ r2.defrag = "seal" /\ r2.ops = <<y>>
    BY <1>1, <2>12 DEF Shape
  <2>14. Defragging(r2, "seal") /\ r2.phase = "processing" BY <2>1, <2>13 DEF Defragging
  <2>15. BackedUp(recovery, r2, E, x, kept) BY <2>2, <2>13 DEF BackedUp
  <2>16. Sealing(page, recovery, r2, kept) BY <2>7, <2>8, <2>13, <2>14, <2>15 DEF Sealing, y
  <2> QED BY <1>4, <2>1, <2>13, <2>14, <2>16 DEF Stage
<1>7. CASE Sealing(page, recovery, r, kept)
  <2>1. PICK E, x :
          /\ BackedUp(recovery, r, E, x, kept)
          /\ \/ /\ Defragging(r, "seal") /\ r.ops = <<WriteWord("page", x, SealHeader)>>
                /\ page.words = recovery.words
             \/ /\ Defragging(r, "seal") /\ r.ops = <<>> /\ Update(recovery.words, x, SealHeader, page.words)
             \/ /\ Defragging(r, "end") /\ r.ops = <<ClearPointer>>
                /\ Update(recovery.words, x, SealHeader, page.words)
    BY <1>7 DEF Sealing
  <2>2. \A z : <<z>> # <<>>
    <3> TAKE z
    <3>1. <<z>> \in Seq({z}) /\ Len(<<z>>) = 1 OBVIOUS
    <3> QED BY <3>1, EmptySeq
  <2>3. Defragging(r, "seal") /\ Update(recovery.words, x, SealHeader, page.words) BY <2>1, <2>2
  <2> DEFINE y == ClearPointer
  <2>4. r2 = [r EXCEPT !.defrag = "end", !.ops = <<y>>] BY <2>3 DEF DefragContinued, Defragging
  <2> HIDE DEF y
  <2>5. /\ Shape(r2) /\ r2.mode = r.mode /\ r2.state = r.state /\ r2.phase = r.phase /\ r2.owner = r.owner
        /\ r2.found_all = r.found_all /\ r2.queue = r.queue /\ r2.defrag = "end" /\ r2.ops = <<y>>
    BY <1>1, <2>4 DEF Shape
  <2>6. Defragging(r2, "end") /\ r2.phase = "processing" BY <2>3, <2>5 DEF Defragging
  <2>7. BackedUp(recovery, r2, E, x, kept) BY <2>1, <2>5 DEF BackedUp
  <2>8. page.meta BY <1>7 DEF Sealing
  <2>9. Sealing(page, recovery, r2, kept) BY <2>3, <2>5, <2>6, <2>7, <2>8 DEF Sealing, y
  <2> QED BY <1>4, <2>3, <2>5, <2>6, <2>9 DEF Stage
<1>8. CASE Ending(page, recovery, r, kept)
  <2>1. Defragging(r, "end") /\ page.meta /\ recovery.ptr # "set" BY <1>8 DEF Ending
  <2>2. PICK D, e : SealedClean(page.words, D, e, kept, r.queue) BY <1>8 DEF Ending
  <2>3. w[e] = SealHeader /\ Chain(w, D, e) BY <2>2, CleanTidy DEF SealedClean
  <2>4. r.owner /\ r2 = DefragEnded(r) BY <2>1 DEF DefragContinued, Defragging
  <2>5. /\ Shape(r2) /\ r2.mode = "ready" /\ r2.state = "ready" /\ r2.seal = e
        /\ r2.queue = r.queue /\ r2.phase = r.phase /\ r2.ops = r.ops /\ r2.defrag = "none"
    BY <1>1, <2>3, <2>4, DefragEnds
  <2>6. Ready(recovery, r2) BY <2>1, <2>5 DEF Ready
  <2>7. SealedClean(page.words, D, r2.seal, kept, r2.queue) BY <2>2, <2>5
  <2>8. r2.phase = "processing" /\ r2.queue # <<>> /\ r2.ops = <<>> BY <2>1, <2>5 DEF Defragging
  <2>9. Idle(page, recovery, r2, kept) BY <2>1, <2>5, <2>6, <2>7, <2>8 DEF Idle
  <2> QED BY <1>4, <2>1, <2>5, <2>8, <2>9 DEF Stage
<1> QED BY <1>3, <1>5, <1>6, <1>7, <1>8


-----------------------------------------------------------------------------
(* Power failures *)

\* What a power failure leaves, when the handle that is kept is stored: a sealed area,
\* or one whose last entry is torn.
Left(w, kept) ==
  \E D, e :
    \/ /\ w[e] = SealHeader /\ HasKept(w, Data(w, D), kept)
       /\ Tidy(w, D, e) \/ \E i : Doubled(w, D, e, i)
    \/ \E t : Torn(w, D, e, t) /\ HasKept(w, Data(w, D) \ {t}, kept)

\* What is stored under the handle that is kept is in an entry that counts.
LEMMA KeptIsThere ==
  ASSUME NEW w, NEW D, NEW e, NEW kept \in Handles, InArea(w, kept) # NONE
  PROVE  /\ Tidy(w, D, e) /\ (w[e] = SealHeader \/ D = {})
              => w[e] = SealHeader /\ HasKept(w, Data(w, D), kept)
         /\ \A t : Torn(w, D, e, t) => HasKept(w, Data(w, D) \ {t}, kept)
<1>1. ASSUME Tidy(w, D, e), w[e] = SealHeader \/ D = {}
      PROVE  w[e] = SealHeader /\ HasKept(w, Data(w, D), kept)
  <2>1. Chain(w, D, e) /\ Sound(w, Data(w, D)) BY <1>1 DEF Tidy
  <2>2. D # {}
    <3>1. D = {} => AreaCounted(w, D, e) = {} BY <2>1, CountedFacts
    <3>2. AreaCounted(w, D, e) = {} => InArea(w, kept) = NONE BY <2>1, AreaIs
    <3> QED BY <3>1, <3>2
  <2>3. w[e] = SealHeader BY <1>1, <2>2
  <2>4. AreaCounted(w, D, e) = Data(w, D) BY <2>1, <2>3, CountedFacts
  <2>5. Sound(w, AreaCounted(w, D, e)) BY <2>1, <2>4
  <2>6. HasKept(w, AreaCounted(w, D, e), kept) BY <2>1, <2>5, KeptInArea
  <2> QED BY <2>3, <2>4, <2>6
<1>2. ASSUME NEW t, Torn(w, D, e, t) PROVE HasKept(w, Data(w, D) \ {t}, kept)
  <2>1. /\ Chain(w, D, e) /\ w[e] = Blank /\ t \in D /\ t + w[t].len = e
        /\ Sound(w, Data(w, D) \ {t})
    BY <1>2 DEF Torn
  <2>2. AreaCounted(w, D, e) = Data(w, D) \ {t} BY <2>1, CountedFacts
  <2>3. Sound(w, AreaCounted(w, D, e)) BY <2>1, <2>2
  <2>4. HasKept(w, AreaCounted(w, D, e), kept) BY <2>1, <2>3, KeptInArea
  <2> QED BY <2>2, <2>4
<1> QED BY <1>1, <1>2

\* Sealed entries are left as they are.
LEMMA CleanLeft ==
  ASSUME NEW w, NEW D, NEW e, NEW kept, NEW q, SealedClean(w, D, e, kept, q)
  PROVE  Left(w, kept)
<1>1. /\ w[e] = SealHeader /\ HasKept(w, Data(w, D), kept)
      /\ Tidy(w, D, e) \/ \E i : Doubled(w, D, e, i)
  BY DEF SealedClean, Clean
<1> QED BY <1>1 DEF Left

\* The power may fail in any stage in which the pointer is not set.
LEMMA StageLeft ==
  ASSUME NEW p, NEW c, NEW r, NEW kept \in Handles, Stage(p, c, r, kept), c.ptr # "set",
         StoredAt(p, c, kept) # NONE
  PROVE  p.meta /\ Left(p.words, kept)
<1> DEFINE w == p.words
<1>1. InArea(w, kept) # NONE BY DEF StoredAt
<1>2. ~Building(p, c, r) /\ ~Fresh(p, c, r) BY <1>1, BlankTidy DEF Building, Fresh
<1>3. CASE Broken(p, c, r, kept)
  <2>1. p.meta /\ \E D, e : Torn(w, D, e, r.seal) /\ HasKept(w, Data(w, D) \ {r.seal}, kept)
    BY <1>3 DEF Broken
  <2> QED BY <2>1 DEF Left
<1>4. CASE Idle(p, c, r, kept)
  <2>1. p.meta /\ \E D : SealedClean(w, D, r.seal, kept, r.queue) BY <1>4 DEF Idle
  <2> QED BY <2>1, CleanLeft
<1>5. CASE Replacing(p, c, r, kept)
  <2>1. p.meta BY <1>5 DEF Replacing
  <2>2. PICK h \in Handles, v \in VALUES, old \in Places \cup {NOWHERE}, k \in Nat :
          ReplacingAt(p.words, r.seal, h, v, old, k, kept)
    BY <1>5 DEF Replacing
  <2>3. CASE Starting(w, r.seal, h, old, kept)
    <3>1. PICK D : Tidy(w, D, r.seal) /\ (w[r.seal] = SealHeader \/ D = {}) BY <2>3 DEF Starting
    <3>2. w[r.seal] = SealHeader /\ HasKept(w, Data(w, D), kept) BY <1>1, <3>1, KeptIsThere
    <3> QED BY <2>1, <3>1, <3>2 DEF Left
  <2>4. CASE Writing(w, r.seal, h, v, old, k, kept)
    <3>1. PICK D : Torn(w, D, r.seal + LEN[h], r.seal) BY <2>4 DEF Writing
    <3> DEFINE e == r.seal + LEN[h]
    <3> HIDE DEF e
    <3>2. Torn(w, D, e, r.seal) BY <3>1 DEF e
    <3>3. HasKept(w, Data(w, D) \ {r.seal}, kept) BY <1>1, <3>2, KeptIsThere
    <3> QED BY <2>1, <3>2, <3>3 DEF Left
  <2>5. CASE EntryWritten(w, r.seal + LEN[h], old, kept) \/ Replaced(w, r.seal + LEN[h], kept)
    <3> DEFINE e == r.seal + LEN[h]
    <3> HIDE DEF e
    <3>1. EntryWritten(w, e, old, kept) \/ Replaced(w, e, kept) BY <2>5 DEF e
    <3>2. PICK D : /\ w[e] = SealHeader /\ HasKept(w, Data(w, D), kept)
                   /\ Tidy(w, D, e) \/ \E i : Doubled(w, D, e, i)
      BY <3>1 DEF EntryWritten, Replaced
    <3> QED BY <2>1, <3>2 DEF Left
  <2> QED BY <2>2, <2>3, <2>4, <2>5 DEF ReplacingAt
<1>6. CASE Invalidating(p, c, r, kept)
  <2>1. p.meta /\ \E D : /\ w[r.seal] = SealHeader /\ HasKept(w, Data(w, D), kept)
                         /\ Tidy(w, D, r.seal) \/ \E i : Doubled(w, D, r.seal, i)
    BY <1>6 DEF Invalidating
  <2> QED BY <2>1 DEF Left
<1>7. CASE Recovering(p, c, r, kept)
  <2>1. PICK D : \/ /\ r.ops = <<>> /\ w[r.seal] = SealHeader
                    /\ HasKept(w, Data(w, D), kept) /\ Tidy(w, D, r.seal)
                 \/ \E t \in D : Torn(w, D, r.seal, t) /\ HasKept(w, Data(w, D) \ {t}, kept)
    BY <1>7 DEF Recovering
  <2>2. p.meta BY <1>7 DEF Recovering
  <2>3. CASE w[r.seal] = SealHeader /\ HasKept(w, Data(w, D), kept) /\ Tidy(w, D, r.seal)
    BY <2>2, <2>3 DEF Left
  <2>4. CASE \E t \in D : Torn(w, D, r.seal, t) /\ HasKept(w, Data(w, D) \ {t}, kept)
    BY <2>2, <2>4 DEF Left
  <2> QED BY <2>1, <2>3, <2>4
<1>8. CASE BackingUp(p, c, r, kept)
  <2>1. p.meta /\ \E D, e : SealedClean(w, D, e, kept, r.queue) BY <1>8 DEF BackingUp
  <2> QED BY <2>1, CleanLeft
<1>9. CASE Ending(p, c, r, kept)
  <2>1. p.meta /\ \E D, e : SealedClean(w, D, e, kept, r.queue) BY <1>9 DEF Ending
  <2> QED BY <2>1, CleanLeft
<1>10. ~Erased(p, c, r, kept) /\ ~WritingBack(p, c, r, kept) /\ ~Sealing(p, c, r, kept)
  <2>1. \A E, x : ~BackedUp(c, r, E, x, kept) BY DEF BackedUp
  <2> QED BY <2>1 DEF Erased, WritingBack, Sealing
<1> QED BY <1>2, <1>3, <1>4, <1>5, <1>6, <1>7, <1>8, <1>9, <1>10 DEF Stage

\* After a boot, the queue has at most the action that the boot put there.
Restarted(r) ==
  r.phase = "idle" /\ (r.queue = <<>> \/ \E b : b.own = "boot" /\ r.queue = <<b>>)

\* A queue of an action of the boot
LEMMA BootQueue ==
  ASSUME NEW b \in Actions \ Requests, NEW value, NEW kept
  PROVE  QueueOk(<<b>>, value, kept) /\ Head(<<b>>) = b /\ <<b>> # <<>>
<1> DEFINE q == <<b>>
<1>1. q \in Seq(Actions) /\ Len(q) = 1 /\ q[1] = b /\ Head(q) = b OBVIOUS
<1> HIDE DEF q
<1>2. q # <<>>
  <2>1. Len(q) = 1 BY <1>1
  <2>2. Len(<<>>) = 0 BY EmptySeq
  <2> QED BY <2>1, <2>2
<1>3. \A j \in 1..Len(q) : j = 1 BY <1>1
<1>4. \A j \in 2..Len(q) : FALSE BY <1>1
<1>5. QueueOk(q, value, kept) BY <1>1, <1>3, <1>4 DEF QueueOk
<1> QED BY <1>1, <1>2, <1>5 DEF q

\* A boot that finds the handle that is kept keeps the invariant.
LEMMA BootKeeps ==
  ASSUME NEW r, NEW kept \in Handles, Invariant(page, recovery, r, kept), recovery.ptr # "set",
         StoredAt(page, recovery, kept) # NONE, NEW r2, r2 = Booted
  PROVE  Invariant(page, recovery, r2, kept) /\ Restarted(r2)
<1> DEFINE w == page.words
           value == StoredAt(page, recovery, kept)
<1>1. AreaShape(page) /\ RecoveryShape(recovery) /\ Stage(page, recovery, r, kept) BY DEF Invariant
<1>2. page.meta /\ Left(w, kept) BY <1>1, StageLeft
<1>3. page.meta \in BOOLEAN BY <1>1 DEF AreaShape
<1>4. r2 = Added(w, page.meta, Initialized(recovery)) BY DEF Booted
<1>5. PICK D, e :
        \/ /\ w[e] = SealHeader /\ HasKept(w, Data(w, D), kept)
           /\ Tidy(w, D, e) \/ \E i : Doubled(w, D, e, i)
        \/ \E t : Torn(w, D, e, t) /\ HasKept(w, Data(w, D) \ {t}, kept)
  BY <1>2 DEF Left
<1>6. Chain(w, D, e) BY <1>5 DEF Tidy, Doubled, Torn
<1>7. D # {} BY <1>5 DEF HasKept, Data
<1>8. ASSUME NEW seal, NEW q, Rested(r2, seal, q)
      PROVE  /\ Shape(r2) /\ r2.queue = q /\ r2.seal = seal /\ Ready(recovery, r2) /\ r2.state = "ready"
             /\ r2.phase = "idle" /\ r2.ops = <<>>
  BY <1>8 DEF Rested, Ready
<1>9. ASSUME NEW q, r2.queue = q, Shape(r2), QueueOk(q, value, kept), Stage(page, recovery, r2, kept)
      PROVE  Invariant(page, recovery, r2, kept)
  BY <1>1, <1>9 DEF Invariant
<1> HIDE DEF w, value
<1>10. CASE w[e] = SealHeader /\ HasKept(w, Data(w, D), kept) /\ Tidy(w, D, e)
  <2>1. Rested(r2, e, <<>>) BY <1>2, <1>3, <1>4, <1>6, <1>7, <1>10, BootArea
  <2>2. SealedClean(w, D, e, kept, <<>>) BY <1>10 DEF SealedClean, Clean
  <2>3. Idle(page, recovery, r2, kept)
    <3> DEFINE q == <<>>
    <3> HIDE DEF q
    <3>1. Rested(r2, e, q) /\ SealedClean(w, D, e, kept, q) BY <2>1, <2>2 DEF q
    <3>2. /\ r2.queue = q /\ r2.seal = e /\ Ready(recovery, r2) /\ r2.state = "ready"
          /\ r2.phase = "idle" /\ r2.ops = <<>>
      BY <1>8, <3>1
    <3> QED BY <1>2, <3>1, <3>2 DEF Idle, w
  <2>4. QueueOk(<<>>, value, kept)
    <3> DEFINE q == <<>>
    <3>1. q \in Seq(Actions) /\ Len(q) = 0 OBVIOUS
    <3> HIDE DEF q
    <3>2. (\A j \in 2..Len(q) : FALSE) /\ (\A j \in 1..Len(q) : FALSE) BY <3>1
    <3> QED BY <3>1, <3>2 DEF QueueOk, q
  <2>5. Shape(r2) /\ r2.queue = <<>> /\ r2.phase = "idle" BY <2>1 DEF Rested
  <2>6. Stage(page, recovery, r2, kept) BY <2>3 DEF Stage
  <2> QED BY <1>9, <2>4, <2>5, <2>6 DEF Restarted
<1>11. CASE w[e] = SealHeader /\ HasKept(w, Data(w, D), kept) /\ \E i : Doubled(w, D, e, i)
  <2>1. PICK i : Doubled(w, D, e, i) BY <1>11
  <2> DEFINE b == BootInvalidate(w[i].handle)
  <2>2. Rested(r2, e, <<b>>) BY <1>2, <1>3, <1>4, <1>6, <1>7, <1>11, <2>1, BootArea
  <2>3. i \in D /\ w[i].handle \in Handles BY <2>1 DEF Doubled, Data
  <2>4. b \in Actions \ Requests /\ b.own = "boot" BY <2>3, RequestFacts DEF Actions
  <2> DEFINE q == <<b>>
  <2>5. QueueOk(q, value, kept) /\ Head(q) = b /\ q # <<>>
    <3> HIDE DEF b
    <3> QED BY <2>4, BootQueue
  <2>6. \E j \in D : Head(q) = BootInvalidate(w[j].handle) /\ Doubled(w, D, e, j)
    <3> HIDE DEF q
    <3> QED BY <2>1, <2>3, <2>5
  <2>7. Rested(r2, e, q) BY <2>2
  <2> HIDE DEF q, b
  <2>8. SealedClean(w, D, e, kept, q) BY <1>11, <2>5, <2>6 DEF SealedClean, Clean
  <2>9. /\ Shape(r2) /\ r2.queue = q /\ r2.seal = e /\ Ready(recovery, r2) /\ r2.state = "ready"
        /\ r2.phase = "idle" /\ r2.ops = <<>>
    BY <1>8, <2>7
  <2>10. Idle(page, recovery, r2, kept) BY <1>2, <2>8, <2>9 DEF Idle, w
  <2>11. Restarted(r2) BY <2>4, <2>9 DEF Restarted, q
  <2>12. Stage(page, recovery, r2, kept) BY <2>10 DEF Stage
  <2> QED BY <1>9, <2>5, <2>9, <2>11, <2>12
<1>12. CASE \E t : Torn(w, D, e, t) /\ HasKept(w, Data(w, D) \ {t}, kept)
  <2>1. PICK t : Torn(w, D, e, t) /\ HasKept(w, Data(w, D) \ {t}, kept) BY <1>12
  <2> DEFINE b == RecoverSeal
  <2>2. Rested(r2, t, <<b>>) BY <1>2, <1>3, <1>4, <1>6, <1>7, <2>1, BootArea
  <2>3. b \in Actions \ Requests /\ b.own = "boot" BY RequestFacts DEF Actions
  <2> DEFINE q == <<b>>
  <2>4. QueueOk(q, value, kept) /\ Head(q) = b /\ q # <<>>
    <3> HIDE DEF b
    <3> QED BY <2>3, BootQueue
  <2>5. Rested(r2, t, q) BY <2>2
  <2> HIDE DEF q
  <2>6. /\ Shape(r2) /\ r2.queue = q /\ r2.seal = t /\ Ready(recovery, r2) /\ r2.state = "ready"
        /\ r2.phase = "idle" /\ r2.ops = <<>>
    BY <1>8, <2>5
  <2>7. Broken(page, recovery, r2, kept) BY <1>2, <2>1, <2>4, <2>6 DEF Broken, w
  <2>8. Restarted(r2) BY <2>3, <2>6 DEF Restarted, q
  <2>9. Stage(page, recovery, r2, kept) BY <2>7 DEF Stage
  <2> QED BY <1>9, <2>4, <2>6, <2>8, <2>9
<1> QED BY <1>5, <1>10, <1>11, <1>12


-----------------------------------------------------------------------------
(* The invariant holds in every state, and the manager is a store *)

\* A blank page has no entry, and the boot builds its metadata first.
LEMMA InitKeeps ==
  ASSUME Init, NEW kept \in Handles
  PROVE  /\ KInv(kept) /\ Restarted(ram)
         /\ \A h \in Handles : StoredAt(page, recovery, h) = NONE
<1> DEFINE blank == BlankPage.words
           b == BuildMetadata
           q == <<b>>
           r == Initialized(recovery)
<1>1. /\ page = [meta |-> FALSE, words |-> blank]
      /\ recovery = [ptr |-> "blank", meta |-> FALSE, words |-> blank]
      /\ ram = Added(page.words, page.meta, r)
  BY DEF Init, Booted, BlankPage
<1>2. b \in Actions \ Requests /\ b.own = "boot" BY RequestFacts DEF Actions
<1> HIDE DEF b
<1>3. Head(q) = b /\ q # <<>> /\ \A value : QueueOk(q, value, kept) BY <1>2, BootQueue
<1> HIDE DEF q, blank
<1>4. AreaShape(page) /\ RecoveryShape(recovery) /\ page.words = blank /\ ~page.meta /\ recovery.ptr # "set"
  BY <1>1 DEF AreaShape, RecoveryShape
<1>5. /\ Shape(r) /\ r.mode = "ready" /\ r.state = "building" /\ r.seal = 0 /\ r.invalid = 0
      /\ r.phase = "idle" /\ r.ops = <<>> /\ r.defrag = "none"
  BY <1>4 DEF Initialized, Shape
<1> HIDE DEF r
<1>6. ram = [r EXCEPT !.queue = q] BY <1>1, <1>4 DEF Added, q, b
<1>7. /\ Shape(ram) /\ ram.mode = "ready" /\ ram.state = "building" /\ ram.seal = 0 /\ ram.invalid = 0
      /\ ram.phase = "idle" /\ ram.ops = <<>> /\ ram.defrag = "none" /\ ram.queue = q
  BY <1>5, <1>6 DEF Shape
<1>8. Building(page, recovery, ram) BY <1>3, <1>4, <1>7 DEF Building, Ready, b, blank
<1>9. Stage(page, recovery, ram, kept) BY <1>8 DEF Stage
<1>10. KInv(kept)
  <2> DEFINE value == StoredAt(page, recovery, kept)
  <2> HIDE DEF value
  <2>1. QueueOk(ram.queue, value, kept) BY <1>3, <1>7
  <2> QED BY <1>4, <1>7, <1>9, <2>1 DEF KInv, Invariant, value
<1>11. Restarted(ram) BY <1>2, <1>7 DEF Restarted, q
<1>12. \A h \in Handles : StoredAt(page, recovery, h) = NONE BY <1>4, BlankTidy DEF StoredAt, blank
<1> QED BY <1>10, <1>11, <1>12

\* The users' requests in a queue: all but what the boot has put first.
LEMMA UsersAre ==
  ASSUME NEW q, NEW value, NEW kept, QueueOk(q, value, kept)
  PROVE  UsersOf(q) = IF q # <<>> /\ Head(q) \notin Requests THEN Tail(q) ELSE q
<1> DEFINE boot == {j \in DOMAIN q : q[j].own = "boot"}
<1>0. UsersOf(q) = IF boot = {} THEN q ELSE SubSeq(q, Max(boot) + 1, Len(q)) BY DEF UsersOf
<1>1. /\ q \in Seq(Actions) /\ Len(q) \in Nat /\ DOMAIN q = 1..Len(q)
      /\ \A j \in 2..Len(q) : q[j] \in Requests
  BY DEF QueueOk
<1>2. \A act \in Actions : act.own = "boot" <=> act \notin Requests BY RequestFacts DEF Actions
<1>3. \A j \in 1..Len(q) : q[j] \in Actions BY <1>1
<1>4. \A j \in boot : j = 1 BY <1>1, <1>2, <1>3
<1>5. q # <<>> => Head(q) = q[1] /\ 1 \in 1..Len(q) BY <1>1
<1>6. CASE q # <<>> /\ Head(q) \notin Requests
  <2>1. q[1] \in Actions /\ q[1] \notin Requests /\ 1 \in DOMAIN q BY <1>1, <1>3, <1>5, <1>6
  <2>2. 1 \in boot BY <1>2, <2>1
  <2>3. boot = {1} BY <1>4, <2>2
  <2> HIDE DEF boot
  <2>4. Max(boot) = 1
    <3>1. boot \in SUBSET (0..SIZE) /\ boot # {} BY <2>3, HandleFacts
    <3> QED BY <2>3, <3>1, MaxMin
  <2>5. UsersOf(q) = SubSeq(q, 2, Len(q)) BY <1>0, <2>3, <2>4
  <2>6. Tail(q) = SubSeq(q, 2, Len(q)) BY <1>1, <1>6, TailIsSubSeq
  <2> QED BY <1>6, <2>5, <2>6
<1>7. CASE ~(q # <<>> /\ Head(q) \notin Requests)
  <2>1. ASSUME NEW j \in boot PROVE FALSE
    <3>1. j = 1 /\ j \in DOMAIN q /\ q[j].own = "boot" BY <1>4
    <3>2. 1 \in 1..Len(q) BY <1>1, <3>1
    <3>3. q # <<>> BY <3>2
    <3>4. q[1] \notin Requests BY <1>2, <1>3, <3>1, <3>2
    <3> QED BY <1>5, <1>7, <3>3, <3>4
  <2>2. boot = {} BY <2>1
  <2> QED BY <1>0, <1>7, <2>2
<1> QED BY <1>6, <1>7

\* The requests that had no effect yet
PendingOf(r) == UsersOf(IF EffectiveOf(r) THEN Tail(r.queue) ELSE r.queue)

\* Which requests these are
LEMMA PendingIs ==
  ASSUME NEW r, NEW value, NEW kept, QueueOk(r.queue, value, kept), r.phase = "wait" => r.queue # <<>>
  PROVE  PendingOf(r) = IF r.queue # <<>> /\ (EffectiveOf(r) \/ Head(r.queue) \notin Requests)
                        THEN Tail(r.queue) ELSE r.queue
<1> DEFINE q == r.queue
           t == Tail(q)
<1>1. UsersOf(q) = IF q # <<>> /\ Head(q) \notin Requests THEN t ELSE q BY UsersAre
<1>2. ASSUME q # <<>> PROVE UsersOf(t) = t
  <2>1. QueueOk(t, value, kept) /\ (t # <<>> => Head(t) \in Requests) BY <1>2, QueueTail
  <2> HIDE DEF t
  <2> QED BY <2>1, UsersAre
<1>3. EffectiveOf(r) => q # <<>> BY DEF EffectiveOf
<1>4. PendingOf(r) = UsersOf(IF EffectiveOf(r) THEN t ELSE q) BY DEF PendingOf
<1> HIDE DEF t, q
<1> QED BY <1>1, <1>2, <1>3, <1>4 DEF q, t

\* When an action waits for its operations, there is one.
LEMMA WaitQueue ==
  ASSUME NEW p, NEW c, NEW r, NEW kept, Stage(p, c, r, kept), r.phase = "wait"
  PROVE  r.queue # <<>>
<1>1. \A step : ~Defragging(r, step) BY DEF Defragging
<1>2. /\ ~BackingUp(p, c, r, kept) /\ ~Erased(p, c, r, kept) /\ ~WritingBack(p, c, r, kept)
      /\ ~Sealing(p, c, r, kept) /\ ~Ending(p, c, r, kept)
  BY <1>1 DEF BackingUp, Erased, WritingBack, Sealing, Ending
<1> QED BY <1>2 DEF Stage, Building, Fresh, Broken, Idle, Replacing, Invalidating, Recovering


\* A step of the store, or a stutter
StoreStep(p, c, r, p2, c2, r2) ==
  \/ SameStored(p, c, p2, c2) /\ \E act \in Requests : PendingOf(r2) = Append(PendingOf(r), act)
  \/ /\ PendingOf(r) # <<>> /\ PendingOf(r2) = Tail(PendingOf(r))
     /\ SameStored(p, c, p2, c2) \/ Takes(Head(PendingOf(r)), p, c, p2, c2)
  \/ SameStored(p, c, p2, c2) /\ (PendingOf(r2) = <<>> \/ PendingOf(r2) = PendingOf(r))

\* What the invariant says of the requests
LEMMA InvariantPending ==
  ASSUME NEW p, NEW c, NEW r, NEW kept, Invariant(p, c, r, kept)
  PROVE  /\ PendingOf(r) = IF r.queue # <<>> /\ (EffectiveOf(r) \/ Head(r.queue) \notin Requests)
                           THEN Tail(r.queue) ELSE r.queue
         /\ EffectiveOf(r) => r.queue # <<>>
         /\ r.queue \in Seq(Actions)
         /\ r.queue # <<>> => Head(r.queue) \in Actions
<1> DEFINE value == StoredAt(p, c, kept)
<1>1. QueueOk(r.queue, value, kept) /\ Stage(p, c, r, kept) BY DEF Invariant
<1> HIDE DEF value
<1>2. r.phase = "wait" => r.queue # <<>> BY <1>1, WaitQueue
<1>3. r.queue \in Seq(Actions) /\ (r.queue # <<>> => Head(r.queue) \in Actions) BY <1>1, QueueHead DEF QueueOk
<1>4. EffectiveOf(r) => r.queue # <<>> BY <1>2 DEF EffectiveOf
<1> QED BY <1>1, <1>2, <1>3, <1>4, PendingIs

\* A request joins those that are pending.
LEMMA RequestStores ==
  ASSUME NEW p, NEW c, NEW r, NEW r2, NEW kept, Invariant(p, c, r, kept), Invariant(p, c, r2, kept),
         NEW act \in Requests, r2 = [r EXCEPT !.queue = Append(@, act)]
  PROVE  StoreStep(p, c, r, p, c, r2)
<1> DEFINE q == r.queue
           q2 == Append(q, act)
<1>1. Shape(r) BY DEF Invariant
<1>2. r2.queue = q2 /\ r2.phase = r.phase /\ r2.ops = r.ops
  <2>1. r2 = [r EXCEPT !.queue = q2] OBVIOUS
  <2> HIDE DEF q2
  <2> QED BY <1>1, <2>1 DEF Shape
<1>3. q \in Seq(Actions) /\ act \in Actions /\ (EffectiveOf(r) => q # <<>>)
  BY InvariantPending DEF Actions
<1>4. q2 # <<>> BY <1>3, AppendProperties
<1>5. Head(q2) = IF q = <<>> THEN act ELSE Head(q) BY <1>3, HeadTailAppend
<1>6. Tail(q2) = IF q = <<>> THEN <<>> ELSE Append(Tail(q), act) BY <1>3, HeadTailAppend
<1>7. EffectiveOf(r2) <=> EffectiveOf(r)
  <2>1. CASE q = <<>>
    <3>1. ~EffectiveOf(r) BY <1>3, <2>1
    <3>2. r.phase = "wait" => q # <<>>
      <4>1. Stage(p, c, r, kept) BY DEF Invariant
      <4> QED BY <4>1, WaitQueue
    <3>3. ~EffectiveOf(r2) BY <1>2, <2>1, <3>2 DEF EffectiveOf
    <3> QED BY <3>1, <3>3
  <2>2. CASE q # <<>>
    <3>1. Head(r2.queue) = Head(r.queue) BY <1>2, <1>5, <2>2
    <3> HIDE DEF q, q2
    <3> QED BY <1>2, <3>1 DEF EffectiveOf
  <2> QED BY <2>1, <2>2
<1>8. PendingOf(r2) = Append(PendingOf(r), act)
  <2>1. PendingOf(r) = IF q # <<>> /\ (EffectiveOf(r) \/ Head(q) \notin Requests) THEN Tail(q) ELSE q
    BY InvariantPending
  <2>2. PendingOf(r2) = IF EffectiveOf(r2) \/ Head(q2) \notin Requests THEN Tail(q2) ELSE q2
    BY <1>2, <1>4, InvariantPending
  <2> HIDE DEF q2
  <2>3. CASE q = <<>> BY <1>3, <1>5, <1>7, <2>1, <2>2, <2>3 DEF q2
  <2>4. CASE q # <<>> BY <1>5, <1>6, <1>7, <2>1, <2>2, <2>4 DEF q2
  <2> QED BY <2>3, <2>4
<1>9. SameStored(p, c, p, c) BY DEF SameStored
<1> QED BY <1>8, <1>9 DEF StoreStep

\* With a flash operation, the request at the head of the queue takes effect, or
\* nothing does.
LEMMA FlashStores ==
  ASSUME NEW p, NEW c, NEW r, NEW p2, NEW c2, NEW r2, NEW kept,
         Invariant(p, c, r, kept), Invariant(p2, c2, r2, kept),
         Effects(p, c, r, p2, c2, r2), r2.queue = r.queue
  PROVE  StoreStep(p, c, r, p2, c2, r2)
<1> DEFINE q == r.queue
<1>1. /\ PendingOf(r) = IF q # <<>> /\ (EffectiveOf(r) \/ Head(q) \notin Requests) THEN Tail(q) ELSE q
      /\ PendingOf(r2) = IF q # <<>> /\ (EffectiveOf(r2) \/ Head(q) \notin Requests) THEN Tail(q) ELSE q
  BY InvariantPending
<1>2. CASE /\ SameStored(p, c, p2, c2)
           /\ (EffectiveOf(r2) <=> EffectiveOf(r)) \/ (q # <<>> /\ Head(q) \notin Requests)
  BY <1>1, <1>2 DEF StoreStep
<1>3. CASE ~EffectiveOf(r) /\ EffectiveOf(r2) /\ q # <<>> /\ Takes(Head(q), p, c, p2, c2)
  <2>1. Head(q) \in Requests BY <1>3 DEF Takes
  <2>2. PendingOf(r) = q /\ PendingOf(r2) = Tail(q) BY <1>1, <1>3, <2>1
  <2> QED BY <1>3, <2>2 DEF StoreStep
<1> QED BY <1>2, <1>3 DEF Effects

\* The flash manager goes on: a request may be refused.
LEMMA ProceedStores ==
  ASSUME NEW p, NEW c, NEW r, NEW r2, NEW kept,
         Invariant(p, c, r, kept), Invariant(p, c, r2, kept), Proceeds(r, r2)
  PROVE  StoreStep(p, c, r, p, c, r2)
<1> DEFINE q == r.queue
<1>1. PendingOf(r) = IF q # <<>> /\ (EffectiveOf(r) \/ Head(q) \notin Requests) THEN Tail(q) ELSE q
  BY InvariantPending
<1>2. SameStored(p, c, p, c) BY DEF SameStored
<1>3. CASE /\ r2.queue = q
           /\ (EffectiveOf(r2) <=> EffectiveOf(r)) \/ (q # <<>> /\ Head(q) \notin Requests)
  <2>1. PendingOf(r2) = IF q # <<>> /\ (EffectiveOf(r2) \/ Head(q) \notin Requests) THEN Tail(q) ELSE q
    BY <1>3, InvariantPending
  <2> QED BY <1>1, <1>2, <1>3, <2>1 DEF StoreStep
<1>4. CASE q # <<>> /\ r2.queue = Tail(q) /\ ~EffectiveOf(r2)
  <2>1. Tail(q) # <<>> => Head(Tail(q)) \in Requests
    <3> DEFINE value == StoredAt(p, c, kept)
    <3>1. QueueOk(q, value, kept) BY DEF Invariant
    <3> HIDE DEF value
    <3> QED BY <1>4, <3>1, QueueTail
  <2>2. PendingOf(r2) = Tail(q) BY <1>4, <2>1, InvariantPending
  <2>3. PendingOf(r) = q \/ PendingOf(r) = Tail(q) BY <1>1
  <2> QED BY <1>2, <1>4, <2>2, <2>3 DEF StoreStep
<1> QED BY <1>3, <1>4 DEF Proceeds

\* A boot leaves no request.
LEMMA BootStores ==
  ASSUME NEW r, NEW value, NEW kept, QueueOk(r.queue, value, kept), Restarted(r)
  PROVE  PendingOf(r) = <<>>
<1>1. r.phase = "idle" /\ ~EffectiveOf(r) BY DEF Restarted, EffectiveOf
<1>2. PendingOf(r) = IF r.queue # <<>> /\ Head(r.queue) \notin Requests THEN Tail(r.queue) ELSE r.queue
  BY <1>1, PendingIs
<1>3. CASE r.queue = <<>> BY <1>2, <1>3
<1>4. CASE r.queue # <<>>
  <2>1. PICK b : b.own = "boot" /\ r.queue = <<b>> BY <1>4 DEF Restarted
  <2>2. Head(r.queue) = b /\ Tail(r.queue) = <<>>
    <3> HIDE DEF Restarted
    <3> QED BY <2>1
  <2>3. b \notin Requests BY <2>1, RequestFacts
  <2> QED BY <1>2, <1>4, <2>2, <2>3
<1> QED BY <1>3, <1>4


\* What is stored and pending, of the variables
LEMMA StoreIs ==
  /\ Stored = [h \in Handles |-> StoredAt(page, recovery, h)]
  /\ Stored' = [h \in Handles |-> StoredAt(page', recovery', h)]
  /\ Pending = PendingOf(ram) /\ Pending' = PendingOf(ram')
<1>1. Stored = [h \in Handles |-> StoredAt(page, recovery, h)]
  BY DEF Stored, StoredAt, InBackup, InArea
<1>2. Stored' = [h \in Handles |-> StoredAt(page', recovery', h)]
  BY DEF Stored, StoredAt, InBackup, InArea
<1>3. Pending = PendingOf(ram) BY DEF Pending, PendingOf, Effective, EffectiveOf
<1>4. Pending' = PendingOf(ram') BY DEF Pending, PendingOf, Effective, EffectiveOf
<1> QED BY <1>1, <1>2, <1>3, <1>4

\* What a step has to show: it keeps the invariant, is one of the store, and writes
\* flash where that clears bits.
Goes(kept) ==
  /\ Invariant(page', recovery', ram', kept)
  /\ StoreStep(page, recovery, ram, page', recovery', ram')
  /\ LegalStep(page, page')

\* A step that leaves the flash alone
LEMMA RamGoes ==
  ASSUME NEW kept, UNCHANGED <<page, recovery>>, Invariant(page, recovery, ram', kept),
         StoreStep(page, recovery, ram, page, recovery, ram')
  PROVE  Goes(kept)
<1>1. page' = page /\ recovery' = recovery OBVIOUS
<1>2. LegalStep(page, page) BY DEF LegalStep, LegalWords
<1>3. /\ Invariant(page', recovery', ram', kept) /\ LegalStep(page, page')
      /\ StoreStep(page, recovery, ram, page', recovery', ram')
  BY <1>1, <1>2
<1> QED BY <1>3 DEF Goes

\* The manager's own steps
LEMMA ProceedGoes ==
  ASSUME NEW kept \in Handles, KInv(kept), UNCHANGED <<page, recovery>>,
         Proceeded(page, recovery, ram, ram', kept)
  PROVE  Goes(kept)
<1>1. Invariant(page, recovery, ram, kept) BY DEF KInv
<1>2. AreaShape(page) /\ RecoveryShape(recovery) BY <1>1 DEF Invariant
<1>3. /\ Shape(ram') /\ QueueOk((ram').queue, StoredAt(page, recovery, kept), kept)
      /\ Stage(page, recovery, ram', kept) /\ Proceeds(ram, ram')
  BY DEF Proceeded
<1> DEFINE r2 == ram'
<1> HIDE DEF r2
<1>4. Invariant(page, recovery, r2, kept) BY <1>2, <1>3 DEF Invariant, r2
<1>5. StoreStep(page, recovery, ram, page, recovery, r2) BY <1>1, <1>3, <1>4, ProceedStores DEF r2
<1> QED BY <1>4, <1>5, RamGoes DEF r2

\* Every step of KeptSpec
LEMMA KeptStep ==
  ASSUME NEW kept \in Handles, KInv(kept), KeptNext(kept)
  PROVE  Goes(kept)
<1>1. Invariant(page, recovery, ram, kept) BY DEF KInv
<1>2. AreaShape(page) /\ RecoveryShape(recovery) /\ Shape(ram) BY <1>1 DEF Invariant
<1>3. Stored[kept] = StoredAt(page, recovery, kept) BY StoreIs
<1> DEFINE r2 == ram'
<1>4. CASE KeptRequest(kept)
  <2>1. PICK a \in Requests : /\ a.op = "replace" => a.handle = kept \/ Stored[kept] # NONE
                              /\ a.op = "invalidate" => a.handle # kept
                              /\ Request(a)
    BY <1>4 DEF KeptRequest
  <2>2. Allowed(a, StoredAt(page, recovery, kept), kept) BY <1>3, <2>1 DEF Allowed
  <2>3. r2 = [ram EXCEPT !.queue = Append(@, a)] /\ UNCHANGED <<page, recovery>> BY <2>1 DEF Request
  <2> HIDE DEF r2
  <2>4. Invariant(page, recovery, r2, kept) BY <1>1, <2>2, <2>3, RequestKeeps
  <2>5. StoreStep(page, recovery, ram, page, recovery, r2) BY <1>1, <2>3, <2>4, RequestStores
  <2> QED BY <2>3, <2>4, <2>5, RamGoes DEF r2
<1>5. CASE ProcessAction
  <2>1. /\ ram.mode = "ready" /\ ram.queue # <<>> /\ ram.phase # "wait"
        /\ Processed(ram, r2) /\ UNCHANGED <<page, recovery>>
    BY <1>5 DEF ProcessAction, Processed
  <2> HIDE DEF r2
  <2>2. Proceeded(page, recovery, ram, r2, kept) BY <1>1, <2>1, ProcessKeeps
  <2> QED BY <2>1, <2>2, ProceedGoes DEF r2
<1>6. CASE ActionDone
  <2>1. /\ ram.mode = "ready" /\ ram.phase = "wait" /\ ram.ops = <<>>
        /\ r2 = EndAction(ram, Head(ram.queue)) /\ UNCHANGED <<page, recovery>>
    BY <1>6 DEF ActionDone
  <2> HIDE DEF r2
  <2>2. Proceeded(page, recovery, ram, r2, kept) BY <1>1, <2>1, EndKeeps
  <2> QED BY <2>1, <2>2, ProceedGoes DEF r2
<1>7. CASE DefragStep
  <2>1. /\ ram.mode = "defrag" /\ ram.ops = <<>>
        /\ r2 = DefragContinued(ram) /\ UNCHANGED <<page, recovery>>
    BY <1>7 DEF DefragStep
  <2> HIDE DEF r2
  <2>2. Proceeded(page, recovery, ram, r2, kept) BY <1>1, <2>1, DefragKeeps
  <2> QED BY <2>1, <2>2, ProceedGoes DEF r2
<1>8. CASE FlashOperation
  <2> DEFINE op == Head(ram.ops)
             p2 == page'
             c2 == recovery'
             ops == Tail(ram.ops)
  <2>1. /\ ram.ops # <<>> /\ p2 = PageAfter(page, op) /\ c2 = RecoveryAfter(recovery, op)
        /\ r2 = [ram EXCEPT !.ops = ops]
    BY <1>8 DEF FlashOperation, PageAfter, RecoveryAfter
  <2>2. Advanced(ram, r2)
    <3> HIDE DEF ops, r2
    <3>1. /\ Shape(r2) /\ r2.mode = ram.mode /\ r2.state = ram.state /\ r2.seal = ram.seal
          /\ r2.invalid = ram.invalid /\ r2.queue = ram.queue /\ r2.phase = ram.phase /\ r2.ops = ops
          /\ r2.defrag = ram.defrag /\ r2.found_all = ram.found_all /\ r2.owner = ram.owner
      BY <1>2, <2>1 DEF Shape
    <3> QED BY <3>1 DEF Advanced, ops
  <2> HIDE DEF r2, p2, c2
  <2>3. Operated(page, recovery, ram, p2, c2, r2) BY <1>2, <2>1, <2>2 DEF Operated
  <2>4. Invariant(p2, c2, r2, kept) /\ Effects(page, recovery, ram, p2, c2, r2) /\ LegalStep(page, p2)
    BY <1>1, <2>3, FlashOperates
  <2>5. r2.queue = ram.queue BY <2>2 DEF Advanced
  <2>6. StoreStep(page, recovery, ram, p2, c2, r2) BY <1>1, <2>4, <2>5, FlashStores
  <2> QED BY <2>4, <2>6 DEF Goes, r2, p2, c2
<1>9. CASE KeptPowerCycle(kept)
  <2>1. /\ StoredAt(page, recovery, kept) # NONE /\ recovery.ptr # "set"
        /\ r2 = Booted /\ UNCHANGED <<page, recovery>>
    BY <1>3, <1>9 DEF KeptPowerCycle, PowerCycle
  <2> HIDE DEF r2
  <2>2. Invariant(page, recovery, r2, kept) /\ Restarted(r2) BY <1>1, <2>1, BootKeeps
  <2>3. PendingOf(r2) = <<>>
    <3> DEFINE value == StoredAt(page, recovery, kept)
    <3>1. QueueOk(r2.queue, value, kept) BY <2>2 DEF Invariant
    <3> HIDE DEF value
    <3> QED BY <2>2, <3>1, BootStores
  <2>4. StoreStep(page, recovery, ram, page, recovery, r2) BY <2>3 DEF StoreStep, SameStored
  <2> QED BY <2>1, <2>2, <2>4, RamGoes DEF r2
<1> QED BY <1>4, <1>5, <1>6, <1>7, <1>8, <1>9 DEF KeptNext, Operate

\* Nothing happens.
LEMMA KeptStutter ==
  ASSUME NEW kept \in Handles, KInv(kept), UNCHANGED vars
  PROVE  Goes(kept)
<1>1. Invariant(page, recovery, ram, kept) BY DEF KInv
<1>2. UNCHANGED <<page, recovery>> /\ ram' = ram BY DEF vars
<1>3. StoreStep(page, recovery, ram, page, recovery, ram) BY DEF StoreStep, SameStored
<1> QED BY <1>1, <1>2, <1>3, RamGoes


-----------------------------------------------------------------------------
(* The theorems: for every page size, length, number of values and queue, while *)
(* one handle is kept and the power spares the time in which the recovery page  *)
(* is relied on                                                                 *)

\* The stages are an inductive invariant.
THEOREM StagesFollow ==
  ASSUME NEW kept \in Handles
  PROVE  KeptSpec(kept) => []KInv(kept)
<1>1. Init => KInv(kept) BY InitKeeps
<1>2. KInv(kept) /\ [KeptNext(kept)]_vars => KInv(kept)'
  <2> SUFFICES ASSUME KInv(kept), [KeptNext(kept)]_vars PROVE KInv(kept)' OBVIOUS
  <2>1. Goes(kept) BY KeptStep, KeptStutter
  <2> QED BY <2>1 DEF Goes, KInv
<1> QED BY <1>1, <1>2, PTL DEF KeptSpec

\* The mode in each stage
LEMMA StageModes ==
  ASSUME NEW p, NEW c, NEW r, NEW kept, Stage(p, c, r, kept)
  PROVE  r.mode # "halted"
<1>1. Ready(c, r) => r.mode # "halted" BY DEF Ready
<1>2. \A step : Defragging(r, step) => r.mode # "halted" BY DEF Defragging
<1> QED BY <1>1, <1>2 DEF Stage, Building, Fresh, Broken, Idle, Replacing, Invalidating, Recovering,
                          BackingUp, Erased, WritingBack, Sealing, Ending

\* NeverHalts: no assertion of flash_manager.c fails, whenever the power does.
THEOREM AreaNeverInvalid ==
  ASSUME NEW kept \in Handles
  PROVE  KeptSpec(kept) => []NeverHalts
<1>1. KInv(kept) => NeverHalts BY StageModes DEF KInv, Invariant, NeverHalts
<1>2. KeptSpec(kept) => []KInv(kept) BY StagesFollow
<1> QED BY <1>1, <1>2, PTL

\* SealKnown: between actions, the manager knows where a walk of the area ends.
THEOREM SealAlwaysKnown ==
  ASSUME NEW kept \in Handles
  PROVE  KeptSpec(kept) => []SealKnown
<1>1. ASSUME KInv(kept), ram.mode = "ready", ram.state = "ready", ram.phase = "idle",
             RecoverSeal \notin {ram.queue[j] : j \in DOMAIN ram.queue}
      PROVE  ram.seal = WalkEnd(page.words)
  <2>1. /\ Stage(page, recovery, ram, kept) /\ QueueOk(ram.queue, StoredAt(page, recovery, kept), kept)
    BY <1>1 DEF KInv, Invariant
  <2>2. \A step : ~Defragging(ram, step) BY <1>1 DEF Defragging
  <2>3. /\ ~BackingUp(page, recovery, ram, kept) /\ ~Erased(page, recovery, ram, kept)
        /\ ~WritingBack(page, recovery, ram, kept) /\ ~Sealing(page, recovery, ram, kept)
        /\ ~Ending(page, recovery, ram, kept)
    BY <2>2 DEF BackingUp, Erased, WritingBack, Sealing, Ending
  <2>4. /\ ~Building(page, recovery, ram) /\ ~Replacing(page, recovery, ram, kept)
        /\ ~Invalidating(page, recovery, ram, kept) /\ ~Recovering(page, recovery, ram, kept)
    BY <1>1 DEF Building, Replacing, Invalidating, Recovering
  <2>5. ~Broken(page, recovery, ram, kept)
    <3>1. ASSUME ram.queue # <<>>, Head(ram.queue) = RecoverSeal PROVE FALSE
      <4>1. ram.queue \in Seq(Actions) BY <2>1 DEF QueueOk
      <4>2. Head(ram.queue) = ram.queue[1] /\ 1 \in DOMAIN ram.queue BY <3>1, <4>1
      <4> QED BY <1>1, <3>1, <4>2
    <3> QED BY <3>1 DEF Broken
  <2>6. CASE Fresh(page, recovery, ram)
    <3>1. ram.seal = 0 /\ page.words = BlankPage.words BY <2>6 DEF Fresh
    <3>2. Chain(BlankPage.words, {}, 0) BY BlankTidy DEF Tidy
    <3>3. WalkEnd(BlankPage.words) = 0 BY <3>2, ChainWalk
    <3> QED BY <3>1, <3>3
  <2>7. CASE Idle(page, recovery, ram, kept)
    <3>1. PICK D : SealedClean(page.words, D, ram.seal, kept, ram.queue) BY <2>7 DEF Idle
    <3>2. Chain(page.words, D, ram.seal) BY <3>1, CleanTidy DEF SealedClean
    <3> QED BY <3>2, ChainWalk
  <2> QED BY <2>1, <2>3, <2>4, <2>5, <2>6, <2>7 DEF Stage
<1>2. KInv(kept) => SealKnown BY <1>1 DEF SealKnown
<1>3. KeptSpec(kept) => []KInv(kept) BY StagesFollow
<1> QED BY <1>2, <1>3, PTL

\* In a tidy area, entry_get finds the one entry of a handle, and in it what is stored.
LEMMA TidyRead ==
  ASSUME NEW D, NEW e, Tidy(page.words, D, e), page.words[e] = SealHeader \/ D = {},
         NEW h \in Handles, ram.state = "ready"
  PROVE  Cardinality(Found(h)) <= 1 /\ Read(h) = InArea(page.words, h)
<1> DEFINE w == page.words
<1>1. Chain(w, D, e) /\ Sound(w, Data(w, D)) /\ Apart(w, Data(w, D)) BY DEF Tidy
<1>2. Found(h) = {i \in Data(w, D) : w[i].handle = h} /\ Found(h) \in SUBSET (0..SIZE) BY <1>1, FoundIs
<1>3. AreaCounted(w, D, e) = Data(w, D) /\ Data(w, D) \subseteq D BY <1>1, CountedFacts
<1> HIDE DEF w
<1>4. CASE Found(h) = {}
  <2>1. \A i \in AreaCounted(w, D, e) : w[i].handle # h BY <1>2, <1>3, <1>4
  <2>2. InArea(w, h) = NONE BY <1>1, <2>1, AreaIs
  <2>3. Cardinality(Found(h)) = 0 BY <1>4, FS_EmptySet
  <2> QED BY <1>4, <2>2, <2>3 DEF Read, w
<1>5. CASE Found(h) # {}
  <2>1. PICK m : m \in Found(h) BY <1>5
  <2>2. m \in Data(w, D) /\ w[m].handle = h BY <1>2, <2>1
  <2>3. \A i \in Data(w, D) : w[i].handle = h => i = m BY <1>1, <2>2 DEF Apart
  <2>4. Found(h) = {m} BY <1>2, <2>1, <2>3
  <2>5. Min(Found(h)) = m BY <1>2, <2>4, MaxMin
  <2>6. Cardinality(Found(h)) = 1 BY <2>4, FS_Singleton
  <2>7. Whole(w, m) /\ m \in D BY <1>1, <1>3, <2>2 DEF Sound
  <2>8. Value(w, m) = w[m + 1].value BY <1>1, <2>7, WholeValue
  <2>9. m \in Nat BY <1>1, <2>7, ChainBounds
  <2>10. \A j \in AreaCounted(w, D, e) : w[j].handle = h => j <= m BY <1>3, <2>3, <2>9
  <2>11. InArea(w, h) = w[m + 1].value BY <1>1, <1>3, <2>2, <2>7, <2>10, AreaIs
  <2>12. Read(h) = Value(w, m) BY <1>5, <2>5 DEF Read, w
  <2> QED BY <2>6, <2>8, <2>11, <2>12 DEF w
<1> QED BY <1>4, <1>5

\* ReadsStored: when all is done, flash_manager_entry_get finds what is stored, and no
\* entry that was replaced or torn is left.
THEOREM StoredIsRead ==
  ASSUME NEW kept \in Handles
  PROVE  KeptSpec(kept) => []ReadsStored
<1>1. ASSUME KInv(kept), Settled, NEW h \in Handles
      PROVE  Cardinality(Found(h)) <= 1 /\ Read(h) = Stored[h]
  <2>1. Stage(page, recovery, ram, kept) /\ ram.queue = <<>> BY <1>1 DEF KInv, Invariant, Settled
  <2>2. Fresh(page, recovery, ram) \/ Idle(page, recovery, ram, kept)
    <3>1. \A step : ~Defragging(ram, step) BY <2>1 DEF Defragging
    <3>2. /\ ~BackingUp(page, recovery, ram, kept) /\ ~Erased(page, recovery, ram, kept)
          /\ ~WritingBack(page, recovery, ram, kept) /\ ~Sealing(page, recovery, ram, kept)
          /\ ~Ending(page, recovery, ram, kept)
      BY <3>1 DEF BackingUp, Erased, WritingBack, Sealing, Ending
    <3>3. /\ ~Building(page, recovery, ram) /\ ~Replacing(page, recovery, ram, kept)
          /\ ~Invalidating(page, recovery, ram, kept) /\ ~Recovering(page, recovery, ram, kept)
          /\ ~Broken(page, recovery, ram, kept)
      BY <2>1 DEF Building, Replacing, Invalidating, Recovering, Broken
    <3> QED BY <2>1, <3>2, <3>3 DEF Stage
  <2>3. ram.state = "ready" /\ recovery.ptr # "set" BY <2>2 DEF Fresh, Idle, Ready
  <2>4. \E D, e : Tidy(page.words, D, e) /\ (page.words[e] = SealHeader \/ D = {})
    <3>1. CASE Fresh(page, recovery, ram)
      <4>1. page.words = BlankPage.words BY <3>1 DEF Fresh
      <4> QED BY <4>1, BlankTidy
    <3>2. CASE Idle(page, recovery, ram, kept)
      <4>1. PICK D : SealedClean(page.words, D, ram.seal, kept, ram.queue) BY <3>2 DEF Idle
      <4> QED BY <2>1, <4>1, CleanTidy DEF SealedClean
    <3> QED BY <2>2, <3>1, <3>2
  <2>5. Cardinality(Found(h)) <= 1 /\ Read(h) = InArea(page.words, h) BY <2>3, <2>4, TidyRead
  <2>6. Stored[h] = InArea(page.words, h)
    <3>1. Stored[h] = StoredAt(page, recovery, h) BY StoreIs
    <3> QED BY <2>3, <3>1 DEF StoredAt
  <2> QED BY <2>5, <2>6
<1>2. KInv(kept) => ReadsStored BY <1>1 DEF ReadsStored
<1>3. KeptSpec(kept) => []KInv(kept) BY StagesFollow
<1> QED BY <1>2, <1>3, PTL

\* WritesLegal: flash is only written where that clears bits.
THEOREM WritesAlwaysLegal ==
  ASSUME NEW kept \in Handles
  PROVE  KeptSpec(kept) => WritesLegal
<1> DEFINE Legal == \A i \in Places : page'.words[i] # page.words[i] /\ page'.meta = page.meta
             => OverwriteLegal(page.words[i], IF page'.words[i].handle = "invalid"
                                              THEN InvalidHeader ELSE page'.words[i])
<1>1. ASSUME KInv(kept), [KeptNext(kept)]_vars PROVE [Legal]_vars
  <2>1. Goes(kept) BY <1>1, KeptStep, KeptStutter
  <2>2. LegalStep(page, page') BY <2>1 DEF Goes
  <2>3. Legal BY <2>2 DEF LegalStep, LegalWords
  <2> QED BY <2>3
<1>2. KeptSpec(kept) => []KInv(kept) BY StagesFollow
<1> QED BY <1>1, <1>2, PTL DEF KeptSpec, WritesLegal

\* ImplementsStore: with each step the manager takes one of the store, or none.
THEOREM FlashImplementsStore ==
  ASSUME NEW kept \in Handles
  PROVE  KeptSpec(kept) => ImplementsStore
<1>1. Init => Store!Init
  <2> SUFFICES ASSUME Init PROVE Store!Init OBVIOUS
  <2>1. /\ KInv(kept) /\ Restarted(ram) /\ \A h \in Handles : StoredAt(page, recovery, h) = NONE
    BY InitKeeps
  <2>2. Stored = [h \in Handles |-> NONE] BY <2>1, StoreIs
  <2>3. PendingOf(ram) = <<>>
    <3> DEFINE value == StoredAt(page, recovery, kept)
    <3>1. QueueOk(ram.queue, value, kept) BY <2>1 DEF KInv, Invariant
    <3> HIDE DEF value
    <3> QED BY <2>1, <3>1, BootStores
  <2> QED BY <2>2, <2>3, StoreIs DEF Store!Init
<1>2. ASSUME KInv(kept), [KeptNext(kept)]_vars PROVE [Store!Next]_(Store!vars)
  <2> DEFINE at(h) == StoredAt(page, recovery, h)
             next(h) == StoredAt(page', recovery', h)
  <2>1. Goes(kept) BY <1>2, KeptStep, KeptStutter
  <2>2. StoreStep(page, recovery, ram, page', recovery', ram') BY <2>1 DEF Goes
  <2>3. /\ Stored = [h \in Handles |-> at(h)] /\ Stored' = [h \in Handles |-> next(h)]
        /\ Pending = PendingOf(ram) /\ Pending' = PendingOf(ram')
    BY StoreIs
  <2>4. SameStored(page, recovery, page', recovery') => Stored' = Stored
    <3>1. SameStored(page, recovery, page', recovery') => \A h \in Handles : next(h) = at(h) BY DEF SameStored
    <3> HIDE DEF at, next
    <3> QED BY <2>3, <3>1
  <2>5. ASSUME NEW act, Takes(act, page, recovery, page', recovery')
        PROVE  Stored' = [Stored EXCEPT ![act.handle] = act.value]
    <3>1. /\ act \in Requests /\ next(act.handle) = act.value
          /\ \A h \in Handles \ {act.handle} : next(h) = at(h)
      BY <2>5 DEF Takes
    <3>2. act.handle \in Handles BY <3>1, RequestFacts
    <3> HIDE DEF at, next
    <3> QED BY <2>3, <3>1, <3>2
  <2> HIDE DEF at, next
  <2>6. CASE SameStored(page, recovery, page', recovery')
             /\ \E act \in Requests : PendingOf(ram') = Append(PendingOf(ram), act)
    <3>1. Store!Request BY <2>3, <2>4, <2>6 DEF Store!Request
    <3> QED BY <3>1 DEF Store!Next
  <2>7. CASE /\ PendingOf(ram) # <<>> /\ PendingOf(ram') = Tail(PendingOf(ram))
             /\ SameStored(page, recovery, page', recovery')
    <3>1. Store!Refuse BY <2>3, <2>4, <2>7 DEF Store!Refuse
    <3> QED BY <3>1 DEF Store!Next
  <2>8. CASE /\ PendingOf(ram) # <<>> /\ PendingOf(ram') = Tail(PendingOf(ram))
             /\ Takes(Head(PendingOf(ram)), page, recovery, page', recovery')
    <3>1. Store!Apply BY <2>3, <2>5, <2>8 DEF Store!Apply
    <3> QED BY <3>1 DEF Store!Next
  <2>9. CASE SameStored(page, recovery, page', recovery') /\ PendingOf(ram') = <<>>
    <3>1. Store!Crash BY <2>3, <2>4, <2>9 DEF Store!Crash
    <3> QED BY <3>1 DEF Store!Next
  <2>10. CASE SameStored(page, recovery, page', recovery') /\ PendingOf(ram') = PendingOf(ram)
    <3>1. UNCHANGED (Store!vars) BY <2>3, <2>4, <2>10 DEF Store!vars
    <3> QED BY <3>1
  <2> QED BY <2>2, <2>6, <2>7, <2>8, <2>9, <2>10 DEF StoreStep
<1>3. KeptSpec(kept) => []KInv(kept) BY StagesFollow
<1> QED BY <1>1, <1>2, <1>3, PTL DEF KeptSpec, ImplementsStore, Store!Spec


=============================================================================
