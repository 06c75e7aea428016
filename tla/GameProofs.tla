------------------------------ MODULE GameProofs ------------------------------
(***************************************************************************)
(* Proofs about a match: that the lobby can serve its players in any order *)
(* of joins, leaves, starts, shots and ticks (Serving), for every number   *)
(* of sessions, entities and waves.  From the bottom: the level director,  *)
(* the masks, what each operation of the ECS does to a sound world, the    *)
(* loops over its entities, the sweep of the dead, the steps of the lobby. *)
(* And that a client reads of a packet what the lobby wrote                *)
(* (PacketsAreRead, DeliverHandles): the bytes of a number, of a vector    *)
(* and of a vector of vectors, then each packet, then the header.          *)
(***************************************************************************)
EXTENDS MCGame, SparseSetProofs, FiniteSetTheorems, SequenceTheorems

------------------------------------------------------------------------------
(* The level director.                                                     *)

\* The waves that are in range, see WavesInRange.
InRange(wave) ==
  LET counts == WavePool[wave.archetype].counts
  IN  IF wave.finished THEN wave.group = Len(counts) + 1
      ELSE wave.group \in DOMAIN counts /\ wave.spawned < counts[wave.group]
Waves ==
  {wave \in [archetype : Archetypes, timer : Int, group : Nat, spawned : Nat, finished : BOOLEAN] :
     InRange(wave)}
Directors == [credits : Nat, waves : Seq(Waves)]

\* One turn of getPickedWaves, in which it picks a, with f for the turns after it.
Options(f, credits, a) ==
  {[waves |-> <<a>> \o later.waves, left |-> later.left] :
     later \in f[credits - WavePool[a].cost]}
PicksFrom(f, credits) ==
  IF credits = 0 \/ Candidates(credits) = {} THEN {[waves |-> << >>, left |-> credits]}
  ELSE UNION {Options(f, credits, a) : a \in Candidates(credits)}

\* A wave that may be picked costs something, and no more than there is.
LEMMA CandidatesCost ==
  ASSUME NEW credits \in Nat, NEW a \in Candidates(credits)
  PROVE  /\ a \in Archetypes /\ WavePool[a].cost \in Nat
         /\ credits - WavePool[a].cost \in 0..(credits - 1)
<1>1. a \in Archetypes /\ WavePool[a].cost <= credits
  BY DEF Candidates
<1>2. WavePool[a].cost \in Nat \ {0}
  BY <1>1, WavePoolAssumption
<1> QED BY <1>1, <1>2

\* Functions that agree below some credits have the same picks with them.
LEMMA PicksFromBelow ==
  ASSUME NEW credits \in Nat, NEW f, NEW g, \A c \in 0..(credits - 1) : f[c] = g[c]
  PROVE  PicksFrom(f, credits) = PicksFrom(g, credits)
<1>1. \A a \in Candidates(credits) : Options(f, credits, a) = Options(g, credits, a)
  <2> SUFFICES ASSUME NEW a \in Candidates(credits)
               PROVE  Options(f, credits, a) = Options(g, credits, a)
    OBVIOUS
  <2>1. f[credits - WavePool[a].cost] = g[credits - WavePool[a].cost]
    BY CandidatesCost
  <2> QED BY <2>1 DEF Options
<1>2. UNION {Options(f, credits, a) : a \in Candidates(credits)} =
        UNION {Options(g, credits, a) : a \in Candidates(credits)}
  BY <1>1
<1> QED BY <1>2 DEF PicksFrom

\* The loop of getPickedWaves ends, whatever it picks: Picks is what its equation says.
LEMMA PicksAre ==
  \A credits \in 0..(MaxCredits + Income) : Picks[credits] = PicksFrom(Picks, credits)
<1> DEFINE N == MaxCredits + Income
           IsPicks(f, n) == f = [c \in 0..n |-> PicksFrom(f, c)]
           T == {n \in Nat : \E f : IsPicks(f, n)}
<1>0. N \in Nat
  BY IncomeAssumption
<1>1. 0 \in T
  <2> DEFINE f == [c \in 0..0 |-> {[waves |-> << >>, left |-> c]}]
  <2>1. \A c \in 0..0 : PicksFrom(f, c) = {[waves |-> << >>, left |-> c]}
    BY DEF PicksFrom
  <2>2. IsPicks(f, 0)
    BY <2>1
  <2> QED BY <2>2
<1>2. ASSUME NEW n \in T PROVE n + 1 \in T
  <2>1. PICK f : IsPicks(f, n)
    OBVIOUS
  <2> DEFINE last == PicksFrom(f, n + 1)
             g == [c \in 0..(n + 1) |-> IF c = n + 1 THEN last ELSE f[c]]
  <2>2. /\ DOMAIN g = 0..(n + 1) /\ g[n + 1] = last /\ \A c \in 0..n : g[c] = f[c]
        /\ g = [c \in 0..(n + 1) |-> g[c]]
    OBVIOUS
  <2> HIDE DEF g
  <2>3. \A c \in 0..(n + 1) : g[c] = PicksFrom(g, c)
    <3> SUFFICES ASSUME NEW c \in 0..(n + 1) PROVE g[c] = PicksFrom(g, c)
      OBVIOUS
    <3>1. PicksFrom(f, c) = PicksFrom(g, c)
      <4>1. n \in Nat
        OBVIOUS
      <4> HIDE DEF T
      <4>2. c \in Nat /\ \A d \in 0..(c - 1) : d \in 0..n
        BY <4>1
      <4>3. \A d \in 0..(c - 1) : f[d] = g[d]
        BY <2>2, <4>2
      <4> QED BY <4>2, <4>3, PicksFromBelow
    <3>2. CASE c = n + 1
      BY <2>2, <3>1, <3>2
    <3>3. CASE c \in 0..n
      <4>1. f[c] = PicksFrom(f, c)
        BY <2>1, <3>3
      <4> QED BY <2>2, <3>1, <3>3, <4>1
    <3> QED BY <3>2, <3>3
  <2>4. IsPicks(g, n + 1)
    BY <2>2, <2>3
  <2> HIDE DEF IsPicks
  <2> QED BY <2>4
<1>3. PICK f : IsPicks(f, N)
  <2>1. T \subseteq Nat
    OBVIOUS
  <2> HIDE DEF T
  <2>2. T = Nat
    BY <1>1, <1>2, <2>1, NatSetInduction
  <2>3. N \in T
    BY <1>0, <2>2
  <2> QED BY <2>3 DEF T
<1>4. Picks = CHOOSE h : IsPicks(h, N)
  BY DEF Picks, PicksFrom, Options
<1> HIDE DEF IsPicks
<1>5. IsPicks(Picks, N)
  BY <1>3, <1>4, Zenon
<1> QED BY <1>5 DEF IsPicks

\* No pick costs more than there is.
LEMMA PicksAffordable ==
  \A credits \in 0..(MaxCredits + Income) :
    Picks[credits] \subseteq [waves : Seq(Archetypes), left : 0..credits]
<1> DEFINE N == MaxCredits + Income
           T == {n \in Nat : \A c \in 0..n : c <= N =>
                               Picks[c] \subseteq [waves : Seq(Archetypes), left : 0..c]}
<1>0. N \in Nat
  BY IncomeAssumption
<1>1. 0 \in T
  <2>1. Picks[0] = {[waves |-> << >>, left |-> 0]}
    <3>1. Picks[0] = PicksFrom(Picks, 0)
      BY <1>0, PicksAre
    <3> QED BY <3>1 DEF PicksFrom
  <2>2. [waves |-> << >>, left |-> 0] \in [waves : Seq(Archetypes), left : 0..0]
    OBVIOUS
  <2>3. Picks[0] \subseteq [waves : Seq(Archetypes), left : 0..0]
    BY <2>1, <2>2
  <2>4. \A c \in 0..0 : c = 0
    OBVIOUS
  <2> QED BY <2>3, <2>4
<1>2. ASSUME NEW n \in T PROVE n + 1 \in T
  <2> SUFFICES ASSUME n + 1 <= N, NEW p \in Picks[n + 1]
               PROVE  p \in [waves : Seq(Archetypes), left : 0..(n + 1)]
    OBVIOUS
  <2>1. p \in PicksFrom(Picks, n + 1)
    BY <1>0, PicksAre
  <2>2. CASE Candidates(n + 1) = {}
    <3>1. p = [waves |-> << >>, left |-> n + 1]
      BY <2>1, <2>2 DEF PicksFrom
    <3> QED BY <3>1
  <2>3. CASE Candidates(n + 1) # {}
    <3>1. p \in UNION {Options(Picks, n + 1, a) : a \in Candidates(n + 1)}
      <4>1. n + 1 # 0
        OBVIOUS
      <4> QED BY <2>1, <2>3, <4>1 DEF PicksFrom
    <3>8. PICK a \in Candidates(n + 1) : p \in Options(Picks, n + 1, a)
      BY <3>1, Zenon
    <3> DEFINE rest == (n + 1) - WavePool[a].cost
    <3>9. p \in Options(Picks, n + 1, a)
      BY <3>8
    <3>10. p \in {[waves |-> <<a>> \o later.waves, left |-> later.left] : later \in Picks[rest]}
      BY <3>9, Zenon DEF Options
    <3> HIDE DEF rest
    <3>2. PICK later \in Picks[rest] : p = [waves |-> <<a>> \o later.waves, left |-> later.left]
      BY <3>10, Zenon
    <3> USE DEF rest
    <3>3. a \in Archetypes /\ rest \in 0..n /\ rest <= N
      <4>1. n + 1 \in Nat
        OBVIOUS
      <4>2. a \in Archetypes /\ (n + 1) - WavePool[a].cost \in 0..((n + 1) - 1)
        BY <4>1, CandidatesCost
      <4> QED BY <1>0, <4>1, <4>2
    <3>4. later \in [waves : Seq(Archetypes), left : 0..rest]
      BY <3>2, <3>3
    <3> HIDE DEF rest
    <3>5. <<a>> \o later.waves \in Seq(Archetypes) /\ later.left \in 0..(n + 1)
      BY <3>3, <3>4
    <3> QED BY <3>2, <3>5
  <2> QED BY <2>2, <2>3
<1> HIDE DEF T
<1>3. T = Nat
  <2>1. T \subseteq Nat
    BY DEF T
  <2> QED BY <1>1, <1>2, <2>1, NatSetInduction
<1>4. SUFFICES ASSUME NEW credits \in 0..N
               PROVE  Picks[credits] \subseteq [waves : Seq(Archetypes), left : 0..credits]
  OBVIOUS
<1> QED BY <1>0, <1>3 DEF T

\* A wave that has not finished stays in range, whatever it does in a tick.
LEMMA AdvancedInRange ==
  ASSUME NEW wave \in Waves, ~wave.finished
  PROVE  Advanced(wave) \in Waves
<1> DEFINE arch == WavePool[wave.archetype]
           counts == arch.counts
           Fits == [archetype : Archetypes, timer : Int, group : Nat, spawned : Nat, finished : BOOLEAN]
           next == IF wave.spawned + 1 >= counts[wave.group]
                   THEN [wave EXCEPT !.spawned = 0, !.group = @ + 1, !.finished = wave.group = Len(counts)]
                   ELSE [wave EXCEPT !.spawned = @ + 1]
<1>1. wave \in Fits /\ wave.group \in DOMAIN counts /\ wave.spawned < counts[wave.group]
  BY DEF Waves, InRange
<1>2. wave.archetype \in Archetypes /\ wave.timer \in Int /\ wave.group \in Nat /\ wave.spawned \in Nat
  BY <1>1
<1>3. arch.interval \in Int /\ counts \in Seq(Nat \ {0})
  BY <1>2, WavePoolAssumption
<1>4. /\ Len(counts) \in Nat /\ DOMAIN counts = 1..Len(counts)
      /\ counts[wave.group] \in Nat \ {0}
  BY <1>1, <1>3
<1>5. ASSUME NEW w \in Fits, w.archetype = wave.archetype,
             IF w.finished THEN w.group = Len(counts) + 1
             ELSE w.group \in 1..Len(counts) /\ w.spawned < counts[w.group]
      PROVE  w \in Waves
  <2> HIDE DEF Fits
  <2>1. InRange(w)
    BY <1>4, <1>5 DEF InRange
  <2> QED BY <2>1 DEF Waves, Fits
<1>6. next \in Fits /\ next.archetype = wave.archetype /\ next.timer = wave.timer
  <2> HIDE DEF arch
  <2>1. CASE wave.spawned + 1 >= counts[wave.group]
    <3> DEFINE last == wave.group = Len(counts)
    <3>1. next = [wave EXCEPT !.spawned = 0, !.group = wave.group + 1, !.finished = last]
      BY <1>1, <2>1
    <3>2. wave.group + 1 \in Nat /\ 0 \in Nat /\ last \in BOOLEAN
      BY <1>2
    <3> HIDE DEF last, next, counts
    <3> QED BY <1>1, <3>1, <3>2
  <2>2. CASE ~(wave.spawned + 1 >= counts[wave.group])
    BY <1>1, <1>2, <2>2
  <2> QED BY <2>1, <2>2
<1>7. IF next.finished THEN next.group = Len(counts) + 1
      ELSE next.group \in 1..Len(counts) /\ next.spawned < counts[next.group]
  <2> HIDE DEF arch
  <2>1. CASE wave.spawned + 1 >= counts[wave.group]
    <3>1. /\ next.spawned = 0 /\ next.group = wave.group + 1
          /\ next.finished <=> wave.group = Len(counts)
      BY <1>1, <2>1
    <3>2. wave.group # Len(counts) => wave.group + 1 \in 1..Len(counts)
      BY <1>1, <1>4
    <3>3. \A g \in 1..Len(counts) : 0 < counts[g]
      BY <1>3, <1>4
    <3> QED BY <3>1, <3>2, <3>3
  <2>2. CASE ~(wave.spawned + 1 >= counts[wave.group])
    <3>1. next.spawned = wave.spawned + 1 /\ next.group = wave.group /\ ~next.finished
      BY <1>1, <2>2
    <3> QED BY <1>1, <1>2, <1>4, <2>2, <3>1
  <2> QED BY <2>1, <2>2
<1> HIDE DEF next, arch
<1>8. CASE Due(wave)
  <2> DEFINE w == [next EXCEPT !.timer = @ + 1 - arch.interval]
  <2>1. w = Advanced(wave)
    BY <1>8 DEF Advanced, next, arch
  <2>4. next.timer + 1 - arch.interval \in Int
    BY <1>2, <1>3, <1>6
  <2>5. w = [next EXCEPT !.timer = next.timer + 1 - arch.interval]
    BY <1>6
  <2>6. w \in Fits
    <3> HIDE DEF w
    <3> QED BY <1>6, <2>4, <2>5
  <2>2. /\ w \in Fits /\ w.archetype = next.archetype /\ w.finished = next.finished
        /\ w.group = next.group /\ w.spawned = next.spawned
    BY <1>6, <2>5, <2>6
  <2> HIDE DEF w, counts, Fits
  <2>3. w \in Waves
    BY <1>5, <1>6, <1>7, <2>2
  <2> QED BY <2>1, <2>3
<1>9. CASE ~Due(wave)
  <2> DEFINE w == [wave EXCEPT !.timer = @ + 1]
  <2>1. w = Advanced(wave)
    BY <1>9 DEF Advanced
  <2>2. /\ w \in Fits /\ w.archetype = wave.archetype /\ w.finished = wave.finished
        /\ w.group = wave.group /\ w.spawned = wave.spawned
    BY <1>1, <1>2
  <2> HIDE DEF w, counts, Fits
  <2>3. w \in Waves
    BY <1>1, <1>4, <1>5, <2>2
  <2> QED BY <2>1, <2>3
<1> QED BY <1>8, <1>9

\* A wave that is picked is at its first enemy.
LEMMA NewWaveInRange ==
  ASSUME NEW a \in Archetypes, NEW delay \in Delays
  PROVE  NewWave(a, delay) \in Waves
<1> DEFINE w == NewWave(a, delay)
<1>1. /\ w.archetype = a /\ w.group = 1 /\ w.spawned = 0 /\ w.finished = FALSE
      /\ w \in [archetype : Archetypes, timer : Int, group : Nat, spawned : Nat, finished : BOOLEAN]
  BY IncomeAssumption DEF NewWave
<1>2. 1 \in DOMAIN WavePool[a].counts /\ 0 < WavePool[a].counts[1]
  BY WavePoolAssumption
<1> HIDE DEF w
<1>3. InRange(w)
  BY <1>1, <1>2 DEF InRange
<1> QED BY <1>1, <1>3 DEF Waves, w

\* pickRandomWaves
LEMMA PickedDirector ==
  ASSUME NEW d \in Directors, d.credits <= MaxCredits + Income, NEW e \in Picked(d)
  PROVE  e \in Directors
<1>1. d.credits \in 0..(MaxCredits + Income)
  BY IncomeAssumption DEF Directors
<1> DEFINE Late(p, delay) ==
             [credits |-> p.left, waves |-> [i \in DOMAIN p.waves |-> NewWave(p.waves[i], delay[i])]]
           Starts(p) == {Late(p, delay) : delay \in [DOMAIN p.waves -> Delays]}
<1>5. e \in UNION {Starts(p) : p \in Picks[d.credits]}
  BY DEF Picked
<1> HIDE DEF Starts
<1>6. PICK p \in Picks[d.credits] : e \in Starts(p)
  BY <1>5
<1>2. PICK delay \in [DOMAIN p.waves -> Delays] : e = Late(p, delay)
  BY <1>6 DEF Starts
<1>3. p.left \in Nat /\ p.waves \in Seq(Archetypes)
  BY <1>1, <1>2, PicksAffordable, <1>6
<1> DEFINE waves == [i \in DOMAIN p.waves |-> NewWave(p.waves[i], delay[i])]
<1>4. waves \in Seq(Waves)
  <2>1. Len(p.waves) \in Nat /\ DOMAIN p.waves = 1..Len(p.waves)
    BY <1>3
  <2>2. \A i \in 1..Len(p.waves) : NewWave(p.waves[i], delay[i]) \in Waves
    BY <1>2, <1>3, <2>1, NewWaveInRange
  <2>3. waves \in [1..Len(p.waves) -> Waves]
    BY <2>1, <2>2
  <2> HIDE DEF waves
  <2> QED BY <2>1, <2>3
<1> HIDE DEF waves
<1> QED BY <1>2, <1>3, <1>4 DEF Directors, waves

\* update(dt): the waves stay in range, and whole enemies are spawned.
LEMMA UpdatedDirector ==
  ASSUME NEW d \in Directors, d.credits <= MaxCredits, NEW u \in Updated(d)
  PROVE  u.director \in Directors /\ u.spawned \in Nat
<1> DEFINE richer == [d EXCEPT !.credits = @ + Income]
<1>1. PICK e \in PickedIfNeeded(richer) :
        LET left == Kept(e.waves, {i \in DOMAIN e.waves : ~e.waves[i].finished}) IN
        u = [director |-> [e EXCEPT !.waves = [i \in DOMAIN left |-> Advanced(left[i])]],
             spawned |-> Cardinality({i \in DOMAIN left : Due(left[i])}),
             looks |-> e.waves # << >>]
  BY DEF Updated
<1>2. richer \in Directors /\ richer.credits <= MaxCredits + Income
  BY IncomeAssumption DEF Directors
<1> HIDE DEF richer
<1>3. e \in Directors
  BY <1>2, PickedDirector DEF PickedIfNeeded
<1> DEFINE active == {i \in DOMAIN e.waves : ~e.waves[i].finished}
           left == Kept(e.waves, active)
           waves == [i \in DOMAIN left |-> Advanced(left[i])]
<1>4. e.waves \in Seq(Waves)
  BY <1>3 DEF Directors
<1>5. left \in Seq(Waves) /\ InOrder(left, e.waves, active \cap (1..Len(e.waves)))
  BY <1>4, KeptInOrder
<1>6. \A i \in 1..Len(left) : left[i] \in Waves /\ ~left[i].finished
  <2>1. PICK at \in [1..Len(left) -> active \cap (1..Len(e.waves))] :
          \A k \in 1..Len(left) : left[k] = e.waves[at[k]]
    BY <1>5 DEF InOrder
  <2>2. \A k \in 1..Len(left) : ~e.waves[at[k]].finished
    BY <2>1
  <2> HIDE DEF left
  <2> QED BY <1>5, <2>1, <2>2
<1> HIDE DEF left, active
<1>7. Len(left) \in Nat /\ DOMAIN left = 1..Len(left)
  BY <1>5
<1>8. waves \in Seq(Waves)
  <2>1. waves \in [1..Len(left) -> Waves]
    BY <1>6, <1>7, AdvancedInRange
  <2> HIDE DEF waves
  <2> QED BY <1>7, <2>1
<1> HIDE DEF waves
<1>9. Cardinality({i \in DOMAIN left : Due(left[i])}) \in Nat
  <2>1. {i \in DOMAIN left : Due(left[i])} \subseteq 1..Len(left)
    BY <1>7
  <2>3. 1 \in Int /\ Len(left) \in Int
    BY <1>7
  <2>4. IsFiniteSet(1..Len(left))
    BY <2>3, FS_Interval
  <2>2. IsFiniteSet({i \in DOMAIN left : Due(left[i])})
    BY <2>1, <2>4, FS_Subset
  <2> QED BY <2>2, FS_CardinalityType
<1>10. u.director = [e EXCEPT !.waves = waves] /\ u.spawned = Cardinality({i \in DOMAIN left : Due(left[i])})
  BY <1>1 DEF left, waves, active
<1>11. [e EXCEPT !.waves = waves] \in Directors
  BY <1>3, <1>8 DEF Directors
<1> QED BY <1>9, <1>10, <1>11

------------------------------------------------------------------------------
(* The masks.                                                              *)

Positions == 0..(BlockBits - 1)
Masks == Seq(SUBSET Positions)

\* The bits that are on in a mask, each as its block and its position.
Bits(b) == {x \in (1..Len(b)) \X Positions : x[2] \in b[x[1]]}

\* A bit comes after another one: in a later block, or at a lower position of the same.
After(x, y) == x[1] > y[1] \/ (x[1] = y[1] /\ x[2] < y[2])

\* The mask of n blocks with one bit, in the last of them.
IsBit(b, x) ==
  /\ b \in Masks /\ x \in (Nat \ {0}) \X Positions
  /\ Len(b) = x[1] /\ Bits(b) = {x}

\* A mask, block by block.
LEMMA MaskBlocks ==
  ASSUME NEW b \in Masks
  PROVE  /\ Len(b) \in Nat /\ DOMAIN b = 1..Len(b)
         /\ \A k \in 1..Len(b) : b[k] \subseteq Positions
         /\ \A k \in 1..Len(b) : \A p \in b[k] : <<k, p>> \in Bits(b)
         /\ \A x \in Bits(b) : /\ x = <<x[1], x[2]>> /\ x[1] \in 1..Len(b)
                               /\ x[2] \in Positions /\ x[2] \in b[x[1]]
<1>1. Len(b) \in Nat /\ DOMAIN b = 1..Len(b) /\ \A k \in 1..Len(b) : b[k] \subseteq Positions
  BY DEF Masks
<1> QED BY <1>1 DEF Bits

\* Within compares the bits.
LEMMA WithinBits ==
  ASSUME NEW a \in Masks, NEW b \in Masks
  PROVE  Within(a, b) <=> Bits(a) \subseteq Bits(b)
<1>1. ASSUME Within(a, b), NEW x \in Bits(a) PROVE x \in Bits(b)
  <2>1. x = <<x[1], x[2]>> /\ x[1] \in DOMAIN a /\ x[2] \in a[x[1]]
    BY MaskBlocks
  <2>2. x[1] \in DOMAIN b /\ x[2] \in b[x[1]]
    BY <1>1, <2>1 DEF Within
  <2> QED BY <2>1, <2>2, MaskBlocks
<1>2. ASSUME Bits(a) \subseteq Bits(b) PROVE Within(a, b)
  <2> SUFFICES ASSUME NEW k \in DOMAIN a, NEW q \in a[k]
               PROVE  k \in DOMAIN b /\ a[k] \subseteq b[k]
    BY DEF Within
  <2>1. \A p \in a[k] : <<k, p>> \in Bits(b)
    BY <1>2, MaskBlocks
  <2>2. \A p \in a[k] : k \in 1..Len(b) /\ p \in b[k]
    BY <2>1 DEF Bits
  <2> QED BY <2>2, MaskBlocks
<1> QED BY <1>1, <1>2

\* No bit is on in a mask that is none().
LEMMA NoneBits ==
  ASSUME NEW b \in Masks
  PROVE  None(b) <=> Bits(b) = {}
<1>1. None(b) => Bits(b) = {}
  BY MaskBlocks DEF None
<1>2. Bits(b) = {} => None(b)
  BY MaskBlocks DEF None
<1> QED BY <1>1, <1>2

\* The mask of an entity without components.
LEMMA EmptyMask == << >> \in Masks /\ Bits(<< >>) = {}
BY DEF Masks, Bits

\* The bits of both operands are on in what Or makes of them.
LEMMA OrBits ==
  ASSUME NEW a \in Masks, NEW b \in Masks
  PROVE  Or(a, b) \in Masks /\ Bits(Or(a, b)) = Bits(a) \cup Bits(b)
<1> DEFINE blocks == IF Len(a) >= Len(b) THEN Len(a) ELSE Len(b)
           of(m, k) == IF k \in DOMAIN m THEN m[k] ELSE {}
           both == [k \in 1..blocks |-> of(a, k) \cup of(b, k)]
<1>1. blocks \in Nat /\ Len(a) \in 0..blocks /\ Len(b) \in 0..blocks
  BY MaskBlocks
<1>2. Or(a, b) = both
  <2>1. ASSUME NEW k \in 1..blocks
        PROVE  Resized(a, blocks)[k] \cup Resized(b, blocks)[k] = of(a, k) \cup of(b, k)
    BY DEF Resized
  <2> HIDE DEF of
  <2> QED BY <2>1 DEF Or
<1>3. \A k \in 1..blocks : of(a, k) \cup of(b, k) \in SUBSET Positions
  BY MaskBlocks
<1> HIDE DEF blocks
<1>4. both \in Masks /\ Len(both) = blocks
  <2>1. both \in [1..blocks -> SUBSET Positions]
    <3> HIDE DEF of
    <3> QED BY <1>3
  <2> HIDE DEF both
  <2>2. both \in Seq(SUBSET Positions)
    BY <1>1, <2>1
  <2>3. Len(both) = blocks
    BY <1>1, <2>1
  <2> QED BY <2>2, <2>3 DEF Masks
<1>5. ASSUME NEW x \in Bits(both) PROVE x \in Bits(a) \cup Bits(b)
  <2>1. x = <<x[1], x[2]>> /\ x[1] \in 1..blocks /\ x[2] \in of(a, x[1]) \cup of(b, x[1])
    BY <1>4, MaskBlocks
  <2> QED BY <2>1, MaskBlocks
<1>6. ASSUME NEW m \in {a, b}, NEW x \in Bits(m) PROVE x \in Bits(both)
  <2>1. m \in Masks
    OBVIOUS
  <2>2. /\ x = <<x[1], x[2]>> /\ x[1] \in 1..Len(m) /\ x[2] \in Positions /\ x[2] \in of(m, x[1])
    BY <2>1, MaskBlocks
  <2>3. x[1] \in 1..blocks
    BY <1>1, <2>2
  <2>4. x[2] \in both[x[1]]
    BY <2>2, <2>3
  <2> HIDE DEF both
  <2> QED BY <1>4, <2>2, <2>3, <2>4 DEF Bits
<1> QED BY <1>2, <1>4, <1>5, <1>6

\* The mask index, moved on: the bit after, in a block of its own if the last one is full.
LEMMA NextBit ==
  ASSUME NEW b, NEW x, IsBit(b, x)
  PROVE  \E y : /\ After(y, x)
                /\ IsBit(RightShift(IF None(RightShift(b)) THEN Increased(b) ELSE b), y)
<1> DEFINE n == x[1]
           p == x[2]
<1>1. /\ b \in Masks /\ n \in Nat \ {0} /\ p \in 0..(BlockBits - 1) /\ x = <<n, p>>
      /\ Len(b) = n /\ Bits(b) = {x} /\ DOMAIN b = 1..n /\ p \in Nat
  BY MaskBlocks, BlockBitsAssumption DEF IsBit, Positions
<1>2. /\ b[n] = {p}
      /\ \A k \in 1..(n - 1) : b[k] = {}
  <2>1. \A k \in 1..n : \A q \in b[k] : k = n /\ q = p
    <3> SUFFICES ASSUME NEW k \in 1..n, NEW q \in b[k] PROVE k = n /\ q = p
      OBVIOUS
    <3>1. <<k, q>> \in Bits(b)
      BY <1>1, MaskBlocks
    <3>2. <<k, q>> = <<n, p>>
      BY <1>1, <3>1
    <3> QED BY <3>2
  <2>2. p \in b[n]
    BY <1>1, MaskBlocks
  <2> QED BY <1>1, <2>1, <2>2
<1>3. ASSUME NEW m \in Nat \ {0}, NEW q \in Positions, NEW c, c = [k \in 1..m |-> IF k = m THEN {q} ELSE {}]
      PROVE  IsBit(c, <<m, q>>)
  <2>1. c \in [1..m -> SUBSET Positions]
    BY <1>3
  <2>2. c \in Masks /\ Len(c) = m
    BY <2>1 DEF Masks
  <2>3. ASSUME NEW y \in Bits(c) PROVE y = <<m, q>>
    BY <1>3, <2>2 DEF Bits
  <2>4. <<m, q>> \in Bits(c)
    BY <1>3, <2>2 DEF Bits
  <2> QED BY <2>2, <2>3, <2>4 DEF IsBit
<1> HIDE DEF n, p
<1>4. RightShift(b) = [k \in 1..n |-> IF k = n /\ p > 0 THEN {p - 1} ELSE {}]
  <2> DEFINE at(k) == {r - 1 : r \in b[k] \ {0}}
                        \cup IF k > 1 /\ 0 \in b[k - 1] THEN {BlockBits - 1} ELSE {}
  <2>1. RightShift(b) = [k \in 1..n |-> at(k)]
    BY <1>1 DEF RightShift
  <2>2. ASSUME NEW k \in 1..n PROVE at(k) = IF k = n /\ p > 0 THEN {p - 1} ELSE {}
    <3>1. k > 1 => b[k - 1] = {}
      BY <1>1, <1>2
    <3>2. {r - 1 : r \in b[k] \ {0}} = IF k = n /\ p > 0 THEN {p - 1} ELSE {}
      <4>1. b[k] \ {0} = IF k = n /\ p > 0 THEN {p} ELSE {}
        BY <1>1, <1>2
      <4> QED BY <4>1
    <3> QED BY <3>1, <3>2
  <2> HIDE DEF at
  <2> QED BY <2>1, <2>2
<1>5. CASE p > 0
  <2>1. RightShift(b) = [k \in 1..n |-> IF k = n THEN {p - 1} ELSE {}] /\ p - 1 \in Positions
    <3>1. p - 1 \in Positions
      BY <1>1, <1>5, BlockBitsAssumption DEF Positions
    <3> QED BY <1>4, <1>5, <3>1
  <2>2. IsBit(RightShift(b), <<n, p - 1>>)
    BY <1>1, <1>3, <2>1
  <2>3. ~None(RightShift(b))
    BY <1>1, <2>1 DEF None
  <2>4. After(<<n, p - 1>>, x)
    BY <1>1 DEF After
  <2> QED BY <2>2, <2>3, <2>4
<1>6. CASE p = 0
  <2>1. None(RightShift(b))
    BY <1>1, <1>4, <1>6 DEF None
  <2> DEFINE c == Increased(b)
  <2>2. /\ DOMAIN c = 1..(n + 1) /\ c[n] = {0} /\ c[n + 1] = {}
        /\ \A k \in 1..(n - 1) : c[k] = {}
    BY <1>1, <1>2, <1>6 DEF Increased
  <2> HIDE DEF c
  <2> DEFINE at(k) == {r - 1 : r \in c[k] \ {0}}
                        \cup IF k > 1 /\ 0 \in c[k - 1] THEN {BlockBits - 1} ELSE {}
  <2>3. ASSUME NEW k \in 1..(n + 1) PROVE at(k) = IF k = n + 1 THEN {BlockBits - 1} ELSE {}
    <3>1. c[k] \ {0} = {}
      BY <1>1, <2>2
    <3>2. k > 1 /\ 0 \in c[k - 1] <=> k = n + 1
      BY <1>1, <2>2
    <3> QED BY <3>1, <3>2
  <2>4. RightShift(c) = [k \in 1..(n + 1) |-> at(k)]
    BY <2>2 DEF RightShift
  <2> HIDE DEF at
  <2>5. RightShift(c) = [k \in 1..(n + 1) |-> IF k = n + 1 THEN {BlockBits - 1} ELSE {}]
    BY <2>3, <2>4
  <2>6. BlockBits - 1 \in Positions /\ n + 1 \in Nat \ {0}
    BY <1>1, BlockBitsAssumption DEF Positions
  <2>7. IsBit(RightShift(c), <<n + 1, BlockBits - 1>>)
    BY <1>3, <2>5, <2>6
  <2>8. After(<<n + 1, BlockBits - 1>>, x)
    BY <1>1 DEF After
  <2> QED BY <2>1, <2>7, <2>8 DEF c
<1> QED BY <1>1, <1>5, <1>6

------------------------------------------------------------------------------
(* Loops, once more: what holds of their states.                           *)

\* A loop of n turns from r, in turn i by step[i], whose states after it are in sets[i].
IsLoop(n, X, sets, step, r) ==
  /\ n \in Nat /\ sets \in [0..n -> SUBSET X] /\ r \in sets[0]
  /\ \A i \in 1..n : \A x \in sets[i - 1] : step[i][x] \in sets[i]

\* What the loop goes through.
IsRunOf(f, n, sets, step, r) ==
  /\ f = [i \in 0..n |-> IF i = 0 THEN r ELSE step[i][f[i - 1]]]
  /\ \A i \in 0..n : f[i] \in sets[i]

\* A loop goes through some states.
LEMMA LoopRuns ==
  ASSUME NEW n, NEW X, NEW sets, NEW step, NEW r, IsLoop(n, X, sets, step, r)
  PROVE  \E f : IsRunOf(f, n, sets, step, r)
<1>1. PICK f \in [0..n -> X] : IsRun(f, n, r, sets, step)
  BY Turns DEF IsLoop
<1>2. n \in Nat
  BY DEF IsLoop
<1>3. f = [i \in 0..n |-> IF i = 0 THEN r ELSE step[i][f[i - 1]]]
  BY <1>1, <1>2 DEF IsRun
<1>4. \A i \in 0..n : f[i] \in sets[i]
  BY <1>1 DEF IsRun
<1> QED BY <1>3, <1>4 DEF IsRunOf

\* What moves like a loop goes through the same states.
LEMMA LoopStays ==
  ASSUME NEW n, NEW X, NEW sets, NEW step, NEW r, IsLoop(n, X, sets, step, r),
         NEW g, g[0] = r, \A i \in 1..n : g[i - 1] \in sets[i - 1] => g[i] = step[i][g[i - 1]]
  PROVE  \A i \in 0..n : g[i] \in sets[i]
<1> DEFINE T == {m \in Nat : m <= n => g[m] \in sets[m]}
<1>1. 0 \in T
  BY DEF IsLoop
<1>2. ASSUME NEW m \in T PROVE m + 1 \in T
  <2> SUFFICES ASSUME m + 1 <= n PROVE g[m + 1] \in sets[m + 1]
    OBVIOUS
  <2>1. n \in Nat /\ m + 1 \in 1..n /\ (m + 1) - 1 = m
    BY DEF IsLoop
  <2>2. g[m] \in sets[m]
    BY <2>1
  <2>3. g[m + 1] = step[m + 1][g[m]]
    BY <2>1, <2>2
  <2> QED BY <2>1, <2>2, <2>3 DEF IsLoop
<1> HIDE DEF T
<1>3. T = Nat
  <2>1. T \subseteq Nat
    BY DEF T
  <2> QED BY <1>1, <1>2, <2>1, NatSetInduction
<1> QED BY <1>3 DEF T, IsLoop

\* What moves like a loop ends like it.
LEMMA LoopEnds ==
  ASSUME NEW n, NEW X, NEW sets, NEW step, NEW r, IsLoop(n, X, sets, step, r),
         NEW g, g[0] = r, \A i \in 1..n : g[i - 1] \in sets[i - 1] => g[i] = step[i][g[i - 1]]
  PROVE  g[n] \in sets[n]
<1>1. \A i \in 0..n : g[i] \in sets[i]
  BY LoopStays
<1> QED BY <1>1 DEF IsLoop

------------------------------------------------------------------------------
(* A world, in which the components C are registered and have values in V. *)

AnySets(V) == UNION {SparseSets(ids, V) : ids \in SUBSET Nat}
Worlds(C, V) ==
  [entities : UNION {[ids -> Masks] : ids \in SUBSET Nat}, next : Nat,
   sets : [C -> AnySets(V)], masks : [C -> Masks], index : Masks]

\* Each component has a bit of its own.
BitsApart(masks, C) ==
  /\ \A c \in C : \E x : Bits(masks[c]) = {x}
  /\ \A c \in C : \A d \in C \ {c} : Bits(masks[c]) # Bits(masks[d])

\* The bits of the components in D.
BitsOf(masks, D) == UNION {Bits(masks[d]) : d \in D}

\* A world all of whose sparse sets are consistent.
Stored(w, C, V) ==
  /\ w \in Worlds(C, V)
  /\ \A c \in C : Consistent(w.sets[c])
  /\ BitsApart(w.masks, C)

\* The entities whose mask has the bit of c.
Marked(w, c) == {id \in Entities(w) : Bits(w.masks[c]) \subseteq Bits(w.entities[id])}

\* A world whose sets have the entities that the masks say.
Sound(w, C, V) ==
  /\ Stored(w, C, V)
  /\ \A c \in C : DOMAIN w.sets[c].sparse = Marked(w, c)
  /\ \A id \in Entities(w) : id < w.next

\* The bits of none, of one, and of one more.
LEMMA BitsOfMore ==
  ASSUME NEW masks, NEW D
  PROVE  /\ BitsOf(masks, {}) = {}
         /\ \A c : /\ BitsOf(masks, {c}) = Bits(masks[c])
                  /\ BitsOf(masks, D \cup {c}) = BitsOf(masks, D) \cup Bits(masks[c])
         /\ \A x : x \in BitsOf(masks, D) <=> \E d \in D : x \in Bits(masks[d])
BY DEF BitsOf

\* What a world is made of.
LEMMA WorldParts ==
  ASSUME NEW C, NEW V, NEW w, Stored(w, C, V)
  PROVE  /\ Components(w) = C /\ Entities(w) \subseteq Nat /\ w.next \in Nat
         /\ w.entities \in [Entities(w) -> Masks] /\ w.masks \in [C -> Masks]
         /\ DOMAIN w.sets = C
         /\ \A c \in C : /\ w.sets[c] \in SparseSets(DOMAIN w.sets[c].sparse, V)
                          /\ Consistent(w.sets[c]) /\ DOMAIN w.sets[c].sparse \subseteq Nat
<1>1. /\ w.entities \in UNION {[ids -> Masks] : ids \in SUBSET Nat} /\ w.next \in Nat
      /\ w.sets \in [C -> AnySets(V)] /\ w.masks \in [C -> Masks]
  BY DEF Stored, Worlds
<1>2. Entities(w) \subseteq Nat /\ w.entities \in [Entities(w) -> Masks]
  BY <1>1 DEF Entities
<1>3. ASSUME NEW c \in C
      PROVE  /\ w.sets[c] \in SparseSets(DOMAIN w.sets[c].sparse, V)
             /\ Consistent(w.sets[c]) /\ DOMAIN w.sets[c].sparse \subseteq Nat
  <2>3. w.sets[c] \in AnySets(V)
    BY <1>1
  <2>1. PICK ids \in SUBSET Nat : w.sets[c] \in SparseSets(ids, V)
    BY <2>3 DEF AnySets
  <2>2. DOMAIN w.sets[c].sparse = ids
    BY <2>1 DEF SparseSets
  <2> QED BY <2>1, <2>2 DEF Stored
<1> QED BY <1>1, <1>2, <1>3 DEF Components

\* v is w with other entities, another counter, and other sparse sets.
Remade(v, w, entities, next, sets) ==
  v = [w EXCEPT !.entities = entities, !.next = next, !.sets = sets]

\* Such a world has consistent sets if the new ones are.
LEMMA WorldMade ==
  ASSUME NEW C, NEW V, NEW w, Stored(w, C, V),
         NEW ids \in SUBSET Nat, NEW entities \in [ids -> Masks], NEW next \in Nat,
         NEW sets \in [C -> AnySets(V)], \A c \in C : Consistent(sets[c]),
         NEW v, Remade(v, w, entities, next, sets)
  PROVE  /\ Stored(v, C, V)
         /\ v.entities = entities /\ v.next = next /\ v.sets = sets /\ v.masks = w.masks
<1>1. w \in Worlds(C, V)
  BY DEF Stored
<1>3. entities \in UNION {[d -> Masks] : d \in SUBSET Nat}
  OBVIOUS
<1>4. /\ v \in Worlds(C, V) /\ v.entities = entities /\ v.next = next /\ v.sets = sets
      /\ v.masks = w.masks
  BY <1>1, <1>3 DEF Worlds, Remade
<1> QED BY <1>4 DEF Stored

\* With other sparse sets only.
LEMMA SetsChanged ==
  ASSUME NEW C, NEW V, NEW w, Stored(w, C, V),
         NEW sets \in [C -> AnySets(V)], \A c \in C : Consistent(sets[c]),
         NEW v, Remade(v, w, w.entities, w.next, sets)
  PROVE  /\ Stored(v, C, V)
         /\ v.entities = w.entities /\ v.next = w.next /\ v.sets = sets /\ v.masks = w.masks
<1> DEFINE entities == w.entities
           ids == Entities(w)
           next == w.next
<1>1. /\ ids \in SUBSET Nat /\ entities \in [ids -> Masks] /\ next \in Nat
      /\ Remade(v, w, entities, next, sets)
  BY WorldParts
<1> HIDE DEF entities, ids, next
<1>2. /\ Stored(v, C, V)
      /\ v.entities = entities /\ v.next = next /\ v.sets = sets /\ v.masks = w.masks
  BY <1>1, WorldMade
<1> QED BY <1>2 DEF entities, next

\* getComponentMask: the bits of the components that are registered.
LEMMA MaskOfComponents ==
  ASSUME NEW C, NEW V, NEW w, Stored(w, C, V), NEW D, NEW cs \in Seq(D)
  PROVE  /\ ComponentMask(w, cs) \in Masks
         /\ Bits(ComponentMask(w, cs)) =
              UNION {Bits(w.masks[cs[k]]) : k \in {j \in 1..Len(cs) : cs[j] \in C}}
<1>1. w.masks \in [C -> Masks] /\ DOMAIN w.masks = C
  BY WorldParts
<1>2. Len(cs) \in Nat
  OBVIOUS
<1> DEFINE known(i) == {j \in 1..i : cs[j] \in C}
<1> DEFINE turns == Len(cs)
           first == << >>
           States == Masks
           Step(x, i) == IF cs[i] \in DOMAIN w.masks THEN Or(x, w.masks[cs[i]]) ELSE x
           sets == [i \in 0..turns |-> {mask \in Masks : Bits(mask) = UNION {Bits(w.masks[cs[k]]) : k \in known(i)}}]
           step == [i \in 1..turns |-> [x \in sets[i - 1] |-> Step(x, i)]]
           Turn(x, i) == Given(x, LAMBDA y : Step(y, i))
           Eq(f) == f = [i \in 0..turns |-> IF i = 0 THEN first ELSE Turn(f[i - 1], i)]
<1>60. turns \in Nat
  BY <1>2
<1>61. ASSUME NEW i \in 1..turns, NEW x \in sets[i - 1] PROVE Step(x, i) \in sets[i]
  <2>1. i - 1 \in 0..turns /\ i \in 0..turns
    BY <1>2
  <2>2. x \in Masks /\ Bits(x) = UNION {Bits(w.masks[cs[k]]) : k \in known(i - 1)}
    BY <2>1
  <2>3. CASE cs[i] \in C
    <3>1. known(i) = known(i - 1) \cup {i}
      BY <1>2, <2>3
    <3>2. Step(x, i) = Or(x, w.masks[cs[i]])
      BY <1>1, <2>3
    <3>3. Step(x, i) \in Masks /\ Bits(Step(x, i)) = Bits(x) \cup Bits(w.masks[cs[i]])
      <4> HIDE DEF Step
      <4> QED BY <1>1, <2>2, <2>3, <3>2, OrBits
    <3> HIDE DEF Step, known
    <3>4. Bits(Step(x, i)) = UNION {Bits(w.masks[cs[k]]) : k \in known(i)}
      BY <2>2, <3>1, <3>3
    <3> QED BY <2>1, <3>3, <3>4
  <2>4. CASE cs[i] \notin C
    <3>1. known(i) = known(i - 1)
      BY <1>2, <2>4
    <3>2. Step(x, i) = x
      BY <1>1, <2>4
    <3> HIDE DEF Step, known
    <3> QED BY <2>1, <2>2, <3>1, <3>2
  <2> QED BY <2>3, <2>4
<1>62. first \in sets[0] /\ sets \in [0..turns -> SUBSET States]
  <2>1. 0 \in 0..turns /\ known(0) = {}
    BY <1>2
  <2> HIDE DEF known
  <2>2. first \in sets[0]
    BY <2>1, EmptyMask
  <2>3. sets \in [0..turns -> SUBSET States]
    OBVIOUS
  <2> QED BY <2>2, <2>3
<1> HIDE DEF turns, first, States
<1>63. IsLoop(turns, States, sets, step, first)
  <2>1. \A i \in 1..turns : \A x \in sets[i - 1] : step[i][x] \in sets[i]
    BY <1>61
  <2> HIDE DEF step, sets
  <2> QED BY <1>60, <1>62, <2>1 DEF IsLoop
<1>64. \A i \in 1..turns : \A x \in sets[i - 1] : Turn(x, i) = step[i][x]
  <2> SUFFICES ASSUME NEW i \in 1..turns, NEW x \in sets[i - 1]
               PROVE  Turn(x, i) = step[i][x]
    OBVIOUS
  <2>1. step[i][x] = Step(x, i)
    OBVIOUS
  <2> HIDE DEF step, sets, Step
  <2> QED BY <2>1 DEF Given
<1> HIDE DEF step, sets, Step, Turn
<1>65. PICK f : Eq(f)
  <2>1. PICK f : IsRunOf(f, turns, sets, step, first)
    BY <1>63, LoopRuns
  <2>2. \A i \in 1..turns : step[i][f[i - 1]] = Turn(f[i - 1], i)
    BY <1>60, <1>64, <2>1 DEF IsRunOf
  <2>3. Eq(f)
    <3>1. f = [i \in 0..turns |-> IF i = 0 THEN first ELSE step[i][f[i - 1]]]
      BY <2>1 DEF IsRunOf
    <3>2. \A i \in 0..turns : i # 0 => i \in 1..turns
      BY <1>60
    <3> QED BY <2>2, <3>1, <3>2
  <2> QED BY <2>3
<1>66. Eq(CHOOSE h : Eq(h))
  BY <1>65, Zenon
<1>67. ASSUME NEW g, Eq(g) PROVE g[turns] \in sets[turns]
  <2>1. g[0] = first /\ \A i \in 1..turns : g[i] = Turn(g[i - 1], i)
    BY <1>60, <1>67
  <2>2. \A i \in 1..turns : g[i - 1] \in sets[i - 1] => g[i] = step[i][g[i - 1]]
    BY <1>64, <2>1
  <2> QED BY <1>63, <2>1, <2>2, LoopEnds
<1>68. ComponentMask(w, cs) \in sets[turns]
  <2>1. ComponentMask(w, cs) = (CHOOSE h : Eq(h))[turns]
    BY DEF InTurn, turns, first, Step, Turn, ComponentMask
  <2> HIDE DEF Eq
  <2> QED BY <1>66, <1>67, <2>1
<1> QED BY <1>60, <1>68 DEF sets, turns

\* The mask of one component is its bit.
LEMMA MaskOfOne ==
  ASSUME NEW C, NEW V, NEW w, Stored(w, C, V), NEW c \in C
  PROVE  /\ ComponentMask(w, <<c>>) \in Masks
         /\ Bits(ComponentMask(w, <<c>>)) = Bits(w.masks[c])
<1> DEFINE cs == <<c>>
<1>1. cs \in Seq(C) /\ Len(cs) = 1 /\ cs[1] = c
  OBVIOUS
<1>2. {j \in 1..Len(cs) : cs[j] \in C} = {1}
  BY <1>1
<1> HIDE DEF cs
<1>3. /\ ComponentMask(w, cs) \in Masks
      /\ Bits(ComponentMask(w, cs)) = UNION {Bits(w.masks[cs[k]]) : k \in {1}}
  BY <1>1, <1>2, MaskOfComponents
<1>4. UNION {Bits(w.masks[cs[k]]) : k \in {1}} = Bits(w.masks[c])
  BY <1>1
<1> QED BY <1>3, <1>4 DEF cs

\* v is w once the entity id has the instances of the components in D.
Added(v, w, C, id, instances, D) ==
  /\ v.next = w.next /\ v.masks = w.masks /\ Entities(v) = Entities(w)
  /\ \A e \in Entities(w) \ {id} : v.entities[e] = w.entities[e]
  /\ Bits(v.entities[id]) = Bits(w.entities[id]) \cup BitsOf(w.masks, D)
  /\ \A c \in C : Map(v.sets[c]) = IF c \in D THEN With(Map(w.sets[c]), id, instances[c])
                                   ELSE Map(w.sets[c])

\* The entities that are in a map are those of its set.
LEMMA MapDomain == \A set : DOMAIN Map(set) = DOMAIN set.sparse
BY DEF Map

\* insertComponentInstance
LEMMA InsertAdds ==
  ASSUME NEW C, NEW V, NEW w, Stored(w, C, V), NEW id \in Entities(w), NEW c \in C,
         NEW instances, instances[c] \in V
  PROVE  /\ Stored(Insert(w, id, c, instances[c]), C, V)
         /\ Added(Insert(w, id, c, instances[c]), w, C, id, instances, {c})
<1> DEFINE value == instances[c]
           mask == Or(w.entities[id], ComponentMask(w, <<c>>))
           placed == Placed(w.sets[c], id, value)
           entities == [w.entities EXCEPT ![id] = mask]
           sets == [w.sets EXCEPT ![c] = placed]
           v == [w EXCEPT !.entities = entities, !.next = w.next, !.sets = sets]
<1>1. /\ Components(w) = C /\ Entities(w) \subseteq Nat /\ w.next \in Nat
      /\ w.entities \in [Entities(w) -> Masks] /\ w.masks \in [C -> Masks]
      /\ DOMAIN w.sets = C
      /\ \A d \in C : /\ w.sets[d] \in SparseSets(DOMAIN w.sets[d].sparse, V)
                      /\ Consistent(w.sets[d]) /\ DOMAIN w.sets[d].sparse \subseteq Nat
  BY WorldParts
<1>2. w \in [entities : UNION {[ids -> Masks] : ids \in SUBSET Nat}, next : Nat,
             sets : [C -> AnySets(V)], masks : [C -> Masks], index : Masks]
  BY DEF Stored, Worlds
<1>3. w.sets \in [C -> AnySets(V)]
  BY <1>2
<1>4. Insert(w, id, c, value) = v
  <2>1. Insert(w, id, c, value) = [w EXCEPT !.entities[id] = mask, !.sets[c] = placed]
    BY <1>1 DEF Insert
  <2>2. [w EXCEPT !.entities[id] = mask, !.sets[c] = placed] = v
    <3> HIDE DEF mask, placed
    <3> QED BY <1>1, <1>2
  <2> QED BY <2>1, <2>2
<1>5. mask \in Masks /\ Bits(mask) = Bits(w.entities[id]) \cup Bits(w.masks[c])
  <2>1. w.entities[id] \in Masks
    BY <1>1
  <2> QED BY <2>1, MaskOfOne, OrBits
<1>6. /\ placed \in SparseSets(DOMAIN w.sets[c].sparse \cup {id}, V)
      /\ Consistent(placed) /\ Map(placed) = With(Map(w.sets[c]), id, value)
  <2>1. w.sets[c] \in SparseSets(DOMAIN w.sets[c].sparse, V) /\ Consistent(w.sets[c])
    BY <1>1
  <2>2. value \in V
    OBVIOUS
  <2> HIDE DEF value
  <2> QED BY <2>1, <2>2, PutUpdates
<1>7. DOMAIN placed.sparse = DOMAIN w.sets[c].sparse \cup {id}
  BY <1>6 DEF SparseSets
<1> HIDE DEF value, mask, placed
<1>8. entities \in [Entities(w) -> Masks]
  BY <1>1, <1>5
<1>9. DOMAIN sets = C /\ sets[c] = placed /\ \A d \in C \ {c} : sets[d] = w.sets[d]
  BY <1>3
<1>10. sets = [d \in C |-> sets[d]]
  BY <1>3
<1>16. entities[id] = mask /\ DOMAIN entities = Entities(w)
       /\ \A e \in Entities(w) \ {id} : entities[e] = w.entities[e]
  BY <1>1
<1> HIDE DEF sets, entities
<1>11. \A d \in C : /\ sets[d] \in SparseSets(DOMAIN sets[d].sparse, V)
                    /\ Consistent(sets[d]) /\ DOMAIN sets[d].sparse \subseteq Nat
  BY <1>1, <1>6, <1>7, <1>9
<1>12. /\ Stored(v, C, V)
       /\ v.entities = entities /\ v.next = w.next /\ v.sets = sets /\ v.masks = w.masks
  <2>1. Entities(w) \in SUBSET Nat
    BY <1>1
  <2>2. Remade(v, w, entities, w.next, sets)
    BY DEF Remade
  <2>3. Stored(w, C, V) /\ DOMAIN sets = C /\ w.next \in Nat
    BY <1>1, <1>9
  <2>4. sets \in [C -> AnySets(V)]
    <3>1. \A d \in C : sets[d] \in AnySets(V)
      BY <1>11 DEF AnySets
    <3> QED BY <1>10, <3>1
  <2>5. \A d \in C : Consistent(sets[d])
    BY <1>11
  <2> HIDE DEF v
  <2> QED BY <1>8, <2>1, <2>2, <2>3, <2>4, <2>5, WorldMade
<1> HIDE DEF v
<1>13. \A d \in C : Map(v.sets[d]) = IF d \in {c} THEN With(Map(w.sets[d]), id, instances[d])
                                     ELSE Map(w.sets[d])
  BY <1>6, <1>9, <1>12 DEF value
<1>14. Entities(v) = Entities(w)
  BY <1>12, <1>16 DEF Entities
<1>15. Added(v, w, C, id, instances, {c})
  <2>1. BitsOf(w.masks, {c}) = Bits(w.masks[c])
    BY BitsOfMore
  <2> QED BY <1>5, <1>12, <1>13, <1>14, <1>16, <2>1 DEF Added
<1> QED BY <1>4, <1>12, <1>15 DEF value

\* One component after others.
LEMMA AddedMore ==
  ASSUME NEW C, NEW w, NEW v, NEW u, NEW id, NEW instances, NEW D, NEW c \in C,
         Added(v, w, C, id, instances, D), Added(u, v, C, id, instances, {c})
  PROVE  Added(u, w, C, id, instances, D \cup {c})
<1>2. Bits(u.entities[id]) = Bits(w.entities[id]) \cup BitsOf(w.masks, D \cup {c})
  BY BitsOfMore DEF Added
<1>3. ASSUME NEW d \in C
      PROVE  Map(u.sets[d]) = IF d \in D \cup {c} THEN With(Map(w.sets[d]), id, instances[d])
                              ELSE Map(w.sets[d])
  <2>1. \A f, i : With(With(f, id, i), id, i) = With(f, id, i)
    BY DEF With
  <2> QED BY <2>1 DEF Added
<1> QED BY <1>2, <1>3 DEF Added

\* addEntityComponents
LEMMA ComponentsAdded ==
  ASSUME NEW C, NEW V, NEW w, Stored(w, C, V), NEW id \in Entities(w), NEW cs \in Seq(C),
         NEW instances, \A k \in 1..Len(cs) : instances[cs[k]] \in V
  PROVE  /\ Stored(AddComponents(w, id, cs, instances), C, V)
         /\ Added(AddComponents(w, id, cs, instances), w, C, id, instances,
                  {cs[k] : k \in 1..Len(cs)})
<1>2. Len(cs) \in Nat /\ \A k \in 1..Len(cs) : cs[k] \in C
  OBVIOUS
<1> DEFINE some(i) == {cs[k] : k \in 1..i}
<1> DEFINE turns == Len(cs)
           first == w
           States == Worlds(C, V)
           Step(x, i) == Insert(x, id, cs[i], instances[cs[i]])
           sets == [i \in 0..turns |-> {v \in Worlds(C, V) : Stored(v, C, V) /\ Added(v, w, C, id, instances, some(i))}]
           step == [i \in 1..turns |-> [x \in sets[i - 1] |-> Step(x, i)]]
           Turn(x, i) == Given(x, LAMBDA y : Step(y, i))
           Eq(f) == f = [i \in 0..turns |-> IF i = 0 THEN first ELSE Turn(f[i - 1], i)]
<1>60. turns \in Nat
  BY <1>2
<1>61. ASSUME NEW i \in 1..turns, NEW x \in sets[i - 1] PROVE Step(x, i) \in sets[i]
  <2>1. i - 1 \in 0..turns /\ i \in 0..turns /\ cs[i] \in C /\ instances[cs[i]] \in V
    BY <1>2
  <2>2. Stored(x, C, V) /\ Added(x, w, C, id, instances, some(i - 1))
    BY <2>1
  <2>3. id \in Entities(x)
    BY <2>2 DEF Added
  <2>4. some(i) = some(i - 1) \cup {cs[i]}
    <3>1. 1..i = (1..(i - 1)) \cup {i}
      BY <1>2
    <3> QED BY <3>1
  <2>5. Stored(Step(x, i), C, V) /\ Added(Step(x, i), x, C, id, instances, {cs[i]})
    BY <2>1, <2>2, <2>3, InsertAdds
  <2> HIDE DEF Step, some
  <2>6. Added(Step(x, i), w, C, id, instances, some(i))
    BY <2>1, <2>2, <2>4, <2>5, AddedMore
  <2> QED BY <2>1, <2>5, <2>6 DEF Stored
<1>62. first \in sets[0] /\ sets \in [0..turns -> SUBSET States]
  <2>1. 0 \in 0..turns /\ some(0) = {}
    BY <1>2
  <2> HIDE DEF some
  <2>3. Added(w, w, C, id, instances, {})
    <3>1. BitsOf(w.masks, {}) = {}
      BY BitsOfMore
    <3> QED BY <3>1 DEF Added
  <2>2. first \in sets[0]
    BY <2>1, <2>3 DEF Stored
  <2>4. sets \in [0..turns -> SUBSET States]
    OBVIOUS
  <2> QED BY <2>2, <2>4
<1> HIDE DEF turns, first, States
<1>63. IsLoop(turns, States, sets, step, first)
  <2>1. \A i \in 1..turns : \A x \in sets[i - 1] : step[i][x] \in sets[i]
    BY <1>61
  <2> HIDE DEF step, sets
  <2> QED BY <1>60, <1>62, <2>1 DEF IsLoop
<1>64. \A i \in 1..turns : \A x \in sets[i - 1] : Turn(x, i) = step[i][x]
  <2> SUFFICES ASSUME NEW i \in 1..turns, NEW x \in sets[i - 1]
               PROVE  Turn(x, i) = step[i][x]
    OBVIOUS
  <2>1. step[i][x] = Step(x, i)
    OBVIOUS
  <2> HIDE DEF step, sets, Step
  <2> QED BY <2>1 DEF Given
<1> HIDE DEF step, sets, Step, Turn
<1>65. PICK f : Eq(f)
  <2>1. PICK f : IsRunOf(f, turns, sets, step, first)
    BY <1>63, LoopRuns
  <2>2. \A i \in 1..turns : step[i][f[i - 1]] = Turn(f[i - 1], i)
    BY <1>60, <1>64, <2>1 DEF IsRunOf
  <2>3. Eq(f)
    <3>1. f = [i \in 0..turns |-> IF i = 0 THEN first ELSE step[i][f[i - 1]]]
      BY <2>1 DEF IsRunOf
    <3>2. \A i \in 0..turns : i # 0 => i \in 1..turns
      BY <1>60
    <3> QED BY <2>2, <3>1, <3>2
  <2> QED BY <2>3
<1>66. Eq(CHOOSE h : Eq(h))
  BY <1>65, Zenon
<1>67. ASSUME NEW g, Eq(g) PROVE g[turns] \in sets[turns]
  <2>1. g[0] = first /\ \A i \in 1..turns : g[i] = Turn(g[i - 1], i)
    BY <1>60, <1>67
  <2>2. \A i \in 1..turns : g[i - 1] \in sets[i - 1] => g[i] = step[i][g[i - 1]]
    BY <1>64, <2>1
  <2> QED BY <1>63, <2>1, <2>2, LoopEnds
<1>68. AddComponents(w, id, cs, instances) \in sets[turns]
  <2>1. AddComponents(w, id, cs, instances) = (CHOOSE h : Eq(h))[turns]
    BY DEF InTurn, turns, first, Step, Turn, AddComponents
  <2> HIDE DEF Eq
  <2> QED BY <1>66, <1>67, <2>1
<1> QED BY <1>60, <1>68 DEF sets, turns

\* A component's bit is one of some others' only if the component is one of them.
LEMMA BitOfOthers ==
  ASSUME NEW C, NEW masks, BitsApart(masks, C), NEW c \in C, NEW D \in SUBSET C, NEW B
  PROVE  Bits(masks[c]) \subseteq B \cup BitsOf(masks, D) <=>
           Bits(masks[c]) \subseteq B \/ c \in D
<1>1. PICK x : Bits(masks[c]) = {x}
  BY DEF BitsApart
<1> DEFINE others == BitsOf(masks, D)
<1>2. ASSUME x \in others PROVE c \in D
  <2>1. PICK d \in D : x \in Bits(masks[d])
    BY <1>2, BitsOfMore
  <2>2. Bits(masks[d]) = Bits(masks[c])
    BY <1>1, <2>1 DEF BitsApart
  <2>3. d = c
    BY <2>2 DEF BitsApart
  <2> QED BY <2>3
<1>3. c \in D => x \in others
  BY <1>1, BitsOfMore
<1> HIDE DEF others
<1>4. Bits(masks[c]) \subseteq B \cup others <=> Bits(masks[c]) \subseteq B \/ c \in D
  BY <1>1, <1>2, <1>3
<1> QED BY <1>4 DEF others

\* A component that an entity did not have adds the entity to its set and its mask.
LEMMA SoundAdded ==
  ASSUME NEW C, NEW V, NEW w, Sound(w, C, V), NEW id \in Entities(w), NEW D \in SUBSET C,
         NEW instances, NEW v, Stored(v, C, V), Added(v, w, C, id, instances, D)
  PROVE  Sound(v, C, V)
<1>1. Stored(w, C, V) /\ BitsApart(w.masks, C)
  BY DEF Sound, Stored
<1>2. ASSUME NEW c \in C PROVE DOMAIN v.sets[c].sparse = Marked(v, c)
  <2>1. DOMAIN w.sets[c].sparse = Marked(w, c)
    BY DEF Sound
  <2>2. DOMAIN v.sets[c].sparse = IF c \in D THEN Marked(w, c) \cup {id} ELSE Marked(w, c)
    <3>1. DOMAIN Map(v.sets[c]) = IF c \in D THEN DOMAIN Map(w.sets[c]) \cup {id} ELSE DOMAIN Map(w.sets[c])
      BY DEF Added, With
    <3> QED BY <2>1, <3>1, MapDomain
  <2>3. ASSUME NEW e \in Entities(w) \ {id} PROVE e \in Marked(v, c) <=> e \in Marked(w, c)
    BY DEF Marked, Added
  <2>4. id \in Marked(v, c) <=> id \in Marked(w, c) \/ c \in D
    <3>1. Bits(v.entities[id]) = Bits(w.entities[id]) \cup BitsOf(w.masks, D)
      BY DEF Added
    <3>2. Bits(w.masks[c]) \subseteq Bits(v.entities[id]) <=>
            Bits(w.masks[c]) \subseteq Bits(w.entities[id]) \/ c \in D
      BY <1>1, <3>1, BitOfOthers
    <3> QED BY <3>2 DEF Marked, Added
  <2>5. Marked(v, c) \subseteq Entities(w) /\ Marked(w, c) \subseteq Entities(w)
    BY DEF Marked, Added
  <2> QED BY <2>2, <2>3, <2>4, <2>5
<1>3. \A e \in Entities(v) : e < v.next
  BY DEF Sound, Added
<1> QED BY <1>2, <1>3 DEF Sound

\* insertComponentInstance, of an entity and a component that may be unknown.
LEMMA InsertSound ==
  ASSUME NEW C, NEW V, NEW w, Sound(w, C, V), NEW id, NEW c, NEW value \in V
  PROVE  /\ Sound(Insert(w, id, c, value), C, V)
         /\ Insert(w, id, c, value).next = w.next
         /\ Entities(Insert(w, id, c, value)) = Entities(w)
<1>1. Stored(w, C, V)
  BY DEF Sound
<1>2. CASE id \notin Entities(w) \/ c \notin C
  <2>1. Insert(w, id, c, value) = w
    BY <1>1, <1>2, WorldParts DEF Insert
  <2> QED BY <2>1
<1>3. CASE id \in Entities(w) /\ c \in C
  <2> DEFINE instances == [d \in {c} |-> value]
  <2>1. instances[c] = value
    OBVIOUS
  <2> HIDE DEF instances
  <2>2. /\ Stored(Insert(w, id, c, value), C, V)
        /\ Added(Insert(w, id, c, value), w, C, id, instances, {c})
    BY <1>1, <1>3, <2>1, InsertAdds
  <2>3. Sound(Insert(w, id, c, value), C, V)
    BY <1>3, <2>2, SoundAdded
  <2> QED BY <2>2, <2>3 DEF Added
<1> QED BY <1>2, <1>3

\* v is w with one more entity, which has the instances of the components in D.
Registered(v, w, C, instances, D) ==
  /\ v.next = w.next + 1 /\ v.masks = w.masks
  /\ Entities(v) = Entities(w) \cup {w.next}
  /\ \A e \in Entities(w) : v.entities[e] = w.entities[e]
  /\ Bits(v.entities[w.next]) = BitsOf(w.masks, D)
  /\ \A c \in C : Map(v.sets[c]) = IF c \in D THEN With(Map(w.sets[c]), w.next, instances[c])
                                   ELSE Map(w.sets[c])

\* The new entity is where its mask says.
LEMMA SoundRegistered ==
  ASSUME NEW C, NEW V, NEW w, Sound(w, C, V), NEW D \in SUBSET C,
         NEW instances, NEW v, Stored(v, C, V), Registered(v, w, C, instances, D)
  PROVE  Sound(v, C, V)
<1> DEFINE id == w.next
<1>1. Stored(w, C, V) /\ BitsApart(w.masks, C) /\ \A e \in Entities(w) : e < id
  BY DEF Sound, Stored
<1>6. id \in Nat /\ Entities(w) \subseteq Nat
  BY <1>1, WorldParts
<1>2. ASSUME NEW c \in C PROVE DOMAIN v.sets[c].sparse = Marked(v, c)
  <2>1. DOMAIN w.sets[c].sparse = Marked(w, c)
    BY DEF Sound
  <2>2. DOMAIN v.sets[c].sparse = IF c \in D THEN Marked(w, c) \cup {id} ELSE Marked(w, c)
    <3>1. DOMAIN Map(v.sets[c]) = IF c \in D THEN DOMAIN Map(w.sets[c]) \cup {id} ELSE DOMAIN Map(w.sets[c])
      BY DEF Registered, With
    <3> QED BY <2>1, <3>1, MapDomain
  <2>3. ASSUME NEW e \in Entities(w) PROVE e \in Marked(v, c) <=> e \in Marked(w, c)
    BY DEF Marked, Registered
  <2>4. id \in Marked(v, c) <=> c \in D
    <3>1. Bits(v.entities[id]) = {} \cup BitsOf(w.masks, D)
      BY DEF Registered
    <3>2. Bits(w.masks[c]) # {}
      BY <1>1 DEF BitsApart
    <3>5. PICK B : B = {}
      OBVIOUS
    <3>4. Bits(w.masks[c]) \subseteq B \cup BitsOf(w.masks, D) <=> Bits(w.masks[c]) \subseteq B \/ c \in D
      BY <1>1, BitOfOthers
    <3>3. Bits(w.masks[c]) \subseteq Bits(v.entities[id]) <=> Bits(w.masks[c]) \subseteq {} \/ c \in D
      BY <3>1, <3>4, <3>5
    <3> QED BY <3>2, <3>3 DEF Marked, Registered
  <2>5. Marked(v, c) \subseteq Entities(w) \cup {id} /\ Marked(w, c) \subseteq Entities(w)
        /\ id \notin Entities(w)
    BY <1>1, <1>6 DEF Marked, Registered
  <2> QED BY <2>2, <2>3, <2>4, <2>5
<1>3. \A e \in Entities(v) : e < v.next
  BY <1>1, <1>6 DEF Registered
<1> QED BY <1>2, <1>3 DEF Sound

\* A world with another mask of an entity, or with a new one, and a counter.
LEMMA MaskGiven ==
  ASSUME NEW C, NEW V, NEW w, Stored(w, C, V), NEW id \in Nat, NEW mask \in Masks, NEW next \in Nat,
         NEW v, Remade(v, w, With(w.entities, id, mask), next, w.sets)
  PROVE  /\ Stored(v, C, V) /\ v.next = next /\ v.masks = w.masks /\ v.sets = w.sets
         /\ Entities(v) = Entities(w) \cup {id} /\ v.entities[id] = mask
         /\ \A e \in Entities(w) \ {id} : v.entities[e] = w.entities[e]
<1> DEFINE entities == With(w.entities, id, mask)
           ids == Entities(w) \cup {id}
<1>1. /\ Entities(w) \subseteq Nat /\ w.entities \in [Entities(w) -> Masks]
      /\ w.sets \in [C -> AnySets(V)] /\ \A c \in C : Consistent(w.sets[c])
  BY WorldParts DEF Stored, Worlds
<1>2. entities \in [ids -> Masks] /\ ids \in SUBSET Nat
  BY <1>1 DEF With
<1>3. /\ DOMAIN entities = ids /\ entities[id] = mask
      /\ \A e \in Entities(w) \ {id} : entities[e] = w.entities[e]
  BY <1>1 DEF With
<1> HIDE DEF entities, ids
<1>4. Remade(v, w, entities, next, w.sets)
  BY DEF entities
<1>5. /\ Stored(v, C, V)
      /\ v.entities = entities /\ v.next = next /\ v.sets = w.sets /\ v.masks = w.masks
  BY <1>1, <1>2, <1>4, WorldMade
<1> QED BY <1>3, <1>5 DEF Entities, ids

\* With another counter only.
LEMMA CounterSet ==
  ASSUME NEW C, NEW V, NEW w, Stored(w, C, V), NEW next \in Nat,
         NEW v, Remade(v, w, w.entities, next, w.sets)
  PROVE  /\ Stored(v, C, V) /\ v.next = next /\ v.masks = w.masks /\ v.sets = w.sets
         /\ v.entities = w.entities
<1>1. /\ Entities(w) \in SUBSET Nat /\ w.entities \in [Entities(w) -> Masks]
      /\ w.sets \in [C -> AnySets(V)] /\ \A c \in C : Consistent(w.sets[c])
  BY WorldParts DEF Stored, Worlds
<1> DEFINE entities == w.entities
           sets == w.sets
           ids == Entities(w)
<1>2. /\ ids \in SUBSET Nat /\ entities \in [ids -> Masks] /\ sets \in [C -> AnySets(V)]
      /\ \A c \in C : Consistent(sets[c])
      /\ Remade(v, w, entities, next, sets)
  BY <1>1
<1> HIDE DEF entities, sets, ids
<1>3. /\ Stored(v, C, V)
      /\ v.entities = entities /\ v.next = next /\ v.sets = sets /\ v.masks = w.masks
  BY <1>2, WorldMade
<1> QED BY <1>3 DEF entities, sets

\* What EXCEPT makes of a world.
LEMMA ExceptRemade ==
  ASSUME NEW C, NEW V, NEW w, Stored(w, C, V)
  PROVE  /\ \A e : Remade([w EXCEPT !.entities = e], w, e, w.next, w.sets)
         /\ \A n : Remade([w EXCEPT !.next = n], w, w.entities, n, w.sets)
         /\ \A s : Remade([w EXCEPT !.sets = s], w, w.entities, w.next, s)
         /\ \A e, n : Remade([w EXCEPT !.entities = e, !.next = n], w, e, n, w.sets)
         /\ \A s, e : Remade([w EXCEPT !.sets = s, !.entities = e], w, e, w.next, s)
<1>1. w \in [entities : UNION {[ids -> Masks] : ids \in SUBSET Nat}, next : Nat,
             sets : [C -> AnySets(V)], masks : [C -> Masks], index : Masks]
  BY DEF Stored, Worlds
<1> QED BY <1>1 DEF Remade

\* registerEntity, of at least one component and none that is unknown.
LEMMA RegisterSound ==
  ASSUME NEW C, NEW V, NEW w, Sound(w, C, V), NEW cs \in Seq(C), cs # << >>,
         NEW instances, \A k \in 1..Len(cs) : instances[cs[k]] \in V
  PROVE  /\ Sound(RegisterEntity(w, cs, instances), C, V)
         /\ Registered(RegisterEntity(w, cs, instances), w, C, instances, {cs[k] : k \in 1..Len(cs)})
<1> DEFINE id == w.next
           mask == ComponentMask(w, cs)
           D == {cs[k] : k \in 1..Len(cs)}
           inserted == [w EXCEPT !.entities = With(@, id, mask)]
           filled == AddComponents(inserted, id, cs, instances)
           v == [filled EXCEPT !.next = @ + 1]
           bits == BitsOf(w.masks, D)
<1>1. Stored(w, C, V) /\ BitsApart(w.masks, C) /\ \A e \in Entities(w) : e < id
  BY DEF Sound, Stored
<1>2. id \in Nat /\ Entities(w) \subseteq Nat
  BY <1>1, WorldParts
<1>3. D \in SUBSET C /\ cs[1] \in D
  OBVIOUS
<1>4. mask \in Masks /\ Bits(mask) = bits
  <2>1. {j \in 1..Len(cs) : cs[j] \in C} = 1..Len(cs)
    OBVIOUS
  <2>2. UNION {Bits(w.masks[cs[k]]) : k \in 1..Len(cs)} = bits
    BY DEF BitsOf
  <2>3. /\ ComponentMask(w, cs) \in Masks
        /\ Bits(ComponentMask(w, cs)) =
             UNION {Bits(w.masks[cs[k]]) : k \in {j \in 1..Len(cs) : cs[j] \in C}}
    BY <1>1, MaskOfComponents
  <2> QED BY <2>1, <2>2, <2>3
<1>5. ~None(mask)
  <2>1. Bits(w.masks[cs[1]]) # {}
    BY <1>1, <1>3 DEF BitsApart
  <2>4. PICK x : x \in Bits(w.masks[cs[1]])
    BY <2>1
  <2>5. x \in bits
    BY <1>3, <2>4, BitsOfMore
  <2>2. bits # {}
    BY <2>5
  <2> HIDE DEF mask, bits
  <2> QED BY <1>4, <2>2, NoneBits
<1>6. RegisterEntity(w, cs, instances) = v
  BY <1>5 DEF RegisterEntity
<1> HIDE DEF mask, D, bits
<1>7. /\ Stored(inserted, C, V) /\ inserted.next = id /\ inserted.masks = w.masks
      /\ inserted.sets = w.sets
      /\ Entities(inserted) = Entities(w) \cup {id} /\ inserted.entities[id] = mask
      /\ \A e \in Entities(w) \ {id} : inserted.entities[e] = w.entities[e]
  <2>1. Remade(inserted, w, With(w.entities, id, mask), id, w.sets)
    BY <1>1, ExceptRemade
  <2> HIDE DEF inserted
  <2> QED BY <1>1, <1>2, <1>4, <2>1, MaskGiven
<1> HIDE DEF inserted
<1>8. Stored(filled, C, V) /\ Added(filled, inserted, C, id, instances, D)
  <2>1. Stored(inserted, C, V) /\ id \in Entities(inserted)
    BY <1>7
  <2> HIDE DEF id
  <2>2. /\ Stored(filled, C, V)
        /\ Added(filled, inserted, C, id, instances, {cs[k] : k \in 1..Len(cs)})
    BY <2>1, ComponentsAdded
  <2> HIDE DEF filled
  <2> QED BY <2>2 DEF D
<1> HIDE DEF filled
<1>9. /\ Stored(v, C, V) /\ v.next = filled.next + 1 /\ v.masks = filled.masks
      /\ v.sets = filled.sets /\ v.entities = filled.entities
  <2>1. Remade(v, filled, filled.entities, filled.next + 1, filled.sets)
    BY <1>8, ExceptRemade
  <2>2. filled.next + 1 \in Nat
    BY <1>2, <1>7, <1>8 DEF Added
  <2> HIDE DEF v
  <2> QED BY <1>8, <2>1, <2>2, CounterSet
<1> HIDE DEF v
<1>10. BitsOf(inserted.masks, D) = bits
  BY <1>7 DEF bits
<1>11. Registered(v, w, C, instances, D)
  <2>1. v.next = id + 1 /\ v.masks = w.masks /\ Entities(v) = Entities(w) \cup {id}
    BY <1>7, <1>8, <1>9 DEF Added, Entities
  <2>2. \A e \in Entities(w) : v.entities[e] = w.entities[e]
    BY <1>1, <1>2, <1>7, <1>8, <1>9 DEF Added
  <2>3. Bits(v.entities[id]) = bits
    BY <1>4, <1>7, <1>8, <1>9, <1>10 DEF Added
  <2>4. \A c \in C : Map(v.sets[c]) = IF c \in D THEN With(Map(w.sets[c]), id, instances[c])
                                      ELSE Map(w.sets[c])
    BY <1>7, <1>8, <1>9 DEF Added
  <2> QED BY <2>1, <2>2, <2>3, <2>4 DEF Registered, bits
<1>12. Sound(v, C, V)
  BY <1>3, <1>9, <1>11, SoundRegistered
<1> QED BY <1>6, <1>11, <1>12 DEF D

\* preRegisterEntity: an entity without components.
LEMMA PreRegisterSound ==
  ASSUME NEW C, NEW V, NEW w, Sound(w, C, V)
  PROVE  /\ Sound(PreRegisterEntity(w), C, V) /\ PreRegisterEntity(w).next = w.next + 1
         /\ Entities(PreRegisterEntity(w)) = Entities(w) \cup {w.next}
<1> DEFINE v == PreRegisterEntity(w)
<1>1. Stored(w, C, V) /\ w.next \in Nat /\ \A e \in Entities(w) : e < w.next
  BY WorldParts DEF Sound
<1>2. w.next \notin Entities(w)
  BY <1>1
<1>3. Remade(v, w, With(w.entities, w.next, << >>), w.next + 1, w.sets)
  BY <1>1, ExceptRemade DEF PreRegisterEntity
<1> HIDE DEF v
<1>4. /\ Stored(v, C, V) /\ v.next = w.next + 1 /\ v.masks = w.masks /\ v.sets = w.sets
      /\ Entities(v) = Entities(w) \cup {w.next} /\ v.entities[w.next] = << >>
      /\ \A e \in Entities(w) \ {w.next} : v.entities[e] = w.entities[e]
  BY <1>1, <1>3, EmptyMask, MaskGiven
<1>5. Registered(v, w, C, << >>, {})
  <2>1. BitsOf(w.masks, {}) = {}
    BY BitsOfMore
  <2> QED BY <1>2, <1>4, <2>1, EmptyMask DEF Registered
<1>6. Sound(v, C, V)
  BY <1>4, <1>5, SoundRegistered
<1> QED BY <1>4, <1>6 DEF v

\* destroyEntity: every set forgets the entity.
LEMMA DestroySound ==
  ASSUME NEW C, NEW V, NEW w, Sound(w, C, V), NEW id
  PROVE  /\ Sound(DestroyEntity(w, id), C, V) /\ DestroyEntity(w, id).next = w.next
         /\ Entities(DestroyEntity(w, id)) = Entities(w) \ {id}
         /\ \A c \in C : Map(DestroyEntity(w, id).sets[c]) = Without(Map(w.sets[c]), id)
<1> DEFINE v == DestroyEntity(w, id)
           entities == Without(w.entities, id)
           sets == [c \in C |-> Removed(w.sets[c], id)]
           ids == Entities(w) \ {id}
<1>1. /\ Components(w) = C /\ Entities(w) \subseteq Nat /\ w.next \in Nat
      /\ w.entities \in [Entities(w) -> Masks] /\ w.masks \in [C -> Masks]
      /\ \A c \in C : /\ w.sets[c] \in SparseSets(DOMAIN w.sets[c].sparse, V)
                      /\ Consistent(w.sets[c]) /\ DOMAIN w.sets[c].sparse \subseteq Nat
  BY WorldParts DEF Sound
<1>2. Remade(v, w, entities, w.next, sets)
  <2>1. v = [w EXCEPT !.sets = sets, !.entities = entities]
    BY <1>1 DEF DestroyEntity
  <2>2. \A s, e : Remade([w EXCEPT !.sets = s, !.entities = e], w, e, w.next, s)
    BY ExceptRemade DEF Sound
  <2> QED BY <2>1, <2>2
<1>3. ASSUME NEW c \in C
      PROVE  /\ sets[c] \in SparseSets(DOMAIN w.sets[c].sparse \ {id}, V)
             /\ Consistent(sets[c]) /\ Map(sets[c]) = Without(Map(w.sets[c]), id)
             /\ DOMAIN w.sets[c].sparse \ {id} \subseteq Nat
  BY <1>1, RemoveDeletes
<1>4. sets \in [C -> AnySets(V)]
  <2>1. \A c \in C : Removed(w.sets[c], id) \in AnySets(V)
    BY <1>3 DEF AnySets
  <2> QED BY <2>1
<1>5. ids \in SUBSET Nat /\ entities \in [ids -> Masks]
      /\ DOMAIN entities = ids /\ \A e \in ids : entities[e] = w.entities[e]
  BY <1>1 DEF Without, Entities
<1> HIDE DEF v, entities, sets, ids
<1>6. /\ Stored(v, C, V)
      /\ v.entities = entities /\ v.next = w.next /\ v.sets = sets /\ v.masks = w.masks
  <2> DEFINE next == w.next
  <2>1. /\ Stored(w, C, V) /\ next \in Nat /\ \A c \in C : Consistent(sets[c])
        /\ Remade(v, w, entities, next, sets)
    BY <1>1, <1>2, <1>3 DEF Sound
  <2> HIDE DEF next
  <2>2. /\ Stored(v, C, V)
        /\ v.entities = entities /\ v.next = next /\ v.sets = sets /\ v.masks = w.masks
    BY <1>4, <1>5, <2>1, WorldMade
  <2> QED BY <2>2 DEF next
<1>7. Entities(v) = Entities(w) \ {id}
  BY <1>5, <1>6 DEF Entities, ids
<1>8. ASSUME NEW c \in C PROVE DOMAIN v.sets[c].sparse = Marked(v, c)
  <2>1. DOMAIN w.sets[c].sparse = Marked(w, c)
    BY DEF Sound
  <2>2. DOMAIN v.sets[c].sparse = Marked(w, c) \ {id}
    BY <1>3, <1>6, <2>1 DEF SparseSets
  <2>3. Marked(v, c) = Marked(w, c) \ {id}
    BY <1>5, <1>6, <1>7 DEF Marked, ids
  <2> QED BY <2>2, <2>3
<1>9. Sound(v, C, V)
  <2>1. \A e \in Entities(v) : e < v.next
    BY <1>6, <1>7 DEF Sound
  <2> QED BY <1>6, <1>8, <2>1 DEF Sound
<1>10. \A c \in C : Map(v.sets[c]) = Without(Map(w.sets[c]), id)
  BY <1>3, <1>6
<1> QED BY <1>6, <1>7, <1>9, <1>10 DEF v

\* v is w with another value of one entity's component.
Rewritten(v, w, C, c, id, value) ==
  /\ v.next = w.next /\ v.entities = w.entities
  /\ \A d \in C : Map(v.sets[d]) = IF d = c THEN With(Map(w.sets[d]), id, value) ELSE Map(w.sets[d])

\* A write to a component that the entity has.
LEMMA WriteSound ==
  ASSUME NEW C, NEW V, NEW w, Sound(w, C, V), NEW c \in C, NEW id \in Marked(w, c), NEW value \in V
  PROVE  /\ Sound(SetComponent(w, id, c, value), C, V)
         /\ Rewritten(SetComponent(w, id, c, value), w, C, c, id, value)
<1> DEFINE v == SetComponent(w, id, c, value)
           new == Written(w.sets[c], w.sets[c].sparse[id], value)
           sets == [w.sets EXCEPT ![c] = new]
<1>1. /\ Components(w) = C /\ Entities(w) \in SUBSET Nat /\ w.next \in Nat
      /\ w.entities \in [Entities(w) -> Masks] /\ w.masks \in [C -> Masks]
      /\ \A d \in C : /\ w.sets[d] \in SparseSets(DOMAIN w.sets[d].sparse, V)
                      /\ Consistent(w.sets[d]) /\ DOMAIN w.sets[d].sparse \subseteq Nat
  BY WorldParts DEF Sound
<1>2. Stored(w, C, V) /\ w.sets \in [C -> AnySets(V)] /\ DOMAIN w.sets[c].sparse = Marked(w, c)
  BY DEF Sound, Stored, Worlds
<1>3. new = Placed(w.sets[c], id, value)
  BY <1>2 DEF Placed, Has
<1>4. /\ new \in SparseSets(DOMAIN w.sets[c].sparse \cup {id}, V)
      /\ Consistent(new) /\ Map(new) = With(Map(w.sets[c]), id, value)
  <2>1. w.sets[c] \in SparseSets(DOMAIN w.sets[c].sparse, V) /\ Consistent(w.sets[c])
    BY <1>1
  <2> HIDE DEF new
  <2> QED BY <1>3, <2>1, PutUpdates
<1>5. DOMAIN w.sets[c].sparse \cup {id} = DOMAIN w.sets[c].sparse
  BY <1>2
<1>6. Remade(v, w, w.entities, w.next, sets)
  <2>1. v = [w EXCEPT !.sets = sets]
    BY DEF SetComponent
  <2>2. \A s : Remade([w EXCEPT !.sets = s], w, w.entities, w.next, s)
    BY <1>2, ExceptRemade
  <2> QED BY <2>1, <2>2
<1> HIDE DEF v, new
<1>7. new \in AnySets(V) /\ DOMAIN new.sparse = DOMAIN w.sets[c].sparse
  BY <1>1, <1>4, <1>5 DEF AnySets, SparseSets
<1>8. /\ sets \in [C -> AnySets(V)]
      /\ sets[c] = new /\ \A d \in C \ {c} : sets[d] = w.sets[d]
  BY <1>2, <1>7
<1> HIDE DEF sets
<1>9. \A d \in C : Consistent(sets[d]) /\ DOMAIN sets[d].sparse = DOMAIN w.sets[d].sparse
  BY <1>1, <1>4, <1>7, <1>8
<1>10. /\ Stored(v, C, V)
       /\ v.entities = w.entities /\ v.next = w.next /\ v.sets = sets /\ v.masks = w.masks
  BY <1>2, <1>8, <1>9, <1>6, SetsChanged
<1>11. Sound(v, C, V)
  <2>1. \A d \in C : Marked(v, d) = Marked(w, d)
    BY <1>10 DEF Marked, Entities
  <2>2. \A d \in C : DOMAIN v.sets[d].sparse = Marked(v, d)
    BY <1>9, <1>10, <2>1 DEF Sound
  <2>3. \A e \in Entities(v) : e < v.next
    BY <1>10 DEF Sound, Entities
  <2> QED BY <1>10, <2>2, <2>3 DEF Sound
<1>12. Rewritten(v, w, C, c, id, value)
  BY <1>4, <1>8, <1>10 DEF Rewritten
<1> QED BY <1>11, <1>12 DEF v

\* Forgetting what was popped changes no map.
LEMMA SettledSound ==
  ASSUME NEW C, NEW V, NEW w, Sound(w, C, V)
  PROVE  /\ Sound(Settled(w), C, V)
         /\ Settled(w).next = w.next /\ Settled(w).entities = w.entities
         /\ \A c \in C : Map(Settled(w).sets[c]) = Map(w.sets[c])
<1> DEFINE v == Settled(w)
           sets == [c \in C |-> [w.sets[c] EXCEPT !.tail = << >>]]
<1>1. /\ DOMAIN w.sets = C /\ Entities(w) \in SUBSET Nat /\ w.next \in Nat
      /\ w.entities \in [Entities(w) -> Masks] /\ w.masks \in [C -> Masks]
      /\ \A d \in C : /\ w.sets[d] \in SparseSets(DOMAIN w.sets[d].sparse, V)
                      /\ Consistent(w.sets[d]) /\ DOMAIN w.sets[d].sparse \subseteq Nat
  BY WorldParts DEF Sound
<1>2. Stored(w, C, V)
  BY DEF Sound
<1>3. ASSUME NEW c \in C
      PROVE  /\ sets[c] \in SparseSets(DOMAIN w.sets[c].sparse, V) /\ Consistent(sets[c])
             /\ sets[c].sparse = w.sets[c].sparse /\ Map(sets[c]) = Map(w.sets[c])
  <2> DEFINE old == w.sets[c]
             new == [old EXCEPT !.tail = << >>]
             ids == DOMAIN old.sparse
  <2>1. old \in SparseSets(ids, V) /\ Consistent(old)
    BY <1>1
  <2> HIDE DEF old, ids
  <2>5. old \in [dense : Seq(V), entities : Seq(ids), sparse : [ids -> Nat], tail : Seq(V)]
    BY <2>1 DEF SparseSets
  <2>6. << >> \in Seq(V)
    OBVIOUS
  <2>7. /\ new.dense = old.dense /\ new.entities = old.entities /\ new.sparse = old.sparse
        /\ new \in [dense : Seq(V), entities : Seq(ids), sparse : [ids -> Nat], tail : Seq(V)]
    BY <2>5, <2>6
  <2>2. /\ new \in SparseSets(ids, V) /\ new.dense = old.dense /\ new.entities = old.entities
        /\ new.sparse = old.sparse
    BY <2>7 DEF SparseSets
  <2> HIDE DEF new
  <2>3. Consistent(new) /\ Map(new) = Map(old)
    BY <2>1, <2>2 DEF Consistent, Map, Get
  <2>4. sets[c] = new
    BY DEF new, old
  <2> HIDE DEF sets
  <2> QED BY <2>2, <2>3, <2>4 DEF old, ids
<1>4. Remade(v, w, w.entities, w.next, sets)
  <2>1. v = [w EXCEPT !.sets = sets]
    BY <1>1 DEF Settled
  <2>2. \A s : Remade([w EXCEPT !.sets = s], w, w.entities, w.next, s)
    BY <1>2, ExceptRemade
  <2> QED BY <2>1, <2>2
<1>5. sets \in [C -> AnySets(V)]
  <2>1. \A c \in C : sets[c] \in AnySets(V)
    <3> HIDE DEF sets
    <3> QED BY <1>1, <1>3 DEF AnySets
  <2> QED BY <2>1
<1> HIDE DEF v, sets
<1>6. /\ Stored(v, C, V)
      /\ v.entities = w.entities /\ v.next = w.next /\ v.sets = sets /\ v.masks = w.masks
  BY <1>2, <1>3, <1>5, <1>4, SetsChanged
<1>7. Sound(v, C, V)
  <2>1. \A d \in C : Marked(v, d) = Marked(w, d)
    BY <1>6 DEF Marked, Entities
  <2>2. \A d \in C : DOMAIN v.sets[d].sparse = Marked(v, d)
    BY <1>3, <1>6, <2>1 DEF Sound
  <2>3. \A e \in Entities(v) : e < v.next
    BY <1>6 DEF Sound, Entities
  <2> QED BY <1>6, <2>2, <2>3 DEF Sound
<1> QED BY <1>3, <1>6, <1>7 DEF v

------------------------------------------------------------------------------
(* The worlds that the engines begin with.                                 *)

\* A world without entities, whose mask index is not before any component's bit.
Registrable(w, C, V) ==
  /\ Stored(w, C, V) /\ Entities(w) = {}
  /\ \A c \in C : DOMAIN w.sets[c].sparse = {}
  /\ \E x : /\ IsBit(w.index, x)
            /\ \A c \in C : \A y \in Bits(w.masks[c]) : y = x \/ After(x, y)

\* Such a world is sound.
LEMMA RegistrableSound ==
  ASSUME NEW C, NEW V, NEW w, Registrable(w, C, V)
  PROVE  Sound(w, C, V) /\ Entities(w) = {}
<1>1. \A c \in C : Marked(w, c) = {}
  BY DEF Registrable, Marked
<1> QED BY <1>1 DEF Registrable, Sound

\* No bit comes after itself, and what comes after a later one comes after the earlier one.
LEMMA AfterOrder ==
  ASSUME NEW x \in (Nat \ {0}) \X Positions, NEW y \in (Nat \ {0}) \X Positions,
         NEW z \in (Nat \ {0}) \X Positions
  PROVE  ~After(x, x) /\ (After(x, y) /\ After(y, z) => After(x, z))
<1>1. /\ x[1] \in Nat /\ x[2] \in Int /\ y[1] \in Nat /\ y[2] \in Int
      /\ z[1] \in Nat /\ z[2] \in Int
  BY BlockBitsAssumption DEF Positions
<1> QED BY <1>1 DEF After

\* ECS::ECS
LEMMA NewWorldRegistrable ==
  ASSUME NEW V
  PROVE  Registrable(NewWorld, {}, V)
<1> DEFINE index == <<{BlockBits - 1}>>
           none == << >>
<1>1. BlockBits - 1 \in Positions
  BY BlockBitsAssumption DEF Positions
<1>2. index \in Masks /\ Len(index) = 1 /\ index[1] = {BlockBits - 1}
  BY <1>1 DEF Masks
<1>3. Bits(index) = {<<1, BlockBits - 1>>}
  <2> HIDE DEF index
  <2>1. \A x \in Bits(index) : x = <<1, BlockBits - 1>>
    BY <1>2 DEF Bits
  <2>2. <<1, BlockBits - 1>> \in Bits(index)
    BY <1>1, <1>2 DEF Bits
  <2> QED BY <2>1, <2>2
<1>4. IsBit(index, <<1, BlockBits - 1>>)
  <2> DEFINE x == <<1, BlockBits - 1>>
  <2>1. x \in (Nat \ {0}) \X Positions /\ x[1] = 1
    BY <1>1
  <2> HIDE DEF x, index
  <2>2. IsBit(index, x)
    BY <1>2, <1>3, <2>1 DEF IsBit, x
  <2> QED BY <2>2 DEF x
<1>5. DOMAIN none = {}
  OBVIOUS
<1>6. /\ none \in UNION {[ids -> Masks] : ids \in SUBSET Nat}
      /\ none \in [{} -> AnySets(V)] /\ none \in [{} -> Masks]
  <2>1. \A S : none \in [{} -> S]
    OBVIOUS
  <2>2. {} \in SUBSET Nat
    OBVIOUS
  <2> HIDE DEF none
  <2> QED BY <2>1, <2>2
<1> HIDE DEF index, none
<1>7. /\ NewWorld = [entities |-> none, next |-> 0, sets |-> none, masks |-> none, index |-> index]
      /\ NewWorld.index = index /\ NewWorld.entities = none
  BY DEF NewWorld, none, index
<1>8. NewWorld \in Worlds({}, V)
  BY <1>2, <1>6, <1>7 DEF Worlds
<1>9. Stored(NewWorld, {}, V)
  BY <1>8 DEF Stored, BitsApart
<1>10. Entities(NewWorld) = {}
  BY <1>5, <1>7 DEF Entities
<1> QED BY <1>4, <1>7, <1>9, <1>10 DEF Registrable

\* registerComponent
LEMMA RegisterOne ==
  ASSUME NEW C, NEW V, NEW w, Registrable(w, C, V), NEW c
  PROVE  Registrable(RegisterComponent(w, c), C \cup {c}, V)
<1> DEFINE index == RightShift(IF None(RightShift(w.index)) THEN Increased(w.index) ELSE w.index)
           v == RegisterComponent(w, c)
<1>1. /\ Stored(w, C, V) /\ Entities(w) = {} /\ w \in Worlds(C, V)
      /\ \A d \in C : DOMAIN w.sets[d].sparse = {}
  BY DEF Registrable, Stored
<1>2. PICK x : /\ IsBit(w.index, x)
               /\ \A d \in C : \A y \in Bits(w.masks[d]) : y = x \/ After(x, y)
  BY DEF Registrable
<1>3. PICK z : After(z, x) /\ IsBit(index, z)
  BY <1>2, NextBit
<1> HIDE DEF index
<1>4. /\ index \in Masks /\ Bits(index) = {z}
      /\ z \in (Nat \ {0}) \X Positions /\ x \in (Nat \ {0}) \X Positions
  BY <1>2, <1>3 DEF IsBit
<1>5. ASSUME NEW d \in C, NEW y \in Bits(w.masks[d]) PROVE After(z, y) /\ y # z
  <2>1. w.masks[d] \in Masks
    BY <1>1, WorldParts
  <2>2. y \in (Nat \ {0}) \X Positions
    BY <2>1, MaskBlocks DEF Bits
  <2>3. After(z, y)
    BY <1>2, <1>3, <1>4, <1>5, <2>2, AfterOrder
  <2> QED BY <1>4, <2>3, AfterOrder
<1>6. w \in [entities : UNION {[ids -> Masks] : ids \in SUBSET Nat}, next : Nat,
             sets : [C -> AnySets(V)], masks : [C -> Masks], index : Masks]
  BY <1>1 DEF Worlds
<1>7. CASE c \in C
  <2>1. v = [w EXCEPT !.index = index]
    BY <1>1, <1>7, WorldParts DEF RegisterComponent, index
  <2>2. /\ v \in Worlds(C, V) /\ v.masks = w.masks /\ v.sets = w.sets /\ v.index = index
        /\ v.entities = w.entities
    BY <1>4, <1>6, <2>1 DEF Worlds
  <2> HIDE DEF v
  <2>3. Stored(v, C, V) /\ Entities(v) = {}
    BY <1>1, <2>2 DEF Stored, Entities
  <2>4. Registrable(v, C, V)
    BY <1>1, <1>3, <1>5, <2>2, <2>3 DEF Registrable
  <2>5. C \cup {c} = C
    BY <1>7
  <2> QED BY <2>4, <2>5 DEF v
<1>8. CASE c \notin C
  <2> DEFINE D == C \cup {c}
             masks == With(w.masks, c, index)
             sets == With(w.sets, c, EmptySet)
  <2>1. v = [w EXCEPT !.index = index, !.masks = masks, !.sets = sets]
    BY <1>1, <1>8, WorldParts DEF RegisterComponent, index
  <2>2. masks \in [D -> Masks] /\ masks[c] = index /\ \A d \in C : masks[d] = w.masks[d]
    BY <1>4, <1>6, <1>8 DEF With
  <2>3. EmptySet \in AnySets(V) /\ Consistent(EmptySet) /\ DOMAIN EmptySet.sparse = {}
    <3>1. EmptySet \in SparseSets({}, V) /\ Consistent(EmptySet)
      BY EmptySetIsEmpty
    <3>2. {} \in SUBSET Nat
      OBVIOUS
    <3> QED BY <3>1, <3>2 DEF AnySets, SparseSets
  <2>4. sets \in [D -> AnySets(V)] /\ sets[c] = EmptySet /\ \A d \in C : sets[d] = w.sets[d]
    BY <1>6, <1>8, <2>3 DEF With
  <2> HIDE DEF D, masks, sets
  <2>5. /\ v \in Worlds(D, V) /\ v.masks = masks /\ v.sets = sets /\ v.index = index
        /\ v.entities = w.entities
    BY <1>4, <1>6, <2>1, <2>2, <2>4 DEF Worlds
  <2> HIDE DEF v
  <2>6. BitsApart(masks, D)
    <3>1. BitsApart(w.masks, C)
      BY <1>1 DEF Stored
    <3>2. \A d \in D : \E y : Bits(masks[d]) = {y}
      BY <1>4, <2>2, <3>1 DEF BitsApart, D
    <3>3. ASSUME NEW d \in C PROVE Bits(masks[d]) # Bits(masks[c])
      <4>1. PICK y : Bits(w.masks[d]) = {y}
        BY <3>1 DEF BitsApart
      <4>2. y # z
        BY <1>5, <4>1
      <4> QED BY <1>4, <2>2, <4>1, <4>2
    <3>4. \A d \in D : \A e \in D \ {d} : Bits(masks[d]) # Bits(masks[e])
      BY <2>2, <3>1, <3>3 DEF BitsApart, D
    <3> QED BY <3>2, <3>4 DEF BitsApart
  <2>7. \A d \in D : Consistent(sets[d]) /\ DOMAIN sets[d].sparse = {}
    BY <1>1, <2>3, <2>4 DEF Stored, D
  <2>8. Stored(v, D, V) /\ Entities(v) = {}
    BY <1>1, <2>5, <2>6, <2>7 DEF Stored, Entities
  <2>9. \A d \in D : \A y \in Bits(masks[d]) : y = z \/ After(z, y)
    BY <1>4, <1>5, <2>2 DEF D
  <2>10. Registrable(v, D, V)
    BY <1>3, <2>5, <2>7, <2>8, <2>9 DEF Registrable
  <2> QED BY <2>10 DEF v, D
<1> QED BY <1>7, <1>8

\* registerComponents
LEMMA RegisterAll ==
  ASSUME NEW C, NEW V, NEW w, Registrable(w, C, V), NEW S, NEW cs \in Seq(S)
  PROVE  Registrable(RegisterComponents(w, cs), C \cup {cs[k] : k \in 1..Len(cs)}, V)
<1>2. Len(cs) \in Nat
  OBVIOUS
<1> DEFINE known(i) == C \cup {cs[k] : k \in 1..i}
<1> DEFINE turns == Len(cs)
           first == w
           States == UNION {Worlds(D, V) : D \in SUBSET known(Len(cs))}
           Step(x, i) == RegisterComponent(x, cs[i])
           sets == [i \in 0..turns |-> {v \in UNION {Worlds(D, V) : D \in SUBSET known(Len(cs))} : Registrable(v, known(i), V)}]
           step == [i \in 1..turns |-> [x \in sets[i - 1] |-> Step(x, i)]]
           Turn(x, i) == Given(x, LAMBDA y : Step(y, i))
           Eq(f) == f = [i \in 0..turns |-> IF i = 0 THEN first ELSE Turn(f[i - 1], i)]
<1>60. turns \in Nat
  BY <1>2
<1>61. ASSUME NEW i \in 1..turns, NEW x \in sets[i - 1] PROVE Step(x, i) \in sets[i]
  <2>1. i - 1 \in 0..turns /\ i \in 0..turns
    BY <1>2
  <2>2. Registrable(x, known(i - 1), V)
    BY <2>1
  <2>4. known(i) = known(i - 1) \cup {cs[i]}
    <3>1. 1..i = (1..(i - 1)) \cup {i}
      BY <1>2
    <3> QED BY <3>1
  <2>6. known(i) \in SUBSET known(Len(cs))
    BY <2>1
  <2> HIDE DEF known
  <2>5. Registrable(Step(x, i), known(i), V)
    BY <2>2, <2>4, RegisterOne
  <2> HIDE DEF Step
  <2>7. Step(x, i) \in Worlds(known(i), V)
    BY <2>5 DEF Registrable, Stored
  <2> QED BY <2>1, <2>5, <2>6, <2>7
<1>62. first \in sets[0] /\ sets \in [0..turns -> SUBSET States]
  <2>1. 0 \in 0..turns /\ known(0) = C /\ C \in SUBSET known(Len(cs))
    BY <1>2
  <2> HIDE DEF known
  <2>2. first \in sets[0]
    BY <2>1 DEF Registrable, Stored
  <2>4. sets \in [0..turns -> SUBSET States]
    OBVIOUS
  <2> QED BY <2>2, <2>4
<1> HIDE DEF turns, first, States
<1>63. IsLoop(turns, States, sets, step, first)
  <2>1. \A i \in 1..turns : \A x \in sets[i - 1] : step[i][x] \in sets[i]
    BY <1>61
  <2> HIDE DEF step, sets
  <2> QED BY <1>60, <1>62, <2>1 DEF IsLoop
<1>64. \A i \in 1..turns : \A x \in sets[i - 1] : Turn(x, i) = step[i][x]
  <2> SUFFICES ASSUME NEW i \in 1..turns, NEW x \in sets[i - 1]
               PROVE  Turn(x, i) = step[i][x]
    OBVIOUS
  <2>1. step[i][x] = Step(x, i)
    OBVIOUS
  <2> HIDE DEF step, sets, Step
  <2> QED BY <2>1 DEF Given
<1> HIDE DEF step, sets, Step, Turn
<1>65. PICK f : Eq(f)
  <2>1. PICK f : IsRunOf(f, turns, sets, step, first)
    BY <1>63, LoopRuns
  <2>2. \A i \in 1..turns : step[i][f[i - 1]] = Turn(f[i - 1], i)
    BY <1>60, <1>64, <2>1 DEF IsRunOf
  <2>3. Eq(f)
    <3>1. f = [i \in 0..turns |-> IF i = 0 THEN first ELSE step[i][f[i - 1]]]
      BY <2>1 DEF IsRunOf
    <3>2. \A i \in 0..turns : i # 0 => i \in 1..turns
      BY <1>60
    <3> QED BY <2>2, <3>1, <3>2
  <2> QED BY <2>3
<1>66. Eq(CHOOSE h : Eq(h))
  BY <1>65, Zenon
<1>67. ASSUME NEW g, Eq(g) PROVE g[turns] \in sets[turns]
  <2>1. g[0] = first /\ \A i \in 1..turns : g[i] = Turn(g[i - 1], i)
    BY <1>60, <1>67
  <2>2. \A i \in 1..turns : g[i - 1] \in sets[i - 1] => g[i] = step[i][g[i - 1]]
    BY <1>64, <2>1
  <2> QED BY <1>63, <2>1, <2>2, LoopEnds
<1>68. RegisterComponents(w, cs) \in sets[turns]
  <2>1. RegisterComponents(w, cs) = (CHOOSE h : Eq(h))[turns]
    BY DEF InTurn, turns, first, Step, Turn, RegisterComponents
  <2> HIDE DEF Eq
  <2> QED BY <1>66, <1>67, <2>1
<1> QED BY <1>60, <1>68 DEF sets, turns

\* What the lobby's engine registers, and what the client's does.
AllOf(cs) == {cs[k] : k \in 1..Len(cs)}
OfLobby == AllOf(EngineComponents)
OfClient == OfLobby \cup AllOf(ClientComponents)

\* The components of the engine.
LEMMA EngineParts ==
  /\ EngineComponents \in Seq(OfLobby) /\ ClientComponents \in Seq(OfClient)
  /\ {"MoveSet", "Owner", "State", "Type"} \subseteq OfLobby
<1>1. /\ Len(GameComponents) = 4
      /\ GameComponents[1] = "MoveSet" /\ GameComponents[2] = "Owner"
      /\ GameComponents[3] = "State" /\ GameComponents[4] = "Type"
  BY DEF GameComponents
<1>2. GameComponents \in Seq({"MoveSet", "Owner", "State", "Type"})
  BY DEF GameComponents
<1> DEFINE last == <<"Behaviour">>
<1>3. Len(last) = 1 /\ last[1] = "Behaviour" /\ last \in Seq({"Behaviour"})
  OBVIOUS
<1>4. EngineComponents = GameComponents \o last
  BY DEF EngineComponents
<1> HIDE DEF last
<1> DEFINE S == {"MoveSet", "Owner", "State", "Type", "Behaviour"}
<1>20. GameComponents \in Seq(S) /\ last \in Seq(S)
  <2>1. \A k \in 1..4 : GameComponents[k] \in S
    BY <1>1
  <2>2. last[1] \in S
    BY <1>3
  <2> HIDE DEF S
  <2> QED BY <1>1, <1>2, <1>3, <2>1, <2>2
<1> HIDE DEF S
<1>21. /\ EngineComponents \in Seq(S) /\ Len(EngineComponents) = 5
       /\ \A k \in 1..5 : EngineComponents[k] = IF k <= 4 THEN GameComponents[k] ELSE last[k - 4]
  <2>1. LET s == GameComponents \o last
        IN  /\ s \in Seq(S) /\ Len(s) = Len(GameComponents) + Len(last)
            /\ \A k \in 1..Len(GameComponents) + Len(last) :
                 s[k] = IF k <= Len(GameComponents) THEN GameComponents[k]
                        ELSE last[k - Len(GameComponents)]
    BY <1>20, ConcatProperties, Zenon
  <2>2. Len(GameComponents) + Len(last) = 5
    BY <1>1, <1>3
  <2> QED BY <1>1, <1>4, <2>1, <2>2
<1>5. /\ \A k \in 1..4 : EngineComponents[k] = GameComponents[k]
      /\ EngineComponents[5] = "Behaviour"
  BY <1>3, <1>21
<1>6. DOMAIN EngineComponents = 1..5 /\ EngineComponents = [k \in 1..5 |-> EngineComponents[k]]
  BY <1>21
<1>7. \A k \in 1..5 : EngineComponents[k] \in OfLobby
  BY <1>21 DEF OfLobby, AllOf
<1>8. EngineComponents \in Seq(OfLobby)
  <2>1. [k \in 1..5 |-> EngineComponents[k]] \in [1..5 -> OfLobby]
    BY <1>7
  <2> QED BY <1>6, <2>1
<1>9. {"MoveSet", "Owner", "State", "Type"} \subseteq OfLobby
  BY <1>1, <1>5, <1>7
<1>10. ClientComponents \in Seq(OfClient)
  <2>1. /\ Len(ClientComponents) = 2 /\ ClientComponents[1] = "Me"
        /\ ClientComponents[2] = "Sprite"
    BY DEF ClientComponents
  <2>2. "Me" \in OfClient /\ "Sprite" \in OfClient
    BY <2>1 DEF OfClient, AllOf
  <2> QED BY <2>2 DEF ClientComponents
<1> QED BY <1>8, <1>9, <1>10

\* Both sides begin with a sound world that has no entity.
LEMMA EnginesSound ==
  ASSUME NEW V
  PROVE  /\ Sound(NewEngine, OfLobby, V) /\ Entities(NewEngine) = {}
         /\ Sound(NewClient.world, OfClient, V)
<1>1. Registrable(NewWorld, {}, V)
  BY NewWorldRegistrable
<1>2. Registrable(NewEngine, {} \cup AllOf(EngineComponents), V)
  BY <1>1, EngineParts, RegisterAll DEF NewEngine, AllOf
<1>3. Registrable(NewEngine, OfLobby, V)
  <2>1. {} \cup AllOf(EngineComponents) = OfLobby
    BY DEF OfLobby
  <2> QED BY <1>2, <2>1
<1>4. Registrable(RegisterComponents(NewEngine, ClientComponents),
                  OfLobby \cup AllOf(ClientComponents), V)
  BY <1>3, EngineParts, RegisterAll DEF AllOf
<1>5. Registrable(NewClient.world, OfClient, V)
  BY <1>4 DEF NewClient, OfClient
<1> QED BY <1>3, <1>5, RegistrableSound

------------------------------------------------------------------------------
(* The world of a lobby, in which all have a State and a Type.             *)

Types(w) == Map(w.sets["Type"])
Peopled(w) ==
  /\ Sound(w, OfLobby, Nat)
  /\ DOMAIN Map(w.sets["State"]) = Entities(w) /\ DOMAIN Types(w) = Entities(w)

\* A component of an entity is what its map says.
LEMMA ComponentIsMapped ==
  ASSUME NEW w, NEW c, NEW id \in DOMAIN Map(w.sets[c])
  PROVE  Component(w, id, c) = Map(w.sets[c])[id]
BY DEF Component, Map

\* Who has a component, in a sound world.
LEMMA HasMapped ==
  ASSUME NEW C, NEW V, NEW w, Sound(w, C, V), NEW c \in C, NEW id
  PROVE  HasComponent(w, id, c) <=> id \in DOMAIN Map(w.sets[c])
<1>1. Components(w) = C
  BY WorldParts DEF Sound
<1> QED BY <1>1, MapDomain DEF HasComponent, Has

\* v is w with other states.
Restated(v, w) ==
  /\ Peopled(v) /\ v.next = w.next /\ v.entities = w.entities /\ Types(v) = Types(w)

\* A write to the State of an entity.
LEMMA StateWritten ==
  ASSUME NEW w, Peopled(w), NEW id \in Entities(w), NEW state \in Nat
  PROVE  Restated(WithState(w, id, state), w)
<1> DEFINE v == WithState(w, id, state)
           c == "State"
<1>1. Sound(w, OfLobby, Nat) /\ c \in OfLobby /\ "Type" \in OfLobby /\ c # "Type"
  BY EngineParts DEF Peopled
<1>2. id \in Marked(w, c)
  BY <1>1, MapDomain DEF Peopled, Sound
<1>3. v = SetComponent(w, id, c, state)
  BY DEF WithState
<1> HIDE DEF v, c
<1>4. Sound(v, OfLobby, Nat) /\ Rewritten(v, w, OfLobby, c, id, state)
  BY <1>1, <1>2, <1>3, WriteSound
<1>5. /\ v.next = w.next /\ v.entities = w.entities
      /\ Map(v.sets[c]) = With(Map(w.sets[c]), id, state) /\ Types(v) = Types(w)
  BY <1>1, <1>4 DEF Rewritten, Types
<1>6. DOMAIN Map(v.sets[c]) = DOMAIN Map(w.sets[c])
  BY <1>5 DEF With, Peopled, c
<1>7. Entities(v) = Entities(w)
  BY <1>5 DEF Entities
<1>8. Restated(v, w)
  BY <1>4, <1>5, <1>6, <1>7 DEF Restated, Peopled, c
<1> QED BY <1>8 DEF v

\* AllInState changes states only.
LEMMA AllRestated ==
  ASSUME NEW w, Peopled(w), NEW ids \in Seq(Entities(w)), NEW state \in Nat
  PROVE  Restated(AllInState(w, ids, state), w)
<1>2. Len(ids) \in Nat
  OBVIOUS
<1> DEFINE turns == Len(ids)
           first == w
           States == Worlds(OfLobby, Nat)
           Step(x, i) == WithState(x, ids[i], state)
           sets == [i \in 0..turns |-> {v \in Worlds(OfLobby, Nat) : Restated(v, w)}]
           step == [i \in 1..turns |-> [x \in sets[i - 1] |-> Step(x, i)]]
           Turn(x, i) == Given(x, LAMBDA y : Step(y, i))
           Eq(f) == f = [i \in 0..turns |-> IF i = 0 THEN first ELSE Turn(f[i - 1], i)]
<1>60. turns \in Nat
  BY <1>2
<1>61. ASSUME NEW i \in 1..turns, NEW x \in sets[i - 1] PROVE Step(x, i) \in sets[i]
  <2>1. i - 1 \in 0..turns /\ i \in 0..turns /\ ids[i] \in Entities(w)
    BY <1>2
  <2>2. Restated(x, w)
    BY <2>1
  <2>3. ids[i] \in Entities(x) /\ Peopled(x)
    BY <2>1, <2>2 DEF Restated, Entities
  <2>4. Restated(Step(x, i), x)
    BY <2>3, StateWritten
  <2> HIDE DEF Step
  <2>5. Restated(Step(x, i), w)
    BY <2>2, <2>4 DEF Restated
  <2> QED BY <2>1, <2>5 DEF Restated, Peopled, Sound, Stored
<1>62. first \in sets[0] /\ sets \in [0..turns -> SUBSET States]
  <2>1. Restated(w, w) /\ w \in States
    BY DEF Restated, Peopled, Sound, Stored
  <2>2. sets \in [0..turns -> SUBSET States]
    OBVIOUS
  <2> QED BY <1>2, <2>1, <2>2
<1> HIDE DEF turns, first, States
<1>63. IsLoop(turns, States, sets, step, first)
  <2>1. \A i \in 1..turns : \A x \in sets[i - 1] : step[i][x] \in sets[i]
    BY <1>61
  <2> HIDE DEF step, sets
  <2> QED BY <1>60, <1>62, <2>1 DEF IsLoop
<1>64. \A i \in 1..turns : \A x \in sets[i - 1] : Turn(x, i) = step[i][x]
  <2> SUFFICES ASSUME NEW i \in 1..turns, NEW x \in sets[i - 1]
               PROVE  Turn(x, i) = step[i][x]
    OBVIOUS
  <2>1. step[i][x] = Step(x, i)
    OBVIOUS
  <2> HIDE DEF step, sets, Step
  <2> QED BY <2>1 DEF Given
<1> HIDE DEF step, sets, Step, Turn
<1>65. PICK f : Eq(f)
  <2>1. PICK f : IsRunOf(f, turns, sets, step, first)
    BY <1>63, LoopRuns
  <2>2. \A i \in 1..turns : step[i][f[i - 1]] = Turn(f[i - 1], i)
    BY <1>60, <1>64, <2>1 DEF IsRunOf
  <2>3. Eq(f)
    <3>1. f = [i \in 0..turns |-> IF i = 0 THEN first ELSE step[i][f[i - 1]]]
      BY <2>1 DEF IsRunOf
    <3>2. \A i \in 0..turns : i # 0 => i \in 1..turns
      BY <1>60
    <3> QED BY <2>2, <3>1, <3>2
  <2> QED BY <2>3
<1>66. Eq(CHOOSE h : Eq(h))
  BY <1>65, Zenon
<1>67. ASSUME NEW g, Eq(g) PROVE g[turns] \in sets[turns]
  <2>1. g[0] = first /\ \A i \in 1..turns : g[i] = Turn(g[i - 1], i)
    BY <1>60, <1>67
  <2>2. \A i \in 1..turns : g[i - 1] \in sets[i - 1] => g[i] = step[i][g[i - 1]]
    BY <1>64, <2>1
  <2> QED BY <1>63, <2>1, <2>2, LoopEnds
<1>68. AllInState(w, ids, state) \in sets[turns]
  <2>1. AllInState(w, ids, state) = (CHOOSE h : Eq(h))[turns]
    BY DEF InTurn, turns, first, Step, Turn, AllInState
  <2> HIDE DEF Eq
  <2> QED BY <1>66, <1>67, <2>1
<1> QED BY <1>60, <1>68 DEF sets, turns

\* v is w without some entities.
Culled(v, w, gone) ==
  /\ Peopled(v) /\ v.next = w.next /\ Entities(v) = Entities(w) \ gone
  /\ \A id \in Entities(v) : Types(v)[id] = Types(w)[id]

\* destroyEntity in a lobby.
LEMMA OneCulled ==
  ASSUME NEW w, Peopled(w), NEW id
  PROVE  Culled(DestroyEntity(w, id), w, {id})
<1> DEFINE v == DestroyEntity(w, id)
<1>1. Sound(w, OfLobby, Nat) /\ "State" \in OfLobby /\ "Type" \in OfLobby
  BY EngineParts DEF Peopled
<1>2. /\ Sound(v, OfLobby, Nat) /\ v.next = w.next /\ Entities(v) = Entities(w) \ {id}
      /\ \A c \in OfLobby : Map(v.sets[c]) = Without(Map(w.sets[c]), id)
  BY <1>1, DestroySound
<1> HIDE DEF v
<1>3. \A c \in OfLobby : /\ DOMAIN Map(v.sets[c]) = DOMAIN Map(w.sets[c]) \ {id}
                         /\ \A e \in DOMAIN Map(v.sets[c]) : Map(v.sets[c])[e] = Map(w.sets[c])[e]
  <2>1. \A f : /\ DOMAIN Without(f, id) = DOMAIN f \ {id}
               /\ \A e \in DOMAIN Without(f, id) : Without(f, id)[e] = f[e]
    BY DEF Without
  <2> QED BY <1>2, <2>1
<1>4. Culled(v, w, {id})
  BY <1>1, <1>2, <1>3 DEF Culled, Peopled, Types
<1> QED BY <1>4 DEF v

\* removeAllOf and clearEcs destroy what they say.
LEMMA AllCulled ==
  ASSUME NEW w, Peopled(w), NEW S, NEW ids \in Seq(S)
  PROVE  Culled(AllDestroyed(w, ids), w, {ids[k] : k \in 1..Len(ids)})
<1>2. Len(ids) \in Nat
  OBVIOUS
<1> DEFINE gone(i) == {ids[k] : k \in 1..i}
<1> DEFINE turns == Len(ids)
           first == w
           States == Worlds(OfLobby, Nat)
           Step(x, i) == DestroyEntity(x, ids[i])
           sets == [i \in 0..turns |-> {v \in Worlds(OfLobby, Nat) : Culled(v, w, gone(i))}]
           step == [i \in 1..turns |-> [x \in sets[i - 1] |-> Step(x, i)]]
           Turn(x, i) == Given(x, LAMBDA y : Step(y, i))
           Eq(f) == f = [i \in 0..turns |-> IF i = 0 THEN first ELSE Turn(f[i - 1], i)]
<1>60. turns \in Nat
  BY <1>2
<1>61. ASSUME NEW i \in 1..turns, NEW x \in sets[i - 1] PROVE Step(x, i) \in sets[i]
  <2>1. i - 1 \in 0..turns /\ i \in 0..turns
    BY <1>2
  <2>2. Culled(x, w, gone(i - 1))
    BY <2>1
  <2>3. gone(i) = gone(i - 1) \cup {ids[i]}
    <3>1. 1..i = (1..(i - 1)) \cup {i}
      BY <1>2
    <3> QED BY <3>1
  <2> HIDE DEF gone
  <2>4. Culled(Step(x, i), x, {ids[i]})
    BY <2>2, OneCulled DEF Culled
  <2> HIDE DEF Step
  <2>5. Culled(Step(x, i), w, gone(i))
    BY <2>2, <2>3, <2>4 DEF Culled
  <2> QED BY <2>1, <2>5 DEF Culled, Peopled, Sound, Stored
<1>62. first \in sets[0] /\ sets \in [0..turns -> SUBSET States]
  <2>1. 0 \in 0..turns /\ gone(0) = {}
    BY <1>2
  <2> HIDE DEF gone
  <2>2. Culled(w, w, {}) /\ w \in States
    BY DEF Culled, Peopled, Sound, Stored
  <2>3. sets \in [0..turns -> SUBSET States]
    OBVIOUS
  <2> QED BY <2>1, <2>2, <2>3
<1> HIDE DEF turns, first, States
<1>63. IsLoop(turns, States, sets, step, first)
  <2>1. \A i \in 1..turns : \A x \in sets[i - 1] : step[i][x] \in sets[i]
    BY <1>61
  <2> HIDE DEF step, sets
  <2> QED BY <1>60, <1>62, <2>1 DEF IsLoop
<1>64. \A i \in 1..turns : \A x \in sets[i - 1] : Turn(x, i) = step[i][x]
  <2> SUFFICES ASSUME NEW i \in 1..turns, NEW x \in sets[i - 1]
               PROVE  Turn(x, i) = step[i][x]
    OBVIOUS
  <2>1. step[i][x] = Step(x, i)
    OBVIOUS
  <2> HIDE DEF step, sets, Step
  <2> QED BY <2>1 DEF Given
<1> HIDE DEF step, sets, Step, Turn
<1>65. PICK f : Eq(f)
  <2>1. PICK f : IsRunOf(f, turns, sets, step, first)
    BY <1>63, LoopRuns
  <2>2. \A i \in 1..turns : step[i][f[i - 1]] = Turn(f[i - 1], i)
    BY <1>60, <1>64, <2>1 DEF IsRunOf
  <2>3. Eq(f)
    <3>1. f = [i \in 0..turns |-> IF i = 0 THEN first ELSE step[i][f[i - 1]]]
      BY <2>1 DEF IsRunOf
    <3>2. \A i \in 0..turns : i # 0 => i \in 1..turns
      BY <1>60
    <3> QED BY <2>2, <3>1, <3>2
  <2> QED BY <2>3
<1>66. Eq(CHOOSE h : Eq(h))
  BY <1>65, Zenon
<1>67. ASSUME NEW g, Eq(g) PROVE g[turns] \in sets[turns]
  <2>1. g[0] = first /\ \A i \in 1..turns : g[i] = Turn(g[i - 1], i)
    BY <1>60, <1>67
  <2>2. \A i \in 1..turns : g[i - 1] \in sets[i - 1] => g[i] = step[i][g[i - 1]]
    BY <1>64, <2>1
  <2> QED BY <1>63, <2>1, <2>2, LoopEnds
<1>68. AllDestroyed(w, ids) \in sets[turns]
  <2>1. AllDestroyed(w, ids) = (CHOOSE h : Eq(h))[turns]
    BY DEF InTurn, turns, first, Step, Turn, AllDestroyed
  <2> HIDE DEF Eq
  <2> QED BY <1>66, <1>67, <2>1
<1> QED BY <1>60, <1>68 DEF sets, turns

\* v is w with more entities.
Grown(v, w) ==
  /\ Peopled(v) /\ w.next <= v.next /\ Entities(w) \subseteq Entities(v)
  /\ \A id \in Entities(w) : Types(v)[id] = Types(w)[id]

\* registerEntity in a lobby, of an entity with a Type and a State.
LEMMA OneGrown ==
  ASSUME NEW w, Peopled(w), NEW cs \in Seq(OfLobby), NEW instances,
         \A k \in 1..Len(cs) : instances[cs[k]] \in Nat,
         {"Type", "State"} \subseteq {cs[k] : k \in 1..Len(cs)}
  PROVE  LET v == RegisterEntity(w, cs, instances)
         IN  /\ Grown(v, w) /\ v.next = w.next + 1 /\ Entities(v) = Entities(w) \cup {w.next}
             /\ Types(v)[w.next] = instances["Type"]
<1> DEFINE v == RegisterEntity(w, cs, instances)
           D == {cs[k] : k \in 1..Len(cs)}
<1>1. Sound(w, OfLobby, Nat) /\ "State" \in OfLobby /\ "Type" \in OfLobby /\ cs # << >>
  BY EngineParts DEF Peopled
<1>2. Sound(v, OfLobby, Nat) /\ Registered(v, w, OfLobby, instances, D)
  BY <1>1, RegisterSound
<1>3. "Type" \in D /\ "State" \in D
  OBVIOUS
<1>4. w.next \in Nat /\ w.next \notin Entities(w)
  <2>1. w.next \in Nat
    BY <1>1, WorldParts DEF Sound
  <2> QED BY <1>1, <2>1 DEF Sound
<1> HIDE DEF v, D
<1>5. /\ v.next = w.next + 1 /\ Entities(v) = Entities(w) \cup {w.next}
      /\ Types(v) = With(Types(w), w.next, instances["Type"])
      /\ Map(v.sets["State"]) = With(Map(w.sets["State"]), w.next, instances["State"])
  BY <1>1, <1>2, <1>3 DEF Registered, Types
<1>6. /\ DOMAIN Types(v) = Entities(v) /\ DOMAIN Map(v.sets["State"]) = Entities(v)
      /\ Types(v)[w.next] = instances["Type"]
      /\ \A id \in Entities(w) : Types(v)[id] = Types(w)[id]
  BY <1>4, <1>5 DEF Peopled, With
<1>7. Grown(v, w)
  BY <1>2, <1>4, <1>5, <1>6 DEF Grown, Peopled
<1> QED BY <1>5, <1>6, <1>7 DEF v

\* The enemies that a tick spawns.
LEMMA EnemiesGrown ==
  ASSUME NEW w, Peopled(w), NEW n \in Nat
  PROVE  Grown(WithEnemies(w, n), w)
<1>1. w.next \in Nat
  BY WorldParts DEF Peopled, Sound
<1> DEFINE cs == <<"Type", "State", "MoveSet">>
<1>2. /\ cs \in Seq(OfLobby) /\ Len(cs) = 3 /\ cs[1] = "Type" /\ cs[2] = "State" /\ cs[3] = "MoveSet"
  BY EngineParts
<1>3. \A k \in 1..Len(cs) : NewEnemy[cs[k]] \in Nat
  <2>1. NewEnemy["Type"] \in Nat /\ NewEnemy["State"] \in Nat /\ NewEnemy["MoveSet"] \in Nat
    BY DEF NewEnemy, Pattern, EntityAlive, kEnemy
  <2> HIDE DEF cs
  <2> QED BY <1>2, <2>1
<1>4. {"Type", "State"} \subseteq {cs[k] : k \in 1..Len(cs)}
  BY <1>2
<1> DEFINE turns == n
           first == w
           States == Worlds(OfLobby, Nat)
           Step(x, i) == RegisterEntity(x, <<"Type", "State", "MoveSet">>, NewEnemy)
           sets == [i \in 0..turns |-> {v \in Worlds(OfLobby, Nat) : Grown(v, w)}]
           step == [i \in 1..turns |-> [x \in sets[i - 1] |-> Step(x, i)]]
           Turn(x, i) == Given(x, LAMBDA y : Step(y, i))
           Eq(f) == f = [i \in 0..turns |-> IF i = 0 THEN first ELSE Turn(f[i - 1], i)]
<1>60. turns \in Nat
  OBVIOUS
<1>61. ASSUME NEW i \in 1..turns, NEW x \in sets[i - 1] PROVE Step(x, i) \in sets[i]
  <2>1. i - 1 \in 0..turns /\ i \in 0..turns
    OBVIOUS
  <2>2. Grown(x, w)
    BY <2>1
  <2>3. Step(x, i) = RegisterEntity(x, cs, NewEnemy)
    OBVIOUS
  <2> HIDE DEF cs, Step
  <2>4. Grown(Step(x, i), x)
    BY <1>2, <1>3, <1>4, <2>2, <2>3, OneGrown DEF Grown
  <2>6. x.next \in Nat /\ Step(x, i).next \in Nat
    BY <2>2, <2>4, WorldParts DEF Grown, Peopled, Sound
  <2>5. Grown(Step(x, i), w)
    BY <1>1, <2>2, <2>4, <2>6 DEF Grown
  <2> QED BY <2>1, <2>5 DEF Grown, Peopled, Sound, Stored
<1>62. first \in sets[0] /\ sets \in [0..turns -> SUBSET States]
  <2>1. Grown(w, w) /\ w \in States
    BY <1>1 DEF Grown, Peopled, Sound, Stored
  <2>2. sets \in [0..turns -> SUBSET States]
    OBVIOUS
  <2> QED BY <2>1, <2>2
<1> HIDE DEF turns, first, States
<1>63. IsLoop(turns, States, sets, step, first)
  <2>1. \A i \in 1..turns : \A x \in sets[i - 1] : step[i][x] \in sets[i]
    BY <1>61
  <2> HIDE DEF step, sets
  <2> QED BY <1>60, <1>62, <2>1 DEF IsLoop
<1>64. \A i \in 1..turns : \A x \in sets[i - 1] : Turn(x, i) = step[i][x]
  <2> SUFFICES ASSUME NEW i \in 1..turns, NEW x \in sets[i - 1]
               PROVE  Turn(x, i) = step[i][x]
    OBVIOUS
  <2>1. step[i][x] = Step(x, i)
    OBVIOUS
  <2> HIDE DEF step, sets, Step
  <2> QED BY <2>1 DEF Given
<1> HIDE DEF step, sets, Step, Turn
<1>65. PICK f : Eq(f)
  <2>1. PICK f : IsRunOf(f, turns, sets, step, first)
    BY <1>63, LoopRuns
  <2>2. \A i \in 1..turns : step[i][f[i - 1]] = Turn(f[i - 1], i)
    BY <1>60, <1>64, <2>1 DEF IsRunOf
  <2>3. Eq(f)
    <3>1. f = [i \in 0..turns |-> IF i = 0 THEN first ELSE step[i][f[i - 1]]]
      BY <2>1 DEF IsRunOf
    <3>2. \A i \in 0..turns : i # 0 => i \in 1..turns
      BY <1>60
    <3> QED BY <2>2, <3>1, <3>2
  <2> QED BY <2>3
<1>66. Eq(CHOOSE h : Eq(h))
  BY <1>65, Zenon
<1>67. ASSUME NEW g, Eq(g) PROVE g[turns] \in sets[turns]
  <2>1. g[0] = first /\ \A i \in 1..turns : g[i] = Turn(g[i - 1], i)
    BY <1>60, <1>67
  <2>2. \A i \in 1..turns : g[i - 1] \in sets[i - 1] => g[i] = step[i][g[i - 1]]
    BY <1>64, <2>1
  <2> QED BY <1>63, <2>1, <2>2, LoopEnds
<1>68. WithEnemies(w, n) \in sets[turns]
  <2>1. WithEnemies(w, n) = (CHOOSE h : Eq(h))[turns]
    BY DEF InTurn, turns, first, Step, Turn, WithEnemies
  <2> HIDE DEF Eq
  <2> QED BY <1>66, <1>67, <2>1
<1> QED BY <1>60, <1>68 DEF sets, turns

------------------------------------------------------------------------------
(* What a tick does with the entities that meet.                           *)

\* A finite set as a sequence.
LEMMA SetIsListed ==
  ASSUME NEW S, IsFiniteSet(S)
  PROVE  /\ SetToSeq(S) \in Seq(S)
         /\ {SetToSeq(S)[k] : k \in 1..Len(SetToSeq(S))} = S
<1> DEFINE n == Cardinality(S)
<1>1. n \in Nat /\ ExistsBijection(1..n, S)
  BY FS_CardinalityType
<1>2. PICK g : g \in Bijection(1..n, S)
  BY <1>1 DEF ExistsBijection
<1>3. g \in [1..n -> S] /\ IsInjective(g)
  BY <1>2 DEF Bijection, Injection
<1>4. SetToSeq(S) \in [1..n -> S] /\ IsInjective(SetToSeq(S))
  BY <1>3 DEF SetToSeq
<1> DEFINE f == SetToSeq(S)
<1>5. f \in Injection(1..n, S)
  BY <1>4 DEF Injection
<1> HIDE DEF f
<1>6. Cardinality(1..n) = n
  BY <1>1, FS_Interval
<1> HIDE DEF n
<1>7. f \in Surjection(1..n, S)
  BY <1>5, <1>6, FS_Injection DEF n
<1>8. f \in [1..n -> S] /\ \A x \in S : \E k \in 1..n : f[k] = x
  BY <1>7 DEF Surjection
<1>9. f \in Seq(S) /\ Len(f) = n
  BY <1>1, <1>8 DEF n
<1> QED BY <1>8, <1>9 DEF f

\* A sound world has finitely many entities.
LEMMA EntitiesFinite ==
  ASSUME NEW C, NEW V, NEW w, Sound(w, C, V)
  PROVE  IsFiniteSet(Entities(w)) /\ \A S \in SUBSET Entities(w) : IsFiniteSet(S)
<1>1. Entities(w) \subseteq Nat /\ w.next \in Nat /\ \A id \in Entities(w) : id <= w.next
  BY WorldParts DEF Sound
<1>2. IsFiniteSet(Entities(w))
  BY <1>1, FS_BoundedSetOfNaturals
<1> QED BY <1>2, FS_Subset

\* Those of a type are entities, and removeAllOf finds them.
LEMMA ShotListed ==
  ASSUME NEW w, Peopled(w)
  PROVE  /\ \A type : OfType(w, type) = {id \in Entities(w) : Types(w)[id] = type}
         /\ Shot(w) \in Seq(Entities(w))
         /\ {Shot(w)[k] : k \in 1..Len(Shot(w))} = OfType(w, kEnemy) \cup OfType(w, kBullet)
<1>1. Sound(w, OfLobby, Nat) /\ "Type" \in OfLobby /\ DOMAIN Types(w) = Entities(w)
  BY EngineParts DEF Peopled
<1>2. ASSUME NEW type PROVE OfType(w, type) = {id \in Entities(w) : Types(w)[id] = type}
  <2>1. \A id \in Entities(w) : HasComponent(w, id, "Type")
    BY <1>1, HasMapped DEF Types
  <2>2. \A id \in Entities(w) : Component(w, id, "Type") = Types(w)[id]
    BY <1>1, ComponentIsMapped DEF Types
  <2> QED BY <2>1, <2>2 DEF OfType, IsType
<1> DEFINE E == OfType(w, kEnemy)
           B == OfType(w, kBullet)
<1>3. E \in SUBSET Entities(w) /\ B \in SUBSET Entities(w)
  BY <1>2
<1>4. IsFiniteSet(E) /\ IsFiniteSet(B)
  BY <1>1, <1>3, EntitiesFinite
<1> HIDE DEF E, B
<1> DEFINE s == SetToSeq(E)
           t == SetToSeq(B)
           S == Entities(w)
<1>5. /\ s \in Seq(E) /\ {s[k] : k \in 1..Len(s)} = E
      /\ t \in Seq(B) /\ {t[k] : k \in 1..Len(t)} = B
  BY <1>4, SetIsListed
<1>6. Shot(w) = s \o t
  BY DEF Shot, E, B
<1> HIDE DEF s, t, S
<1>7. s \in Seq(S) /\ t \in Seq(S)
  BY <1>3, <1>5 DEF S
<1>8. /\ s \o t \in Seq(S) /\ Len(s \o t) = Len(s) + Len(t)
      /\ \A k \in 1..Len(s) + Len(t) : (s \o t)[k] = IF k <= Len(s) THEN s[k] ELSE t[k - Len(s)]
  BY <1>7, ConcatProperties
<1>9. {(s \o t)[k] : k \in 1..Len(s \o t)} = E \cup B
  <2>1. ASSUME NEW x \in E PROVE \E k \in 1..Len(s \o t) : (s \o t)[k] = x
    BY <1>5, <1>7, <1>8, <2>1
  <2>2. ASSUME NEW x \in B PROVE \E k \in 1..Len(s \o t) : (s \o t)[k] = x
    <3>1. PICK j \in 1..Len(t) : t[j] = x
      BY <1>5
    <3>2. Len(s) + j \in 1..Len(s) + Len(t) /\ (s \o t)[Len(s) + j] = t[j]
      BY <1>7, <1>8, <3>1
    <3> QED BY <1>8, <3>1, <3>2
  <2>3. ASSUME NEW k \in 1..Len(s \o t) PROVE (s \o t)[k] \in E \cup B
    <3>1. CASE k <= Len(s)
      BY <1>5, <1>7, <1>8, <3>1
    <3>2. CASE k > Len(s)
      <4>1. k - Len(s) \in 1..Len(t)
        BY <1>7, <1>8, <3>2
      <4> QED BY <1>5, <1>7, <1>8, <3>2, <4>1
    <3> QED BY <1>7, <1>8, <3>1, <3>2
  <2> QED BY <2>1, <2>2, <2>3
<1> QED BY <1>2, <1>6, <1>8, <1>9 DEF S, E, B

\* Those who meet are entities.
LEMMA CollisionsAmong ==
  ASSUME NEW w, Peopled(w)
  PROVE  Collisions(w) \subseteq SUBSET Entities(w)
<1> DEFINE movers == Shot(w)
           S == Entities(w)
<1>1. movers \in Seq(S)
  BY ShotListed
<1>2. ASSUME NEW id \in S PROVE Meets(w, id) \subseteq SUBSET S
  <2>1. OfType(w, kEnemy) \subseteq S /\ OfType(w, kPlayer) \subseteq S
    BY DEF OfType
  <2> HIDE DEF S
  <2> QED BY <2>1 DEF Meets
<1>3. Len(movers) \in Nat /\ \A i \in 1..Len(movers) : movers[i] \in S
  BY <1>1
<1> HIDE DEF S, movers
<1> DEFINE turns == Len(movers)
           first == {{}}
           States == SUBSET SUBSET S
           Step(x, i) == Moved(w, x, movers[i])
           sets == [i \in 0..turns |-> SUBSET SUBSET S]
           step == [i \in 1..turns |-> [x \in sets[i - 1] |-> Step(x, i)]]
           Turn(x, i) == Given(x, LAMBDA y : Step(y, i))
           Eq(f) == f = [i \in 0..turns |-> IF i = 0 THEN first ELSE Turn(f[i - 1], i)]
<1>60. turns \in Nat
  BY <1>3
<1>61. ASSUME NEW i \in 1..turns, NEW x \in sets[i - 1] PROVE Step(x, i) \in sets[i]
  <2>1. i - 1 \in 0..turns /\ i \in 0..turns /\ movers[i] \in S
    BY <1>3
  <2>2. x \in SUBSET SUBSET S
    BY <2>1
  <2>3. Meets(w, movers[i]) \subseteq SUBSET S
    BY <1>2, <2>1
  <2>4. Step(x, i) \in SUBSET SUBSET S
    BY <2>2, <2>3
  <2> QED BY <2>1, <2>4
<1>62. first \in sets[0] /\ sets \in [0..turns -> SUBSET States]
  BY <1>3
<1> HIDE DEF turns, first, States
<1>63. IsLoop(turns, States, sets, step, first)
  <2>1. \A i \in 1..turns : \A x \in sets[i - 1] : step[i][x] \in sets[i]
    BY <1>61
  <2> HIDE DEF step, sets
  <2> QED BY <1>60, <1>62, <2>1 DEF IsLoop
<1>64. \A i \in 1..turns : \A x \in sets[i - 1] : Turn(x, i) = step[i][x]
  <2> SUFFICES ASSUME NEW i \in 1..turns, NEW x \in sets[i - 1]
               PROVE  Turn(x, i) = step[i][x]
    OBVIOUS
  <2>1. step[i][x] = Step(x, i)
    OBVIOUS
  <2> HIDE DEF step, sets, Step
  <2> QED BY <2>1 DEF Given
<1> HIDE DEF step, sets, Step, Turn
<1>65. PICK f : Eq(f)
  <2>1. PICK f : IsRunOf(f, turns, sets, step, first)
    BY <1>63, LoopRuns
  <2>2. \A i \in 1..turns : step[i][f[i - 1]] = Turn(f[i - 1], i)
    BY <1>60, <1>64, <2>1 DEF IsRunOf
  <2>3. Eq(f)
    <3>1. f = [i \in 0..turns |-> IF i = 0 THEN first ELSE step[i][f[i - 1]]]
      BY <2>1 DEF IsRunOf
    <3>2. \A i \in 0..turns : i # 0 => i \in 1..turns
      BY <1>60
    <3> QED BY <2>2, <3>1, <3>2
  <2> QED BY <2>3
<1>66. Eq(CHOOSE h : Eq(h))
  BY <1>65, Zenon
<1>67. ASSUME NEW g, Eq(g) PROVE g[turns] \in sets[turns]
  <2>1. g[0] = first /\ \A i \in 1..turns : g[i] = Turn(g[i - 1], i)
    BY <1>60, <1>67
  <2>2. \A i \in 1..turns : g[i - 1] \in sets[i - 1] => g[i] = step[i][g[i - 1]]
    BY <1>64, <2>1
  <2> QED BY <1>63, <2>1, <2>2, LoopEnds
<1>68. Collisions(w) \in sets[turns]
  <2>1. Collisions(w) = (CHOOSE h : Eq(h))[turns]
    BY DEF InTurn, turns, first, Step, Turn, Collisions, movers
  <2> HIDE DEF Eq
  <2> QED BY <1>66, <1>67, <2>1
<1> QED BY <1>60, <1>68 DEF sets, S

\* Both of two that meet are dead, and nothing else changes.
LEMMA CollidedRestated ==
  ASSUME NEW w, Peopled(w), NEW dead \in Collisions(w)
  PROVE  Restated(Collided(w, dead), w)
<1>1. dead \in SUBSET Entities(w)
  BY CollisionsAmong
<1>2. IsFiniteSet(dead)
  BY <1>1, EntitiesFinite DEF Peopled
<1>3. SetToSeq(dead) \in Seq(dead)
  BY <1>2, SetIsListed
<1> DEFINE ids == SetToSeq(dead)
<1> HIDE DEF ids
<1>4. ids \in Seq(Entities(w))
  BY <1>1, <1>3 DEF ids
<1>5. EntityDead \in Nat
  BY DEF EntityDead
<1> QED BY <1>4, <1>5, AllRestated DEF Collided, ids

------------------------------------------------------------------------------
(* The sweep of the dead.                                                  *)

Views(E) == [keys : Seq(E), slots : UNION {[D -> Nat] : D \in SUBSET E}]

\* A group's view lists entities of the set.
LEMMA ViewListed ==
  ASSUME NEW E, NEW V, NEW set \in SparseSets(E, V), NEW ids \in Seq(E)
  PROVE  ViewOf(set, ids) \in Views(E)
<1>1. Len(ids) \in Nat /\ \A i \in 1..Len(ids) : ids[i] \in E
  OBVIOUS
<1>2. ASSUME NEW view \in Views(E), NEW id \in E
      PROVE  AddEntity(set, view, id) \in Views(E)
  <2>1. PICK D \in SUBSET E : view.slots \in [D -> Nat]
    BY DEF Views
  <2>2. set.sparse \in [E -> Nat]
    BY DEF SparseSets
  <2>3. With(view.slots, id, set.sparse[id]) \in [D \cup {id} -> Nat]
    BY <2>1, <2>2 DEF With
  <2>4. Append(view.keys, id) \in Seq(E)
    BY DEF Views
  <2>5. Put(view, id, set.sparse[id]) \in Views(E)
    <3>1. D \cup {id} \in SUBSET E
      OBVIOUS
    <3> QED BY <2>1, <2>3, <2>4, <3>1 DEF Put, Views
  <2> QED BY <2>5 DEF AddEntity
<1>3. EmptyView \in Views(E)
  <2> DEFINE none == << >>
  <2>1. PICK D \in SUBSET E : D = {}
    OBVIOUS
  <2>2. none \in [D -> Nat] /\ none \in Seq(E)
    BY <2>1
  <2>3. EmptyView = [keys |-> none, slots |-> none]
    BY DEF EmptyView
  <2> HIDE DEF none
  <2> QED BY <2>2, <2>3 DEF Views
<1> DEFINE turns == Len(ids)
           first == EmptyView
           States == Views(E)
           Step(x, i) == AddEntity(set, x, ids[i])
           sets == [i \in 0..turns |-> Views(E)]
           step == [i \in 1..turns |-> [x \in sets[i - 1] |-> Step(x, i)]]
           Turn(x, i) == Given(x, LAMBDA y : Step(y, i))
           Eq(f) == f = [i \in 0..turns |-> IF i = 0 THEN first ELSE Turn(f[i - 1], i)]
<1>60. turns \in Nat
  BY <1>1
<1>61. ASSUME NEW i \in 1..turns, NEW x \in sets[i - 1] PROVE Step(x, i) \in sets[i]
  <2>1. i - 1 \in 0..turns /\ i \in 0..turns /\ ids[i] \in E
    BY <1>1
  <2>2. x \in Views(E)
    BY <2>1
  <2>3. Step(x, i) \in Views(E)
    BY <1>2, <2>1, <2>2
  <2> QED BY <2>1, <2>3
<1>62. first \in sets[0] /\ sets \in [0..turns -> SUBSET States]
  BY <1>1, <1>3
<1> HIDE DEF turns, first, States
<1>63. IsLoop(turns, States, sets, step, first)
  <2>1. \A i \in 1..turns : \A x \in sets[i - 1] : step[i][x] \in sets[i]
    BY <1>61
  <2> HIDE DEF step, sets
  <2> QED BY <1>60, <1>62, <2>1 DEF IsLoop
<1>64. \A i \in 1..turns : \A x \in sets[i - 1] : Turn(x, i) = step[i][x]
  <2> SUFFICES ASSUME NEW i \in 1..turns, NEW x \in sets[i - 1]
               PROVE  Turn(x, i) = step[i][x]
    OBVIOUS
  <2>1. step[i][x] = Step(x, i)
    OBVIOUS
  <2> HIDE DEF step, sets, Step
  <2> QED BY <2>1 DEF Given
<1> HIDE DEF step, sets, Step, Turn
<1>65. PICK f : Eq(f)
  <2>1. PICK f : IsRunOf(f, turns, sets, step, first)
    BY <1>63, LoopRuns
  <2>2. \A i \in 1..turns : step[i][f[i - 1]] = Turn(f[i - 1], i)
    BY <1>60, <1>64, <2>1 DEF IsRunOf
  <2>3. Eq(f)
    <3>1. f = [i \in 0..turns |-> IF i = 0 THEN first ELSE step[i][f[i - 1]]]
      BY <2>1 DEF IsRunOf
    <3>2. \A i \in 0..turns : i # 0 => i \in 1..turns
      BY <1>60
    <3> QED BY <2>2, <3>1, <3>2
  <2> QED BY <2>3
<1>66. Eq(CHOOSE h : Eq(h))
  BY <1>65, Zenon
<1>67. ASSUME NEW g, Eq(g) PROVE g[turns] \in sets[turns]
  <2>1. g[0] = first /\ \A i \in 1..turns : g[i] = Turn(g[i - 1], i)
    BY <1>60, <1>67
  <2>2. \A i \in 1..turns : g[i - 1] \in sets[i - 1] => g[i] = step[i][g[i - 1]]
    BY <1>64, <2>1
  <2> QED BY <1>63, <2>1, <2>2, LoopEnds
<1>68. ViewOf(set, ids) \in sets[turns]
  <2>1. ViewOf(set, ids) = (CHOOSE h : Eq(h))[turns]
    BY DEF InTurn, turns, first, Step, Turn, ViewOf
  <2> HIDE DEF Eq
  <2> QED BY <1>66, <1>67, <2>1
<1> QED BY <1>60, <1>68 DEF sets

\* The group of State and Type goes through entities of the world.
LEMMA GroupListed ==
  ASSUME NEW w, Peopled(w), NEW cs, cs = <<"State", "Type">>
  PROVE  GroupEntities(Group(w, cs), cs) \in Seq(Entities(w))
<1> DEFINE E == Entities(w)
<1>1. /\ Len(cs) = 2 /\ cs[1] = "State" /\ cs[2] = "Type" /\ DOMAIN cs = 1..2
      /\ ToSet(cs) = {"State", "Type"}
  BY DEF ToSet
<1>2. Sound(w, OfLobby, Nat) /\ "State" \in OfLobby /\ "Type" \in OfLobby
  BY EngineParts DEF Peopled
<1>3. w.sets["State"] \in SparseSets(E, Nat) /\ w.sets["Type"] \in SparseSets(E, Nat)
  <2>1. DOMAIN w.sets["State"].sparse = E /\ DOMAIN w.sets["Type"].sparse = E
    BY MapDomain DEF Peopled, Types
  <2> QED BY <1>2, <2>1, WorldParts DEF Sound
<1> DEFINE size(i) == Len(w.sets[cs[i]].dense)
<1>4. size(1) \in Nat /\ size(2) \in Nat
  BY <1>1, <1>3 DEF SparseSets
<1>5. Driver(w, cs) \in 1..2
  <2> DEFINE Least(i) == /\ \A j \in 1..2 : size(i) <= size(j)
                         /\ \A j \in 1..(i - 1) : size(i) < size(j)
  <2>1. Driver(w, cs) = CHOOSE i \in 1..2 : Least(i)
    BY <1>1 DEF Driver
  <2> HIDE DEF size
  <2>2. Least(1) \/ Least(2)
    <3>1. CASE size(1) <= size(2)
      BY <1>4, <3>1
    <3>2. CASE ~(size(1) <= size(2))
      BY <1>4, <3>2
    <3> QED BY <3>1, <3>2
  <2> HIDE DEF Least
  <2> QED BY <2>1, <2>2
<1> DEFINE driver == w.sets[cs[Driver(w, cs)]].entities
           picked == {i \in DOMAIN driver : \A c \in ToSet(cs) : Has(w.sets[c], driver[i])}
           ids == Kept(driver, picked)
<1>6. driver \in Seq(E)
  <2>1. cs[Driver(w, cs)] = "State" \/ cs[Driver(w, cs)] = "Type"
    BY <1>1, <1>5
  <2> QED BY <1>3, <2>1 DEF SparseSets
<1>7. Group(w, cs) = [c \in ToSet(cs) |-> ViewOf(w.sets[c], ids)]
  BY DEF Group
<1> HIDE DEF driver, picked, E
<1>8. ids \in Seq(E)
  BY <1>6, KeptInOrder
<1> HIDE DEF ids
<1>9. Group(w, cs)[cs[1]] = ViewOf(w.sets["State"], ids)
  BY <1>1, <1>7
<1>10. ViewOf(w.sets["State"], ids) \in Views(E)
  BY <1>3, <1>8, ViewListed
<1> QED BY <1>9, <1>10 DEF GroupEntities, Views, E

\* w after some of the sweep: a player that is gone was wronged.
SweptFrom(r, w) ==
  /\ Peopled(r.world) /\ r.world.next = w.next
  /\ Entities(r.world) \subseteq Entities(w)
  /\ \A id \in Entities(r.world) : Types(r.world)[id] = Types(w)[id]
  /\ r.wronged \/ OfType(w, kPlayer) \subseteq Entities(r.world)
Sweeps(E) ==
  [world : Worlds(OfLobby, Nat), killed : Seq([kind : {"DESTROY"}, id : E]), wronged : BOOLEAN]

\* One turn of the sweep.
LEMMA VisitedOne ==
  ASSUME NEW w, Peopled(w), NEW r \in Sweeps(Entities(w)), SweptFrom(r, w), NEW group,
         NEW id \in Entities(w)
  PROVE  /\ Visited(group, r, id) \in Sweeps(Entities(w))
         /\ SweptFrom(Visited(group, r, id), w)
<1> DEFINE gone == DestroyEntity(r.world, id)
           killed == Append(r.killed, Destroy(id))
           wronged == \/ r.wronged
                      \/ IsType(r.world, id, kPlayer) \/ StateOf(r.world, id) # EntityDead
           v == [world |-> gone, killed |-> killed, wronged |-> wronged]
<1>1. Visited(group, r, id) = r \/ Visited(group, r, id) = v
  BY DEF Visited
<1>2. /\ r.world \in Worlds(OfLobby, Nat) /\ r.wronged \in BOOLEAN
      /\ r.killed \in Seq([kind : {"DESTROY"}, id : Entities(w)])
  BY DEF Sweeps
<1>3. Culled(gone, r.world, {id})
  BY OneCulled DEF SweptFrom
<1>4. killed \in Seq([kind : {"DESTROY"}, id : Entities(w)])
  <2>1. Destroy(id) \in [kind : {"DESTROY"}, id : Entities(w)]
    BY DEF Destroy
  <2> QED BY <1>2, <2>1, AppendProperties
<1>5. wronged \in BOOLEAN /\ (r.wronged => wronged)
  BY <1>2 DEF IsType
<1>6. wronged \/ OfType(w, kPlayer) \subseteq Entities(r.world) \ {id}
  <2> SUFFICES ASSUME ~wronged PROVE OfType(w, kPlayer) \subseteq Entities(r.world) \ {id}
    OBVIOUS
  <2>1. OfType(w, kPlayer) \subseteq Entities(r.world)
    BY <1>5 DEF SweptFrom
  <2>2. id \notin OfType(w, kPlayer)
    <3> SUFFICES ASSUME id \in OfType(w, kPlayer) PROVE FALSE
      OBVIOUS
    <3>1. id \in Entities(r.world) /\ Types(w)[id] = kPlayer
      BY <2>1, ShotListed
    <3>2. Types(r.world)[id] = kPlayer /\ id \in DOMAIN Types(r.world)
      BY <3>1 DEF SweptFrom, Peopled
    <3>3. Component(r.world, id, "Type") = kPlayer
      BY <3>2, ComponentIsMapped DEF Types
    <3> QED BY <3>3 DEF IsType
  <2> QED BY <2>1, <2>2
<1>7. /\ v.world = gone /\ v.killed = killed /\ v.wronged = wronged
      /\ v \in [world : {gone}, killed : {killed}, wronged : {wronged}]
  OBVIOUS
<1> HIDE DEF gone, killed, wronged
<1>8. gone \in Worlds(OfLobby, Nat)
  BY <1>3 DEF Culled, Peopled, Sound, Stored
<1>9. v \in Sweeps(Entities(w))
  BY <1>4, <1>5, <1>8 DEF Sweeps
<1> HIDE DEF v
<1>10. SweptFrom(v, w)
  BY <1>3, <1>6, <1>7 DEF SweptFrom, Culled
<1> QED BY <1>1, <1>9, <1>10

\* BroadcastDeadEntities: the players are still there, unless one was wronged.
LEMMA SweptAll ==
  ASSUME NEW w, Peopled(w)
  PROVE  Swept(w) \in Sweeps(Entities(w)) /\ SweptFrom(Swept(w), w)
<1> DEFINE cs == <<"State", "Type">>
           group == Group(w, cs)
           ids == GroupEntities(group, cs)
           E == Entities(w)
<1>1. ids \in Seq(E)
  BY GroupListed
<1>2. Len(ids) \in Nat /\ \A i \in 1..Len(ids) : ids[i] \in E
  BY <1>1
<1> DEFINE start == [world |-> w, killed |-> << >>, wronged |-> FALSE]
<1>3. start \in Sweeps(E) /\ SweptFrom(start, w)
  <2>1. w \in Worlds(OfLobby, Nat)
    BY DEF Peopled, Sound, Stored
  <2>2. start \in Sweeps(E)
    BY <2>1 DEF Sweeps
  <2>3. OfType(w, kPlayer) \subseteq E
    BY DEF OfType
  <2>4. start.world = w /\ start.wronged = FALSE
    OBVIOUS
  <2> HIDE DEF start
  <2> QED BY <2>2, <2>3, <2>4 DEF SweptFrom
<1>4. Swept(w) = InTurn(LAMBDA r, i : Visited(group, r, ids[i]), start, Len(ids))
  BY DEF Swept
<1> HIDE DEF E, ids, group, start
<1> DEFINE turns == Len(ids)
           first == start
           States == Sweeps(E)
           Step(x, i) == Visited(group, x, ids[i])
           sets == [i \in 0..turns |-> {r \in Sweeps(E) : SweptFrom(r, w)}]
           step == [i \in 1..turns |-> [x \in sets[i - 1] |-> Step(x, i)]]
           Turn(x, i) == Given(x, LAMBDA y : Step(y, i))
           Eq(f) == f = [i \in 0..turns |-> IF i = 0 THEN first ELSE Turn(f[i - 1], i)]
<1>60. turns \in Nat
  BY <1>2
<1>61. ASSUME NEW i \in 1..turns, NEW x \in sets[i - 1] PROVE Step(x, i) \in sets[i]
  <2>1. i - 1 \in 0..turns /\ i \in 0..turns /\ ids[i] \in E
    BY <1>2
  <2>2. x \in Sweeps(E) /\ SweptFrom(x, w)
    BY <2>1
  <2>3. Step(x, i) \in Sweeps(E) /\ SweptFrom(Step(x, i), w)
    BY <2>1, <2>2, VisitedOne DEF E
  <2> QED BY <2>1, <2>3
<1>62. first \in sets[0] /\ sets \in [0..turns -> SUBSET States]
  BY <1>2, <1>3
<1> HIDE DEF turns, first, States
<1>63. IsLoop(turns, States, sets, step, first)
  <2>1. \A i \in 1..turns : \A x \in sets[i - 1] : step[i][x] \in sets[i]
    BY <1>61
  <2> HIDE DEF step, sets
  <2> QED BY <1>60, <1>62, <2>1 DEF IsLoop
<1>64. \A i \in 1..turns : \A x \in sets[i - 1] : Turn(x, i) = step[i][x]
  <2> SUFFICES ASSUME NEW i \in 1..turns, NEW x \in sets[i - 1]
               PROVE  Turn(x, i) = step[i][x]
    OBVIOUS
  <2>1. step[i][x] = Step(x, i)
    OBVIOUS
  <2> HIDE DEF step, sets, Step
  <2> QED BY <2>1 DEF Given
<1> HIDE DEF step, sets, Step, Turn
<1>65. PICK f : Eq(f)
  <2>1. PICK f : IsRunOf(f, turns, sets, step, first)
    BY <1>63, LoopRuns
  <2>2. \A i \in 1..turns : step[i][f[i - 1]] = Turn(f[i - 1], i)
    BY <1>60, <1>64, <2>1 DEF IsRunOf
  <2>3. Eq(f)
    <3>1. f = [i \in 0..turns |-> IF i = 0 THEN first ELSE step[i][f[i - 1]]]
      BY <2>1 DEF IsRunOf
    <3>2. \A i \in 0..turns : i # 0 => i \in 1..turns
      BY <1>60
    <3> QED BY <2>2, <3>1, <3>2
  <2> QED BY <2>3
<1>66. Eq(CHOOSE h : Eq(h))
  BY <1>65, Zenon
<1>67. ASSUME NEW g, Eq(g) PROVE g[turns] \in sets[turns]
  <2>1. g[0] = first /\ \A i \in 1..turns : g[i] = Turn(g[i - 1], i)
    BY <1>60, <1>67
  <2>2. \A i \in 1..turns : g[i - 1] \in sets[i - 1] => g[i] = step[i][g[i - 1]]
    BY <1>64, <2>1
  <2> QED BY <1>63, <2>1, <2>2, LoopEnds
<1>68. Swept(w) \in sets[turns]
  <2>1. Swept(w) = (CHOOSE h : Eq(h))[turns]
    BY DEF InTurn, turns, first, Step, Turn, Swept, start, ids, group
  <2> HIDE DEF Eq
  <2> QED BY <1>66, <1>67, <2>1
<1> QED BY <1>60, <1>68 DEF sets, E

------------------------------------------------------------------------------
(* The players of a lobby have their entities, unless one was wronged.     *)

Fates == {"running", "no entity", "no position"}
Lobbies ==
  [world : Worlds(OfLobby, Nat), state : {GameWaiting, GameLobby, GameRunning, GameOver},
   players : UNION {[D -> Nat] : D \in SUBSET Sessions}, director : Directors,
   fate : Fates, wronged : BOOLEAN]

\* No two sessions have one entity, and all of them were created.
Seated(players, next) ==
  \A s \in DOMAIN players : /\ players[s] < next
                            /\ \A t \in DOMAIN players : players[s] = players[t] => s = t

Attended(l) ==
  /\ l \in Lobbies /\ Peopled(l.world)
  /\ Seated(l.players, l.world.next)
  /\ l.state = GameRunning => DOMAIN l.players # {}
  /\ l.wronged \/ PlayerIds(l) \subseteq OfType(l.world, kPlayer)

\* The end of a step of the lobby's thread changes no entity.
LEMMA PeopledSettled ==
  ASSUME NEW w, Peopled(w)
  PROVE  /\ Peopled(Settled(w)) /\ Settled(w).next = w.next
         /\ Entities(Settled(w)) = Entities(w) /\ Types(Settled(w)) = Types(w)
         /\ OfType(Settled(w), kPlayer) = OfType(w, kPlayer)
<1> DEFINE v == Settled(w)
<1>1. Sound(w, OfLobby, Nat) /\ "State" \in OfLobby /\ "Type" \in OfLobby
  BY EngineParts DEF Peopled
<1>2. /\ Sound(v, OfLobby, Nat) /\ v.next = w.next /\ v.entities = w.entities
      /\ \A c \in OfLobby : Map(v.sets[c]) = Map(w.sets[c])
  BY <1>1, SettledSound
<1> HIDE DEF v
<1>3. Entities(v) = Entities(w) /\ Types(v) = Types(w)
  BY <1>1, <1>2 DEF Entities, Types
<1>4. Peopled(v)
  BY <1>1, <1>2, <1>3 DEF Peopled
<1>5. OfType(v, kPlayer) = OfType(w, kPlayer)
  <2>1. OfType(v, kPlayer) = {id \in Entities(v) : Types(v)[id] = kPlayer}
    BY <1>4, ShotListed
  <2>2. OfType(w, kPlayer) = {id \in Entities(w) : Types(w)[id] = kPlayer}
    BY ShotListed
  <2> QED BY <1>3, <2>1, <2>2
<1> QED BY <1>2, <1>3, <1>4, <1>5 DEF v

\* What a step of the lobby leaves.
LEMMA StepAttended ==
  ASSUME NEW next, NEW to, NEW packets, LobbyStep(next, to, packets), Attended(next)
  PROVE  Attended(lobby') /\ lobby'.fate = next.fate /\ lobby'.wronged = next.wronged
<1> DEFINE v == Settled(next.world)
<1>1. lobby' = [next EXCEPT !.world = v]
  BY DEF LobbyStep
<1>2. next \in Lobbies
  BY DEF Attended
<1>3. /\ Peopled(v) /\ v.next = next.world.next
      /\ OfType(v, kPlayer) = OfType(next.world, kPlayer)
  BY PeopledSettled DEF Attended
<1>4. v \in Worlds(OfLobby, Nat)
  BY <1>3 DEF Peopled, Sound, Stored
<1> HIDE DEF v
<1>5. /\ lobby'.world = v /\ lobby'.state = next.state /\ lobby'.players = next.players
      /\ lobby'.fate = next.fate /\ lobby'.wronged = next.wronged /\ lobby' \in Lobbies
  BY <1>1, <1>2, <1>4 DEF Lobbies
<1>6. PlayerIds(lobby') = PlayerIds(next)
  BY <1>5 DEF PlayerIds
<1> HIDE <1>1
<1> QED BY <1>3, <1>5, <1>6 DEF Attended

\* What the end of the lobby leaves.
LEMMA FailsAttended ==
  ASSUME NEW l, NEW why \in Fates, Fails(l, why), Attended(l)
  PROVE  Attended(lobby') /\ lobby'.wronged = l.wronged
<1>1. lobby' = [l EXCEPT !.fate = why]
  BY DEF Fails
<1>2. /\ lobby'.world = l.world /\ lobby'.state = l.state /\ lobby'.players = l.players
      /\ lobby'.wronged = l.wronged /\ lobby' \in Lobbies
  BY <1>1 DEF Attended, Lobbies
<1>3. PlayerIds(lobby') = PlayerIds(l)
  BY <1>2 DEF PlayerIds
<1> QED BY <1>2, <1>3 DEF Attended

\* A player that has an entity has a State.
LEMMA PlayersCanRestart ==
  ASSUME NEW l, Attended(l)
  PROVE  /\ ~CanRestart(l) => l.wronged
         /\ CanRestart(l) => PlayerIds(l) \subseteq Entities(l.world)
<1>1. Sound(l.world, OfLobby, Nat) /\ "State" \in OfLobby
  BY EngineParts DEF Attended, Peopled
<1>2. \A id : HasComponent(l.world, id, "State") <=> id \in Entities(l.world)
  BY <1>1, HasMapped DEF Attended, Peopled
<1>3. OfType(l.world, kPlayer) \subseteq Entities(l.world)
  BY DEF OfType
<1> QED BY <1>2, <1>3 DEF CanRestart, Attended

\* restart() leaves the players alone.
LEMMA RestartAttended ==
  ASSUME NEW l, Attended(l), CanRestart(l), NEW state \in {GameRunning, GameOver},
         DOMAIN l.players # {}
  PROVE  LET m == RestartedAs(l, state)
         IN  /\ Attended(m) /\ m.fate = l.fate /\ m.wronged = l.wronged /\ m.state = state
             /\ m.players = l.players /\ m.director = Restarted
<1> DEFINE w == l.world
           ids == SetToSeq(PlayerIds(l))
           u == AllInState(w, ids, EntityAlive)
           v == AllDestroyed(u, Shot(w))
           m == RestartedAs(l, state)
<1>1. Peopled(w) /\ PlayerIds(l) \in SUBSET Entities(w)
  BY PlayersCanRestart DEF Attended
<1>2. ids \in Seq(Entities(w))
  <2>1. IsFiniteSet(PlayerIds(l))
    BY <1>1, EntitiesFinite DEF Peopled
  <2>2. ids \in Seq(PlayerIds(l))
    BY <2>1, SetIsListed
  <2> HIDE DEF ids
  <2> QED BY <1>1, <2>2
<1>3. Restated(u, w)
  <2>1. EntityAlive \in Nat
    BY DEF EntityAlive
  <2> HIDE DEF ids, w
  <2> QED BY <1>1, <1>2, <2>1, AllRestated
<1>4. m = [l EXCEPT !.state = state, !.director = Restarted, !.world = v]
  BY DEF RestartedAs
<1> DEFINE shot == Shot(w)
           dead == {shot[k] : k \in 1..Len(shot)}
<1>5. Culled(v, u, dead)
  <2>1. Shot(w) \in Seq(Entities(w))
    BY <1>1, ShotListed
  <2> HIDE DEF w, u
  <2> QED BY <1>3, <2>1, AllCulled DEF Restated
<1>6. dead = OfType(w, kEnemy) \cup OfType(w, kBullet)
  BY <1>1, ShotListed
<1> HIDE DEF ids, u, v, m, shot, dead
<1>7. Peopled(v) /\ v.next = w.next /\ OfType(w, kPlayer) \subseteq OfType(v, kPlayer)
  <2>1. Peopled(v) /\ v.next = w.next
    BY <1>3, <1>5 DEF Culled, Restated
  <2>2. Entities(u) = Entities(w) /\ Types(u) = Types(w)
    BY <1>3 DEF Restated, Entities
  <2>3. ASSUME NEW id \in OfType(w, kPlayer) PROVE id \in OfType(v, kPlayer)
    <3>1. id \in Entities(w) /\ Types(w)[id] = kPlayer
      BY <1>1, ShotListed
    <3>2. id \notin dead
      BY <1>1, <1>6, <3>1, ShotListed DEF kPlayer, kEnemy, kBullet
    <3>3. id \in Entities(v) /\ Types(v)[id] = kPlayer
      BY <1>5, <2>2, <3>1, <3>2 DEF Culled
    <3> QED BY <2>1, <3>3, ShotListed
  <2> QED BY <2>1, <2>3
<1>8. v \in Worlds(OfLobby, Nat) /\ Restarted \in Directors
  BY <1>7 DEF Peopled, Sound, Stored, Restarted, Directors
<1>9. /\ m \in Lobbies /\ m.world = v /\ m.state = state /\ m.players = l.players
      /\ m.wronged = l.wronged /\ m.fate = l.fate /\ m.director = Restarted
  BY <1>4, <1>8 DEF Attended, Lobbies
<1>10. PlayerIds(m) = PlayerIds(l)
  BY <1>9 DEF PlayerIds
<1>11. Attended(m)
  BY <1>7, <1>9, <1>10 DEF Attended
<1> QED BY <1>9, <1>11 DEF m

\* A player that joins gets an entity that nobody has.
LEMMA JoinAttended ==
  ASSUME NEW l, Attended(l), NEW s \in Sessions, s \notin DOMAIN l.players
  PROVE  Attended(Joined(l, s)) /\ Joined(l, s).fate = l.fate /\ Joined(l, s).wronged = l.wronged
<1> DEFINE w == l.world
           cs == <<"Type", "State">>
           v == RegisterEntity(w, cs, NewPlayer)
           players == With(l.players, s, w.next)
           state == IF l.state < GameLobby THEN GameLobby ELSE l.state
           m == Joined(l, s)
<1>1. Peopled(w) /\ l \in Lobbies
  BY DEF Attended
<1>2. /\ cs \in Seq(OfLobby) /\ Len(cs) = 2 /\ cs[1] = "Type" /\ cs[2] = "State"
  BY EngineParts
<1>3. NewPlayer["Type"] = kPlayer /\ NewPlayer["State"] \in Nat /\ kPlayer \in Nat
  BY DEF NewPlayer, PlayerWaiting, kPlayer
<1>4. /\ Grown(v, w) /\ v.next = w.next + 1 /\ Entities(v) = Entities(w) \cup {w.next}
      /\ Types(v)[w.next] = kPlayer
  <2>1. \A k \in 1..Len(cs) : NewPlayer[cs[k]] \in Nat
    BY <1>2, <1>3
  <2>2. {"Type", "State"} \subseteq {cs[k] : k \in 1..Len(cs)}
    BY <1>2
  <2> HIDE DEF cs, w
  <2> QED BY <1>1, <1>2, <1>3, <2>1, <2>2, OneGrown
<1>5. m = [l EXCEPT !.world = v, !.players = players, !.state = state]
  <2>1. l.world = w
    OBVIOUS
  <2> QED BY <1>1 DEF Joined, Lobbies
<1>6. w.next \in Nat
  BY <1>1, WorldParts DEF Peopled, Sound
<1>7. PICK D \in SUBSET Sessions : l.players \in [D -> Nat]
  BY <1>1 DEF Lobbies
<1>8. /\ players \in [D \cup {s} -> Nat] /\ players[s] = w.next
      /\ \A t \in D : t # s /\ players[t] = l.players[t]
  BY <1>6, <1>7 DEF With
<1>9. state \in {GameWaiting, GameLobby, GameRunning, GameOver}
  BY <1>1 DEF Lobbies
<1>10. v \in Worlds(OfLobby, Nat) /\ Peopled(v)
  BY <1>4 DEF Grown, Peopled, Sound, Stored
<1> HIDE DEF cs, v, players, state, m
<1>11. players \in UNION {[E -> Nat] : E \in SUBSET Sessions}
  <2>1. D \cup {s} \in SUBSET Sessions
    OBVIOUS
  <2> QED BY <1>8, <2>1
<1>12. /\ m \in Lobbies /\ m.world = v /\ m.players = players /\ m.fate = l.fate
       /\ m.wronged = l.wronged
  BY <1>1, <1>5, <1>9, <1>10, <1>11 DEF Lobbies
<1>13. Seated(players, v.next)
  <2>1. \A t \in D : l.players[t] \in Nat /\ l.players[t] < w.next
    BY <1>7 DEF Attended, Seated
  <2>2. ASSUME NEW t \in D \cup {s}
        PROVE  players[t] < v.next /\ \A r \in D \cup {s} : players[t] = players[r] => t = r
    <3>1. CASE t = s
      BY <1>4, <1>6, <1>8, <2>1, <3>1
    <3>2. CASE t \in D
      <4>1. players[t] < w.next
        BY <1>8, <2>1, <3>2
      <4>2. \A r \in D : players[t] = players[r] => t = r
        BY <1>7, <1>8, <3>2 DEF Attended, Seated
      <4> QED BY <1>4, <1>6, <1>8, <2>1, <3>2, <4>1, <4>2
    <3> QED BY <3>1, <3>2
  <2>3. DOMAIN players = D \cup {s}
    BY <1>8
  <2> QED BY <2>2, <2>3 DEF Seated
<1>14. m.wronged \/ PlayerIds(m) \subseteq OfType(v, kPlayer)
  <2> SUFFICES ASSUME ~l.wronged, NEW t \in D \cup {s}
               PROVE  players[t] \in OfType(v, kPlayer)
    BY <1>8, <1>12 DEF PlayerIds
  <2>1. OfType(v, kPlayer) = {id \in Entities(v) : Types(v)[id] = kPlayer}
    BY <1>10, ShotListed
  <2>2. CASE t = s
    BY <1>4, <1>8, <2>1, <2>2
  <2>3. CASE t \in D
    <3>1. l.players[t] \in OfType(w, kPlayer)
      BY <1>7, <2>3 DEF Attended, PlayerIds
    <3>2. l.players[t] \in Entities(w) /\ Types(w)[l.players[t]] = kPlayer
      BY <1>1, <3>1, ShotListed
    <3>3. l.players[t] \in Entities(v) /\ Types(v)[l.players[t]] = kPlayer
      BY <1>4, <3>2 DEF Grown
    <3> QED BY <1>8, <2>1, <2>3, <3>3
  <2> QED BY <2>2, <2>3
<1>15. DOMAIN m.players # {}
  BY <1>8, <1>12
<1>16. Attended(m)
  BY <1>10, <1>12, <1>13, <1>14, <1>15 DEF Attended
<1> QED BY <1>12, <1>16 DEF m

\* A player that leaves takes its own entity along, and the last one all of them.
LEMMA LeaveAttended ==
  ASSUME NEW l, Attended(l), NEW s \in DOMAIN l.players
  PROVE  LET gone == Parted(l, s)
             next == IF gone.players = << >> THEN Cleared(gone) ELSE gone
         IN  Attended(next) /\ next.fate = l.fate /\ next.wronged = l.wronged
<1> DEFINE w == l.world
           id == l.players[s]
           v == DestroyEntity(w, id)
           players == Without(l.players, s)
           gone == Parted(l, s)
           ids == SetToSeq(Entities(v))
           u == AllDestroyed(v, ids)
           cleared == Cleared(gone)
<1>1. Peopled(w) /\ l \in Lobbies
  BY DEF Attended
<1>2. PICK D \in SUBSET Sessions : l.players \in [D -> Nat]
  BY <1>1 DEF Lobbies
<1>3. Culled(v, w, {id})
  BY <1>1, OneCulled
<1>4. /\ players \in [D \ {s} -> Nat] /\ \A t \in D \ {s} : players[t] = l.players[t]
  BY <1>2 DEF Without
<1>5. gone = [l EXCEPT !.world = v, !.players = players]
  BY DEF Parted
<1>6. /\ ids \in Seq(Entities(v)) /\ {ids[k] : k \in 1..Len(ids)} = Entities(v)
  BY <1>3, EntitiesFinite, SetIsListed DEF Culled, Peopled
<1> HIDE DEF w, id, players, gone, ids
<1>7. Culled(u, v, Entities(v))
  <2> DEFINE all == {ids[k] : k \in 1..Len(ids)}
  <2> HIDE DEF v
  <2>1. Culled(u, v, all)
    BY <1>3, <1>6, AllCulled DEF Culled
  <2> QED BY <1>6, <2>1
<1> HIDE DEF v
<1>8. players \in UNION {[E -> Nat] : E \in SUBSET Sessions}
  <2>1. D \ {s} \in SUBSET Sessions
    OBVIOUS
  <2> QED BY <1>4, <2>1
<1>9. v \in Worlds(OfLobby, Nat) /\ Peopled(v) /\ v.next = w.next
  BY <1>3 DEF Culled, Peopled, Sound, Stored
<1>10. /\ gone \in Lobbies /\ gone.world = v /\ gone.players = players /\ gone.fate = l.fate
       /\ gone.wronged = l.wronged /\ gone.state = l.state
  BY <1>1, <1>5, <1>8, <1>9 DEF Lobbies
<1>11. Seated(players, w.next)
  <2>1. Seated(l.players, w.next)
    BY DEF Attended, w
  <2> QED BY <1>2, <1>4, <2>1 DEF Seated
<1>12. gone.wronged \/ PlayerIds(gone) \subseteq OfType(v, kPlayer)
  <2> SUFFICES ASSUME ~l.wronged, NEW t \in D \ {s} PROVE players[t] \in OfType(v, kPlayer)
    BY <1>4, <1>10 DEF PlayerIds
  <2>1. OfType(v, kPlayer) = {e \in Entities(v) : Types(v)[e] = kPlayer}
    BY <1>9, ShotListed
  <2>2. l.players[t] \in OfType(w, kPlayer)
    BY <1>2 DEF Attended, PlayerIds, w
  <2>3. l.players[t] \in Entities(w) /\ Types(w)[l.players[t]] = kPlayer
    BY <1>1, <2>2, ShotListed
  <2>4. l.players[t] # id
    BY <1>2 DEF Attended, Seated, id
  <2>5. l.players[t] \in Entities(v) /\ Types(v)[l.players[t]] = kPlayer
    BY <1>3, <2>3, <2>4 DEF Culled
  <2> QED BY <1>4, <2>1, <2>5
<1>13. CASE players = << >>
  <2>1. gone.players = << >>
    BY <1>10, <1>13
  <2>2. cleared = [gone EXCEPT !.world = u, !.state = GameWaiting]
    BY <1>10 DEF Cleared, ids
  <2> HIDE DEF u, cleared
  <2>3. u \in Worlds(OfLobby, Nat) /\ Peopled(u) /\ u.next = w.next
    BY <1>7, <1>9 DEF Culled, Peopled, Sound, Stored
  <2>4. /\ cleared \in Lobbies /\ cleared.world = u /\ cleared.players = players
        /\ cleared.fate = l.fate /\ cleared.wronged = l.wronged /\ cleared.state = GameWaiting
    BY <1>10, <2>2, <2>3 DEF Lobbies
  <2>5. PlayerIds(cleared) = {}
    <3>1. DOMAIN players = {}
      BY <1>13
    <3> QED BY <2>4, <3>1 DEF PlayerIds
  <2>6. cleared.state # GameRunning
    BY <2>4 DEF GameWaiting, GameRunning
  <2>7. Attended(cleared)
    BY <1>11, <2>3, <2>4, <2>5, <2>6 DEF Attended
  <2> QED BY <2>1, <2>4, <2>7 DEF gone, cleared
<1>14. CASE players # << >>
  <2>1. gone.players # << >>
    BY <1>10, <1>14
  <2>2. DOMAIN players # {}
    <3> SUFFICES ASSUME DOMAIN players = {} PROVE players = << >>
      BY <1>14
    <3>1. D \ {s} = {}
      BY <1>4
    <3>2. players = [t \in {} |-> players[t]]
      BY <1>4, <3>1
    <3> QED BY <3>2
  <2>3. Attended(gone)
    BY <1>9, <1>10, <1>11, <1>12, <2>2 DEF Attended
  <2> QED BY <1>10, <2>1, <2>3 DEF gone
<1> QED BY <1>13, <1>14

\* The rest of a tick ends the lobby only if it has wronged a player.
LEMMA PlayedAttended ==
  ASSUME NEW l, Attended(l), l.fate = "running", l.director.credits <= MaxCredits,
         NEW sent, Played(l, sent)
  PROVE  Attended(lobby') /\ (lobby'.fate # "running" => lobby'.wronged)
<1>1. PICK dead \in Collisions(l.world), update \in Directed(l) :
        LET swept == Swept(Collided(l.world, dead))
            first == swept.world.next
            world == WithEnemies(swept.world, update.spawned)
            spawns == [i \in 1..update.spawned |-> Spawn(Infos(world, first + i - 1))]
            next == [l EXCEPT !.world = world, !.director = update.director,
                              !.wronged = @ \/ swept.wronged]
        IN  IF update.looks /\ PlayerIds(l) \cap Entities(swept.world) = {}
            THEN Fails([next EXCEPT !.world = l.world], "no position")
            ELSE /\ world.next <= MaxEntities
                 /\ LobbyStep(next, DOMAIN l.players, sent \o swept.killed \o spawns)
  BY DEF Played
<1> DEFINE w == l.world
           hit == Collided(w, dead)
           swept == Swept(hit)
           world == WithEnemies(swept.world, update.spawned)
           spawns == [i \in 1..update.spawned |-> Spawn(Infos(world, swept.world.next + i - 1))]
           wronged == l.wronged \/ swept.wronged
           next == [l EXCEPT !.world = world, !.director = update.director, !.wronged = wronged]
           failed == [next EXCEPT !.world = l.world]
           packets == sent \o swept.killed \o spawns
<1>2. IF update.looks /\ PlayerIds(l) \cap Entities(swept.world) = {}
      THEN Fails(failed, "no position") ELSE LobbyStep(next, DOMAIN l.players, packets)
  BY <1>1
<1> HIDE <1>1
<1> HIDE DEF packets, spawns
<1>3. Peopled(w) /\ l \in Lobbies
  BY DEF Attended
<1>4. /\ update.director \in Directors /\ update.spawned \in Nat
      /\ update.looks => l.state = GameRunning
  <2>1. l.director \in Directors
    BY <1>3 DEF Lobbies
  <2>2. CASE l.state = GameRunning
    BY <2>1, <2>2, UpdatedDirector DEF Directed
  <2>3. CASE l.state # GameRunning
    BY <2>1, <2>3 DEF Directed
  <2> QED BY <2>2, <2>3
<1>5. Restated(hit, w)
  BY <1>3, CollidedRestated
<1> HIDE DEF hit, w
<1>6. swept \in Sweeps(Entities(hit)) /\ SweptFrom(swept, hit)
  BY <1>5, SweptAll DEF Restated
<1> HIDE DEF swept
<1>7. Grown(world, swept.world)
  BY <1>4, <1>6, EnemiesGrown DEF SweptFrom
<1> HIDE DEF world
<1>8. /\ Peopled(world) /\ w.next <= world.next /\ w.next \in Nat /\ world.next \in Nat
      /\ wronged \in BOOLEAN
  <2>1. swept.world.next = w.next
    BY <1>5, <1>6 DEF Restated, SweptFrom
  <2>2. Peopled(world) /\ swept.world.next <= world.next
    BY <1>7 DEF Grown
  <2>3. w.next \in Nat /\ world.next \in Nat
    BY <1>3, <2>2, WorldParts DEF Peopled, Sound
  <2>4. wronged \in BOOLEAN
    BY <1>3, <1>6 DEF Lobbies, Sweeps
  <2> QED BY <2>1, <2>2, <2>3, <2>4
<1>9. wronged \/ /\ PlayerIds(l) \subseteq OfType(world, kPlayer)
                 /\ PlayerIds(l) \subseteq OfType(w, kPlayer)
                 /\ PlayerIds(l) \subseteq Entities(swept.world)
  <2> SUFFICES ASSUME ~l.wronged, ~swept.wronged, NEW id \in PlayerIds(l)
               PROVE  /\ id \in OfType(world, kPlayer) /\ id \in OfType(w, kPlayer)
                      /\ id \in Entities(swept.world)
    OBVIOUS
  <2>1. id \in OfType(w, kPlayer)
    BY DEF Attended, w
  <2>2. id \in Entities(w) /\ Types(w)[id] = kPlayer
    BY <1>3, <2>1, ShotListed
  <2>3. id \in Entities(hit) /\ Types(hit)[id] = kPlayer
    BY <1>5, <2>2 DEF Restated, Entities
  <2>4. id \in OfType(hit, kPlayer)
    BY <1>5, <2>3, ShotListed DEF Restated
  <2>5. id \in Entities(swept.world) /\ Types(swept.world)[id] = kPlayer
    BY <1>6, <2>3, <2>4 DEF SweptFrom
  <2>6. id \in Entities(world) /\ Types(world)[id] = kPlayer
    BY <1>7, <2>5 DEF Grown
  <2>7. id \in OfType(world, kPlayer)
    BY <1>8, <2>6, ShotListed
  <2> QED BY <2>1, <2>5, <2>7
<1> HIDE DEF wronged, next
<1>10. world \in Worlds(OfLobby, Nat) /\ w \in Worlds(OfLobby, Nat)
  BY <1>3, <1>8 DEF Peopled, Sound, Stored
<1>11. /\ next \in Lobbies /\ next.world = world /\ next.players = l.players
       /\ next.state = l.state /\ next.fate = l.fate /\ next.wronged = wronged
  BY <1>3, <1>4, <1>8, <1>10 DEF Lobbies, next
<1>12. /\ failed \in Lobbies /\ failed.world = w /\ failed.players = l.players
       /\ failed.state = l.state /\ failed.wronged = wronged
  BY <1>10, <1>11 DEF Lobbies, w
<1> HIDE DEF failed
<1>13. PlayerIds(next) = PlayerIds(l) /\ PlayerIds(failed) = PlayerIds(l)
  BY <1>11, <1>12 DEF PlayerIds
<1>14. /\ Seated(l.players, w.next) /\ (l.state = GameRunning => DOMAIN l.players # {})
       /\ Seated(l.players, world.next)
  <2>1. /\ Seated(l.players, w.next) /\ (l.state = GameRunning => DOMAIN l.players # {})
    BY DEF Attended, w
  <2>2. \A s \in DOMAIN l.players : l.players[s] \in Nat
    BY <1>3 DEF Lobbies
  <2> QED BY <1>8, <2>1, <2>2 DEF Seated
<1>15. Attended(next) /\ Attended(failed)
  BY <1>3, <1>8, <1>9, <1>11, <1>12, <1>13, <1>14 DEF Attended
<1>16. CASE update.looks /\ PlayerIds(l) \cap Entities(swept.world) = {}
  <2>1. Fails(failed, "no position")
    BY <1>2, <1>16
  <2>2. Attended(lobby') /\ lobby'.wronged = wronged
    BY <1>12, <1>15, <2>1, FailsAttended DEF Fates
  <2>3. PlayerIds(l) # {}
    BY <1>4, <1>14, <1>16 DEF PlayerIds
  <2> QED BY <1>9, <1>16, <2>2, <2>3
<1>17. CASE ~(update.looks /\ PlayerIds(l) \cap Entities(swept.world) = {})
  BY <1>2, <1>11, <1>15, <1>17, StepAttended
<1> QED BY <1>16, <1>17

\* A bullet is no player.
LEMMA ShootAttended ==
  ASSUME NEW l, Attended(l), NEW s \in DOMAIN l.players, NEW owner, owner = l.players[s],
         NEW v, v = RegisterEntity(l.world, <<"Type", "Owner", "State">>, NewBullet(owner)),
         NEW m, m = [l EXCEPT !.world = v]
  PROVE  Attended(m) /\ m.fate = l.fate /\ m.wronged = l.wronged
<1> DEFINE w == l.world
           cs == <<"Type", "Owner", "State">>
           bullet == NewBullet(owner)
<1>1. Peopled(w) /\ l \in Lobbies /\ owner \in Nat
  BY DEF Attended, Lobbies
<1>2. /\ cs \in Seq(OfLobby) /\ Len(cs) = 3
      /\ cs[1] = "Type" /\ cs[2] = "Owner" /\ cs[3] = "State"
  BY EngineParts
<1>3. bullet["Type"] \in Nat /\ bullet["Owner"] \in Nat /\ bullet["State"] \in Nat
  BY <1>1 DEF NewBullet, EntityAlive, kBullet
<1>4. Grown(v, w)
  <2>1. \A k \in 1..Len(cs) : bullet[cs[k]] \in Nat
    BY <1>2, <1>3
  <2>2. {"Type", "State"} \subseteq {cs[k] : k \in 1..Len(cs)}
    BY <1>2
  <2>3. v = RegisterEntity(w, cs, bullet)
    OBVIOUS
  <2> HIDE DEF cs, w, bullet
  <2> QED BY <1>1, <1>2, <2>1, <2>2, <2>3, OneGrown
<1>5. v \in Worlds(OfLobby, Nat) /\ Peopled(v) /\ w.next <= v.next
  BY <1>4 DEF Grown, Peopled, Sound, Stored
<1> HIDE DEF cs, bullet
<1>6. /\ m \in Lobbies /\ m.world = v /\ m.players = l.players /\ m.fate = l.fate
      /\ m.wronged = l.wronged /\ m.state = l.state
  BY <1>1, <1>5 DEF Lobbies
<1>7. w.next \in Nat /\ v.next \in Nat
  BY <1>1, <1>5, WorldParts DEF Peopled, Sound
<1>8. Seated(m.players, v.next)
  <2>1. \A t \in DOMAIN l.players : l.players[t] \in Nat
    BY <1>1 DEF Lobbies
  <2> QED BY <1>5, <1>6, <1>7, <2>1 DEF Attended, Seated
<1>9. OfType(w, kPlayer) \subseteq OfType(v, kPlayer)
  <2>1. /\ OfType(w, kPlayer) = {e \in Entities(w) : Types(w)[e] = kPlayer}
        /\ OfType(v, kPlayer) = {e \in Entities(v) : Types(v)[e] = kPlayer}
    BY <1>1, <1>5, ShotListed
  <2> QED BY <1>4, <2>1 DEF Grown
<1>10. PlayerIds(m) = PlayerIds(l)
  BY <1>6 DEF PlayerIds
<1>11. Attended(m)
  BY <1>5, <1>6, <1>8, <1>9, <1>10 DEF Attended
<1> QED BY <1>6, <1>11

\* The lobby serves its players until one is wronged.
Serving == Attended(lobby) /\ (lobby.fate # "running" => lobby.wronged)

\* Every step of a match keeps it serving.
LEMMA NextServing ==
  ASSUME Serving, [Next]_vars
  PROVE  Serving'
<1>1. ASSUME NEW next, NEW to, NEW packets, LobbyStep(next, to, packets), Attended(next),
             next.fate = lobby.fate, next.wronged = lobby.wronged
      PROVE  Serving'
  BY <1>1, StepAttended DEF Serving
<1>2. ASSUME NEW why \in Fates, Fails(lobby, why), lobby.wronged PROVE Serving'
  BY <1>2, FailsAttended DEF Serving
<1>3. ASSUME NEW s \in Sessions, Join(s) PROVE Serving'
  <2>1. s \notin DOMAIN lobby.players
    BY <1>3 DEF Join
  <2>2. PICK to, packets : LobbyStep(Joined(lobby, s), to, packets)
    BY <1>3 DEF Join
  <2> QED BY <1>1, <2>1, <2>2, JoinAttended DEF Serving
<1>4. ASSUME NEW s \in Sessions, Leave(s) PROVE Serving'
  <2> DEFINE gone == Parted(lobby, s)
             next == IF gone.players = << >> THEN Cleared(gone) ELSE gone
  <2>1. s \in DOMAIN lobby.players
    BY <1>4 DEF Leave
  <2>2. PICK to, packets : LobbyStep(next, to, packets)
    BY <1>4 DEF Leave
  <2>3. Attended(next) /\ next.fate = lobby.fate /\ next.wronged = lobby.wronged
    BY <2>1, LeaveAttended DEF Serving
  <2> HIDE DEF next
  <2> QED BY <1>1, <2>2, <2>3
<1>5. ASSUME NEW s \in Sessions, Start(s) PROVE Serving'
  <2>1. DOMAIN lobby.players # {}
    BY <1>5 DEF Start
  <2>2. CASE CanRestart(lobby)
    <3>1. PICK to, packets : LobbyStep(RestartedAs(lobby, GameRunning), to, packets)
      BY <1>5, <2>2 DEF Start
    <3> QED BY <1>1, <2>1, <2>2, <3>1, RestartAttended DEF Serving
  <2>3. CASE ~CanRestart(lobby)
    <3>1. Fails(lobby, "no entity")
      BY <1>5, <2>3 DEF Start
    <3>2. "no entity" \in Fates
      BY DEF Fates
    <3> QED BY <1>2, <2>3, <3>1, <3>2, PlayersCanRestart DEF Serving
  <2> QED BY <2>2, <2>3
<1>6. ASSUME NEW s \in Sessions, Shoot(s) PROVE Serving'
  <2>1. s \in DOMAIN lobby.players
    BY <1>6 DEF Shoot
  <2> DEFINE owner == lobby.players[s]
             v == RegisterEntity(lobby.world, <<"Type", "Owner", "State">>, NewBullet(owner))
             next == [lobby EXCEPT !.world = v]
  <2>2. PICK to, packets : LobbyStep(next, to, packets)
    BY <1>6 DEF Shoot
  <2>3. Attended(next) /\ next.fate = lobby.fate /\ next.wronged = lobby.wronged
    BY <2>1, ShootAttended DEF Serving
  <2> HIDE DEF next
  <2> QED BY <1>1, <2>2, <2>3
<1>7. ASSUME Tick PROVE Serving'
  <2> DEFINE over == lobby.state = GameRunning /\ ~PlayerAlive(lobby)
             restarted == RestartedAs(lobby, GameOver)
  <2>1. lobby.director.credits <= MaxCredits
    BY <1>7 DEF Tick
  <2>2. CASE over /\ ~CanRestart(lobby)
    <3>1. Fails(lobby, "no entity")
      BY <1>7, <2>2 DEF Tick
    <3>2. "no entity" \in Fates
      BY DEF Fates
    <3> QED BY <1>2, <2>2, <3>1, <3>2, PlayersCanRestart DEF Serving
  <2>3. CASE over /\ CanRestart(lobby)
    <3>1. PICK sent : Played(restarted, sent)
      BY <1>7, <2>3 DEF Tick
    <3>2. /\ Attended(restarted) /\ restarted.fate = lobby.fate
          /\ restarted.director = Restarted
      <4>1. DOMAIN lobby.players # {}
        BY <2>3 DEF Serving, Attended
      <4> QED BY <2>3, <4>1, RestartAttended DEF Serving
    <3>3. restarted.director.credits <= MaxCredits
      BY <3>2, IncomeAssumption DEF Restarted
    <3>4. lobby.fate = "running"
      <4>1. Fails(lobby, "x") \/ lobby.fate = "running"
        BY <3>1 DEF Played, Fails, LobbyStep
      <4> QED BY <4>1 DEF Fails
    <3> HIDE DEF restarted
    <3>5. Attended(lobby') /\ (lobby'.fate # "running" => lobby'.wronged)
      BY <3>1, <3>2, <3>3, <3>4, PlayedAttended
    <3> QED BY <3>5 DEF Serving
  <2>4. CASE ~over
    <3>1. PICK sent : Played(lobby, sent)
      BY <1>7, <2>4 DEF Tick
    <3>2. lobby.fate = "running"
      BY <3>1 DEF Played, Fails, LobbyStep
    <3>3. Attended(lobby') /\ (lobby'.fate # "running" => lobby'.wronged)
      BY <2>1, <3>1, <3>2, PlayedAttended DEF Serving
    <3> QED BY <3>3 DEF Serving
  <2> QED BY <2>2, <2>3, <2>4
<1>8. ASSUME UNCHANGED lobby PROVE Serving'
  BY <1>8 DEF Serving, Attended, PlayerIds
<1>9. ASSUME Deliver PROVE UNCHANGED lobby
  BY <1>9 DEF Deliver
<1>10. ASSUME NEW i, Lose(i) PROVE UNCHANGED lobby
  BY <1>10 DEF Lose
<1>11. ASSUME NEW i, NEW j, Delay(i, j) PROVE UNCHANGED lobby
  BY <1>11 DEF Delay
<1>12. ASSUME Refuse PROVE UNCHANGED lobby
  BY <1>12 DEF Refuse
<1>13. CASE UNCHANGED vars
  BY <1>8, <1>13 DEF vars
<1> QED BY <1>3, <1>4, <1>5, <1>6, <1>7, <1>8, <1>9, <1>10, <1>11, <1>12, <1>13 DEF Next

\* The lobby that is created serves nobody yet.
LEMMA InitServing == Init => Serving
<1> SUFFICES ASSUME Init PROVE Serving
  OBVIOUS
<1>1. lobby = NewLobby
  BY DEF Init
<1>2. Sound(NewEngine, OfLobby, Nat) /\ Entities(NewEngine) = {}
  BY EnginesSound
<1>3. "State" \in OfLobby /\ "Type" \in OfLobby
  BY EngineParts
<1> DEFINE w == NewEngine
<1> HIDE DEF w
<1>4. Peopled(w)
  <2>1. \A c \in OfLobby : DOMAIN Map(w.sets[c]) = {}
    <3> SUFFICES ASSUME NEW c \in OfLobby PROVE DOMAIN w.sets[c].sparse = {}
      BY MapDomain
    <3>1. DOMAIN w.sets[c].sparse = Marked(w, c)
      BY <1>2 DEF Sound, w
    <3> QED BY <1>2, <3>1 DEF Marked, w
  <2> QED BY <1>2, <1>3, <2>1 DEF Peopled, Types, w
<1> DEFINE none == << >>
<1>5. /\ lobby.world = w /\ lobby.players = none /\ lobby.state = GameWaiting
      /\ lobby.fate = "running" /\ lobby.wronged = FALSE /\ lobby.director = Restarted
      /\ lobby = [world |-> w, state |-> GameWaiting, players |-> none, director |-> Restarted,
                  fate |-> "running", wronged |-> FALSE]
  BY <1>1 DEF NewLobby, w
<1>6. DOMAIN none = {}
  OBVIOUS
<1>7. PlayerIds(lobby) = {}
  BY <1>5, <1>6 DEF PlayerIds
<1>8. none \in UNION {[D -> Nat] : D \in SUBSET Sessions}
  <2>1. PICK D \in SUBSET Sessions : D = {}
    OBVIOUS
  <2>2. none \in [D -> Nat]
    BY <2>1
  <2> QED BY <2>2
<1> HIDE DEF none
<1>9. w \in Worlds(OfLobby, Nat) /\ Restarted \in Directors
  BY <1>4 DEF Peopled, Sound, Stored, Restarted, Directors
<1>10. lobby \in Lobbies
  BY <1>5, <1>8, <1>9 DEF Lobbies, Fates
<1>11. Seated(lobby.players, w.next)
  BY <1>5, <1>6 DEF Seated
<1>12. GameWaiting # GameRunning
  BY DEF GameWaiting, GameRunning
<1> QED BY <1>4, <1>5, <1>7, <1>10, <1>11, <1>12 DEF Serving, Attended

(***************************************************************************)
(* For every number of sessions and entities, every wave pool and every    *)
(* order of joins, leaves, starts, shots and ticks: the match ends the     *)
(* process only after the sweep of the dead has killed an entity that was  *)
(* a player or not dead (restart, Director::update, killEntity).           *)
(***************************************************************************)
THEOREM LobbyFailsOnlyByWrongKillAlways == Spec => []LobbyFailsOnlyByWrongKill
<1>1. Serving /\ [Next]_vars => Serving'
  BY NextServing
<1>2. Serving => LobbyFailsOnlyByWrongKill
  BY DEF Serving, LobbyFailsOnlyByWrongKill
<1> QED BY <1>1, <1>2, InitServing, PTL DEF Spec

(***************************************************************************)
(* For every wave pool, income and delay: a wave is in a group it has      *)
(* until it is finished, and no wave is paid with credits that the         *)
(* director does not have (update, getPickedWaves, pickRandomWaves).       *)
(***************************************************************************)
THEOREM WavesInRangeAlways == Spec => []WavesInRange
<1>1. Serving /\ [Next]_vars => Serving'
  BY NextServing
<1>2. Serving => WavesInRange
  <2> SUFFICES ASSUME Serving, NEW i \in DOMAIN lobby.director.waves
               PROVE  lobby.director.credits >= 0 /\ InRange(lobby.director.waves[i])
    BY DEF WavesInRange, InRange, Serving, Attended, Lobbies, Directors
  <2>1. lobby.director \in Directors
    BY DEF Serving, Attended, Lobbies
  <2>2. lobby.director.credits \in Nat /\ lobby.director.waves \in Seq(Waves)
    BY <2>1 DEF Directors
  <2>3. lobby.director.waves[i] \in Waves
    BY <2>2
  <2> QED BY <2>2, <2>3 DEF Waves
<1> QED BY <1>1, <1>2, InitServing, PTL DEF Spec

------------------------------------------------------------------------------
(* Numbers as bytes.                                                       *)

Bytes == {n \in Nat : n < 256}

\* The number is not too large for so many bytes.
Fits(n, width) ==
  /\ width \in Nat /\ n \in Nat
  /\ \/ width >= 1 /\ n < 256
     \/ width >= 2 /\ n < 65536

\* The bytes of a number, and what is left of it after some of them.
ByteOf(n, k) == IF k = 1 THEN n % 256 ELSE IF k = 2 THEN n \div 256 ELSE 0
LeftOf(n, k) == IF k = 0 THEN n ELSE IF k = 1 THEN n \div 256 ELSE 0

\* A number of at most two bytes.
LEMMA TwoBytes ==
  ASSUME NEW n \in Nat, n < 65536
  PROVE  /\ n % 256 \in Bytes /\ n \div 256 \in Bytes /\ (n \div 256) \div 256 = 0
         /\ (n \div 256) % 256 = n \div 256 /\ (n % 256) + 256 * (n \div 256) = n
         /\ n < 256 => n \div 256 = 0
BY DEF Bytes

\* InMemory
LEMMA MemoryOf ==
  ASSUME NEW n, NEW width, Fits(n, width)
  PROVE  InMemory(n, width) = [k \in 1..width |-> ByteOf(n, k)]
<1> DEFINE Eq(f) == f = [k \in 0..width |-> IF k = 0 THEN n ELSE f[k - 1] \div 256]
           left == CHOOSE f : Eq(f)
           States == {LeftOf(n, k) : k \in 0..width}
           sets == [k \in 0..width |-> {LeftOf(n, k)}]
           step == [k \in 1..width |-> [x \in {LeftOf(n, k - 1)} |-> x \div 256]]
<1>1. width \in Nat /\ n \in Nat /\ n < 65536
  BY DEF Fits
<1>2. \A k \in 1..width : LeftOf(n, k - 1) \div 256 = LeftOf(n, k)
  <2> SUFFICES ASSUME NEW k \in 1..width PROVE LeftOf(n, k - 1) \div 256 = LeftOf(n, k)
    OBVIOUS
  <2>1. k \in Nat /\ 0 \div 256 = 0
    BY <1>1
  <2> QED BY <1>1, <2>1, TwoBytes DEF LeftOf
<1>3. \A k \in 1..width : step[k][LeftOf(n, k - 1)] = LeftOf(n, k)
  BY <1>2
<1>4. IsLoop(width, States, sets, step, n)
  <2>1. n \in sets[0]
    BY <1>1 DEF LeftOf
  <2>2. sets \in [0..width -> SUBSET States]
    OBVIOUS
  <2>3. \A k \in 1..width : sets[k - 1] = {LeftOf(n, k - 1)} /\ sets[k] = {LeftOf(n, k)}
    BY <1>1
  <2> HIDE DEF step, sets, States
  <2> QED BY <1>1, <1>3, <2>1, <2>2, <2>3 DEF IsLoop
<1>5. \A k \in 1..width : \A x \in sets[k - 1] : step[k][x] = x \div 256
  BY <1>1
<1> HIDE DEF step, sets, States
<1>6. \E f : Eq(f)
  <2>1. PICK f : IsRunOf(f, width, sets, step, n)
    BY <1>4, LoopRuns
  <2>2. \A k \in 1..width : step[k][f[k - 1]] = f[k - 1] \div 256
    BY <1>1, <1>5, <2>1 DEF IsRunOf
  <2>3. f = [k \in 0..width |-> IF k = 0 THEN n ELSE step[k][f[k - 1]]]
    BY <2>1 DEF IsRunOf
  <2>4. \A k \in 0..width : k # 0 => k \in 1..width
    BY <1>1
  <2>5. Eq(f)
    BY <2>2, <2>3, <2>4
  <2> QED BY <2>5
<1>7. Eq(left)
  BY <1>6, Zenon
<1> HIDE DEF left
<1>8. left[0] = n /\ \A k \in 1..width : left[k] = left[k - 1] \div 256
  BY <1>1, <1>7
<1>9. \A k \in 0..width : left[k] = LeftOf(n, k)
  <2>1. \A k \in 1..width : left[k - 1] \in sets[k - 1] => left[k] = step[k][left[k - 1]]
    BY <1>5, <1>8
  <2>2. \A k \in 0..width : left[k] \in sets[k]
    BY <1>4, <1>8, <2>1, LoopStays
  <2> QED BY <2>2 DEF sets
<1>10. InMemory(n, width) = [k \in 1..width |-> left[k - 1] % 256]
  BY DEF InMemory, left
<1>11. \A k \in 1..width : left[k - 1] % 256 = ByteOf(n, k)
  <2> SUFFICES ASSUME NEW k \in 1..width PROVE LeftOf(n, k - 1) % 256 = ByteOf(n, k)
    BY <1>1, <1>9
  <2>1. k \in Nat /\ 0 % 256 = 0
    BY <1>1
  <2> QED BY <1>1, <2>1, TwoBytes DEF LeftOf, ByteOf
<1> QED BY <1>10, <1>11

\* Bytes stand for a natural number.
LEMMA BytesAreNumber ==
  ASSUME NEW bytes \in Seq(Bytes)
  PROVE  FromMemory(bytes) \in Nat
<1>1. Len(bytes) \in Nat /\ \A k \in 1..Len(bytes) : bytes[k] \in Nat
  BY DEF Bytes
<1> DEFINE turns == Len(bytes)
           first == 0
           States == Nat
           Step(x, i) == bytes[Len(bytes) + 1 - i] + 256 * x
           sets == [i \in 0..turns |-> Nat]
           step == [i \in 1..turns |-> [x \in sets[i - 1] |-> Step(x, i)]]
           Turn(x, i) == Given(x, LAMBDA y : Step(y, i))
           Eq(f) == f = [i \in 0..turns |-> IF i = 0 THEN first ELSE Turn(f[i - 1], i)]
<1>60. turns \in Nat
  BY <1>1
<1>61. ASSUME NEW i \in 1..turns, NEW x \in sets[i - 1] PROVE Step(x, i) \in sets[i]
  <2>1. i - 1 \in 0..turns /\ i \in 0..turns /\ Len(bytes) + 1 - i \in 1..Len(bytes)
    BY <1>1
  <2>2. x \in Nat /\ bytes[Len(bytes) + 1 - i] \in Nat
    BY <1>1, <2>1
  <2>3. Step(x, i) \in Nat
    BY <2>2
  <2> QED BY <2>1, <2>3
<1>62. first \in sets[0] /\ sets \in [0..turns -> SUBSET States]
  BY <1>1
<1> HIDE DEF turns, first, States
<1>63. IsLoop(turns, States, sets, step, first)
  <2>1. \A i \in 1..turns : \A x \in sets[i - 1] : step[i][x] \in sets[i]
    BY <1>61
  <2> HIDE DEF step, sets
  <2> QED BY <1>60, <1>62, <2>1 DEF IsLoop
<1>64. \A i \in 1..turns : \A x \in sets[i - 1] : Turn(x, i) = step[i][x]
  <2> SUFFICES ASSUME NEW i \in 1..turns, NEW x \in sets[i - 1]
               PROVE  Turn(x, i) = step[i][x]
    OBVIOUS
  <2>1. step[i][x] = Step(x, i)
    OBVIOUS
  <2> HIDE DEF step, sets, Step
  <2> QED BY <2>1 DEF Given
<1> HIDE DEF step, sets, Step, Turn
<1>65. PICK f : Eq(f)
  <2>1. PICK f : IsRunOf(f, turns, sets, step, first)
    BY <1>63, LoopRuns
  <2>2. \A i \in 1..turns : step[i][f[i - 1]] = Turn(f[i - 1], i)
    BY <1>60, <1>64, <2>1 DEF IsRunOf
  <2>3. Eq(f)
    <3>1. f = [i \in 0..turns |-> IF i = 0 THEN first ELSE step[i][f[i - 1]]]
      BY <2>1 DEF IsRunOf
    <3>2. \A i \in 0..turns : i # 0 => i \in 1..turns
      BY <1>60
    <3> QED BY <2>2, <3>1, <3>2
  <2> QED BY <2>3
<1>66. Eq(CHOOSE h : Eq(h))
  BY <1>65, Zenon
<1>67. ASSUME NEW g, Eq(g) PROVE g[turns] \in sets[turns]
  <2>1. g[0] = first /\ \A i \in 1..turns : g[i] = Turn(g[i - 1], i)
    BY <1>60, <1>67
  <2>2. \A i \in 1..turns : g[i - 1] \in sets[i - 1] => g[i] = step[i][g[i - 1]]
    BY <1>64, <2>1
  <2> QED BY <1>63, <2>1, <2>2, LoopEnds
<1>68. FromMemory(bytes) \in sets[turns]
  <2>1. FromMemory(bytes) = (CHOOSE h : Eq(h))[turns]
    BY DEF InTurn, turns, first, Step, Turn, FromMemory
  <2> HIDE DEF Eq
  <2> QED BY <1>66, <1>67, <2>1
<1> QED BY <1>60, <1>68 DEF sets

\* The bytes of a number stand for it.
LEMMA NumberOf ==
  ASSUME NEW n, NEW width, Fits(n, width), NEW bytes, bytes = [k \in 1..width |-> ByteOf(n, k)]
  PROVE  FromMemory(bytes) = n
<1>1. /\ width \in Nat /\ n \in Nat /\ n < 65536 /\ Len(bytes) = width /\ width >= 1
      /\ width = 1 => n < 256
  BY DEF Fits
<1> DEFINE Total(i) == IF i = width THEN n ELSE IF i = width - 1 THEN n \div 256 ELSE 0
<1>2. \A k \in 1..width : bytes[k] = ByteOf(n, k)
  OBVIOUS
<1>3. n \div 256 \in Nat /\ (n % 256) + 256 * (n \div 256) = n /\ (n < 256 => n \div 256 = 0)
  BY <1>1, TwoBytes DEF Bytes
<1>4. Total(0) = 0
  BY <1>1, <1>3
<1>5. ASSUME NEW i \in 1..width PROVE bytes[width + 1 - i] + 256 * Total(i - 1) = Total(i)
  <2>1. width + 1 - i \in 1..width /\ bytes[width + 1 - i] = ByteOf(n, width + 1 - i)
    BY <1>1, <1>2
  <2>2. CASE i = width
    <3>1. bytes[width + 1 - i] = n % 256
      BY <1>1, <2>1, <2>2 DEF ByteOf
    <3>2. Total(i - 1) = n \div 256 /\ Total(i) = n
      BY <1>1, <2>2
    <3> QED BY <1>3, <3>1, <3>2
  <2>3. CASE i = width - 1
    <3>1. bytes[width + 1 - i] = n \div 256
      BY <1>1, <2>1, <2>3 DEF ByteOf
    <3>2. Total(i - 1) = 0 /\ Total(i) = n \div 256
      BY <1>1, <2>3
    <3>3. n \div 256 \in Nat /\ \A h \in Nat : h + 256 * 0 = h
      BY <1>3
    <3> QED BY <3>1, <3>2, <3>3
  <2>4. CASE i < width - 1
    <3>1. bytes[width + 1 - i] = 0
      BY <1>1, <2>1, <2>4 DEF ByteOf
    <3>2. Total(i - 1) = 0 /\ Total(i) = 0
      BY <1>1, <2>4
    <3> QED BY <3>1, <3>2
  <2> QED BY <1>1, <2>2, <2>3, <2>4
<1>6. \A i \in 0..width : Total(i) \in Nat
  BY <1>1, <1>3
<1> HIDE DEF Total
<1> DEFINE turns == Len(bytes)
           first == 0
           States == Nat
           Step(x, i) == bytes[Len(bytes) + 1 - i] + 256 * x
           sets == [i \in 0..turns |-> {Total(i)}]
           step == [i \in 1..turns |-> [x \in sets[i - 1] |-> Step(x, i)]]
           Turn(x, i) == Given(x, LAMBDA y : Step(y, i))
           Eq(f) == f = [i \in 0..turns |-> IF i = 0 THEN first ELSE Turn(f[i - 1], i)]
<1>60. turns \in Nat
  BY <1>1
<1>61. ASSUME NEW i \in 1..turns, NEW x \in sets[i - 1] PROVE Step(x, i) \in sets[i]
  <2>1. i - 1 \in 0..turns /\ i \in 0..turns /\ i \in 1..width
    BY <1>1
  <2>2. x = Total(i - 1)
    BY <2>1
  <2>3. Step(x, i) = bytes[width + 1 - i] + 256 * Total(i - 1)
    BY <1>1, <2>2
  <2>4. Step(x, i) = Total(i)
    BY <1>5, <2>1, <2>3
  <2> HIDE DEF Step, turns
  <2> QED BY <2>1, <2>4
<1>62. first \in sets[0] /\ sets \in [0..turns -> SUBSET States]
  BY <1>1, <1>4, <1>6
<1> HIDE DEF turns, first, States
<1>63. IsLoop(turns, States, sets, step, first)
  <2>1. \A i \in 1..turns : \A x \in sets[i - 1] : step[i][x] \in sets[i]
    BY <1>61
  <2> HIDE DEF step, sets
  <2> QED BY <1>60, <1>62, <2>1 DEF IsLoop
<1>64. \A i \in 1..turns : \A x \in sets[i - 1] : Turn(x, i) = step[i][x]
  <2> SUFFICES ASSUME NEW i \in 1..turns, NEW x \in sets[i - 1]
               PROVE  Turn(x, i) = step[i][x]
    OBVIOUS
  <2>1. step[i][x] = Step(x, i)
    OBVIOUS
  <2> HIDE DEF step, sets, Step
  <2> QED BY <2>1 DEF Given
<1> HIDE DEF step, sets, Step, Turn
<1>65. PICK f : Eq(f)
  <2>1. PICK f : IsRunOf(f, turns, sets, step, first)
    BY <1>63, LoopRuns
  <2>2. \A i \in 1..turns : step[i][f[i - 1]] = Turn(f[i - 1], i)
    BY <1>60, <1>64, <2>1 DEF IsRunOf
  <2>3. Eq(f)
    <3>1. f = [i \in 0..turns |-> IF i = 0 THEN first ELSE step[i][f[i - 1]]]
      BY <2>1 DEF IsRunOf
    <3>2. \A i \in 0..turns : i # 0 => i \in 1..turns
      BY <1>60
    <3> QED BY <2>2, <3>1, <3>2
  <2> QED BY <2>3
<1>66. Eq(CHOOSE h : Eq(h))
  BY <1>65, Zenon
<1>67. ASSUME NEW g, Eq(g) PROVE g[turns] \in sets[turns]
  <2>1. g[0] = first /\ \A i \in 1..turns : g[i] = Turn(g[i - 1], i)
    BY <1>60, <1>67
  <2>2. \A i \in 1..turns : g[i - 1] \in sets[i - 1] => g[i] = step[i][g[i - 1]]
    BY <1>64, <2>1
  <2> QED BY <1>63, <2>1, <2>2, LoopEnds
<1>68. FromMemory(bytes) \in sets[turns]
  <2>1. FromMemory(bytes) = (CHOOSE h : Eq(h))[turns]
    BY DEF InTurn, turns, first, Step, Turn, FromMemory
  <2> HIDE DEF Eq
  <2> QED BY <1>66, <1>67, <2>1
<1>7. FromMemory(bytes) = Total(width)
  BY <1>1, <1>60, <1>68 DEF sets, turns
<1> QED BY <1>1, <1>7 DEF Total

\* Scalar and back.
LEMMA ScalarBytes ==
  ASSUME NEW n, NEW width, Fits(n, width)
  PROVE  /\ Scalar(n, width) \in Seq(Bytes) /\ Len(Scalar(n, width)) = width
         /\ FromMemory(Swap(Scalar(n, width))) = n
<1> DEFINE bytes == [k \in 1..width |-> ByteOf(n, k)]
<1>1. InMemory(n, width) = bytes /\ FromMemory(bytes) = n
  BY MemoryOf, NumberOf
<1>2. width \in Nat /\ n \in Nat /\ n < 65536
  BY DEF Fits
<1>3. bytes \in Seq(Bytes) /\ Len(bytes) = width
  <2>1. 0 \in Bytes
    BY DEF Bytes
  <2>2. \A k \in 1..width : ByteOf(n, k) \in Bytes
    BY <1>2, <2>1, TwoBytes DEF ByteOf
  <2> QED BY <1>2, <2>2
<1> HIDE DEF bytes
<1>4. \A s \in Seq(Bytes) : Swap(s) \in Seq(Bytes) /\ Len(Swap(s)) = Len(s) /\ Swap(Swap(s)) = s
  <2> SUFFICES ASSUME NEW s \in Seq(Bytes)
               PROVE  Swap(s) \in Seq(Bytes) /\ Len(Swap(s)) = Len(s) /\ Swap(Swap(s)) = s
    OBVIOUS
  <2>1. Swap(s) = [i \in 1..Len(s) |-> s[(Len(s) - i) + 1]]
    BY DEF Swap, Reverse
  <2>2. \A i \in 1..Len(s) : (Len(s) - i) + 1 \in 1..Len(s)
    OBVIOUS
  <2>3. Swap(s) \in Seq(Bytes) /\ Len(Swap(s)) = Len(s)
    BY <2>1, <2>2
  <2>4. Swap(Swap(s)) = [i \in 1..Len(s) |-> Swap(s)[(Len(s) - i) + 1]]
    BY <2>3 DEF Swap, Reverse
  <2>5. \A i \in 1..Len(s) : Swap(s)[(Len(s) - i) + 1] = s[i]
    BY <2>1, <2>2
  <2>6. s = [i \in 1..Len(s) |-> s[i]]
    OBVIOUS
  <2>7. Swap(Swap(s)) = [i \in 1..Len(s) |-> s[i]]
    BY <2>4, <2>5
  <2> QED BY <2>3, <2>6, <2>7
<1>5. Scalar(n, width) = Swap(bytes)
  BY <1>1 DEF Scalar
<1> QED BY <1>1, <1>3, <1>4, <1>5

------------------------------------------------------------------------------
(* What was written is read.                                               *)

\* Bytes before and after bytes.
LEMMA BytesChain ==
  \A x \in Seq(Bytes), y \in Seq(Bytes), z \in Seq(Bytes) :
    x \o y \in Seq(Bytes) /\ (x \o y) \o z = x \o (y \o z)
<1> DEFINE B == Bytes
<1> HIDE DEF B
<1>1. ASSUME NEW x \in Seq(B), NEW y \in Seq(B), NEW z \in Seq(B)
      PROVE  x \o y \in Seq(B) /\ (x \o y) \o z = x \o (y \o z)
  BY <1>1, ConcatProperties, ConcatAssociative
<1> QED BY <1>1 DEF B

\* The buffer ends with these bytes, and a reader that has read all but them.
Ends(buffer, rest) ==
  rest \in Seq(Bytes) /\ \E before \in Seq(Bytes) : buffer = before \o rest
Reading(buffer, rest, value) ==
  [buffer |-> buffer, position |-> Len(buffer) - Len(rest), value |-> value, thrown |-> FALSE]

\* A reader begins with the whole buffer.
LEMMA ReaderBegins ==
  ASSUME NEW buffer \in Seq(Bytes)
  PROVE  Ends(buffer, buffer) /\ Reader(buffer) = Reading(buffer, buffer, 0)
<1> DEFINE none == << >>
<1>1. none \in Seq(Bytes) /\ none \o buffer = buffer /\ Len(buffer) - Len(buffer) = 0
  BY ConcatEmptySeq
<1>2. Ends(buffer, buffer)
  BY <1>1 DEF Ends
<1> QED BY <1>1, <1>2 DEF Reader, Reading

\* The end of a buffer without the bytes it begins with.
LEMMA EndsLater ==
  ASSUME NEW buffer, NEW h \in Seq(Bytes), NEW s \in Seq(Bytes), Ends(buffer, h \o s)
  PROVE  /\ Ends(buffer, s) /\ buffer \in Seq(Bytes)
         /\ Len(buffer) - Len(h \o s) \in Nat
         /\ (Len(buffer) - Len(h \o s)) + Len(h) = Len(buffer) - Len(s)
         /\ Len(buffer) - Len(s) <= Len(buffer)
         /\ h # << >> =>
              SubSeq(buffer, (Len(buffer) - Len(h \o s)) + 1, Len(buffer) - Len(s)) = h
<1> DEFINE B == Bytes
<1>1. PICK before \in Seq(Bytes) : buffer = before \o (h \o s)
  BY DEF Ends
<1>2. before \in Seq(B) /\ h \in Seq(B) /\ s \in Seq(B)
  OBVIOUS
<1>3. Seq(B) = Seq(Bytes)
  OBVIOUS
<1> HIDE DEF B
<1>4. /\ h \o s \in Seq(B) /\ Len(h \o s) = Len(h) + Len(s)
      /\ before \o h \in Seq(B) /\ buffer = (before \o h) \o s
  BY <1>1, <1>2, ConcatProperties, ConcatAssociative
<1>5. buffer \in Seq(B) /\ Len(buffer) = Len(before) + (Len(h) + Len(s))
  BY <1>1, <1>2, <1>4, ConcatProperties
<1>6. Len(before) \in Nat /\ Len(h) \in Nat /\ Len(s) \in Nat
  BY <1>2, LenProperties
<1>7. Ends(buffer, s)
  BY <1>3, <1>4 DEF Ends
<1>8. ASSUME h # << >>
      PROVE  SubSeq(buffer, (Len(buffer) - Len(h \o s)) + 1, Len(buffer) - Len(s)) = h
  <2> DEFINE m == (Len(buffer) - Len(h \o s)) + 1
             n == Len(buffer) - Len(s)
             l == Len(before)
  <2>1. Len(h) >= 1
    BY <1>2, <1>6, <1>8, EmptySeq
  <2>2. m = l + 1 /\ n = l + Len(h) /\ m - l = 1 /\ n - l = Len(h)
    BY <1>4, <1>5, <1>6
  <2>3. m \in l + 1 .. l + Len(h \o s) /\ n \in l + 1 .. l + Len(h \o s)
    BY <1>4, <1>6, <2>1, <2>2
  <2>4. SubSeq(buffer, m, n) = SubSeq(h \o s, m - l, n - l)
    <3> HIDE DEF m, n
    <3> QED BY <1>1, <1>2, <1>4, <2>3, SubSeqOfConcat2
  <2>5. SubSeq(h \o s, 1, Len(h)) = SubSeq(h, 1, Len(h))
    <3>1. 1 \in 1..Len(h) /\ Len(h) \in 1..Len(h)
      BY <1>6, <2>1
    <3> QED BY <1>2, <3>1, SubSeqOfConcat1
  <2>6. SubSeq(h, 1, Len(h)) = h
    BY <1>2, SubSeqFull
  <2> HIDE DEF m, n
  <2>7. SubSeq(buffer, m, n) = h
    BY <2>2, <2>4, <2>5, <2>6
  <2> QED BY <2>7 DEF m, n
<1>9. /\ Len(buffer) - Len(h \o s) \in Nat
      /\ (Len(buffer) - Len(h \o s)) + Len(h) = Len(buffer) - Len(s)
      /\ Len(buffer) - Len(s) <= Len(buffer)
  BY <1>4, <1>5, <1>6
<1> QED BY <1>3, <1>5, <1>7, <1>8, <1>9

\* A scalar.
LEMMA ScalarRead ==
  ASSUME NEW n, NEW width, Fits(n, width), NEW s \in Seq(Bytes), NEW buffer,
         Ends(buffer, Scalar(n, width) \o s), NEW value
  PROVE  /\ Ends(buffer, s)
         /\ Read(Reading(buffer, Scalar(n, width) \o s, value), width) = Reading(buffer, s, n)
<1> DEFINE h == Scalar(n, width)
           r == Reading(buffer, h \o s, value)
           end == Len(buffer) - Len(s)
<1>1. h \in Seq(Bytes) /\ Len(h) = width /\ FromMemory(Swap(h)) = n
  BY ScalarBytes
<1>2. h # << >>
  BY <1>1 DEF Fits
<1> HIDE DEF h
<1>3. /\ Ends(buffer, s) /\ buffer \in Seq(Bytes)
      /\ Len(buffer) - Len(h \o s) \in Nat
      /\ (Len(buffer) - Len(h \o s)) + width = end /\ ~(end > Len(buffer))
      /\ SubSeq(buffer, (Len(buffer) - Len(h \o s)) + 1, end) = h
  <2>1. Ends(buffer, h \o s)
    BY DEF h
  <2>2. Len(buffer) \in Nat /\ Len(s) \in Nat
    BY <1>1, <2>1, EndsLater
  <2> QED BY <1>1, <1>2, <2>1, <2>2, EndsLater
<1> HIDE DEF end
<1>4. /\ r.buffer = buffer /\ r.thrown = FALSE /\ r.position = Len(buffer) - Len(h \o s)
      /\ r.position + width = end
  BY <1>3 DEF Reading
<1>5. Read(r, width) = [r EXCEPT !.value = n, !.position = end]
  <2> HIDE DEF r
  <2> QED BY <1>1, <1>3, <1>4 DEF Read
<1>6. [r EXCEPT !.value = n, !.position = end] = Reading(buffer, s, n)
  <2> DEFINE q == [r EXCEPT !.value = n, !.position = end]
             t == Reading(buffer, s, n)
             F == {"buffer", "position", "value", "thrown"}
  <2>1. r = [f \in F |-> r[f]] /\ t = [f \in F |-> t[f]]
    BY DEF Reading
  <2>2. q = [f \in F |-> q[f]]
    BY <2>1
  <2>3. q.buffer = buffer /\ q.position = end /\ q.value = n /\ q.thrown = FALSE
    BY <1>4, <2>1
  <2>4. t.buffer = buffer /\ t.position = end /\ t.value = n /\ t.thrown = FALSE
    BY DEF Reading, end
  <2> HIDE DEF q, t
  <2>5. \A f \in F : q[f] = t[f]
    BY <2>3, <2>4
  <2> HIDE DEF F
  <2>6. q = t
    BY <2>1, <2>2, <2>5
  <2> QED BY <2>6 DEF q, t
<1> QED BY <1>3, <1>5, <1>6 DEF h

\* What is left of the first n of the writes, chained to b, after each of them.
Tails(writes, n, b, t) ==
  /\ t \in [0..n -> Seq(Bytes)] /\ t[0] = b /\ t[n] = << >>
  /\ \A k \in 1..n : t[k - 1] = writes[k] \o t[k]
Chains(writes, n) == {b \in Seq(Bytes) : \E t : Tails(writes, n, b, t)}

\* One write more.
LEMMA TailsGrow ==
  ASSUME NEW writes \in Seq(Seq(Bytes)), NEW i \in 1..Len(writes),
         NEW b \in Chains(writes, i - 1)
  PROVE  b \o writes[i] \in Chains(writes, i)
<1>1. PICK t : Tails(writes, i - 1, b, t)
  BY DEF Chains
<1> DEFINE w == writes[i]
           none == << >>
           u == [k \in 0..i |-> IF k = i THEN none ELSE t[k] \o w]
<1>2. i \in Nat /\ i >= 1 /\ w \in Seq(Bytes) /\ none \in Seq(Bytes) /\ b \in Seq(Bytes)
  BY DEF Chains
<1>3. \A k \in 1..i : writes[k] \in Seq(Bytes)
  <2>1. Len(writes) \in Nat
    BY LenProperties
  <2>2. \A k \in 1..i : k \in 1..Len(writes)
    BY <2>1
  <2> QED BY <2>2
<1>4. \A k \in 0..(i - 1) : t[k] \in Seq(Bytes) /\ t[k] \o w \in Seq(Bytes)
  BY <1>1, <1>2, ConcatProperties DEF Tails
<1>5. w \o none = w /\ none \o w = w
  BY <1>2, ConcatEmptySeq
<1>6. t[i - 1] = none
  BY <1>1 DEF Tails
<1> HIDE DEF none, w
<1>7. u \in [0..i -> Seq(Bytes)]
  BY <1>2, <1>4
<1>8. u[0] = b \o w /\ u[i] = none
  <2>1. t[0] = b
    BY <1>1 DEF Tails
  <2>2. 0 \in 0..i /\ i \in 0..i /\ i # 0
    BY <1>2
  <2> QED BY <2>1, <2>2
<1>9. ASSUME NEW k \in 1..i PROVE u[k - 1] = writes[k] \o u[k]
  <2>1. u[k - 1] = t[k - 1] \o w
    BY <1>2
  <2>2. CASE k = i
    BY <1>5, <1>6, <1>8, <2>1, <2>2 DEF w
  <2>3. CASE k # i
    <3>1. k \in 1..(i - 1) /\ k \in 0..(i - 1) /\ u[k] = t[k] \o w
      BY <1>2, <2>3
    <3>2. t[k - 1] = writes[k] \o t[k]
      BY <1>1, <3>1 DEF Tails
    <3>3. writes[k] \in Seq(Bytes) /\ t[k] \in Seq(Bytes) /\ w \in Seq(Bytes)
      BY <1>2, <1>3, <1>4, <3>1
    <3>4. (writes[k] \o t[k]) \o w = writes[k] \o (t[k] \o w)
      BY <3>3, BytesChain, Zenon
    <3> QED BY <2>1, <3>1, <3>2, <3>4
  <2> QED BY <2>2, <2>3
<1> HIDE DEF u
<1>10. Tails(writes, i, b \o w, u)
  BY <1>7, <1>8, <1>9 DEF Tails, none
<1>11. b \o w \in Seq(Bytes)
  BY <1>2, ConcatProperties
<1> QED BY <1>10, <1>11 DEF Chains, w

\* A chain is read from its beginning.
LEMMA ChainedTails ==
  ASSUME NEW writes \in Seq(Seq(Bytes))
  PROVE  Chained(writes) \in Seq(Bytes) /\ \E t : Tails(writes, Len(writes), Chained(writes), t)
<1>1. Len(writes) \in Nat
  BY LenProperties
<1>2. << >> \in Chains(writes, 0)
  <2> DEFINE none == << >>
             t == [k \in 0..0 |-> none]
  <2>1. none \in Seq(Bytes)
    OBVIOUS
  <2>2. Tails(writes, 0, none, t)
    BY <2>1 DEF Tails
  <2> HIDE DEF t
  <2> QED BY <2>1, <2>2 DEF Chains
<1> DEFINE turns == Len(writes)
           first == << >>
           States == Seq(Bytes)
           Step(x, i) == x \o writes[i]
           sets == [i \in 0..turns |-> Chains(writes, i)]
           step == [i \in 1..turns |-> [x \in sets[i - 1] |-> Step(x, i)]]
           Turn(x, i) == Given(x, LAMBDA y : Step(y, i))
           Eq(f) == f = [i \in 0..turns |-> IF i = 0 THEN first ELSE Turn(f[i - 1], i)]
<1>60. turns \in Nat
  BY <1>1
<1>61. ASSUME NEW i \in 1..turns, NEW x \in sets[i - 1] PROVE Step(x, i) \in sets[i]
  <2>1. i - 1 \in 0..turns /\ i \in 0..turns /\ i \in 1..Len(writes)
    BY <1>1
  <2>2. x \in Chains(writes, i - 1)
    BY <2>1
  <2>3. x \o writes[i] \in Chains(writes, i)
    BY <2>1, <2>2, TailsGrow
  <2> QED BY <2>1, <2>3
<1>62. first \in sets[0] /\ sets \in [0..turns -> SUBSET States]
  BY <1>1, <1>2 DEF Chains
<1> HIDE DEF turns, first, States
<1>63. IsLoop(turns, States, sets, step, first)
  <2>1. \A i \in 1..turns : \A x \in sets[i - 1] : step[i][x] \in sets[i]
    BY <1>61
  <2> HIDE DEF step, sets
  <2> QED BY <1>60, <1>62, <2>1 DEF IsLoop
<1>64. \A i \in 1..turns : \A x \in sets[i - 1] : Turn(x, i) = step[i][x]
  <2> SUFFICES ASSUME NEW i \in 1..turns, NEW x \in sets[i - 1]
               PROVE  Turn(x, i) = step[i][x]
    OBVIOUS
  <2>1. step[i][x] = Step(x, i)
    OBVIOUS
  <2> HIDE DEF step, sets, Step
  <2> QED BY <2>1 DEF Given
<1> HIDE DEF step, sets, Step, Turn
<1>65. PICK f : Eq(f)
  <2>1. PICK f : IsRunOf(f, turns, sets, step, first)
    BY <1>63, LoopRuns
  <2>2. \A i \in 1..turns : step[i][f[i - 1]] = Turn(f[i - 1], i)
    BY <1>60, <1>64, <2>1 DEF IsRunOf
  <2>3. Eq(f)
    <3>1. f = [i \in 0..turns |-> IF i = 0 THEN first ELSE step[i][f[i - 1]]]
      BY <2>1 DEF IsRunOf
    <3>2. \A i \in 0..turns : i # 0 => i \in 1..turns
      BY <1>60
    <3> QED BY <2>2, <3>1, <3>2
  <2> QED BY <2>3
<1>66. Eq(CHOOSE h : Eq(h))
  BY <1>65, Zenon
<1>67. ASSUME NEW g, Eq(g) PROVE g[turns] \in sets[turns]
  <2>1. g[0] = first /\ \A i \in 1..turns : g[i] = Turn(g[i - 1], i)
    BY <1>60, <1>67
  <2>2. \A i \in 1..turns : g[i - 1] \in sets[i - 1] => g[i] = step[i][g[i - 1]]
    BY <1>64, <2>1
  <2> QED BY <1>63, <2>1, <2>2, LoopEnds
<1>68. Chained(writes) \in sets[turns]
  <2>1. Chained(writes) = (CHOOSE h : Eq(h))[turns]
    BY DEF InTurn, turns, first, Step, Turn, Chained
  <2> HIDE DEF Eq
  <2> QED BY <1>66, <1>67, <2>1
<1>7. Chained(writes) \in Chains(writes, Len(writes))
  BY <1>1, <1>60, <1>68 DEF sets, turns
<1> QED BY <1>7 DEF Chains

\* What a reader has read.
LEMMA ReadingFields ==
  ASSUME NEW buffer, NEW rest, NEW value
  PROVE  /\ Reading(buffer, rest, value).thrown = FALSE
         /\ Reading(buffer, rest, value).value = value
BY DEF Reading

\* A reader with another value.
WithValue(r, value) == [r EXCEPT !.value = value]

\* Another value leaves the rest of the reader.
LEMMA ReadingValue ==
  ASSUME NEW buffer, NEW rest, NEW value, NEW other
  PROVE  WithValue(Reading(buffer, rest, value), other) = Reading(buffer, rest, other)
<1> DEFINE r == Reading(buffer, rest, value)
           q == [r EXCEPT !.value = other]
           t == Reading(buffer, rest, other)
           F == {"buffer", "position", "value", "thrown"}
<1>1. r = [f \in F |-> r[f]] /\ t = [f \in F |-> t[f]]
  BY DEF Reading
<1>2. q = [f \in F |-> q[f]]
  BY <1>1
<1>3. /\ r.thrown = FALSE /\ t.thrown = FALSE /\ t.value = other
      /\ r.buffer = t.buffer /\ r.position = t.position
  BY DEF Reading
<1> HIDE DEF r, t
<1>4. q.thrown = r.thrown /\ q.value = other /\ q.buffer = r.buffer /\ q.position = r.position
  BY <1>1
<1> HIDE DEF q
<1>5. \A f \in F : q[f] = t[f]
  BY <1>3, <1>4
<1> HIDE DEF F
<1>6. q = t
  BY <1>1, <1>2, <1>5
<1> QED BY <1>6 DEF r, t, q, WithValue

\* As many numbers as a packet can count, each of so many bytes.
Numbers(ns, width) ==
  ns \in Seq(Nat) /\ Len(ns) < 65536 /\ \A i \in 1..Len(ns) : Fits(ns[i], width)

\* The elements of a vector of numbers, read in turn.
ReadNumbers(r, width, n) ==
  InTurn(LAMBDA x, i : IF x.thrown THEN x
                       ELSE LET e == Read(x, width) IN [e EXCEPT !.value = Append(x.value, e.value)],
         r, n)

\* A vector of numbers is read back.
LEMMA NumbersRead ==
  ASSUME NEW ns, NEW width, Numbers(ns, width), NEW s \in Seq(Bytes), NEW buffer,
         Ends(buffer, VectorOf(ns, width) \o s), NEW value
  PROVE  /\ Ends(buffer, s)
         /\ ReadVectorOf(Reading(buffer, VectorOf(ns, width) \o s, value), width) = Reading(buffer, s, ns)
<1> DEFINE writes == [i \in DOMAIN ns |-> Scalar(ns[i], width)]
           chain == Chained(writes)
           size == Scalar(Len(ns), 2)
           r == Reading(buffer, VectorOf(ns, width) \o s, value)
<1>1. /\ Len(ns) \in Nat /\ DOMAIN ns = 1..Len(ns) /\ Fits(Len(ns), 2)
      /\ \A i \in 1..Len(ns) : Fits(ns[i], width)
  BY DEF Numbers, Fits
<1>2. writes \in Seq(Seq(Bytes)) /\ Len(writes) = Len(ns)
      /\ \A i \in 1..Len(ns) : writes[i] = Scalar(ns[i], width)
  <2>1. \A i \in 1..Len(ns) : Scalar(ns[i], width) \in Seq(Bytes)
    BY <1>1, ScalarBytes
  <2> QED BY <1>1, <2>1
<1>3. VectorOf(ns, width) = size \o chain
  BY <1>2 DEF VectorOf, Vector
<1> HIDE DEF writes
<1>4. chain \in Seq(Bytes) /\ size \in Seq(Bytes)
  BY <1>1, <1>2, ChainedTails, ScalarBytes
<1>5. PICK t : Tails(writes, Len(ns), chain, t)
  BY <1>2, ChainedTails
<1>6. r = Reading(buffer, size \o (chain \o s), value) /\ Ends(buffer, size \o (chain \o s))
      /\ chain \o s \in Seq(Bytes)
  <2>1. (size \o chain) \o s = size \o (chain \o s) /\ chain \o s \in Seq(Bytes)
    BY <1>4, BytesChain, Zenon
  <2> HIDE DEF size, chain
  <2> QED BY <1>3, <2>1
<1> HIDE DEF chain
<1>7. Ends(buffer, chain \o s) /\ Read(r, 2) = Reading(buffer, chain \o s, Len(ns))
  <2>1. /\ Ends(buffer, chain \o s)
        /\ Read(Reading(buffer, size \o (chain \o s), value), 2)
             = Reading(buffer, chain \o s, Len(ns))
    <3>1. Ends(buffer, Scalar(Len(ns), 2) \o (chain \o s)) /\ chain \o s \in Seq(Bytes)
      BY <1>6 DEF size
    <3> DEFINE n == Len(ns)
               after == chain \o s
    <3>2. Fits(n, 2) /\ Ends(buffer, Scalar(n, 2) \o after) /\ after \in Seq(Bytes)
      BY <1>1, <3>1
    <3> HIDE DEF n, after
    <3>3. /\ Ends(buffer, after)
          /\ Read(Reading(buffer, Scalar(n, 2) \o after, value), 2) = Reading(buffer, after, n)
      BY <3>2, ScalarRead
    <3> QED BY <3>3 DEF n, after, size
  <2> HIDE DEF r, size
  <2> QED BY <1>6, <2>1
<1> DEFINE none == << >>
           begun == Reading(buffer, chain \o s, none)
<1>8. ReadVectorOf(r, width) = ReadNumbers(begun, width, Len(ns))
  <2> DEFINE sized == Read(r, 2)
  <2>1. ReadVectorOf(r, width)
          = IF sized.thrown THEN sized
            ELSE ReadNumbers([sized EXCEPT !.value = << >>], width, sized.value)
    BY DEF ReadVectorOf, ReadVector, ReadNumbers
  <2>2. sized.thrown = FALSE /\ sized.value = Len(ns) /\ WithValue(sized, none) = begun
    <3>1. sized = Reading(buffer, chain \o s, Len(ns))
      BY <1>7
    <3> HIDE DEF none, sized
    <3>2. sized.thrown = FALSE /\ sized.value = Len(ns)
      BY <3>1, ReadingFields
    <3>3. WithValue(sized, none) = begun
      BY <3>1, ReadingValue, Zenon
    <3> QED BY <3>2, <3>3
  <2> HIDE DEF sized, begun
  <2>3. [sized EXCEPT !.value = << >>] = begun
    BY <2>2 DEF WithValue
  <2> QED BY <2>1, <2>2, <2>3
<1> HIDE DEF r, size
<1> DEFINE Here(i) == Reading(buffer, t[i] \o s, SubSeq(ns, 1, i))
           At(i) == {x \in {Here(i)} : Ends(buffer, t[i] \o s)}
<1>9. begun \in At(0)
  <2>1. t[0] = chain
    BY <1>5 DEF Tails
  <2>2. SubSeq(ns, 1, 0) = << >>
    BY SubSeqEmpty
  <2> HIDE DEF begun
  <2>3. begun = Here(0)
    BY <2>1, <2>2 DEF begun
  <2> HIDE DEF Here
  <2> QED BY <1>7, <2>1, <2>3
<1>10. ASSUME NEW i \in 1..Len(ns), NEW x \in At(i - 1)
       PROVE  (IF x.thrown THEN x
               ELSE LET e == Read(x, width) IN [e EXCEPT !.value = Append(x.value, e.value)]) \in At(i)
  <2> DEFINE h == Scalar(ns[i], width)
             e == Read(x, width)
             before == SubSeq(ns, 1, i - 1)
             rest == t[i] \o s
  <2>1. h \in Seq(Bytes) /\ t[i] \in Seq(Bytes) /\ t[i - 1] = h \o t[i]
    <3>1. i \in Nat /\ i \in 0..Len(ns)
      BY <1>1
    <3>2. h \in Seq(Bytes)
      BY <1>1, ScalarBytes
    <3>3. t[i] \in Seq(Bytes) /\ t[i - 1] = writes[i] \o t[i]
      BY <1>5, <3>1 DEF Tails
    <3> QED BY <1>2, <3>2, <3>3
  <2> HIDE DEF h
  <2>2. (h \o t[i]) \o s = h \o rest /\ rest \in Seq(Bytes)
    BY <2>1, BytesChain, Zenon
  <2>3. t[i - 1] \o s = h \o rest
    <3> HIDE DEF rest
    <3> QED BY <2>1, <2>2
  <2> HIDE DEF rest
  <2>4. x = Reading(buffer, h \o rest, before) /\ Ends(buffer, h \o rest)
    <3>1. x = Here(i - 1) /\ Ends(buffer, t[i - 1] \o s)
      OBVIOUS
    <3> QED BY <2>3, <3>1
  <2> HIDE DEF before
  <2>5. x.thrown = FALSE /\ x.value = before
    BY <2>4, ReadingFields
  <2>6. e = Reading(buffer, rest, ns[i]) /\ Ends(buffer, rest)
    BY <1>1, <2>2, <2>4, ScalarRead DEF h
  <2>7. /\ e.value = ns[i]
        /\ WithValue(e, Append(before, ns[i])) = Reading(buffer, rest, Append(before, ns[i]))
    <3> HIDE DEF e
    <3>1. e.value = ns[i]
      <4> DEFINE n == ns[i]
      <4>1. e = Reading(buffer, rest, n)
        BY <2>6
      <4> HIDE DEF n
      <4>2. e.value = n
        BY <4>1, ReadingFields
      <4> QED BY <4>2 DEF n
    <3>2. WithValue(e, Append(before, ns[i])) = Reading(buffer, rest, Append(before, ns[i]))
      BY <2>6, ReadingValue, Zenon
    <3> QED BY <3>1, <3>2
  <2>8. Append(before, ns[i]) = SubSeq(ns, 1, i)
    BY <1>1 DEF before, Numbers
  <2> HIDE DEF e
  <2>9. WithValue(e, Append(x.value, e.value)) = Reading(buffer, rest, SubSeq(ns, 1, i))
    BY <2>5, <2>7, <2>8
  <2>10. [e EXCEPT !.value = Append(x.value, e.value)] \in At(i)
    BY <2>6, <2>9 DEF rest, WithValue
  <2> HIDE DEF At
  <2> QED BY <2>5, <2>10 DEF e
<1> HIDE DEF At, Here, begun, none
<1> DEFINE turns == Len(ns)
           first == begun
           States == UNION {At(i) : i \in 0..Len(ns)}
           Step(x, i) == IF x.thrown THEN x ELSE LET e == Read(x, width) IN [e EXCEPT !.value = Append(x.value, e.value)]
           sets == [i \in 0..turns |-> At(i)]
           step == [i \in 1..turns |-> [x \in sets[i - 1] |-> Step(x, i)]]
           Turn(x, i) == Given(x, LAMBDA y : Step(y, i))
           Eq(f) == f = [i \in 0..turns |-> IF i = 0 THEN first ELSE Turn(f[i - 1], i)]
<1>60. turns \in Nat
  BY <1>1
<1>61. ASSUME NEW i \in 1..turns, NEW x \in sets[i - 1] PROVE Step(x, i) \in sets[i]
  <2>1. i - 1 \in 0..turns /\ i \in 0..turns /\ i \in 1..Len(ns)
    BY <1>1
  <2>2. x \in At(i - 1)
    BY <2>1
  <2>3. Step(x, i) \in At(i)
    BY <1>10, <2>1, <2>2
  <2> HIDE DEF Step, turns
  <2> QED BY <2>1, <2>3
<1>62. first \in sets[0] /\ sets \in [0..turns -> SUBSET States]
  BY <1>1, <1>9
<1> HIDE DEF turns, first, States
<1>63. IsLoop(turns, States, sets, step, first)
  <2>1. \A i \in 1..turns : \A x \in sets[i - 1] : step[i][x] \in sets[i]
    BY <1>61
  <2> HIDE DEF step, sets
  <2> QED BY <1>60, <1>62, <2>1 DEF IsLoop
<1>64. \A i \in 1..turns : \A x \in sets[i - 1] : Turn(x, i) = step[i][x]
  <2> SUFFICES ASSUME NEW i \in 1..turns, NEW x \in sets[i - 1]
               PROVE  Turn(x, i) = step[i][x]
    OBVIOUS
  <2>1. step[i][x] = Step(x, i)
    OBVIOUS
  <2> HIDE DEF step, sets, Step
  <2> QED BY <2>1 DEF Given
<1> HIDE DEF step, sets, Step, Turn
<1>65. PICK f : Eq(f)
  <2>1. PICK f : IsRunOf(f, turns, sets, step, first)
    BY <1>63, LoopRuns
  <2>2. \A i \in 1..turns : step[i][f[i - 1]] = Turn(f[i - 1], i)
    BY <1>60, <1>64, <2>1 DEF IsRunOf
  <2>3. Eq(f)
    <3>1. f = [i \in 0..turns |-> IF i = 0 THEN first ELSE step[i][f[i - 1]]]
      BY <2>1 DEF IsRunOf
    <3>2. \A i \in 0..turns : i # 0 => i \in 1..turns
      BY <1>60
    <3> QED BY <2>2, <3>1, <3>2
  <2> QED BY <2>3
<1>66. Eq(CHOOSE h : Eq(h))
  BY <1>65, Zenon
<1>67. ASSUME NEW g, Eq(g) PROVE g[turns] \in sets[turns]
  <2>1. g[0] = first /\ \A i \in 1..turns : g[i] = Turn(g[i - 1], i)
    BY <1>60, <1>67
  <2>2. \A i \in 1..turns : g[i - 1] \in sets[i - 1] => g[i] = step[i][g[i - 1]]
    BY <1>64, <2>1
  <2> QED BY <1>63, <2>1, <2>2, LoopEnds
<1>68. ReadNumbers(begun, width, Len(ns)) \in sets[turns]
  <2>1. ReadNumbers(begun, width, Len(ns)) = (CHOOSE h : Eq(h))[turns]
    BY DEF InTurn, turns, first, Step, Turn, ReadNumbers
  <2> HIDE DEF Eq
  <2> QED BY <1>66, <1>67, <2>1
<1>11. ReadNumbers(begun, width, Len(ns)) \in At(Len(ns))
  BY <1>1, <1>60, <1>68 DEF sets, turns
<1>12. t[Len(ns)] \o s = s
  <2>1. t[Len(ns)] = << >>
    BY <1>5 DEF Tails
  <2> QED BY <2>1, ConcatEmptySeq
<1>13. SubSeq(ns, 1, Len(ns)) = ns
  BY SubSeqFull DEF Numbers
<1>14. ReadNumbers(begun, width, Len(ns)) = Reading(buffer, s, ns) /\ Ends(buffer, s)
  BY <1>11, <1>12, <1>13 DEF At, Here
<1> QED BY <1>8, <1>14 DEF r

\* The bytes of a vector.
LEMMA VectorBytes ==
  ASSUME NEW ns, NEW width, Numbers(ns, width)
  PROVE  VectorOf(ns, width) \in Seq(Bytes)
<1> DEFINE writes == [i \in DOMAIN ns |-> Scalar(ns[i], width)]
<1>1. /\ Len(ns) \in Nat /\ DOMAIN ns = 1..Len(ns) /\ Fits(Len(ns), 2)
      /\ \A i \in 1..Len(ns) : Fits(ns[i], width)
  BY DEF Numbers, Fits
<1>2. writes \in Seq(Seq(Bytes)) /\ Len(writes) = Len(ns)
  <2>1. \A i \in 1..Len(ns) : Scalar(ns[i], width) \in Seq(Bytes)
    BY <1>1, ScalarBytes
  <2> QED BY <1>1, <2>1
<1>3. VectorOf(ns, width) = Scalar(Len(ns), 2) \o Chained(writes)
  BY <1>2 DEF VectorOf, Vector
<1> HIDE DEF writes
<1>4. Chained(writes) \in Seq(Bytes) /\ Scalar(Len(ns), 2) \in Seq(Bytes)
  BY <1>1, <1>2, ChainedTails, ScalarBytes
<1> QED BY <1>3, <1>4, ConcatProperties

\* Vectors of numbers, which a packet holds as a vector too.
Lists(ns, width) ==
  ns \in Seq(Seq(Nat)) /\ Len(ns) < 65536 /\ \A i \in 1..Len(ns) : Numbers(ns[i], width)
VectorsOf(ns, width) == Vector([i \in DOMAIN ns |-> VectorOf(ns[i], width)])

\* The elements of a vector of vectors, read in turn.
ReadLists(r, width, n) ==
  InTurn(LAMBDA x, i : IF x.thrown THEN x
                       ELSE LET e == ReadVectorOf(x, width) IN [e EXCEPT !.value = Append(x.value, e.value)],
         r, n)

ReadVectorsOf(r, width) == ReadVector(r, LAMBDA x : ReadVectorOf(x, width))

\* A vector of vectors is read back.
LEMMA ListsRead ==
  ASSUME NEW ns, NEW width, Lists(ns, width), NEW s \in Seq(Bytes), NEW buffer,
         Ends(buffer, VectorsOf(ns, width) \o s), NEW value
  PROVE  /\ Ends(buffer, s)
         /\ ReadVectorsOf(Reading(buffer, VectorsOf(ns, width) \o s, value), width) = Reading(buffer, s, ns)
<1> DEFINE writes == [i \in DOMAIN ns |-> VectorOf(ns[i], width)]
           chain == Chained(writes)
           size == Scalar(Len(ns), 2)
           r == Reading(buffer, VectorsOf(ns, width) \o s, value)
<1>1. /\ Len(ns) \in Nat /\ DOMAIN ns = 1..Len(ns) /\ Fits(Len(ns), 2)
      /\ \A i \in 1..Len(ns) : Numbers(ns[i], width)
  BY DEF Lists, Fits
<1>2. writes \in Seq(Seq(Bytes)) /\ Len(writes) = Len(ns)
      /\ \A i \in 1..Len(ns) : writes[i] = VectorOf(ns[i], width)
  <2>1. \A i \in 1..Len(ns) : VectorOf(ns[i], width) \in Seq(Bytes)
    BY <1>1, VectorBytes
  <2> QED BY <1>1, <2>1
<1>3. VectorsOf(ns, width) = size \o chain
  BY <1>2 DEF VectorsOf, Vector
<1> HIDE DEF writes
<1>4. chain \in Seq(Bytes) /\ size \in Seq(Bytes)
  BY <1>1, <1>2, ChainedTails, ScalarBytes
<1>5. PICK t : Tails(writes, Len(ns), chain, t)
  BY <1>2, ChainedTails
<1>6. r = Reading(buffer, size \o (chain \o s), value) /\ Ends(buffer, size \o (chain \o s))
      /\ chain \o s \in Seq(Bytes)
  <2>1. (size \o chain) \o s = size \o (chain \o s) /\ chain \o s \in Seq(Bytes)
    BY <1>4, BytesChain, Zenon
  <2> HIDE DEF size, chain
  <2> QED BY <1>3, <2>1
<1> HIDE DEF chain
<1>7. Ends(buffer, chain \o s) /\ Read(r, 2) = Reading(buffer, chain \o s, Len(ns))
  <2>1. /\ Ends(buffer, chain \o s)
        /\ Read(Reading(buffer, size \o (chain \o s), value), 2)
             = Reading(buffer, chain \o s, Len(ns))
    <3>1. Ends(buffer, Scalar(Len(ns), 2) \o (chain \o s)) /\ chain \o s \in Seq(Bytes)
      BY <1>6 DEF size
    <3> DEFINE n == Len(ns)
               after == chain \o s
    <3>2. Fits(n, 2) /\ Ends(buffer, Scalar(n, 2) \o after) /\ after \in Seq(Bytes)
      BY <1>1, <3>1
    <3> HIDE DEF n, after
    <3>3. /\ Ends(buffer, after)
          /\ Read(Reading(buffer, Scalar(n, 2) \o after, value), 2) = Reading(buffer, after, n)
      BY <3>2, ScalarRead
    <3> QED BY <3>3 DEF n, after, size
  <2> HIDE DEF r, size
  <2> QED BY <1>6, <2>1
<1> DEFINE none == << >>
           begun == Reading(buffer, chain \o s, none)
<1>8. ReadVectorsOf(r, width) = ReadLists(begun, width, Len(ns))
  <2> DEFINE sized == Read(r, 2)
  <2>1. ReadVectorsOf(r, width)
          = IF sized.thrown THEN sized
            ELSE ReadLists([sized EXCEPT !.value = << >>], width, sized.value)
    BY DEF ReadVectorsOf, ReadVector, ReadLists
  <2>2. sized.thrown = FALSE /\ sized.value = Len(ns) /\ WithValue(sized, none) = begun
    <3>1. sized = Reading(buffer, chain \o s, Len(ns))
      BY <1>7
    <3> HIDE DEF none, sized
    <3>2. sized.thrown = FALSE /\ sized.value = Len(ns)
      BY <3>1, ReadingFields
    <3>3. WithValue(sized, none) = begun
      BY <3>1, ReadingValue, Zenon
    <3> QED BY <3>2, <3>3
  <2> HIDE DEF sized, begun
  <2>3. [sized EXCEPT !.value = << >>] = begun
    BY <2>2 DEF WithValue
  <2> QED BY <2>1, <2>2, <2>3
<1> HIDE DEF r, size
<1> DEFINE Here(i) == Reading(buffer, t[i] \o s, SubSeq(ns, 1, i))
           At(i) == {x \in {Here(i)} : Ends(buffer, t[i] \o s)}
<1>9. begun \in At(0)
  <2>1. t[0] = chain
    BY <1>5 DEF Tails
  <2>2. SubSeq(ns, 1, 0) = << >>
    BY SubSeqEmpty
  <2> HIDE DEF begun
  <2>3. begun = Here(0)
    BY <2>1, <2>2 DEF begun
  <2> HIDE DEF Here
  <2> QED BY <1>7, <2>1, <2>3
<1>10. ASSUME NEW i \in 1..Len(ns), NEW x \in At(i - 1)
       PROVE  (IF x.thrown THEN x
               ELSE LET e == ReadVectorOf(x, width) IN [e EXCEPT !.value = Append(x.value, e.value)]) \in At(i)
  <2> DEFINE h == VectorOf(ns[i], width)
             e == ReadVectorOf(x, width)
             before == SubSeq(ns, 1, i - 1)
             rest == t[i] \o s
  <2>1. h \in Seq(Bytes) /\ t[i] \in Seq(Bytes) /\ t[i - 1] = h \o t[i]
    <3>1. i \in Nat /\ i \in 0..Len(ns)
      BY <1>1
    <3>2. h \in Seq(Bytes)
      BY <1>1, VectorBytes
    <3>3. t[i] \in Seq(Bytes) /\ t[i - 1] = writes[i] \o t[i]
      BY <1>5, <3>1 DEF Tails
    <3> QED BY <1>2, <3>2, <3>3
  <2> HIDE DEF h
  <2>2. (h \o t[i]) \o s = h \o rest /\ rest \in Seq(Bytes)
    BY <2>1, BytesChain, Zenon
  <2>3. t[i - 1] \o s = h \o rest
    <3> HIDE DEF rest
    <3> QED BY <2>1, <2>2
  <2> HIDE DEF rest
  <2>4. x = Reading(buffer, h \o rest, before) /\ Ends(buffer, h \o rest)
    <3>1. x = Here(i - 1) /\ Ends(buffer, t[i - 1] \o s)
      OBVIOUS
    <3> QED BY <2>3, <3>1
  <2> HIDE DEF before
  <2>5. x.thrown = FALSE /\ x.value = before
    BY <2>4, ReadingFields
  <2>6. e = Reading(buffer, rest, ns[i]) /\ Ends(buffer, rest)
    BY <1>1, <2>2, <2>4, NumbersRead DEF h
  <2>7. /\ e.value = ns[i]
        /\ WithValue(e, Append(before, ns[i])) = Reading(buffer, rest, Append(before, ns[i]))
    <3> HIDE DEF e
    <3>1. e.value = ns[i]
      <4> DEFINE n == ns[i]
      <4>1. e = Reading(buffer, rest, n)
        BY <2>6
      <4> HIDE DEF n
      <4>2. e.value = n
        BY <4>1, ReadingFields
      <4> QED BY <4>2 DEF n
    <3>2. WithValue(e, Append(before, ns[i])) = Reading(buffer, rest, Append(before, ns[i]))
      BY <2>6, ReadingValue, Zenon
    <3> QED BY <3>1, <3>2
  <2>8. Append(before, ns[i]) = SubSeq(ns, 1, i)
    BY <1>1 DEF before, Lists
  <2> HIDE DEF e
  <2>9. WithValue(e, Append(x.value, e.value)) = Reading(buffer, rest, SubSeq(ns, 1, i))
    BY <2>5, <2>7, <2>8
  <2>10. [e EXCEPT !.value = Append(x.value, e.value)] \in At(i)
    BY <2>6, <2>9 DEF rest, WithValue
  <2> HIDE DEF At
  <2> QED BY <2>5, <2>10 DEF e
<1> HIDE DEF At, Here, begun, none
<1> DEFINE turns == Len(ns)
           first == begun
           States == UNION {At(i) : i \in 0..Len(ns)}
           Step(x, i) == IF x.thrown THEN x ELSE LET e == ReadVectorOf(x, width) IN [e EXCEPT !.value = Append(x.value, e.value)]
           sets == [i \in 0..turns |-> At(i)]
           step == [i \in 1..turns |-> [x \in sets[i - 1] |-> Step(x, i)]]
           Turn(x, i) == Given(x, LAMBDA y : Step(y, i))
           Eq(f) == f = [i \in 0..turns |-> IF i = 0 THEN first ELSE Turn(f[i - 1], i)]
<1>60. turns \in Nat
  BY <1>1
<1>61. ASSUME NEW i \in 1..turns, NEW x \in sets[i - 1] PROVE Step(x, i) \in sets[i]
  <2>1. i - 1 \in 0..turns /\ i \in 0..turns /\ i \in 1..Len(ns)
    BY <1>1
  <2>2. x \in At(i - 1)
    BY <2>1
  <2>3. Step(x, i) \in At(i)
    BY <1>10, <2>1, <2>2
  <2> HIDE DEF Step, turns
  <2> QED BY <2>1, <2>3
<1>62. first \in sets[0] /\ sets \in [0..turns -> SUBSET States]
  BY <1>1, <1>9
<1> HIDE DEF turns, first, States
<1>63. IsLoop(turns, States, sets, step, first)
  <2>1. \A i \in 1..turns : \A x \in sets[i - 1] : step[i][x] \in sets[i]
    BY <1>61
  <2> HIDE DEF step, sets
  <2> QED BY <1>60, <1>62, <2>1 DEF IsLoop
<1>64. \A i \in 1..turns : \A x \in sets[i - 1] : Turn(x, i) = step[i][x]
  <2> SUFFICES ASSUME NEW i \in 1..turns, NEW x \in sets[i - 1]
               PROVE  Turn(x, i) = step[i][x]
    OBVIOUS
  <2>1. step[i][x] = Step(x, i)
    OBVIOUS
  <2> HIDE DEF step, sets, Step
  <2> QED BY <2>1 DEF Given
<1> HIDE DEF step, sets, Step, Turn
<1>65. PICK f : Eq(f)
  <2>1. PICK f : IsRunOf(f, turns, sets, step, first)
    BY <1>63, LoopRuns
  <2>2. \A i \in 1..turns : step[i][f[i - 1]] = Turn(f[i - 1], i)
    BY <1>60, <1>64, <2>1 DEF IsRunOf
  <2>3. Eq(f)
    <3>1. f = [i \in 0..turns |-> IF i = 0 THEN first ELSE step[i][f[i - 1]]]
      BY <2>1 DEF IsRunOf
    <3>2. \A i \in 0..turns : i # 0 => i \in 1..turns
      BY <1>60
    <3> QED BY <2>2, <3>1, <3>2
  <2> QED BY <2>3
<1>66. Eq(CHOOSE h : Eq(h))
  BY <1>65, Zenon
<1>67. ASSUME NEW g, Eq(g) PROVE g[turns] \in sets[turns]
  <2>1. g[0] = first /\ \A i \in 1..turns : g[i] = Turn(g[i - 1], i)
    BY <1>60, <1>67
  <2>2. \A i \in 1..turns : g[i - 1] \in sets[i - 1] => g[i] = step[i][g[i - 1]]
    BY <1>64, <2>1
  <2> QED BY <1>63, <2>1, <2>2, LoopEnds
<1>68. ReadLists(begun, width, Len(ns)) \in sets[turns]
  <2>1. ReadLists(begun, width, Len(ns)) = (CHOOSE h : Eq(h))[turns]
    BY DEF InTurn, turns, first, Step, Turn, ReadLists
  <2> HIDE DEF Eq
  <2> QED BY <1>66, <1>67, <2>1
<1>11. ReadLists(begun, width, Len(ns)) \in At(Len(ns))
  BY <1>1, <1>60, <1>68 DEF sets, turns
<1>12. t[Len(ns)] \o s = s
  <2>1. t[Len(ns)] = << >>
    BY <1>5 DEF Tails
  <2> QED BY <2>1, ConcatEmptySeq
<1>13. SubSeq(ns, 1, Len(ns)) = ns
  BY SubSeqFull DEF Lists
<1>14. ReadLists(begun, width, Len(ns)) = Reading(buffer, s, ns) /\ Ends(buffer, s)
  BY <1>11, <1>12, <1>13 DEF At, Here
<1> QED BY <1>8, <1>14 DEF r

\* The bytes of a vector of vectors.
LEMMA ListsBytes ==
  ASSUME NEW ns, NEW width, Lists(ns, width)
  PROVE  VectorsOf(ns, width) \in Seq(Bytes)
<1> DEFINE writes == [i \in DOMAIN ns |-> VectorOf(ns[i], width)]
<1>1. /\ Len(ns) \in Nat /\ DOMAIN ns = 1..Len(ns) /\ Fits(Len(ns), 2)
      /\ \A i \in 1..Len(ns) : Numbers(ns[i], width)
  BY DEF Lists, Fits
<1>2. writes \in Seq(Seq(Bytes)) /\ Len(writes) = Len(ns)
  <2>1. \A i \in 1..Len(ns) : VectorOf(ns[i], width) \in Seq(Bytes)
    BY <1>1, VectorBytes
  <2> QED BY <1>1, <2>1
<1>3. VectorsOf(ns, width) = Scalar(Len(ns), 2) \o Chained(writes)
  BY <1>2 DEF VectorsOf, Vector
<1> HIDE DEF writes
<1>4. Chained(writes) \in Seq(Bytes) /\ Scalar(Len(ns), 2) \in Seq(Bytes)
  BY <1>1, <1>2, ChainedTails, ScalarBytes
<1> QED BY <1>3, <1>4, ConcatProperties

\* What is written is these fields and nothing else.
IsThree(written, a, b, c) ==
  /\ written \in Seq(Bytes)
  /\ \E s1 \in Seq(Bytes), s2 \in Seq(Bytes), none \in Seq(Bytes) :
       written = a \o s1 /\ s1 = b \o s2 /\ s2 = c \o none
IsFour(written, a, b, c, d) ==
  /\ written \in Seq(Bytes)
  /\ \E s1 \in Seq(Bytes), s2 \in Seq(Bytes), s3 \in Seq(Bytes), none \in Seq(Bytes) :
       written = a \o s1 /\ s1 = b \o s2 /\ s2 = c \o s3 /\ s3 = d \o none

\* The places of three fields in what is written, one after the other.
LEMMA ThreeFields ==
  ASSUME NEW a \in Seq(Bytes), NEW b \in Seq(Bytes), NEW c \in Seq(Bytes)
  PROVE  IsThree((a \o b) \o c, a, b, c)
<1> DEFINE B == Bytes
           none == << >>
           s2 == c \o none
           s1 == b \o s2
           ab == a \o b
           written == ab \o c
<1>1. a \in Seq(B) /\ b \in Seq(B) /\ c \in Seq(B) /\ none \in Seq(B)
  OBVIOUS
<1> HIDE DEF B
<1>2. s2 = c
  BY <1>1, ConcatEmptySeq
<1> HIDE DEF none
<1>3. /\ s2 \in Seq(B) /\ s1 \in Seq(B) /\ ab \in Seq(B) /\ written \in Seq(B)
  <2>1. s2 \in Seq(B) /\ ab \in Seq(B)
    BY <1>1, <1>2, ConcatProperties
  <2> HIDE DEF s2, ab
  <2> QED BY <1>1, <2>1, ConcatProperties
<1>4. written = a \o s1
  <2>1. (a \o b) \o c = a \o (b \o c)
    BY <1>1, ConcatAssociative
  <2> HIDE DEF s2
  <2> QED BY <1>2, <2>1
<1>5. ab = a \o b /\ written = ab \o c /\ s1 = b \o s2 /\ s2 = c \o none
  OBVIOUS
<1> HIDE DEF s1, s2, ab, written
<1>6. IsThree(written, a, b, c)
  BY <1>1, <1>3, <1>4, <1>5 DEF IsThree, B
<1> QED BY <1>5, <1>6

\* Bytes one after the other.
Joins(x, y, z) == (x \o y) \o z = x \o (y \o z)

\* Joining three is associative.
LEMMA BytesJoin ==
  \A x \in Seq(Bytes), y \in Seq(Bytes), z \in Seq(Bytes) : Joins(x, y, z)
BY BytesChain, Zenon DEF Joins

\* And of four.
LEMMA FourFields ==
  ASSUME NEW a \in Seq(Bytes), NEW b \in Seq(Bytes), NEW c \in Seq(Bytes), NEW d \in Seq(Bytes)
  PROVE  IsFour(((a \o b) \o c) \o d, a, b, c, d)
<1> DEFINE B == Bytes
           none == << >>
           s3 == d \o none
           s2 == c \o s3
           s1 == b \o s2
           ab == a \o b
           abc == ab \o c
           written == abc \o d
<1>1. a \in Seq(B) /\ b \in Seq(B) /\ c \in Seq(B) /\ d \in Seq(B) /\ none \in Seq(B)
  OBVIOUS
<1> HIDE DEF B
<1>2. s3 = d
  BY <1>1, ConcatEmptySeq
<1>3. s3 = d \o none /\ s2 = c \o s3 /\ s1 = b \o s2 /\ ab = a \o b /\ abc = ab \o c /\ written = abc \o d
  OBVIOUS
<1> HIDE DEF none, s3, s2, s1, ab, abc, written
<1>4. /\ s3 \in Seq(B) /\ s2 \in Seq(B) /\ s1 \in Seq(B)
      /\ ab \in Seq(B) /\ abc \in Seq(B) /\ written \in Seq(B)
  BY <1>1, <1>2, <1>3, ConcatProperties
<1>5. written = ab \o s2
  <2>1. (ab \o c) \o s3 = ab \o (c \o s3)
    <3>1. ab \in Seq(Bytes) /\ c \in Seq(Bytes) /\ s3 \in Seq(Bytes)
      BY <1>4 DEF B
    <3>2. Joins(ab, c, s3)
      BY <3>1, BytesJoin
    <3> QED BY <3>2 DEF Joins
  <2> QED BY <1>2, <1>3, <2>1
<1>6. ab \o s2 = a \o s1
  <2>1. (a \o b) \o s2 = a \o (b \o s2)
    <3>1. a \in Seq(Bytes) /\ b \in Seq(Bytes) /\ s2 \in Seq(Bytes)
      BY <1>4 DEF B
    <3>2. Joins(a, b, s2)
      BY <3>1, BytesJoin
    <3> QED BY <3>2 DEF Joins
  <2> QED BY <1>3, <2>1
<1>7. IsFour(written, a, b, c, d)
  <2>1. /\ s3 \in Seq(Bytes) /\ s2 \in Seq(Bytes) /\ s1 \in Seq(Bytes)
        /\ none \in Seq(Bytes) /\ written \in Seq(Bytes)
    BY <1>1, <1>4 DEF B
  <2>2. written = a \o s1 /\ s1 = b \o s2 /\ s2 = c \o s3 /\ s3 = d \o none
    BY <1>3, <1>5, <1>6
  <2> QED BY <2>1, <2>2 DEF IsFour
<1> QED BY <1>3, <1>7

\* A reader that has read all but the rest of the buffer, the last time a value.
Stands(r, buffer, rest, value) == Ends(buffer, rest) /\ r = Reading(buffer, rest, value)

\* It has not thrown.
LEMMA StandsFields ==
  ASSUME NEW r, NEW buffer, NEW rest, NEW value, Stands(r, buffer, rest, value)
  PROVE  r.thrown = FALSE /\ r.value = value
BY ReadingFields DEF Stands

\* The next scalar.
LEMMA ScalarNext ==
  ASSUME NEW r, NEW buffer, NEW w, NEW s \in Seq(Bytes), NEW value,
         NEW n, NEW width, Fits(n, width),
         Stands(r, buffer, w, value), w = Scalar(n, width) \o s
  PROVE  Stands(Read(r, width), buffer, s, n)
BY ScalarRead DEF Stands

\* The next vector of numbers.
LEMMA NumbersNext ==
  ASSUME NEW r, NEW buffer, NEW w, NEW s \in Seq(Bytes), NEW value,
         NEW ns, NEW width, Numbers(ns, width),
         Stands(r, buffer, w, value), w = VectorOf(ns, width) \o s
  PROVE  Stands(ReadVectorOf(r, width), buffer, s, ns)
BY NumbersRead DEF Stands

\* The next vector of vectors.
LEMMA ListsNext ==
  ASSUME NEW r, NEW buffer, NEW w, NEW s \in Seq(Bytes), NEW value,
         NEW ns, NEW width, Lists(ns, width),
         Stands(r, buffer, w, value), w = VectorsOf(ns, width) \o s
  PROVE  Stands(ReadVectorsOf(r, width), buffer, s, ns)
BY ListsRead DEF Stands

------------------------------------------------------------------------------
(* The packets of a lobby.                                                 *)

\* What a packet may hold of an entity.
Words == {n \in Nat : n < 65536}
Portable ==
  {e \in [id : Words, bits : Seq(Nat), content : Seq(Nat)] :
     Numbers(e.bits, WordBytes) /\ Numbers(e.content, 1)}
Populations == {s \in Seq(Portable) : Len(s) < 65536}
GameStates == {GameMenu, GameWaiting, GameLobby, GameRunning, GameOver}
Statuses == {Refused, Accepted}

Packets ==
  {Spawn(e) : e \in Portable}
    \cup {WorldInit(state, es) : state \in GameStates, es \in Populations}
    \cup {Destroy(id) : id \in Words}
    \cup {JoinAck(id, state, status) : id \in Words, state \in GameStates, status \in Statuses}
    \cup {UpdateGameState(state) : state \in GameStates}

\* A word takes what a packet counts, an int and a byte take the small numbers.
LEMMA WidthsFit ==
  /\ WordBytes \in Nat /\ IntBytes \in Nat
  /\ \A n \in Words : Fits(n, WordBytes)
  /\ Fits(NoPoints, IntBytes) /\ Fits(Room, 2) /\ \A status \in Statuses : Fits(status, 1)
  /\ \A state \in GameStates : Fits(state, 1) /\ state \in Words
<1>1. WordBytes \in Nat /\ WordBytes >= 2
  BY WordBytesAssumption
<1>2. IntBytes \in Nat /\ IntBytes >= 1
  BY <1>1 DEF IntBytes
<1>3. \A state \in GameStates : state \in Nat /\ state < 256
  BY DEF GameStates, GameMenu, GameWaiting, GameLobby, GameRunning, GameOver
<1> QED BY <1>1, <1>2, <1>3 DEF Fits, Words, NoPoints, Room, Accepted, Refused, Statuses

\* UPDATE_GAME_STATE
LEMMA UpdateGameStateParsed ==
  ASSUME NEW state \in GameStates
  PROVE  LET payload == Scalar(state, WordBytes)
         IN  /\ payload \in Seq(Bytes)
             /\ ParsedUpdateGameState(Reader(payload)) = {UpdateGameState(state)}
<1> DEFINE payload == Scalar(state, WordBytes)
           none == << >>
<1>1. Fits(state, WordBytes)
  BY WidthsFit
<1>2. payload \in Seq(Bytes) /\ none \in Seq(Bytes) /\ payload \o none = payload
  BY <1>1, ScalarBytes, ConcatEmptySeq
<1>3. /\ Ends(payload, Scalar(state, WordBytes) \o none)
      /\ Reader(payload) = Reading(payload, Scalar(state, WordBytes) \o none, 0)
  BY <1>2, ReaderBegins
<1> HIDE DEF none, payload
<1> DEFINE read == Read(Reader(payload), WordBytes)
<1>4. read = Reading(payload, none, state)
  BY <1>1, <1>2, <1>3, ScalarRead
<1> HIDE DEF read
<1>5. read.thrown = FALSE /\ read.value = state
  BY <1>4, ReadingFields
<1>6. ParsedUpdateGameState(Reader(payload)) = {UpdateGameState(state)}
  BY <1>5 DEF ParsedUpdateGameState, Found, read
<1> QED BY <1>2, <1>6 DEF payload

\* DESTROY
LEMMA DestroyParsed ==
  ASSUME NEW id \in Words
  PROVE  LET payload == Scalar(id, WordBytes) \o Scalar(NoPoints, IntBytes)
         IN  payload \in Seq(Bytes) /\ ParsedDestroy(Reader(payload)) = {Destroy(id)}
<1> DEFINE payload == Scalar(id, WordBytes) \o Scalar(NoPoints, IntBytes)
           points == Scalar(NoPoints, IntBytes) \o << >>
<1>1. Fits(id, WordBytes) /\ Fits(NoPoints, IntBytes)
  BY WidthsFit
<1>2. /\ points \in Seq(Bytes) /\ << >> \in Seq(Bytes)
      /\ payload = Scalar(id, WordBytes) \o points /\ payload \in Seq(Bytes)
  <2> DEFINE none == << >>
             a == Scalar(id, WordBytes)
             b == Scalar(NoPoints, IntBytes)
  <2>1. a \in Seq(Bytes) /\ b \in Seq(Bytes) /\ none \in Seq(Bytes) /\ b \o none = b
    BY <1>1, ScalarBytes, ConcatEmptySeq
  <2> HIDE DEF a, b, none
  <2>2. a \o b \in Seq(Bytes)
    BY <2>1, BytesChain, Zenon
  <2> QED BY <2>1, <2>2 DEF a, b, none
<1>3. /\ Ends(payload, Scalar(id, WordBytes) \o points)
      /\ Reader(payload) = Reading(payload, Scalar(id, WordBytes) \o points, 0)
  BY <1>2, ReaderBegins
<1> HIDE DEF payload
<1> DEFINE first == Read(Reader(payload), WordBytes)
<1>4. Ends(payload, points) /\ first = Reading(payload, points, id)
  <2> HIDE DEF points
  <2> QED BY <1>1, <1>2, <1>3, ScalarRead
<1> HIDE DEF first
<1> DEFINE none == << >>
<1> DEFINE last == Read(first, IntBytes)
<1>5. last = Reading(payload, none, NoPoints)
  <2>1. points = Scalar(NoPoints, IntBytes) \o none /\ none \in Seq(Bytes)
    OBVIOUS
  <2> HIDE DEF points, none
  <2> QED BY <1>1, <1>4, <2>1, ScalarRead
<1> HIDE DEF points, none, last
<1>6. first.value = id /\ last.thrown = FALSE
  <2>1. first.value = id
    BY <1>4, ReadingFields
  <2>2. last.thrown = FALSE
    BY <1>5, ReadingFields
  <2> QED BY <2>1, <2>2
<1>7. ParsedDestroy(Reader(payload)) = {Destroy(id)}
  BY <1>6 DEF ParsedDestroy, Found, first, last
<1> QED BY <1>2, <1>7 DEF payload

\* JOIN_ACK
LEMMA JoinAckParsed ==
  ASSUME NEW id \in Words, NEW state \in GameStates, NEW status \in Statuses
  PROVE  LET payload == Scalar(id, WordBytes) \o Scalar(Room, 2) \o Scalar(state, WordBytes) \o Scalar(status, 1)
         IN  payload \in Seq(Bytes) /\ ParsedJoinAck(Reader(payload)) = {JoinAck(id, state, status)}
<1> DEFINE h1 == Scalar(id, WordBytes)
           h2 == Scalar(Room, 2)
           h3 == Scalar(state, WordBytes)
           h4 == Scalar(status, 1)
<1>1. Fits(id, WordBytes) /\ Fits(Room, 2) /\ Fits(state, WordBytes) /\ Fits(status, 1)
  BY WidthsFit
<1>2. h1 \in Seq(Bytes) /\ h2 \in Seq(Bytes) /\ h3 \in Seq(Bytes) /\ h4 \in Seq(Bytes)
  BY <1>1, ScalarBytes
<1> HIDE DEF h1, h2, h3, h4
<1> DEFINE payload == ((h1 \o h2) \o h3) \o h4
<1>3. IsFour(payload, h1, h2, h3, h4)
  BY <1>2, FourFields, Zenon
<1> HIDE DEF payload
<1>4. PICK s1 \in Seq(Bytes), s2 \in Seq(Bytes), s3 \in Seq(Bytes), none \in Seq(Bytes) :
        payload = h1 \o s1 /\ s1 = h2 \o s2 /\ s2 = h3 \o s3 /\ s3 = h4 \o none
  BY <1>3 DEF IsFour
<1>5. payload \in Seq(Bytes) /\ Stands(Reader(payload), payload, payload, 0)
  BY <1>3, ReaderBegins DEF IsFour, Stands
<1> DEFINE r1 == Read(Reader(payload), WordBytes)
<1>6. Stands(r1, payload, s1, id)
  <2>1. payload = Scalar(id, WordBytes) \o s1
    BY <1>4 DEF h1
  <2> QED BY <1>1, <2>1, <1>5, ScalarNext
<1> HIDE DEF r1
<1> DEFINE r2 == Read(r1, 2)
<1>7. Stands(r2, payload, s2, Room)
  <2>1. s1 = Scalar(Room, 2) \o s2
    BY <1>4 DEF h2
  <2> QED BY <1>1, <2>1, <1>6, ScalarNext
<1> HIDE DEF r2
<1> DEFINE r3 == Read(r2, WordBytes)
<1>8. Stands(r3, payload, s3, state)
  <2>1. s2 = Scalar(state, WordBytes) \o s3
    BY <1>4 DEF h3
  <2> QED BY <1>1, <2>1, <1>7, ScalarNext
<1> HIDE DEF r3
<1> DEFINE r4 == Read(r3, 1)
<1>9. Stands(r4, payload, none, status)
  <2>1. s3 = Scalar(status, 1) \o none
    BY <1>4 DEF h4
  <2> QED BY <1>1, <2>1, <1>8, ScalarNext
<1> HIDE DEF r4
<1>10. r1.value = id /\ r2.value = Room /\ r3.value = state /\ r4.value = status /\ r4.thrown = FALSE
  <2>1. r1.value = id
    BY <1>6, StandsFields
  <2>2. r2.value = Room
    BY <1>7, StandsFields
  <2>3. r3.value = state
    BY <1>8, StandsFields
  <2>4. r4.value = status /\ r4.thrown = FALSE
    BY <1>9, StandsFields
  <2> QED BY <2>1, <2>2, <2>3, <2>4
<1>11. ParsedJoinAck(Reader(payload)) = {JoinAck(id, state, status)}
  BY <1>10 DEF ParsedJoinAck, Found, r1, r2, r3, r4
<1> QED BY <1>5, <1>11 DEF payload, h1, h2, h3, h4

\* SPAWN
LEMMA SpawnParsed ==
  ASSUME NEW e \in Portable
  PROVE  LET payload == Scalar(e.id, WordBytes) \o VectorOf(e.bits, WordBytes) \o VectorOf(e.content, 1)
         IN  payload \in Seq(Bytes) /\ ParsedSpawn(Reader(payload)) = {Spawn(e)}
<1> DEFINE h1 == Scalar(e.id, WordBytes)
           h2 == VectorOf(e.bits, WordBytes)
           h3 == VectorOf(e.content, 1)
<1>1. Fits(e.id, WordBytes) /\ Numbers(e.bits, WordBytes) /\ Numbers(e.content, 1)
  BY WidthsFit DEF Portable
<1>2. h1 \in Seq(Bytes) /\ h2 \in Seq(Bytes) /\ h3 \in Seq(Bytes)
  BY <1>1, ScalarBytes, VectorBytes
<1> HIDE DEF h1, h2, h3
<1> DEFINE payload == (h1 \o h2) \o h3
<1>3. IsThree(payload, h1, h2, h3)
  BY <1>2, ThreeFields, Zenon
<1> HIDE DEF payload
<1>4. PICK s1 \in Seq(Bytes), s2 \in Seq(Bytes), none \in Seq(Bytes) :
        payload = h1 \o s1 /\ s1 = h2 \o s2 /\ s2 = h3 \o none
  BY <1>3 DEF IsThree
<1>5. payload \in Seq(Bytes) /\ Stands(Reader(payload), payload, payload, 0)
  BY <1>3, ReaderBegins DEF IsThree, Stands
<1> DEFINE r1 == Read(Reader(payload), WordBytes)
<1>6. Stands(r1, payload, s1, e.id)
  <2>1. payload = Scalar(e.id, WordBytes) \o s1
    BY <1>4 DEF h1
  <2> QED BY <1>1, <2>1, <1>5, ScalarNext
<1> HIDE DEF r1
<1> DEFINE r2 == ReadVectorOf(r1, WordBytes)
<1>7. Stands(r2, payload, s2, e.bits)
  <2>1. s1 = VectorOf(e.bits, WordBytes) \o s2
    BY <1>4 DEF h2
  <2> QED BY <1>1, <2>1, <1>6, NumbersNext
<1> HIDE DEF r2
<1> DEFINE r3 == ReadVectorOf(r2, 1)
<1>8. Stands(r3, payload, none, e.content)
  <2>1. s2 = VectorOf(e.content, 1) \o none
    BY <1>4 DEF h3
  <2> QED BY <1>1, <2>1, <1>7, NumbersNext
<1> HIDE DEF r3
<1>9. r1.value = e.id /\ r2.value = e.bits /\ r3.value = e.content /\ r3.thrown = FALSE
  <2>1. r1.value = e.id
    BY <1>6, StandsFields
  <2>2. r2.value = e.bits
    BY <1>7, StandsFields
  <2>3. r3.value = e.content /\ r3.thrown = FALSE
    BY <1>8, StandsFields
  <2> QED BY <2>1, <2>2, <2>3
<1>10. [id |-> e.id, bits |-> e.bits, content |-> e.content] = e
  BY DEF Portable
<1>11. ParsedSpawn(Reader(payload)) = {Spawn(e)}
  BY <1>9, <1>10 DEF ParsedSpawn, Found, r1, r2, r3
<1> QED BY <1>5, <1>11 DEF payload, h1, h2, h3

\* WORLD_INIT, as lists of the same length
LEMMA WorldInitLists ==
  ASSUME NEW state \in GameStates, NEW bits, Lists(bits, WordBytes),
         NEW ids, Numbers(ids, WordBytes), NEW contents, Lists(contents, 1)
  PROVE  LET payload == Scalar(state, 1) \o VectorsOf(bits, WordBytes) \o VectorOf(ids, WordBytes) \o VectorsOf(contents, 1)
         IN  payload \in Seq(Bytes) /\ ParsedWorldInit(Reader(payload)) = {WorldInit(state, [i \in DOMAIN bits |-> [id |-> ids[i], bits |-> bits[i], content |-> contents[i]]])}
<1> DEFINE h1 == Scalar(state, 1)
           h2 == VectorsOf(bits, WordBytes)
           h3 == VectorOf(ids, WordBytes)
           h4 == VectorsOf(contents, 1)
<1>1. Fits(state, 1)
  BY WidthsFit
<1>2. h1 \in Seq(Bytes) /\ h2 \in Seq(Bytes) /\ h3 \in Seq(Bytes) /\ h4 \in Seq(Bytes)
  BY <1>1, ListsBytes, ScalarBytes, VectorBytes
<1> HIDE DEF h1, h2, h3, h4
<1> DEFINE payload == ((h1 \o h2) \o h3) \o h4
<1>3. IsFour(payload, h1, h2, h3, h4)
  BY <1>2, FourFields, Zenon
<1> HIDE DEF payload
<1>4. PICK s1 \in Seq(Bytes), s2 \in Seq(Bytes), s3 \in Seq(Bytes), none \in Seq(Bytes) :
        payload = h1 \o s1 /\ s1 = h2 \o s2 /\ s2 = h3 \o s3 /\ s3 = h4 \o none
  BY <1>3 DEF IsFour
<1>5. payload \in Seq(Bytes) /\ Stands(Reader(payload), payload, payload, 0)
  BY <1>3, ReaderBegins DEF IsFour, Stands
<1> DEFINE r1 == Read(Reader(payload), 1)
<1>6. Stands(r1, payload, s1, state)
  <2>1. payload = Scalar(state, 1) \o s1
    BY <1>4 DEF h1
  <2> QED BY <1>1, <2>1, <1>5, ScalarNext
<1> HIDE DEF r1
<1> DEFINE r2 == ReadVectorsOf(r1, WordBytes)
<1>7. Stands(r2, payload, s2, bits)
  <2>1. s1 = VectorsOf(bits, WordBytes) \o s2
    BY <1>4 DEF h2
  <2> QED BY <1>1, <2>1, <1>6, ListsNext
<1> HIDE DEF r2
<1> DEFINE r3 == ReadVectorOf(r2, WordBytes)
<1>8. Stands(r3, payload, s3, ids)
  <2>1. s2 = VectorOf(ids, WordBytes) \o s3
    BY <1>4 DEF h3
  <2> QED BY <1>1, <2>1, <1>7, NumbersNext
<1> HIDE DEF r3
<1> DEFINE r4 == ReadVectorsOf(r3, 1)
<1>9. Stands(r4, payload, none, contents)
  <2>1. s3 = VectorsOf(contents, 1) \o none
    BY <1>4 DEF h4
  <2> QED BY <1>1, <2>1, <1>8, ListsNext
<1> HIDE DEF r4
<1>10. r1.value = state /\ r2.value = bits /\ r3.value = ids /\ r4.value = contents /\ r4.thrown = FALSE
  <2>1. r1.value = state
    BY <1>6, StandsFields
  <2>2. r2.value = bits
    BY <1>7, StandsFields
  <2>3. r3.value = ids
    BY <1>8, StandsFields
  <2>4. r4.value = contents /\ r4.thrown = FALSE
    BY <1>9, StandsFields
  <2> QED BY <2>1, <2>2, <2>3, <2>4
<1>11. ParsedWorldInit(Reader(payload)) = {WorldInit(state, [i \in DOMAIN bits |-> [id |-> ids[i], bits |-> bits[i], content |-> contents[i]]])}
  BY <1>10 DEF ParsedWorldInit, Found, ReadVectorsOf, r1, r2, r3, r4
<1> QED BY <1>5, <1>11 DEF payload, h1, h2, h3, h4

\* WORLD_INIT, as entities
WorldPayload(state, es) ==
  Scalar(state, 1) \o Vector([i \in DOMAIN es |-> VectorOf(es[i].bits, WordBytes)])
    \o VectorOf([i \in DOMAIN es |-> es[i].id], WordBytes)
    \o Vector([i \in DOMAIN es |-> VectorOf(es[i].content, 1)])

\* What is written of a WORLD_INIT.
LEMMA WorldPayloadIs ==
  ASSUME NEW p, p.kind = "WORLD_INIT"
  PROVE  Payload(p) = WorldPayload(p.state, p.entities)
BY DEF Payload, WorldPayload

\* WORLD_INIT is read as it was written.
LEMMA WorldInitParsed ==
  ASSUME NEW state \in GameStates, NEW es \in Seq(Portable), Len(es) < 65536
  PROVE  LET p == WorldInit(state, es)
         IN  Payload(p) \in Seq(Bytes) /\ Parsed("WORLD_INIT", Payload(p)) = {p}
<1> DEFINE bits == [i \in DOMAIN es |-> es[i].bits]
           ids == [i \in DOMAIN es |-> es[i].id]
           contents == [i \in DOMAIN es |-> es[i].content]
<1>1. Len(es) \in Nat /\ DOMAIN es = 1..Len(es) /\ \A i \in 1..Len(es) : es[i] \in Portable
  BY LenProperties
<1>2. \A e \in Portable :
        /\ e.bits \in Seq(Nat) /\ Numbers(e.bits, WordBytes)
        /\ e.content \in Seq(Nat) /\ Numbers(e.content, 1)
        /\ e.id \in Nat /\ Fits(e.id, WordBytes)
        /\ [id |-> e.id, bits |-> e.bits, content |-> e.content] = e
  <2>1. \A e \in Portable :
          /\ e.bits \in Seq(Nat) /\ Numbers(e.bits, WordBytes)
          /\ e.content \in Seq(Nat) /\ Numbers(e.content, 1) /\ e.id \in Words
          /\ [id |-> e.id, bits |-> e.bits, content |-> e.content] = e
    BY DEF Portable
  <2>2. \A n \in Words : n \in Nat /\ Fits(n, WordBytes)
    BY WidthsFit DEF Words
  <2> QED BY <2>1, <2>2
<1>3. DOMAIN bits = 1..Len(es) /\ \A i \in 1..Len(es) : bits[i] = es[i].bits
  BY <1>1
<1>4. DOMAIN contents = 1..Len(es) /\ \A i \in 1..Len(es) : contents[i] = es[i].content
  BY <1>1
<1>5. DOMAIN ids = 1..Len(es) /\ \A i \in 1..Len(es) : ids[i] = es[i].id
  BY <1>1
<1>6. bits \in Seq(Seq(Nat)) /\ Len(bits) = Len(es)
  BY <1>1, <1>2
<1>7. contents \in Seq(Seq(Nat)) /\ Len(contents) = Len(es)
  BY <1>1, <1>2
<1>8. ids \in Seq(Nat) /\ Len(ids) = Len(es)
  BY <1>1, <1>2
<1> DEFINE all == [i \in DOMAIN bits |-> [id |-> ids[i], bits |-> bits[i], content |-> contents[i]]]
<1> HIDE DEF bits, ids, contents
<1>9. Lists(bits, WordBytes)
  BY <1>1, <1>2, <1>3, <1>6 DEF Lists
<1>10. Lists(contents, 1)
  BY <1>1, <1>2, <1>4, <1>7 DEF Lists
<1>11. Numbers(ids, WordBytes)
  BY <1>1, <1>2, <1>5, <1>8 DEF Numbers
<1>12. all = es
  <2>1. DOMAIN all = 1..Len(es) /\ \A i \in 1..Len(es) :
          all[i] = [id |-> ids[i], bits |-> bits[i], content |-> contents[i]]
    BY <1>3
  <2> HIDE DEF all
  <2>2. \A i \in 1..Len(es) : all[i] = es[i]
    <3> SUFFICES ASSUME NEW i \in 1..Len(es) PROVE all[i] = es[i]
      OBVIOUS
    <3> DEFINE e == es[i]
    <3>1. e \in Portable /\ all[i] = [id |-> e.id, bits |-> e.bits, content |-> e.content]
      BY <1>1, <1>3, <1>4, <1>5, <2>1
    <3> HIDE DEF e
    <3>2. all[i] = e
      BY <1>2, <3>1
    <3> QED BY <3>2 DEF e
  <2>3. all = [i \in 1..Len(es) |-> all[i]] /\ es = [i \in 1..Len(es) |-> es[i]]
    BY <1>1, <2>1 DEF all
  <2> QED BY <2>2, <2>3
<1> HIDE DEF all
<1> DEFINE u == [i \in DOMAIN es |-> VectorOf(es[i].bits, WordBytes)]
           v == [i \in DOMAIN es |-> VectorOf(es[i].content, 1)]
<1>13. VectorsOf(bits, WordBytes) = Vector(u) /\ VectorsOf(contents, 1) = Vector(v)
  <2> DEFINE x == [i \in DOMAIN bits |-> VectorOf(bits[i], WordBytes)]
             y == [i \in DOMAIN contents |-> VectorOf(contents[i], 1)]
  <2>1. x = u
    BY <1>1, <1>3
  <2>2. y = v
    BY <1>1, <1>4
  <2>3. VectorsOf(bits, WordBytes) = Vector(x) /\ VectorsOf(contents, 1) = Vector(y)
    <3>1. VectorsOf(bits, WordBytes) = Vector(x)
      BY DEF VectorsOf
    <3>2. VectorsOf(contents, 1) = Vector(y)
      BY DEF VectorsOf
    <3> HIDE DEF x, y
    <3> QED BY <3>1, <3>2
  <2> HIDE DEF x, y, u, v
  <2> QED BY <2>1, <2>2, <2>3
<1> DEFINE payload == Scalar(state, 1) \o VectorsOf(bits, WordBytes) \o VectorOf(ids, WordBytes) \o VectorsOf(contents, 1)
           p == WorldInit(state, es)
<1>14. payload \in Seq(Bytes) /\ ParsedWorldInit(Reader(payload)) = {WorldInit(state, all)}
  BY <1>9, <1>10, <1>11, WorldInitLists DEF all
<1>15. Payload(p) = payload
  <2>1. p.kind = "WORLD_INIT" /\ p.state = state /\ p.entities = es
    BY DEF WorldInit
  <2> HIDE DEF p
  <2>2. Payload(p) = WorldPayload(p.state, p.entities)
    BY <2>1, WorldPayloadIs
  <2>3. Payload(p) = WorldPayload(state, es)
    BY <2>1, <2>2
  <2>4. WorldPayload(state, es) = Scalar(state, 1) \o Vector(u) \o VectorOf(ids, WordBytes) \o Vector(v)
    BY DEF WorldPayload, ids, u, v
  <2> HIDE DEF u, v
  <2> QED BY <1>13, <2>3, <2>4
<1> HIDE DEF payload, p
<1>16. payload \in Seq(Bytes) /\ Parsed("WORLD_INIT", payload) = {p}
  BY <1>12, <1>14 DEF Parsed, p
<1> QED BY <1>15, <1>16 DEF p

(***************************************************************************)
(* What the client reads of a packet is what the lobby wrote: the fields   *)
(* are read in the order and with the widths they were written, whatever   *)
(* the state, the ids and the entities, and no read throws (operator<< and *)
(* operator>> of Packet, serialize() of each packet, registerHandler).     *)
(***************************************************************************)
THEOREM PacketsAreRead ==
  \A p \in Packets : Payload(p) \in Seq(Bytes) /\ Parsed(p.kind, Payload(p)) = {p}
<1>1. ASSUME NEW e \in Portable
      PROVE  LET p == Spawn(e) IN Payload(p) \in Seq(Bytes) /\ Parsed(p.kind, Payload(p)) = {p}
  <2> DEFINE p == Spawn(e)
             payload == Scalar(e.id, WordBytes) \o VectorOf(e.bits, WordBytes) \o VectorOf(e.content, 1)
  <2>1. p.kind = "SPAWN" /\ p.entity = e
    BY DEF Spawn
  <2>2. payload \in Seq(Bytes) /\ ParsedSpawn(Reader(payload)) = {p}
    BY SpawnParsed
  <2> HIDE DEF p
  <2>3. Payload(p) = payload
    BY <2>1 DEF Payload
  <2> HIDE DEF payload
  <2>4. Payload(p) \in Seq(Bytes) /\ Parsed(p.kind, Payload(p)) = {p}
    BY <2>1, <2>2, <2>3 DEF Parsed
  <2> QED BY <2>4 DEF p
<1>2. ASSUME NEW state \in GameStates, NEW es \in Populations
      PROVE  LET p == WorldInit(state, es) IN Payload(p) \in Seq(Bytes) /\ Parsed(p.kind, Payload(p)) = {p}
  <2> DEFINE p == WorldInit(state, es)
  <2>1. p.kind = "WORLD_INIT"
    BY DEF WorldInit
  <2>2. Payload(p) \in Seq(Bytes) /\ Parsed("WORLD_INIT", Payload(p)) = {p}
    BY WorldInitParsed DEF Populations
  <2> HIDE DEF p
  <2>3. Payload(p) \in Seq(Bytes) /\ Parsed(p.kind, Payload(p)) = {p}
    BY <2>1, <2>2
  <2> QED BY <2>3 DEF p
<1>3. ASSUME NEW id \in Words
      PROVE  LET p == Destroy(id) IN Payload(p) \in Seq(Bytes) /\ Parsed(p.kind, Payload(p)) = {p}
  <2> DEFINE p == Destroy(id)
             payload == Scalar(id, WordBytes) \o Scalar(NoPoints, IntBytes)
  <2>1. p.kind = "DESTROY" /\ p.id = id
    BY DEF Destroy
  <2>2. payload \in Seq(Bytes) /\ ParsedDestroy(Reader(payload)) = {p}
    BY DestroyParsed
  <2> HIDE DEF p
  <2>3. Payload(p) = payload
    BY <2>1 DEF Payload
  <2> HIDE DEF payload
  <2>4. Payload(p) \in Seq(Bytes) /\ Parsed(p.kind, Payload(p)) = {p}
    BY <2>1, <2>2, <2>3 DEF Parsed
  <2> QED BY <2>4 DEF p
<1>4. ASSUME NEW id \in Words, NEW state \in GameStates, NEW status \in Statuses
      PROVE  LET p == JoinAck(id, state, status) IN Payload(p) \in Seq(Bytes) /\ Parsed(p.kind, Payload(p)) = {p}
  <2> DEFINE p == JoinAck(id, state, status)
             payload == Scalar(id, WordBytes) \o Scalar(Room, 2) \o Scalar(state, WordBytes) \o Scalar(status, 1)
  <2>1. p.kind = "JOIN_ACK" /\ p.id = id /\ p.state = state /\ p.status = status
    BY DEF JoinAck
  <2>2. payload \in Seq(Bytes) /\ ParsedJoinAck(Reader(payload)) = {p}
    BY JoinAckParsed
  <2> HIDE DEF p
  <2>3. Payload(p) = payload
    BY <2>1 DEF Payload
  <2> HIDE DEF payload
  <2>4. Payload(p) \in Seq(Bytes) /\ Parsed(p.kind, Payload(p)) = {p}
    BY <2>1, <2>2, <2>3 DEF Parsed
  <2> QED BY <2>4 DEF p
<1>5. ASSUME NEW state \in GameStates
      PROVE  LET p == UpdateGameState(state) IN Payload(p) \in Seq(Bytes) /\ Parsed(p.kind, Payload(p)) = {p}
  <2> DEFINE p == UpdateGameState(state)
             payload == Scalar(state, WordBytes)
  <2>1. p.kind = "UPDATE_GAME_STATE" /\ p.state = state
    BY DEF UpdateGameState
  <2>2. payload \in Seq(Bytes) /\ ParsedUpdateGameState(Reader(payload)) = {p}
    BY UpdateGameStateParsed
  <2> HIDE DEF p
  <2>3. Payload(p) = payload
    BY <2>1 DEF Payload
  <2> HIDE DEF payload
  <2>4. Payload(p) \in Seq(Bytes) /\ Parsed(p.kind, Payload(p)) = {p}
    BY <2>1, <2>2, <2>3 DEF Parsed
  <2> QED BY <2>4 DEF p
<1> DEFINE Back(p) == Payload(p) \in Seq(Bytes) /\ Parsed(p.kind, Payload(p)) = {p}
<1>6. \A e \in Portable : Back(Spawn(e))
  BY <1>1, Zenon
<1>7. \A state \in GameStates, es \in Populations : Back(WorldInit(state, es))
  BY <1>2, Zenon
<1>8. \A id \in Words : Back(Destroy(id))
  BY <1>3, Zenon
<1>9. \A id \in Words, state \in GameStates, status \in Statuses : Back(JoinAck(id, state, status))
  BY <1>4, Zenon
<1>10. \A state \in GameStates : Back(UpdateGameState(state))
  BY <1>5, Zenon
<1> HIDE DEF Back
<1>11. \A p \in Packets : Back(p)
  BY <1>6, <1>7, <1>8, <1>9, <1>10 DEF Packets
<1> QED BY <1>11 DEF Back

------------------------------------------------------------------------------
(* The header.                                                             *)

\* Where the fields of the header end, after so many of them.
Ended == <<2, 4, 8, 9, 13, 17, 21, 23, 24, 26>>
EndAfter(k) == IF k = 0 THEN 0 ELSE Ended[k]

\* The sizes of the fields, added up.
LEMMA EndsAdd ==
  ASSUME NEW fields \in 0..10
  PROVE  End(fields) = EndAfter(fields)
<1> DEFINE turns == fields
           first == 0
           States == Nat
           Step(x, i) == x + FieldBytes[i]
           sets == [i \in 0..turns |-> {EndAfter(i)}]
           step == [i \in 1..turns |-> [x \in sets[i - 1] |-> Step(x, i)]]
           Turn(x, i) == Given(x, LAMBDA y : Step(y, i))
           Eq(f) == f = [i \in 0..turns |-> IF i = 0 THEN first ELSE Turn(f[i - 1], i)]
<1>60. turns \in Nat
  OBVIOUS
<1>61. ASSUME NEW i \in 1..turns, NEW x \in sets[i - 1] PROVE Step(x, i) \in sets[i]
  <2>1. i \in 1..10 /\ x = EndAfter(i - 1)
    OBVIOUS
  <2>2. EndAfter(i - 1) + FieldBytes[i] = EndAfter(i)
    BY <2>1 DEF EndAfter, Ended, FieldBytes
  <2> QED BY <2>1, <2>2
<1>62. first \in sets[0] /\ sets \in [0..turns -> SUBSET States]
  <2>1. \A i \in 0..10 : EndAfter(i) \in Nat
    BY DEF EndAfter, Ended
  <2>2. EndAfter(0) = 0
    BY DEF EndAfter
  <2>3. 0 \in 0..turns /\ \A i \in 0..turns : i \in 0..10
    BY <1>60
  <2> QED BY <2>1, <2>2, <2>3
<1> HIDE DEF turns, first, States
<1>63. IsLoop(turns, States, sets, step, first)
  <2>1. \A i \in 1..turns : \A x \in sets[i - 1] : step[i][x] \in sets[i]
    BY <1>61
  <2> HIDE DEF step, sets
  <2> QED BY <1>60, <1>62, <2>1 DEF IsLoop
<1>64. \A i \in 1..turns : \A x \in sets[i - 1] : Turn(x, i) = step[i][x]
  <2> SUFFICES ASSUME NEW i \in 1..turns, NEW x \in sets[i - 1]
               PROVE  Turn(x, i) = step[i][x]
    OBVIOUS
  <2>1. step[i][x] = Step(x, i)
    OBVIOUS
  <2> HIDE DEF step, sets, Step
  <2> QED BY <2>1 DEF Given
<1> HIDE DEF step, sets, Step, Turn
<1>65. PICK f : Eq(f)
  <2>1. PICK f : IsRunOf(f, turns, sets, step, first)
    BY <1>63, LoopRuns
  <2>2. \A i \in 1..turns : step[i][f[i - 1]] = Turn(f[i - 1], i)
    BY <1>60, <1>64, <2>1 DEF IsRunOf
  <2>3. Eq(f)
    <3>1. f = [i \in 0..turns |-> IF i = 0 THEN first ELSE step[i][f[i - 1]]]
      BY <2>1 DEF IsRunOf
    <3>2. \A i \in 0..turns : i # 0 => i \in 1..turns
      BY <1>60
    <3> QED BY <2>2, <3>1, <3>2
  <2> QED BY <2>3
<1>66. Eq(CHOOSE h : Eq(h))
  BY <1>65, Zenon
<1>67. ASSUME NEW g, Eq(g) PROVE g[turns] \in sets[turns]
  <2>1. g[0] = first /\ \A i \in 1..turns : g[i] = Turn(g[i - 1], i)
    BY <1>60, <1>67
  <2>2. \A i \in 1..turns : g[i - 1] \in sets[i - 1] => g[i] = step[i][g[i - 1]]
    BY <1>64, <2>1
  <2> QED BY <1>63, <2>1, <2>2, LoopEnds
<1>68. End(fields) \in sets[turns]
  <2>1. End(fields) = (CHOOSE h : Eq(h))[turns]
    BY DEF InTurn, turns, first, Step, Turn, End
  <2> HIDE DEF Eq
  <2> QED BY <1>66, <1>67, <2>1
<1>1. End(fields) \in {EndAfter(fields)}
  BY <1>60, <1>68 DEF sets, turns
<1> QED BY <1>1

\* The size of the header, and the places of the fields that a receiver looks at.
LEMMA HeaderPlaces ==
  /\ HeaderBytes = 26
  /\ Places["protocolId"] = <<1, 2>> /\ Places["messageId"] = <<22, 23>>
  /\ Places["packetSize"] = <<25, 26>>
<1>1. \A k \in 0..10 : End(k) = EndAfter(k)
  BY EndsAdd
<1>2. End(0) = 0 /\ End(1) = 2 /\ End(7) = 21 /\ End(8) = 23 /\ End(9) = 24 /\ End(10) = 26
  BY <1>1 DEF EndAfter, Ended
<1>3. HeaderBytes = 26
  <2>1. Len(FieldBytes) = 10
    BY DEF FieldBytes
  <2> QED BY <1>2, <2>1 DEF HeaderBytes
<1>4. ASSUME NEW k \in 1..10
      PROVE  /\ HeaderFields[k] \in ToSet(HeaderFields)
             /\ Place(HeaderFields[k]) = <<End(k - 1) + 1, End(k)>>
  <2>1. DOMAIN HeaderFields = 1..10
    BY DEF HeaderFields
  <2>2. \A i \in 1..10 : HeaderFields[i] = HeaderFields[k] => i = k
    BY DEF HeaderFields
  <2>3. (CHOOSE i \in DOMAIN HeaderFields : HeaderFields[i] = HeaderFields[k]) = k
    BY <2>1, <2>2
  <2>4. HeaderFields[k] \in ToSet(HeaderFields)
    BY <2>1 DEF ToSet
  <2> QED BY <2>3, <2>4 DEF Place
<1>5. \A k \in 1..10 : Places[HeaderFields[k]] = <<End(k - 1) + 1, End(k)>>
  BY <1>4 DEF Places
<1>6. HeaderFields[1] = "protocolId" /\ HeaderFields[8] = "messageId" /\ HeaderFields[10] = "packetSize"
  BY DEF HeaderFields
<1> QED BY <1>2, <1>3, <1>5, <1>6

\* The number in each of the fields is not too large for it.
LEMMA HeaderFits ==
  ASSUME NEW id \in Words, NEW flags \in Bytes, NEW size \in Nat
  PROVE  LET h == Header(id, flags, size)
         IN  /\ h.protocolId = PROTOCOL_ID /\ h.messageId = id /\ h.packetSize = size % 65536
             /\ \A i \in 1..10 : Fits(h[HeaderFields[i]], FieldBytes[i])
<1> DEFINE h == Header(id, flags, size)
           F == ToSet(HeaderFields)
<1>1. size % 65536 \in Nat /\ size % 65536 < 65536
  OBVIOUS
<1>2. id \in Nat /\ id < 65536 /\ flags \in Nat /\ flags < 256
  BY DEF Words, Bytes
<1>3. F = {HeaderFields[i] : i \in 1..10}
  BY DEF ToSet, HeaderFields
<1>4. /\ HeaderFields[1] = "protocolId" /\ HeaderFields[2] = "protocolVersion"
      /\ HeaderFields[3] = "sequenceId" /\ HeaderFields[4] = "channelId"
      /\ HeaderFields[5] = "orderId" /\ HeaderFields[6] = "acknowledgeId"
      /\ HeaderFields[7] = "acknowledgeBitfield" /\ HeaderFields[8] = "messageId"
      /\ HeaderFields[9] = "flags" /\ HeaderFields[10] = "packetSize"
  BY DEF HeaderFields
<1>5. \A i \in 1..10 : HeaderFields[i] \in F
  BY <1>3
<1>6. h = [[field \in F |-> 0] EXCEPT
             !.protocolId = PROTOCOL_ID, !.protocolVersion = PROTOCOL_VER,
             !.messageId = id, !.flags = flags, !.packetSize = size % 65536]
  BY DEF Header
<1> HIDE DEF F, h
<1>7. /\ "protocolId" \in F /\ "protocolVersion" \in F /\ "sequenceId" \in F /\ "channelId" \in F
      /\ "orderId" \in F /\ "acknowledgeId" \in F /\ "acknowledgeBitfield" \in F
      /\ "messageId" \in F /\ "flags" \in F /\ "packetSize" \in F
  BY <1>4, <1>5
<1>8. /\ h["protocolId"] = PROTOCOL_ID /\ h["protocolVersion"] = PROTOCOL_VER
      /\ h["messageId"] = id /\ h["flags"] = flags /\ h["packetSize"] = size % 65536
  BY <1>6, <1>7
<1>9. /\ h["sequenceId"] = 0 /\ h["channelId"] = 0 /\ h["orderId"] = 0
      /\ h["acknowledgeId"] = 0 /\ h["acknowledgeBitfield"] = 0
  BY <1>6, <1>7
<1>10. /\ FieldBytes[1] = 2 /\ FieldBytes[2] = 2 /\ FieldBytes[3] = 4 /\ FieldBytes[4] = 1
       /\ FieldBytes[5] = 4 /\ FieldBytes[6] = 4 /\ FieldBytes[7] = 4 /\ FieldBytes[8] = 2
       /\ FieldBytes[9] = 1 /\ FieldBytes[10] = 2
  BY DEF FieldBytes
<1>11. /\ Fits(0, 4) /\ Fits(0, 1) /\ Fits(PROTOCOL_ID, 2) /\ Fits(PROTOCOL_VER, 2)
       /\ Fits(id, 2) /\ Fits(flags, 1) /\ Fits(size % 65536, 2)
  BY <1>1, <1>2 DEF Fits, PROTOCOL_ID, PROTOCOL_VER
<1> DEFINE Fit(i) == Fits(h[HeaderFields[i]], FieldBytes[i])
<1>12. /\ Fit(1) /\ Fit(2) /\ Fit(3) /\ Fit(4) /\ Fit(5)
       /\ Fit(6) /\ Fit(7) /\ Fit(8) /\ Fit(9) /\ Fit(10)
  BY <1>4, <1>8, <1>9, <1>10, <1>11
<1> HIDE DEF Fit
<1>13. \A i \in 1..10 : Fit(i)
  BY <1>12
<1> QED BY <1>8, <1>13 DEF h, Fit

\* Where the fields of a header are in what was sent.
LEMMA FieldsArrive ==
  ASSUME NEW payload \in Seq(Bytes), NEW h, \A i \in 1..10 : Fits(h[HeaderFields[i]], FieldBytes[i])
  PROVE  LET data == Swapped(h) \o payload
         IN  /\ data \in Seq(Bytes) /\ Ends(data, payload) /\ Len(data) = 26 + Len(payload)
             /\ \A i \in 1..10 :
                  SubSeq(data, EndAfter(i - 1) + 1, EndAfter(i)) = Scalar(h[HeaderFields[i]], FieldBytes[i])
<1> DEFINE writes == [i \in DOMAIN HeaderFields |-> Scalar(h[HeaderFields[i]], FieldBytes[i])]
           chain == Chained(writes)
           data == chain \o payload
<1>1. DOMAIN HeaderFields = 1..10
  BY DEF HeaderFields
<1>2. \A i \in 1..10 : /\ writes[i] = Scalar(h[HeaderFields[i]], FieldBytes[i])
                       /\ writes[i] \in Seq(Bytes) /\ Len(writes[i]) = FieldBytes[i]
  BY <1>1, ScalarBytes
<1>3. writes \in Seq(Seq(Bytes)) /\ Len(writes) = 10
  BY <1>1, <1>2
<1>4. Swapped(h) = chain
  BY DEF Swapped
<1> HIDE DEF writes
<1>5. PICK t : Tails(writes, 10, chain, t)
  BY <1>3, ChainedTails
<1>6. chain \in Seq(Bytes)
  BY <1>3, ChainedTails
<1> HIDE DEF chain
<1>7. /\ \A i \in 0..10 : t[i] \in Seq(Bytes)
      /\ t[0] = chain /\ t[10] = << >> /\ \A i \in 1..10 : t[i - 1] = writes[i] \o t[i]
  BY <1>5 DEF Tails
<1>70. \A i \in 1..10 : t[i] \in Seq(Bytes)
  <2>1. \A i \in 1..10 : i \in 0..10
    OBVIOUS
  <2>2. \A i \in 0..10 : t[i] \in Seq(Bytes)
    BY <1>5 DEF Tails
  <2> QED BY <2>1, <2>2, Zenon
<1> DEFINE Left(i) == t[i] \o payload
<1>8. data \in Seq(Bytes) /\ Ends(data, data)
  BY <1>6, BytesChain, ReaderBegins, Zenon
<1>9. \A i \in 1..10 : writes[i] # << >>
  <2>1. \A i \in 1..10 : FieldBytes[i] \in Nat \ {0}
    BY DEF FieldBytes
  <2> QED BY <1>2, <2>1
<1>10. \A i \in 1..10 : Left(i - 1) = writes[i] \o Left(i) /\ Left(i) \in Seq(Bytes)
  <2> SUFFICES ASSUME NEW i \in 1..10
               PROVE  Left(i - 1) = writes[i] \o Left(i) /\ Left(i) \in Seq(Bytes)
    OBVIOUS
  <2> DEFINE a == writes[i]
             b == t[i]
  <2>1. a \in Seq(Bytes) /\ b \in Seq(Bytes) /\ t[i - 1] = a \o b
    <3>1. a \in Seq(Bytes)
      BY <1>2
    <3>2. b \in Seq(Bytes)
      BY <1>70
    <3>3. t[i - 1] = writes[i] \o t[i]
      BY <1>7
    <3> QED BY <3>1, <3>2, <3>3
  <2> HIDE DEF a, b
  <2>2. Joins(a, b, payload)
    BY <2>1, BytesJoin
  <2>3. b \o payload \in Seq(Bytes)
    BY <2>1, BytesChain, Zenon
  <2> QED BY <2>1, <2>2, <2>3 DEF a, b, Joins
<1>11. Left(0) = data /\ Left(10) = payload
  BY <1>7, ConcatEmptySeq
<1> HIDE DEF Left, data
<1> DEFINE At(i) == /\ Ends(data, Left(i)) /\ Len(data) - Len(Left(i)) = EndAfter(i)
                    /\ i # 0 => SubSeq(data, EndAfter(i - 1) + 1, EndAfter(i)) = writes[i]
<1>12. At(0)
  <2>1. Len(data) - Len(data) = 0
    BY <1>8, LenProperties
  <2> QED BY <1>8, <1>11, <2>1 DEF EndAfter
<1>13. ASSUME NEW i \in 1..10, At(i - 1) PROVE At(i)
  <2> DEFINE a == writes[i]
             b == Left(i)
             l == Left(i - 1)
  <2>1. a \in Seq(Bytes) /\ b \in Seq(Bytes) /\ l = a \o b /\ a # << >> /\ Len(a) = FieldBytes[i]
    BY <1>2, <1>9, <1>10
  <2>2. Ends(data, l) /\ Len(data) - Len(l) = EndAfter(i - 1)
    BY <1>13
  <2> HIDE DEF a, b, l
  <2>3. /\ Ends(data, b) /\ (Len(data) - Len(l)) + Len(a) = Len(data) - Len(b)
        /\ SubSeq(data, (Len(data) - Len(l)) + 1, Len(data) - Len(b)) = a
    BY <2>1, <2>2, EndsLater
  <2>4. EndAfter(i - 1) + FieldBytes[i] = EndAfter(i)
    BY DEF EndAfter, Ended, FieldBytes
  <2>5. Len(data) - Len(b) = EndAfter(i)
    BY <2>1, <2>2, <2>3, <2>4
  <2>6. SubSeq(data, EndAfter(i - 1) + 1, EndAfter(i)) = a
    BY <2>2, <2>3, <2>5
  <2> QED BY <2>3, <2>5, <2>6 DEF a, b
<1> HIDE DEF At
<1>14. \A i \in 0..10 : At(i)
  <2>1. At(1) /\ At(2) /\ At(3) /\ At(4) /\ At(5)
    <3>1. At(1)
      BY <1>12, <1>13
    <3>2. At(2)
      BY <3>1, <1>13
    <3>3. At(3)
      BY <3>2, <1>13
    <3>4. At(4)
      BY <3>3, <1>13
    <3>5. At(5)
      BY <3>4, <1>13
    <3> QED BY <3>1, <3>2, <3>3, <3>4, <3>5
  <2>2. At(6) /\ At(7) /\ At(8) /\ At(9) /\ At(10)
    <3>1. At(6)
      BY <2>1, <1>13
    <3>2. At(7)
      BY <3>1, <1>13
    <3>3. At(8)
      BY <3>2, <1>13
    <3>4. At(9)
      BY <3>3, <1>13
    <3>5. At(10)
      BY <3>4, <1>13
    <3> QED BY <3>1, <3>2, <3>3, <3>4, <3>5
  <2> QED BY <1>12, <2>1, <2>2
<1>15. Ends(data, payload) /\ Len(data) = 26 + Len(payload)
  <2>1. Ends(data, Left(10)) /\ Len(data) - Len(Left(10)) = EndAfter(10)
    BY <1>14 DEF At
  <2>2. EndAfter(10) = 26 /\ Len(data) \in Nat /\ Len(payload) \in Nat
    BY <1>8 DEF EndAfter, Ended
  <2> QED BY <1>11, <2>1, <2>2
<1>16. \A i \in 1..10 :
         SubSeq(data, EndAfter(i - 1) + 1, EndAfter(i)) = Scalar(h[HeaderFields[i]], FieldBytes[i])
  <2> SUFFICES ASSUME NEW i \in 1..10
               PROVE  SubSeq(data, EndAfter(i - 1) + 1, EndAfter(i)) = Scalar(h[HeaderFields[i]], FieldBytes[i])
    OBVIOUS
  <2>1. At(i) /\ i # 0
    BY <1>14
  <2>2. SubSeq(data, EndAfter(i - 1) + 1, EndAfter(i)) = writes[i]
    BY <2>1 DEF At
  <2> QED BY <1>2, <2>2
<1> QED BY <1>4, <1>8, <1>15, <1>16 DEF data

\* What a buffer ends with.
LEMMA EndOf ==
  ASSUME NEW buffer \in Seq(Bytes), NEW rest \in Seq(Bytes), Ends(buffer, rest), NEW n \in Nat,
         Len(buffer) = n + Len(rest)
  PROVE  SubSeq(buffer, n + 1, n + Len(rest)) = rest
<1>1. PICK before \in Seq(Bytes) : buffer = before \o rest
  BY DEF Ends
<1>2. /\ Len(before) \in Nat /\ Len(rest) \in Nat
      /\ Len(buffer) = Len(before) + Len(rest) /\ Len(before) = n
      /\ \A i \in 1..Len(rest) : buffer[n + i] = rest[i]
  BY <1>1
<1> DEFINE s == SubSeq(buffer, n + 1, n + Len(rest))
<1>3. Len(s) = Len(rest) /\ DOMAIN s = 1..Len(rest) /\ \A i \in 1..Len(rest) : s[i] = buffer[n + i]
  BY <1>2
<1>4. s \in Seq(Bytes)
  BY <1>2
<1> HIDE DEF s
<1>5. s = rest
  BY <1>2, <1>3, <1>4
<1> QED BY <1>5 DEF s

\* What a receiver finds in what rawSend sent.
LEMMA RawArrives ==
  ASSUME NEW payload \in Seq(Bytes), NEW id \in Words, NEW flags \in Bytes
  PROVE  LET data == Raw(id, flags, payload)
         IN  /\ Parse(data) = "kNone" /\ Field(data, "messageId") = id
             /\ SubSeq(data, HeaderBytes + 1, Len(data)) = payload
<1> DEFINE h == Header(id, flags, Len(payload))
           data == Swapped(h) \o payload
<1>1. Len(payload) \in Nat
  BY LenProperties
<1>2. /\ h.protocolId = PROTOCOL_ID /\ h.messageId = id /\ h.packetSize = Len(payload) % 65536
      /\ \A i \in 1..10 : Fits(h[HeaderFields[i]], FieldBytes[i])
  BY <1>1, HeaderFits
<1>3. Raw(id, flags, payload) = data
  BY DEF Raw
<1> HIDE DEF h
<1>4. /\ data \in Seq(Bytes) /\ Ends(data, payload) /\ Len(data) = 26 + Len(payload)
      /\ \A i \in 1..10 :
           SubSeq(data, EndAfter(i - 1) + 1, EndAfter(i)) = Scalar(h[HeaderFields[i]], FieldBytes[i])
  <2>1. \A i \in 1..10 : Fits(h[HeaderFields[i]], FieldBytes[i])
    BY <1>2
  <2> QED BY <2>1, FieldsArrive, Zenon
<1> HIDE DEF data
<1>5. /\ HeaderFields[1] = "protocolId" /\ HeaderFields[8] = "messageId" /\ HeaderFields[10] = "packetSize"
  BY DEF HeaderFields
<1>6. \A i \in 1..10 :
        FromMemory(Swap(SubSeq(data, EndAfter(i - 1) + 1, EndAfter(i)))) = h[HeaderFields[i]]
  <2> SUFFICES ASSUME NEW i \in 1..10
               PROVE  FromMemory(Swap(SubSeq(data, EndAfter(i - 1) + 1, EndAfter(i)))) = h[HeaderFields[i]]
    OBVIOUS
  <2> DEFINE n == h[HeaderFields[i]]
             width == FieldBytes[i]
  <2>a. Fits(h[HeaderFields[i]], FieldBytes[i])
    BY <1>2
  <2>b. SubSeq(data, EndAfter(i - 1) + 1, EndAfter(i)) = Scalar(h[HeaderFields[i]], FieldBytes[i])
    BY <1>4
  <2>1. Fits(n, width) /\ SubSeq(data, EndAfter(i - 1) + 1, EndAfter(i)) = Scalar(n, width)
    BY <2>a, <2>b
  <2> HIDE DEF n, width
  <2>2. FromMemory(Swap(Scalar(n, width))) = n
    BY <2>1, ScalarBytes
  <2>3. FromMemory(Swap(SubSeq(data, EndAfter(i - 1) + 1, EndAfter(i)))) = n
    BY <2>1, <2>2
  <2> QED BY <2>3 DEF n
<1>7. /\ EndAfter(0) = 0 /\ EndAfter(1) = 2 /\ EndAfter(7) = 21 /\ EndAfter(8) = 23
      /\ EndAfter(9) = 24 /\ EndAfter(10) = 26
  BY DEF EndAfter, Ended
<1>8. Field(data, "protocolId") = h["protocolId"]
  <2>1. FromMemory(Swap(SubSeq(data, EndAfter(0) + 1, EndAfter(1)))) = h[HeaderFields[1]]
    BY <1>6
  <2> QED BY <1>5, <1>7, <2>1, HeaderPlaces DEF Field
<1>9. Field(data, "messageId") = h["messageId"]
  <2>1. FromMemory(Swap(SubSeq(data, EndAfter(7) + 1, EndAfter(8)))) = h[HeaderFields[8]]
    BY <1>6
  <2> QED BY <1>5, <1>7, <2>1, HeaderPlaces DEF Field
<1>10. Field(data, "packetSize") = h["packetSize"]
  <2>1. FromMemory(Swap(SubSeq(data, EndAfter(9) + 1, EndAfter(10)))) = h[HeaderFields[10]]
    BY <1>6
  <2> QED BY <1>5, <1>7, <2>1, HeaderPlaces DEF Field
<1>11. Parse(data) = "kNone"
  <2>1. Len(payload) % 65536 <= Len(payload)
    BY <1>1
  <2>2. ~(Len(data) < HeaderBytes) /\ ~(Len(data) - HeaderBytes < Len(payload) % 65536)
    BY <1>1, <1>4, <2>1, HeaderPlaces
  <2> QED BY <1>2, <1>8, <1>10, <2>2 DEF Parse
<1>12. SubSeq(data, HeaderBytes + 1, Len(data)) = payload
  <2>1. SubSeq(data, 27, 26 + Len(payload)) = payload
    BY <1>1, <1>4, EndOf
  <2> QED BY <1>4, <2>1, HeaderPlaces
<1> QED BY <1>2, <1>3, <1>9, <1>11, <1>12

\* The ids of the packets.
LEMMA KindsAre ==
  /\ DOMAIN Kinds = {336, 338, 339, 343, 344}
  /\ Kinds[336] = "JOIN_ACK" /\ Kinds[338] = "SPAWN" /\ Kinds[339] = "DESTROY"
  /\ Kinds[343] = "UPDATE_GAME_STATE" /\ Kinds[344] = "WORLD_INIT"
<1>1. {336 + n : n \in {0, 2, 3, 7, 8}} = {336, 338, 339, 343, 344}
  OBVIOUS
<1>2. DOMAIN Kinds = {336, 338, 339, 343, 344}
  BY <1>1 DEF Kinds, kJoinAck
<1>3. \A id \in {336, 338, 339, 343, 344} :
        Kinds[id] = CASE id = 336 -> "JOIN_ACK" [] id = 338 -> "SPAWN" [] id = 339 -> "DESTROY"
                      [] id = 343 -> "UPDATE_GAME_STATE" [] id = 344 -> "WORLD_INIT"
  BY <1>1 DEF Kinds, kJoinAck
<1> QED BY <1>2, <1>3

\* What a packet is sent as, and what arrives of it.
LEMMA SentArrives ==
  ASSUME NEW p \in Packets
  PROVE  /\ Parse(Sent(p)) = "kNone"
         /\ Field(Sent(p), "messageId") \in DOMAIN Kinds
         /\ Kinds[Field(Sent(p), "messageId")] = p.kind
         /\ SubSeq(Sent(p), HeaderBytes + 1, Len(Sent(p))) = Payload(p)
<1> DEFINE id == CHOOSE i \in DOMAIN Kinds : Kinds[i] = p.kind
           flags == IF Unreliable(p) THEN 1 ELSE 2
           payload == Payload(p)
<1>1. p.kind \in {"SPAWN", "WORLD_INIT", "DESTROY", "JOIN_ACK", "UPDATE_GAME_STATE"}
  BY DEF Packets, Spawn, WorldInit, Destroy, JoinAck, UpdateGameState
<1>2. \E i \in DOMAIN Kinds : Kinds[i] = p.kind
  BY <1>1, KindsAre
<1>3. id \in DOMAIN Kinds /\ Kinds[id] = p.kind
  BY <1>2
<1>4. \A i \in DOMAIN Kinds : i \in Words
  BY KindsAre DEF Words
<1>5. flags \in Bytes
  BY DEF Bytes
<1>6. payload \in Seq(Bytes)
  BY PacketsAreRead
<1>7. Sent(p) = Raw(id, flags, payload)
  BY DEF Sent
<1> HIDE DEF id, flags, payload
<1>8. id \in Words
  BY <1>3, <1>4
<1> DEFINE data == Raw(id, flags, payload)
<1>9. /\ Parse(data) = "kNone" /\ Field(data, "messageId") = id
      /\ SubSeq(data, HeaderBytes + 1, Len(data)) = payload
  BY <1>5, <1>6, <1>8, RawArrives
<1> HIDE DEF data
<1>10. Sent(p) = data
  BY <1>7 DEF data
<1> QED BY <1>3, <1>9, <1>10 DEF payload

\* What the client handles is the packet that the lobby sent.
LEMMA DeliverHandles ==
  ASSUME Deliver, NEW p, p = Head(wire), p \in Packets
  PROVE  client' = [Handled(client, p) EXCEPT !.world = Settled(@)]
<1> DEFINE data == Sent(p)
           id == Field(data, "messageId")
           payload == SubSeq(data, HeaderBytes + 1, Len(data))
           Handle(c, i, bytes) ==
             LET found == Parsed(Kinds[i], bytes)
             IN  IF found = {} THEN c ELSE Handled(c, CHOOSE q \in found : TRUE)
<1>1. client' = [Dispatched(client, data, DOMAIN Kinds, Handle) EXCEPT !.world = Settled(@)]
  BY DEF Deliver
<1>2. Parse(data) = "kNone" /\ id \in DOMAIN Kinds /\ Kinds[id] = p.kind /\ payload = Payload(p)
  BY SentArrives
<1>3. Dispatched(client, data, DOMAIN Kinds, Handle)
        = IF Parse(data) # "kNone" \/ id \notin DOMAIN Kinds THEN client ELSE Handle(client, id, payload)
  BY DEF Dispatched
<1>4. Parsed(p.kind, Payload(p)) = {p}
  BY PacketsAreRead
<1> HIDE DEF data, id, payload
<1>5. Handle(client, id, payload) = Handled(client, p)
  <2>1. Parsed(Kinds[id], payload) = {p}
    BY <1>2, <1>4
  <2>2. {p} # {} /\ (CHOOSE q \in {p} : TRUE) = p
    OBVIOUS
  <2> QED BY <2>1, <2>2
<1>6. Dispatched(client, data, DOMAIN Kinds, Handle) = Handled(client, p)
  <2> HIDE DEF Handle
  <2> QED BY <1>2, <1>3, <1>5
<1> QED BY <1>1, <1>6

===============================================================================
