--------------------------- MODULE SparseSetProofs ---------------------------
(***************************************************************************)
(* Proofs about loops, and about the sparse set, whose slots most loops go *)
(* through.  For any entities, any values and any number of them: a sparse *)
(* set is a map from entities to values, and put and remove do to the map  *)
(* what their names say, whatever was swapped into a gap.                  *)
(***************************************************************************)
EXTENDS SparseSet, Loops, TLAPS, WellFoundedInduction

------------------------------------------------------------------------------
(* Loops.  The induction theorems of the library take an operator; here a  *)
(* loop is a function of the number of turns taken, and the set of numbers *)
(* for which it is defined is all of them.                                 *)

\* The order of the naturals, as a relation.
Less == {ss \in Nat \X Nat : ss[1] < ss[2]}

\* There is no endless descent in the naturals.
LEMMA NoDescent == IsWellFoundedOn(Less, Nat)
BY NatLessThanWellFounded, Zenon DEF OpToRel, Less

\* A set of naturals that is not empty has a least element.
LEMMA LeastNat ==
  ASSUME NEW T, T \subseteq Nat, T # {}
  PROVE \E x \in T : \A y \in T : x <= y
<1>1. PICK x \in T : \A y \in T : ~(<<y, x>> \in Less)
  BY WFMin, NoDescent
<1>2. \A y \in T : ~(y < x)
  BY <1>1 DEF Less
<1> QED BY <1>2

\* Induction, as a property of sets of naturals.
LEMMA NatSetInduction ==
  ASSUME NEW T, T \subseteq Nat, 0 \in T, \A n \in T : n + 1 \in T
  PROVE T = Nat
<1> SUFFICES ASSUME Nat \ T # {} PROVE FALSE
  OBVIOUS
<1>1. PICK x \in Nat \ T : \A y \in Nat \ T : x <= y
  BY LeastNat
<1>2. x - 1 \in Nat
  BY <1>1
<1>3. x - 1 \in T
  BY <1>1, <1>2
<1> QED BY <1>1, <1>3

\* f is what a loop of n turns goes through: from r, in turn i by step[i], with sets[i] after it.
IsRun(f, n, r, sets, step) ==
  /\ DOMAIN f = 0..n
  /\ f[0] = r
  /\ \A i \in 0..n : f[i] \in sets[i]
  /\ \A i \in 1..n : f[i] = step[i][f[i-1]]

\* A loop whose turns lead from sets[i - 1] to sets[i] goes through such states.
LEMMA Turns ==
  ASSUME NEW n \in Nat, NEW X, NEW sets \in [0..n -> SUBSET X], NEW step, NEW r \in sets[0],
         \A i \in 1..n : \A x \in sets[i-1] : step[i][x] \in sets[i]
  PROVE  \E f \in [0..n -> X] : IsRun(f, n, r, sets, step)
<1> DEFINE P(m) == \E f \in [0..m -> X] : IsRun(f, m, r, sets, step)
           T == {m \in Nat : m <= n => P(m)}
<1>1. 0 \in T
  <2> DEFINE f == [i \in 0..0 |-> r]
  <2>1. r \in X
    OBVIOUS
  <2>2. f \in [0..0 -> X] /\ IsRun(f, 0, r, sets, step)
    BY <2>1 DEF IsRun
  <2> QED BY <2>2
<1>2. ASSUME NEW m \in T PROVE m + 1 \in T
  <2> SUFFICES ASSUME m + 1 <= n PROVE P(m + 1)
    OBVIOUS
  <2>1. PICK g \in [0..m -> X] : IsRun(g, m, r, sets, step)
    OBVIOUS
  <2> DEFINE new == step[m+1][g[m]]
             f == [i \in 0..(m+1) |-> IF i = m + 1 THEN new ELSE g[i]]
  <2>2. new \in sets[m+1]
    <3>1. m + 1 \in 1..n /\ m \in 0..m
      OBVIOUS
    <3>2. g[m] \in sets[m]
      BY <2>1, <3>1 DEF IsRun
    <3> QED BY <3>1, <3>2
  <2> HIDE DEF new
  <2>3. new \in X
    <3>1. m + 1 \in 0..n
      OBVIOUS
    <3> QED BY <2>2, <3>1
  <2>4. f \in [0..(m+1) -> X]
    BY <2>3
  <2>5. f[m+1] = new /\ \A i \in 0..m : f[i] = g[i]
    OBVIOUS
  <2> HIDE DEF f
  <2>6. f[0] = r /\ \A i \in 0..m : f[i] \in sets[i]
    BY <2>1, <2>5 DEF IsRun
  <2>7. \A i \in 0..(m+1) : f[i] \in sets[i]
    BY <2>2, <2>5, <2>6
  <2>8. ASSUME NEW i \in 1..(m+1) PROVE f[i] = step[i][f[i-1]]
    <3>1. CASE i = m + 1
      <4>1. f[i] = new /\ f[i - 1] = g[m]
        BY <3>1, <2>5
      <4> QED BY <4>1, <3>1 DEF new
    <3>2. CASE i \in 1..m
      <4>1. f[i] = g[i] /\ f[i-1] = g[i-1]
        BY <3>2, <2>5
      <4>2. g[i] = step[i][g[i-1]]
        BY <3>2, <2>1 DEF IsRun
      <4> QED BY <4>1, <4>2
    <3> QED BY <3>1, <3>2
  <2>9. IsRun(f, m + 1, r, sets, step)
    BY <2>4, <2>6, <2>7, <2>8 DEF IsRun
  <2> QED BY <2>4, <2>9
<1> HIDE DEF P
<1>3. T = Nat
  <2>1. T \subseteq Nat
    OBVIOUS
  <2> HIDE DEF T
  <2> QED BY <1>1, <1>2, <2>1, NatSetInduction
<1>4. n \in T
  BY <1>3
<1>5. P(n)
  BY <1>4
<1> QED BY <1>5 DEF P

\* Two runs that begin alike, and in which like turns make alike, end alike.
LEMMA SameRun ==
  ASSUME NEW n \in Nat, NEW f, NEW g, f[0] = g[0],
         \A i \in 1..n : f[i-1] = g[i-1] => f[i] = g[i]
  PROVE  f[n] = g[n]
<1> DEFINE T == {m \in Nat : m <= n => f[m] = g[m]}
<1>1. 0 \in T
  OBVIOUS
<1>2. ASSUME NEW m \in T PROVE m + 1 \in T
  <2> SUFFICES ASSUME m + 1 <= n PROVE f[m+1] = g[m+1]
    OBVIOUS
  <2> QED BY m + 1 \in 1..n, (m + 1) - 1 = m
<1> HIDE DEF T
<1>3. T = Nat
  <2>1. T \subseteq Nat BY DEF T
  <2> QED BY <1>1, <1>2, <2>1, NatSetInduction
<1> QED BY <1>3 DEF T

(***************************************************************************)
(* What Kept returns: places that are picked, every one once, in order.    *)
(***************************************************************************)
InOrder(kept, s, places) ==
  \E at \in [1..Len(kept) -> places] :
    /\ \A j, k \in 1..Len(kept) : j < k => at[j] < at[k]
    /\ \A p \in places : \E k \in 1..Len(kept) : at[k] = p
    /\ \A k \in 1..Len(kept) : kept[k] = s[at[k]]

\* One turn of the loop of Kept.
LEMMA KeptTurn ==
  ASSUME NEW V, NEW s \in Seq(V), NEW picked, NEW i \in 1..Len(s),
         NEW kept \in Seq(V), InOrder(kept, s, picked \cap (1..(i - 1)))
  PROVE  LET next == IF i \in picked THEN Append(kept, s[i]) ELSE kept
         IN  next \in Seq(V) /\ InOrder(next, s, picked \cap (1..i))
<1> DEFINE n == Len(kept)
           places == picked \cap (1..(i - 1))
<1>1. n \in Nat
  OBVIOUS
<1>2. PICK at \in [1..n -> places] :
        /\ \A j, k \in 1..n : j < k => at[j] < at[k]
        /\ \A p \in places : \E k \in 1..n : at[k] = p
        /\ \A k \in 1..n : kept[k] = s[at[k]]
  BY DEF InOrder
<1>3. CASE i \in picked
  <2> DEFINE next == Append(kept, s[i])
             more == [k \in 1..(n + 1) |-> IF k = n + 1 THEN i ELSE at[k]]
  <2>1. /\ next \in Seq(V) /\ Len(next) = n + 1 /\ next[n + 1] = s[i]
        /\ \A k \in 1..n : next[k] = kept[k]
    OBVIOUS
  <2>2. picked \cap (1..i) = places \cup {i}
    BY <1>3
  <2>3. /\ more \in [1..(n + 1) -> places \cup {i}]
        /\ more[n + 1] = i /\ \A k \in 1..n : more[k] = at[k]
    BY <1>1
  <2> HIDE DEF more, next
  <2>4. \A j, k \in 1..(n + 1) : j < k => more[j] < more[k]
    <3> SUFFICES ASSUME NEW j \in 1..(n + 1), NEW k \in 1..(n + 1), j < k PROVE more[j] < more[k]
      OBVIOUS
    <3>1. j \in 1..n /\ more[j] = at[j] /\ at[j] \in 1..(i - 1)
      BY <1>1, <1>2, <2>3
    <3>2. CASE k = n + 1
      BY <2>3, <3>1, <3>2
    <3>3. CASE k \in 1..n
      BY <1>2, <2>3, <3>1, <3>3
    <3>4. k = n + 1 \/ k \in 1..n
      BY <1>1
    <3> QED BY <3>2, <3>3, <3>4
  <2>5. \A p \in places \cup {i} : \E k \in 1..(n + 1) : more[k] = p
    BY <1>1, <1>2, <2>3
  <2>6. \A k \in 1..(n + 1) : next[k] = s[more[k]]
    <3> SUFFICES ASSUME NEW k \in 1..(n + 1) PROVE next[k] = s[more[k]]
      OBVIOUS
    <3>1. CASE k = n + 1
      BY <2>1, <2>3, <3>1
    <3>2. CASE k \in 1..n
      <4>1. next[k] = kept[k] /\ more[k] = at[k] /\ kept[k] = s[at[k]]
        BY <1>2, <2>1, <2>3, <3>2
      <4> QED BY <4>1
    <3>3. k = n + 1 \/ k \in 1..n
      BY <1>1
    <3> QED BY <3>1, <3>2, <3>3
  <2>7. InOrder(next, s, places \cup {i})
    <3> HIDE DEF n, places
    <3>1. /\ more \in [1..Len(next) -> places \cup {i}]
          /\ \A j, k \in 1..Len(next) : j < k => more[j] < more[k]
          /\ \A p \in places \cup {i} : \E k \in 1..Len(next) : more[k] = p
          /\ \A k \in 1..Len(next) : next[k] = s[more[k]]
      BY <2>1, <2>3, <2>4, <2>5, <2>6
    <3> QED BY <3>1, Zenon DEF InOrder
  <2> QED BY <1>3, <2>1, <2>2, <2>7 DEF next
<1>4. CASE i \notin picked
  <2>1. picked \cap (1..i) = places
    BY <1>4
  <2> QED BY <1>4, <2>1
<1> QED BY <1>3, <1>4

\* What Kept keeps of a sequence is in its order.
LEMMA KeptInOrder ==
  ASSUME NEW V, NEW s \in Seq(V), NEW picked
  PROVE  Kept(s, picked) \in Seq(V) /\ InOrder(Kept(s, picked), s, picked \cap (1..Len(s)))
<1> DEFINE n == Len(s)
           Step(x, i) == IF i \in picked THEN Append(x, s[i]) ELSE x
           sets == [i \in 0..n |-> {x \in Seq(V) : InOrder(x, s, picked \cap (1..i))}]
           step == [i \in 1..n |-> [x \in sets[i - 1] |-> Step(x, i)]]
           Eq(f) == f = [i \in 0..n |-> IF i = 0 THEN << >>
                                        ELSE Given(f[i - 1], LAMBDA x : Step(x, i))]
<1>0. n \in Nat
  OBVIOUS
<1>1. ASSUME NEW i \in 1..n, NEW x \in sets[i - 1] PROVE Step(x, i) \in sets[i]
  <2>1. i - 1 \in 0..n /\ i \in 0..n /\ i \in 1..Len(s)
    OBVIOUS
  <2>2. x \in Seq(V) /\ InOrder(x, s, picked \cap (1..(i - 1)))
    BY <2>1
  <2>3. Step(x, i) \in Seq(V) /\ InOrder(Step(x, i), s, picked \cap (1..i))
    BY <2>1, <2>2, KeptTurn
  <2> HIDE DEF n, Step
  <2> QED BY <2>1, <2>3
<1>2. << >> \in sets[0] /\ sets \in [0..n -> SUBSET Seq(V)]
  <2>1. InOrder(<< >>, s, picked \cap (1..0))
    <3>1. /\ << >> \in [1..Len(<< >>) -> picked \cap (1..0)] /\ 1..Len(<< >>) = {}
          /\ picked \cap (1..0) = {}
      OBVIOUS
    <3> QED BY <3>1, Zenon DEF InOrder
  <2> QED BY <2>1
<1> HIDE DEF n
<1>3. PICK f \in [0..n -> Seq(V)] : IsRun(f, n, << >>, sets, step)
  <2>1. \A i \in 1..n : \A x \in sets[i - 1] : step[i][x] \in sets[i]
    BY <1>1
  <2> HIDE DEF step, sets
  <2> QED BY <1>0, <1>2, <2>1, Turns
<1>4. \A i \in 1..n : f[i] = Step(f[i - 1], i)
  <2> SUFFICES ASSUME NEW i \in 1..n PROVE f[i] = Step(f[i - 1], i)
    OBVIOUS
  <2>1. i - 1 \in 0..n
    BY <1>0
  <2>2. f[i] = step[i][f[i - 1]] /\ f[i - 1] \in sets[i - 1]
    BY <1>3, <2>1 DEF IsRun
  <2> QED BY <2>2
<1>5. f[0] = << >> /\ f[n] \in sets[n]
  BY <1>0, <1>3 DEF IsRun
<1> HIDE DEF step, sets, Step
<1>6. Eq(f)
  BY <1>0, <1>4, <1>5 DEF Given
<1> DEFINE g == CHOOSE h : Eq(h)
<1>7. Eq(g)
  BY <1>6, Zenon
<1>8. Kept(s, picked) = g[n]
  BY DEF Kept, InTurn, n, Step
<1> HIDE DEF Eq, g
<1>9. g[0] = f[0] /\ \A i \in 1..n : g[i - 1] = f[i - 1] => g[i] = f[i]
  <2>1. g = [i \in 0..n |-> IF i = 0 THEN << >>
                             ELSE CHOOSE r \in {Step(x, i) : x \in {g[i - 1]}} : TRUE]
    BY <1>7 DEF Eq, Given
  <2>2. g[0] = << >>
    BY <1>0, <2>1
  <2>3. \A i \in 1..n : g[i] = Step(g[i - 1], i)
    <3> SUFFICES ASSUME NEW i \in 1..n PROVE g[i] = Step(g[i - 1], i)
      OBVIOUS
    <3>1. g[i] = CHOOSE r \in {Step(x, i) : x \in {g[i - 1]}} : TRUE
      BY <1>0, <2>1
    <3> QED BY <3>1
  <2> QED BY <1>4, <1>5, <2>2, <2>3
<1>10. g[n] = f[n]
  BY <1>0, <1>9, SameRun
<1> QED BY <1>0, <1>5, <1>8, <1>10 DEF sets, n

------------------------------------------------------------------------------
(* The sparse set.                                                         *)

\* The sparse sets that have the entities in ids.
SparseSets(ids, V) ==
  [dense : Seq(V), entities : Seq(ids), sparse : [ids -> Nat], tail : Seq(V)]

------------------------------------------------------------------------------

\* The places of a consistent set are places of both arrays, and no two entities share one.
LEMMA SetPlaces ==
  ASSUME NEW V, NEW ids, NEW set \in SparseSets(ids, V), Consistent(set)
  PROVE  /\ Len(set.dense) \in Nat /\ Len(set.entities) = Len(set.dense)
         /\ DOMAIN set.dense = 1..Len(set.dense) /\ DOMAIN set.entities = 1..Len(set.dense)
         /\ DOMAIN set.sparse = ids
         /\ \A e \in ids : set.sparse[e] \in 1..Len(set.dense)
         /\ \A e, f \in ids : set.sparse[e] = set.sparse[f] => e = f
<1>1. /\ set.dense \in Seq(V) /\ set.entities \in Seq(ids) /\ set.sparse \in [ids -> Nat]
  BY DEF SparseSets
<1>2. /\ Len(set.dense) \in Nat /\ Len(set.entities) = Len(set.dense)
      /\ DOMAIN set.dense = 1..Len(set.dense) /\ DOMAIN set.entities = 1..Len(set.dense)
  BY <1>1 DEF Consistent
<1>3. DOMAIN set.sparse = ids
  BY <1>1
<1> QED BY <1>2, <1>3 DEF Consistent

(***************************************************************************)
(* An empty set is the empty map.                                          *)
(***************************************************************************)
LEMMA EmptySetIsEmpty ==
  ASSUME NEW V
  PROVE  EmptySet \in SparseSets({}, V) /\ Consistent(EmptySet) /\ Map(EmptySet) = << >>
BY DEF EmptySet, SparseSets, Consistent, Map

(***************************************************************************)
(* SparseSet::put adds the entity to the map, or changes its value, and no *)
(* other entity's.                                                         *)
(***************************************************************************)
THEOREM PutUpdates ==
  ASSUME NEW V, NEW ids, NEW set \in SparseSets(ids, V), Consistent(set),
         NEW id, NEW value \in V
  PROVE  /\ Placed(set, id, value) \in SparseSets(ids \cup {id}, V)
         /\ Consistent(Placed(set, id, value))
         /\ Map(Placed(set, id, value)) = With(Map(set), id, value)
<1> DEFINE new == Placed(set, id, value)
           n == Len(set.dense)
<1>1. /\ n \in Nat /\ Len(set.entities) = n
      /\ DOMAIN set.dense = 1..n /\ DOMAIN set.entities = 1..n
      /\ DOMAIN set.sparse = ids
      /\ \A e \in ids : set.sparse[e] \in 1..n
      /\ \A e, f \in ids : set.sparse[e] = set.sparse[f] => e = f
  BY SetPlaces
<1>2. /\ set.dense \in Seq(V) /\ set.entities \in Seq(ids)
      /\ set.sparse \in [ids -> Nat] /\ set.tail \in Seq(V)
  BY DEF SparseSets
<1>3. CASE id \in ids
  <2> DEFINE i == set.sparse[id]
  <2>1. i \in 1..n
    BY <1>1, <1>3
  <2>2. new = [set EXCEPT !.dense[i] = value]
    BY <1>1, <1>3, <2>1 DEF Placed, Has, Written
  <2>3. /\ new.dense = [set.dense EXCEPT ![i] = value]
        /\ new.entities = set.entities /\ new.sparse = set.sparse /\ new.tail = set.tail
    BY <2>2 DEF SparseSets
  <2>4. new.dense \in Seq(V) /\ Len(new.dense) = n /\ DOMAIN new.dense = 1..n
    BY <1>1, <1>2, <2>1, <2>3
  <2>5. new \in SparseSets(ids \cup {id}, V)
    <3>1. ids \cup {id} = ids
      BY <1>3
    <3> QED BY <1>2, <2>2, <2>3, <2>4, <3>1 DEF SparseSets
  <2>6. Consistent(new)
    BY <1>1, <2>3, <2>4 DEF Consistent
  <2>7. Map(new) = With(Map(set), id, value)
    <3>1. \A e \in ids : new.dense[set.sparse[e]] = IF e = id THEN value ELSE set.dense[set.sparse[e]]
      BY <1>1, <1>3, <2>1, <2>3
    <3>2. Map(new) = [e \in ids |-> new.dense[set.sparse[e]]]
      BY <1>1, <2>3 DEF Map, Get
    <3>3. /\ DOMAIN Map(set) \cup {id} = ids
          /\ \A e \in ids : Map(set)[e] = set.dense[set.sparse[e]]
      BY <1>1, <1>3 DEF Map, Get
    <3> QED BY <3>1, <3>2, <3>3 DEF With
  <2> QED BY <2>5, <2>6, <2>7
<1>4. CASE id \notin ids
  <2>1. new = [dense    |-> Append(set.dense, value),
               entities |-> Append(set.entities, id),
               sparse   |-> With(set.sparse, id, n + 1),
               tail     |-> IF set.tail = << >> THEN << >> ELSE Tail(set.tail)]
    BY <1>1, <1>4 DEF Placed, Has
  <2>2. new.tail \in Seq(V)
    BY <1>2, <2>1
  <2>3. /\ new.dense \in Seq(V) /\ Len(new.dense) = n + 1 /\ DOMAIN new.dense = 1..(n + 1)
        /\ new.dense[n + 1] = value /\ \A k \in 1..n : new.dense[k] = set.dense[k]
    BY <1>1, <1>2, <2>1
  <2>4. /\ new.entities \in Seq(ids \cup {id}) /\ Len(new.entities) = n + 1
        /\ DOMAIN new.entities = 1..(n + 1)
        /\ new.entities[n + 1] = id /\ \A k \in 1..n : new.entities[k] = set.entities[k]
    BY <1>1, <1>2, <2>1
  <2>5. /\ new.sparse \in [ids \cup {id} -> Nat]
        /\ new.sparse[id] = n + 1 /\ \A e \in ids : new.sparse[e] = set.sparse[e]
    BY <1>1, <1>2, <1>4, <2>1 DEF With
  <2>6. new \in SparseSets(ids \cup {id}, V)
    BY <2>1, <2>2, <2>3, <2>4, <2>5 DEF SparseSets
  <2>7. Consistent(new)
    <3>1. \A k \in 1..(n + 1) :
            new.entities[k] \in DOMAIN new.sparse /\ new.sparse[new.entities[k]] = k
      <4> SUFFICES ASSUME NEW k \in 1..(n + 1)
                   PROVE  new.entities[k] \in DOMAIN new.sparse /\ new.sparse[new.entities[k]] = k
        OBVIOUS
      <4>1. CASE k = n + 1
        BY <2>4, <2>5, <4>1
      <4>2. CASE k \in 1..n
        <5>1. set.entities[k] \in ids /\ set.sparse[set.entities[k]] = k
          BY <1>1, <4>2 DEF Consistent
        <5> QED BY <2>4, <2>5, <4>2, <5>1
      <4> QED BY <1>1, <4>1, <4>2
    <3>2. \A e \in ids \cup {id} :
            new.sparse[e] \in 1..(n + 1) /\ new.entities[new.sparse[e]] = e
      <4> SUFFICES ASSUME NEW e \in ids \cup {id}
                   PROVE  new.sparse[e] \in 1..(n + 1) /\ new.entities[new.sparse[e]] = e
        OBVIOUS
      <4>1. CASE e = id
        BY <1>1, <2>4, <2>5, <4>1
      <4>2. CASE e \in ids
        <5>1. set.sparse[e] \in 1..n /\ set.entities[set.sparse[e]] = e
          BY <1>1, <4>2 DEF Consistent
        <5> QED BY <1>1, <2>4, <2>5, <4>2, <5>1
      <4> QED BY <4>1, <4>2
    <3> QED BY <2>3, <2>4, <2>5, <3>1, <3>2 DEF Consistent
  <2>8. Map(new) = With(Map(set), id, value)
    <3>1. \A e \in ids \cup {id} :
            new.dense[new.sparse[e]] = IF e = id THEN value ELSE set.dense[set.sparse[e]]
      BY <1>1, <1>4, <2>3, <2>5
    <3>2. Map(new) = [e \in ids \cup {id} |-> new.dense[new.sparse[e]]]
      BY <2>5 DEF Map, Get
    <3>3. DOMAIN Map(set) = ids /\ \A e \in ids : Map(set)[e] = set.dense[set.sparse[e]]
      BY <1>1 DEF Map, Get
    <3> QED BY <3>1, <3>2, <3>3 DEF With
  <2> QED BY <2>6, <2>7, <2>8
<1> QED BY <1>3, <1>4

(***************************************************************************)
(* SparseSet::remove takes the entity out of the map and leaves every      *)
(* other entity its value, also the one whose instance is moved.           *)
(***************************************************************************)
THEOREM RemoveDeletes ==
  ASSUME NEW V, NEW ids, NEW set \in SparseSets(ids, V), Consistent(set), NEW id
  PROVE  /\ Removed(set, id) \in SparseSets(ids \ {id}, V)
         /\ Consistent(Removed(set, id))
         /\ Map(Removed(set, id)) = Without(Map(set), id)
<1> DEFINE new == Removed(set, id)
           n == Len(set.dense)
           i == set.sparse[id]
           moved == set.entities[n]
<1>1. /\ n \in Nat /\ Len(set.entities) = n
      /\ DOMAIN set.dense = 1..n /\ DOMAIN set.entities = 1..n
      /\ DOMAIN set.sparse = ids
      /\ \A e \in ids : set.sparse[e] \in 1..n
      /\ \A e, f \in ids : set.sparse[e] = set.sparse[f] => e = f
  BY SetPlaces
<1>2. /\ set.dense \in Seq(V) /\ set.entities \in Seq(ids)
      /\ set.sparse \in [ids -> Nat] /\ set.tail \in Seq(V)
  BY DEF SparseSets
<1>3. DOMAIN Map(set) = ids /\ \A e \in ids : Map(set)[e] = set.dense[set.sparse[e]]
  BY <1>1 DEF Map, Get
<1>4. CASE id \notin ids
  <2>1. new = set /\ ids \ {id} = ids
    BY <1>1, <1>4 DEF Removed, Has
  <2>2. Map(set) = Without(Map(set), id)
    BY <1>1, <1>4 DEF Without, Map
  <2> QED BY <2>1, <2>2
<1>5. CASE id \in ids
  <2>1. i \in 1..n /\ set.entities[i] = id /\ n - 1 \in Nat
    BY <1>1, <1>5 DEF Consistent
  <2>2. moved \in ids /\ set.sparse[moved] = n
    BY <1>1, <2>1 DEF Consistent
  <2>3. new = [dense    |-> SubSeq([set.dense EXCEPT ![i] = set.dense[n]], 1, n - 1),
               entities |-> SubSeq([set.entities EXCEPT ![i] = moved], 1, n - 1),
               sparse   |-> [e \in ids \ {id} |-> IF e = moved THEN i ELSE set.sparse[e]],
               tail     |-> <<set.dense[i]>> \o set.tail]
    BY <1>1, <1>5 DEF Removed, Has
  <2>4. new.tail \in Seq(V)
    BY <1>1, <1>2, <2>1, <2>3
  <2>5. /\ new.dense \in Seq(V) /\ Len(new.dense) = n - 1 /\ DOMAIN new.dense = 1..(n - 1)
        /\ \A k \in 1..(n - 1) : new.dense[k] = IF k = i THEN set.dense[n] ELSE set.dense[k]
    <3>1. [set.dense EXCEPT ![i] = set.dense[n]] \in Seq(V)
      BY <1>1, <1>2, <2>1
    <3>2. /\ Len([set.dense EXCEPT ![i] = set.dense[n]]) = n
          /\ \A k \in 1..n : [set.dense EXCEPT ![i] = set.dense[n]][k] =
                               IF k = i THEN set.dense[n] ELSE set.dense[k]
      BY <1>1, <1>2, <2>1
    <3> QED BY <1>1, <2>1, <2>3, <3>1, <3>2
  <2>6. /\ new.entities \in Seq(ids) /\ Len(new.entities) = n - 1
        /\ DOMAIN new.entities = 1..(n - 1)
        /\ \A k \in 1..(n - 1) : new.entities[k] = IF k = i THEN moved ELSE set.entities[k]
    <3>1. [set.entities EXCEPT ![i] = moved] \in Seq(ids)
      BY <1>1, <1>2, <2>1, <2>2
    <3>2. /\ Len([set.entities EXCEPT ![i] = moved]) = n
          /\ \A k \in 1..n : [set.entities EXCEPT ![i] = moved][k] =
                               IF k = i THEN moved ELSE set.entities[k]
      BY <1>1, <1>2, <2>1
    <3> DEFINE s == [set.entities EXCEPT ![i] = moved]
    <3>3. new.entities = SubSeq(s, 1, n - 1)
      BY <2>3
    <3> HIDE DEF s, new, moved
    <3> QED BY <1>1, <2>1, <3>1, <3>2, <3>3 DEF s
  <2>7. /\ new.sparse \in [ids \ {id} -> Nat] /\ DOMAIN new.sparse = ids \ {id}
        /\ \A e \in ids \ {id} : new.sparse[e] = IF e = moved THEN i ELSE set.sparse[e]
    BY <1>2, <2>1, <2>3
  <2>8. \A e \in ids \ {id} :
          /\ new.sparse[e] \in 1..(n - 1)
          /\ new.entities[new.sparse[e]] = e
          /\ new.dense[new.sparse[e]] = set.dense[set.sparse[e]]
    <3> SUFFICES ASSUME NEW e \in ids \ {id}
                 PROVE  /\ new.sparse[e] \in 1..(n - 1)
                        /\ new.entities[new.sparse[e]] = e
                        /\ new.dense[new.sparse[e]] = set.dense[set.sparse[e]]
      OBVIOUS
    <3>1. CASE e = moved
      <4>1. new.sparse[e] = i /\ i # n
        BY <1>1, <1>5, <2>2, <2>7, <3>1
      <4>2. i \in 1..(n - 1)
        BY <1>1, <2>1, <4>1
      <4> QED BY <2>2, <2>5, <2>6, <3>1, <4>1, <4>2
    <3>2. CASE e # moved
      <4>1. /\ new.sparse[e] = set.sparse[e] /\ set.sparse[e] \in 1..n
            /\ set.sparse[e] # i /\ set.sparse[e] # n
        BY <1>1, <1>5, <2>2, <2>7, <3>2
      <4>2. set.sparse[e] \in 1..(n - 1) /\ set.entities[set.sparse[e]] = e
        BY <1>1, <4>1 DEF Consistent
      <4> QED BY <2>5, <2>6, <4>1, <4>2
    <3> QED BY <3>1, <3>2
  <2>9. \A k \in 1..(n - 1) :
          new.entities[k] \in ids \ {id} /\ new.sparse[new.entities[k]] = k
    <3> SUFFICES ASSUME NEW k \in 1..(n - 1)
                 PROVE  new.entities[k] \in ids \ {id} /\ new.sparse[new.entities[k]] = k
      OBVIOUS
    <3>1. CASE k = i
      <4>1. moved # id
        BY <1>1, <2>1, <2>2, <3>1
      <4> QED BY <2>2, <2>6, <2>7, <3>1, <4>1
    <3>2. CASE k # i
      <4>1. new.entities[k] = set.entities[k] /\ k \in 1..n /\ k # n
        BY <1>1, <2>6, <3>2
      <4>2. set.entities[k] \in ids /\ set.sparse[set.entities[k]] = k
        BY <1>1, <4>1 DEF Consistent
      <4>3. set.entities[k] # id /\ set.entities[k] # moved
        BY <2>2, <3>2, <4>1, <4>2
      <4> QED BY <2>7, <4>1, <4>2, <4>3
    <3> QED BY <3>1, <3>2
  <2>10. new \in SparseSets(ids \ {id}, V)
    <3>1. new.entities \in Seq(ids \ {id})
      BY <2>6, <2>9
    <3> QED BY <2>3, <2>4, <2>5, <2>7, <3>1 DEF SparseSets
  <2>11. Consistent(new)
    BY <2>5, <2>6, <2>7, <2>8, <2>9 DEF Consistent
  <2>12. Map(new) = Without(Map(set), id)
    <3>1. Map(new) = [e \in ids \ {id} |-> new.dense[new.sparse[e]]]
      BY <2>7 DEF Map, Get
    <3> QED BY <1>3, <2>8, <3>1 DEF Without
  <2> QED BY <2>10, <2>11, <2>12
<1> QED BY <1>4, <1>5
==============================================================================
