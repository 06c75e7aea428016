---------------------------- MODULE LevelDirector ----------------------------
(***************************************************************************)
(* level::Director: credits grow while a game runs and are spent on waves  *)
(* of enemies.  Time is counted in ticks and credits in whole numbers; the *)
(* income, which grows with _gameTime in the code, is constant here.       *)
(***************************************************************************)
EXTENDS Integers, Sequences, FiniteSets, Loops

CONSTANTS
  WavePool,    (* The wave archetypes of the configuration, a sequence of   *)
               (* [cost, weight, interval, counts]: counts[g] is the number *)
               (* of enemies in group g, interval is in ticks.              *)
  Income,      (* Credits gained per tick.                                  *)
  Delays,      (* The delays a wave may start with, in ticks.               *)
  MaxCredits   (* Bound: credits at the start of a tick.                    *)

Archetypes == DOMAIN WavePool

(***************************************************************************)
(* What the shipped configuration satisfies.  A wave without a cost could  *)
(* be picked for ever, one without a group of enemies has no enemies[0].   *)
(***************************************************************************)
ASSUME WavePoolAssumption ==
  \A a \in Archetypes :
    /\ WavePool[a].cost \in Nat \ {0} /\ WavePool[a].interval \in Nat
    /\ WavePool[a].counts \in Seq(Nat \ {0}) /\ WavePool[a].counts # << >>

\* The credits never fall but for waves, and the waves start late, not early.
ASSUME IncomeAssumption == Income \in Nat /\ MaxCredits \in Nat /\ Delays \subseteq Nat

\* Director(), and restart().
Restarted == [credits |-> 0, waves |-> << >>]

\* The waves that may be picked with so many credits: at least half of them are spent if possible.
Candidates(credits) ==
  LET affordable == {a \in Archetypes : WavePool[a].cost <= credits}
      spending == {a \in affordable : 2 * WavePool[a].cost >= credits}
  IN  {a \in IF spending # {} THEN spending ELSE affordable : WavePool[a].weight > 0}

\* getPickedWaves: the waves it may return in turn, and the credits that are left.
Picks[credits \in 0..(MaxCredits + Income)] ==
  IF credits = 0 \/ Candidates(credits) = {} THEN {[waves |-> << >>, left |-> credits]}
  ELSE UNION {{[waves |-> <<a>> \o later.waves, left |-> later.left] :
                 later \in Picks[credits - WavePool[a].cost]} : a \in Candidates(credits)}

\* An Active wave, as it is picked.
NewWave(a, delay) ==
  [archetype |-> a, timer |-> -delay, group |-> 1, spawned |-> 0, finished |-> FALSE]

\* pickRandomWaves
Picked(d) ==
  UNION {{[credits |-> p.left, waves |-> [i \in DOMAIN p.waves |-> NewWave(p.waves[i], delay[i])]] :
            delay \in [DOMAIN p.waves -> Delays]} : p \in Picks[d.credits]}

\* pickNewWaveIfNeeded
PickedIfNeeded(d) == IF d.waves # << >> THEN {d} ELSE Picked(d)

\* A wave after one more tick spawns an enemy if its interval has passed.
Due(wave) == ~wave.finished /\ wave.timer + 1 >= WavePool[wave.archetype].interval

\* Mutant: the wave goes on after its last group.
AdvancedForEver(wave) ==
  LET arch == WavePool[wave.archetype]
      next == IF wave.spawned + 1 >= arch.counts[wave.group]
              THEN [wave EXCEPT !.spawned = 0, !.group = @ + 1]
              ELSE [wave EXCEPT !.spawned = @ + 1]
  IN  IF Due(wave) THEN [next EXCEPT !.timer = @ + 1 - arch.interval]
      ELSE [wave EXCEPT !.timer = @ + 1]

Advanced(wave) ==
  LET arch == WavePool[wave.archetype]
      next == IF wave.spawned + 1 >= arch.counts[wave.group]
              THEN [wave EXCEPT !.spawned = 0, !.group = @ + 1,
                                !.finished = wave.group = Len(arch.counts)]
              ELSE [wave EXCEPT !.spawned = @ + 1]
  IN  IF Due(wave) THEN [next EXCEPT !.timer = @ + 1 - arch.interval]
      ELSE [wave EXCEPT !.timer = @ + 1]

(***************************************************************************)
(* update(dt): the states it may lead to, with the number of enemies it    *)
(* spawns and whether it looks for the players (at least one wave is       *)
(* active).  A wave that finished in an earlier tick is erased.            *)
(***************************************************************************)
Updated(d) ==
  {LET left == Kept(e.waves, {i \in DOMAIN e.waves : ~e.waves[i].finished}) IN
   [director |-> [e EXCEPT !.waves = [i \in DOMAIN left |-> Advanced(left[i])]],
    spawned |-> Cardinality({i \in DOMAIN left : Due(left[i])}),
    looks |-> e.waves # << >>] :
     e \in PickedIfNeeded([d EXCEPT !.credits = @ + Income])}
==============================================================================
