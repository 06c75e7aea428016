------------------------------ MODULE Movement ------------------------------
(***************************************************************************)
(* The systems of a lobby that move its entities, on the sparse set of     *)
(* their bodies: every entity of a lobby has a Type, a State, a Velocity,  *)
(* a Position and a Hitbox, registered and removed together, so that one   *)
(* dense array stands for those five.  Lengths are whole numbers of a unit *)
(* of the model, and what the cosines of the code give is a choice.        *)
(***************************************************************************)
EXTENDS GameEnums, Loops, SparseSet, SequencesExt

CONSTANTS
  Box,            (* The hitbox of each entity::Type, as [width, height].    *)
  ScreenWidth,
  ScreenHeight,
  MaxVelocity,    (* Of an enemy.                                            *)
  Lines,          (* Where the patterns change: [slow, wave, top, bottom].   *)
  ZigzagPush      (* What zigzag adds to come back into the screen.          *)

ASSUME LengthsAssumption ==
  /\ Box \in [{kPlayer, kEnemy, kBullet} -> [width : Nat, height : Nat]]
  /\ {ScreenWidth, ScreenHeight, MaxVelocity, ZigzagPush} \subseteq Nat
  /\ Lines \in [slow : Int, wave : Int, top : Int, bottom : Int]

\* A body; updated is Position's isUpdated, set is MoveSet (of an enemy).
Body(type, state, x, y, vx, set) ==
  [type |-> type, state |-> state, x |-> x, y |-> y, vx |-> vx, vy |-> 0, updated |-> FALSE,
   set |-> set]

------------------------------------------------------------------------------
(* ApplyEnemyMovement; slope is what the cosines give for each enemy.      *)

StraightSlow(b) ==
  [b EXCEPT !.vx = IF b.x < Lines.slow /\ @ = 0 THEN MaxVelocity
                   ELSE IF b.x > Lines.slow THEN -(MaxVelocity \div 4) ELSE @]

Wave(b, slope) ==
  LET vx == IF b.x < Lines.wave /\ b.vx = 0 THEN MaxVelocity \div 2 ELSE -(MaxVelocity \div 2)
  IN  [b EXCEPT !.vx = vx, !.vy = slope * vx]

Zigzag(b, slope) ==
  LET vx == IF b.vx = 0 THEN -(MaxVelocity \div 2) ELSE b.vx
      push == IF b.y < Lines.top THEN ZigzagPush ELSE IF b.y > Lines.bottom THEN -ZigzagPush ELSE 0
  IN  [b EXCEPT !.vx = vx, !.vy = slope * vx + push]

Steered(b, slope) ==
  CASE b.set = kHover -> b
    [] b.set = kStraightSlow -> StraightSlow(b)
    [] b.set = kWave -> Wave(b, slope)
    [] b.set = kZigZag -> Zigzag(b, slope)

Enemies(set) == {set.entities[i] : i \in {j \in DOMAIN set.dense : set.dense[j].type = kEnemy}}

ApplyEnemyMovement(set, slope) ==
  InTurn(LAMBDA s, i : IF s.dense[i].type # kEnemy THEN s
                       ELSE [s EXCEPT !.dense[i] = Steered(@, slope[s.entities[i]])],
         set, Len(set.dense))

------------------------------------------------------------------------------
(* ApplyMovement.                                                          *)

\* collide: boxes that only touch do not.
Collide(x, y, type, b) ==
  /\ x < b.x + Box[b.type].width /\ x + Box[type].width > b.x
  /\ y < b.y + Box[b.type].height /\ y + Box[type].height > b.y

(***************************************************************************)
(* findCollider: the slot of the first body of a type, whatever its state, *)
(* that the body in slot i would meet at (x, y); 0 if there is none.       *)
(***************************************************************************)
Collider(set, i, x, y, type) ==
  LET met == {j \in DOMAIN set.dense \ {i} :
                /\ set.dense[j].type = type
                /\ Collide(x, y, set.dense[i].type, set.dense[j])}
  IN  IF met = {} THEN 0 ELSE Min(met)

\* handlePlayerHorizontalMovement, for the body in slot i that meets the one in slot j.
Horizontally(set, i, j) ==
  LET b == set.dense[i]
      x == CASE j = 0 -> b.x + b.vx
             [] j # 0 /\ b.vx > 0 -> set.dense[j].x - Box[b.type].width
             [] j # 0 /\ b.vx < 0 -> set.dense[j].x + Box[set.dense[j].type].width
             [] j # 0 /\ b.vx = 0 -> b.x
  IN  [set EXCEPT !.dense[i] = [b EXCEPT !.x = x, !.vx = 0]]

\* handlePlayerVerticalMovement.
Vertically(set, i, j) ==
  LET b == set.dense[i]
      y == CASE j = 0 -> b.y + b.vy
             [] j # 0 /\ b.vy > 0 -> set.dense[j].y - Box[b.type].height
             [] j # 0 /\ b.vy < 0 -> set.dense[j].y + Box[set.dense[j].type].height
             [] j # 0 /\ b.vy = 0 -> b.y
  IN  [set EXCEPT !.dense[i] = [b EXCEPT !.y = y, !.vy = 0]]

\* What the player in slot i meets if it moves horizontally, and vertically.
Beside(set, i) ==
  Collider(set, i, set.dense[i].x + set.dense[i].vx, set.dense[i].y, kPlayer)
Above(set, i) ==
  Collider(set, i, set.dense[i].x, set.dense[i].y + set.dense[i].vy, kPlayer)

\* Mutant: both ways are looked up before the player moves.
WalkedAtOnce(set, i) ==
  LET high == Above(set, i) IN
  Given(Given(Beside(set, i), LAMBDA j : Horizontally(set, i, j)),
        LAMBDA across : Vertically(across, i, high))

\* A player: horizontally first, then vertically from where that led to.
Walked(set, i) ==
  Given(Given(Beside(set, i), LAMBDA j : Horizontally(set, i, j)),
        LAMBDA across : Given(Above(across, i), LAMBDA j : Vertically(across, i, j)))

\* Mutant: a bullet flies on when it has crossed the screen.
OffScreenLeft(b) == b.x - Box[b.type].width < 0

(***************************************************************************)
(* A bullet counts as off the screen a box's width (height) too early at   *)
(* the left (top): x - width < 0.                                          *)
(***************************************************************************)
OffScreen(b) ==
  \/ b.x - Box[b.type].width < 0 \/ b.x > ScreenWidth
  \/ b.y - Box[b.type].height < 0 \/ b.y > ScreenHeight

(***************************************************************************)
(* handleEntityMovement, for a bullet or an enemy that meets the body in   *)
(* slot j: both are dead.  A bullet off the screen is dead too.            *)
(***************************************************************************)
Flown(set, i, j) ==
  LET b == set.dense[i]
      moved == [b EXCEPT !.x = @ + b.vx, !.y = @ + b.vy]
      flown == IF j = 0 THEN moved ELSE [b EXCEPT !.vx = 0, !.vy = 0, !.state = EntityDead]
      after == IF b.type = kBullet /\ OffScreen(flown) THEN [flown EXCEPT !.state = EntityDead]
               ELSE flown
      met == IF j = 0 THEN set ELSE [set EXCEPT !.dense[j].state = EntityDead]
  IN  [met EXCEPT !.dense[i] = after]

\* What a bullet or an enemy meets.
Ahead(set, i) ==
  LET b == set.dense[i]
  IN  Collider(set, i, b.x + b.vx, b.y + b.vy, IF b.type = kBullet THEN kEnemy ELSE kPlayer)

MovedOn(set, i) ==
  IF set.dense[i].type = kPlayer THEN Walked(set, i)
  ELSE Given(Ahead(set, i), LAMBDA j : Flown(set, i, j))

\* Mutant: a position is updated if the body still moves afterwards.
MovedThenUpdated(set, i) ==
  Given(MovedOn(set, i),
        LAMBDA s : [s EXCEPT !.dense[i].updated = s.dense[i].vx # 0 \/ s.dense[i].vy # 0])

Moved(set, i) ==
  Given([set EXCEPT !.dense[i].updated = set.dense[i].vx # 0 \/ set.dense[i].vy # 0],
        LAMBDA marked : MovedOn(marked, i))

ApplyMovement(set) == InTurn(Moved, set, Len(set.dense))

------------------------------------------------------------------------------

\* BroadcastUpdatedMovements: what it sends, and the bodies it leaves.
UpdatedMovements(set) ==
  LET moved == Kept([i \in DOMAIN set.dense |-> i], {i \in DOMAIN set.dense : set.dense[i].updated})
  IN  [k \in DOMAIN moved |->
         [id |-> set.entities[moved[k]], x |-> set.dense[moved[k]].x, y |-> set.dense[moved[k]].y]]

Announced(set) ==
  InTurn(LAMBDA s, i : [s EXCEPT !.dense[i].updated = FALSE], set, Len(set.dense))

(***************************************************************************)
(* BroadcastDeadEntities: each body is read in the slot it had at first,   *)
(* which after a removal may be that of another, or past the end.          *)
(***************************************************************************)
KillDead(set) ==
  LET Visit(r, i) ==
        LET seen == Memory(r.set)[i]
            id == set.entities[i]
        IN  IF seen.type = kPlayer \/ seen.state # EntityDead THEN r
            ELSE [set |-> Removed(r.set, id), killed |-> Append(r.killed, id)]
      r == InTurn(Visit, [set |-> set, killed |-> << >>], Len(set.dense))
  IN  [set |-> [r.set EXCEPT !.tail = << >>], killed |-> r.killed]
==============================================================================
