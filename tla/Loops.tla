-------------------------------- MODULE Loops --------------------------------
(***************************************************************************)
(* Loops that go through numbered places in turn, as functions.            *)
(***************************************************************************)
EXTENDS Integers, Sequences

\* Op(v), with v worked out only once (TLC may evaluate an argument wherever it is used).
Given(v, Op(_)) == CHOOSE r \in {Op(x) : x \in {v}} : TRUE

\* What the body Step of a loop makes of r, performed for the places 1..n in turn.
InTurn(Step(_, _), r, n) ==
  LET after[i \in 0..n] == IF i = 0 THEN r ELSE Given(after[i - 1], LAMBDA last : Step(last, i))
  IN  after[n]

\* The elements of s at the places in picked, in their order.
Kept(s, picked) ==
  InTurn(LAMBDA kept, i : IF i \in picked THEN Append(kept, s[i]) ELSE kept, << >>, Len(s))
==============================================================================
