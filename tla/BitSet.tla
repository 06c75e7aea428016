------------------------------- MODULE BitSet -------------------------------
(***************************************************************************)
(* rtecs::bitset::DynamicBitSet, the masks of the ECS: a sequence of       *)
(* blocks of BlockBits bits each, a block being the set of the positions   *)
(* that are on in its std::bitset.  Index 0 of the set is the highest      *)
(* position of the first block.                                            *)
(***************************************************************************)
EXTENDS Integers, Sequences, Loops

CONSTANT BlockBits   \* 64 in the code

ASSUME BlockBitsAssumption == BlockBits \in Nat \ {0}

BlockIndex(i) == i \div BlockBits + 1
BitIndex(i) == BlockBits - 1 - (i % BlockBits)

Capacity(b) == Len(b) * BlockBits

\* resize of _bitsets: new blocks are empty.
Resized(b, blocks) == [k \in 1..blocks |-> IF k \in DOMAIN b THEN b[k] ELSE {}]

\* The const operator[].
IsOn(b, i) == i < Capacity(b) /\ BitIndex(i) \in b[BlockIndex(i)]

\* none().
None(b) == \A k \in DOMAIN b : b[k] = {}

\* increase(1).
Increased(b) == Append(b, {})

\* applyOperation with ||, as | and |= use it: the result grows to the longer operand.
Or(a, b) ==
  LET blocks == IF Len(a) >= Len(b) THEN Len(a) ELSE Len(b)
  IN  [k \in 1..blocks |-> Resized(a, blocks)[k] \cup Resized(b, blocks)[k]]

\* rightShift(1), from the last block to the first: the lowest bit enters the next block.
RightShift(b) ==
  [k \in DOMAIN b |->
     {p - 1 : p \in b[k] \ {0}}
       \cup IF k > 1 /\ 0 \in b[k - 1] THEN {BlockBits - 1} ELSE {}]

\* serialize(): the indices that are on, in ascending order.
Serialize(b) ==
  Kept([i \in 1..Capacity(b) |-> i - 1], {i \in 1..Capacity(b) : IsOn(b, i - 1)})

(***************************************************************************)
(* deserialize(indexes): the blocks are allotted from the last index, and  *)
(* none at all for an index of 0.  Without an index, or with 0 alone, the  *)
(* code reads or writes outside of a vector: no mask of the program is     *)
(* like that, since no component has index 0.                              *)
(***************************************************************************)
Deserialize(indexes) ==
  [k \in 1..BlockIndex(indexes[Len(indexes)]) |->
     {BitIndex(indexes[n]) : n \in {m \in DOMAIN indexes : BlockIndex(indexes[m]) = k}}]
=============================================================================
