------------------------------- MODULE Packet -------------------------------
(***************************************************************************)
(* rtnt::core::Packet and EntityContent: values written one after the      *)
(* other into a buffer of bytes, and read back at a cursor.  A scalar is   *)
(* swapped from the memory's little endian to big endian and back.  A      *)
(* reader is a record [buffer, position, value, thrown]; once a read has   *)
(* thrown "Packet Underflow" the following ones are not performed.         *)
(***************************************************************************)
EXTENDS Integers, Sequences, SequencesExt, Loops

CONSTANT WordBytes   \* sizeof(size_t) and sizeof(uint64_t), 8 in the code

ASSUME WordBytesAssumption == WordBytes \in Nat /\ WordBytes >= 2 /\ WordBytes % 2 = 0

IntBytes == WordBytes \div 2   \* sizeof(int), of an enumeration

\* The bytes of a number in the memory, from the lowest, and the number that bytes stand for.
InMemory(n, width) ==
  LET left[k \in 0..width] == IF k = 0 THEN n ELSE left[k - 1] \div 256
  IN  [k \in 1..width |-> left[k - 1] % 256]
FromMemory(bytes) ==
  InTurn(LAMBDA n, i : bytes[Len(bytes) + 1 - i] + 256 * n, 0, Len(bytes))

\* endian::swap
Swap(bytes) == Reverse(bytes)

\* operator<< of an arithmetic type or an enumeration.
Scalar(n, width) == Swap(InMemory(n, width))

\* What is written in turn.
Chained(writes) == InTurn(LAMBDA bytes, i : bytes \o writes[i], << >>, Len(writes))

\* operator<< of a vector whose elements are written as these; more than 65535 of them throw.
Vector(elements) == Scalar(Len(elements), 2) \o Chained(elements)

VectorOf(numbers, width) == Vector([i \in DOMAIN numbers |-> Scalar(numbers[i], width)])

\* Packet(data), _internal_setPayload
Reader(buffer) == [buffer |-> buffer, position |-> 0, value |-> 0, thrown |-> FALSE]

\* operator>> of an arithmetic type or an enumeration.
Read(r, width) ==
  LET end == r.position + width IN
  IF r.thrown \/ end > Len(r.buffer) THEN [r EXCEPT !.thrown = TRUE]
  ELSE [r EXCEPT !.value = FromMemory(Swap(SubSeq(r.buffer, r.position + 1, end))),
                 !.position = end]

\* operator>> of a vector, whose elements are read with Element.
ReadVector(r, Element(_)) ==
  LET sized == Read(r, 2)
      Step(s, i) == IF s.thrown THEN s
                    ELSE LET e == Element(s)
                         IN  [e EXCEPT !.value = Append(s.value, e.value)]
  IN  IF sized.thrown THEN sized
      ELSE InTurn(Step, [sized EXCEPT !.value = << >>], sized.value)

ReadVectorOf(r, width) == ReadVector(r, LAMBDA s : Read(s, width))
=============================================================================
