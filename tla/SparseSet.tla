------------------------------ MODULE SparseSet ------------------------------
(***************************************************************************)
(* rtecs::sparse::SparseSet: the instances of one component, contiguous in *)
(* _dense, with the entity of each in _entities and, in the sparse pages,  *)
(* the place of each entity (the paging is left out).  What pop_back takes *)
(* off the end of _dense stays readable in the vector's memory: a group    *)
(* that holds references may still read it there, so tail keeps it.        *)
(***************************************************************************)
EXTENDS Integers, Sequences

EmptySet == [dense |-> << >>, entities |-> << >>, sparse |-> << >>, tail |-> << >>]

Has(set, id) == id \in DOMAIN set.sparse

\* get(id), for an entity that the set has.
Get(set, id) == set.dense[set.sparse[id]]

\* What a reference to slot i of _dense reads, in or past the end.
Memory(set) == set.dense \o set.tail

\* f, and also id |-> i.
With(f, id, i) == [e \in DOMAIN f \cup {id} |-> IF e = id THEN i ELSE f[e]]

\* f without id.
Without(f, id) == [e \in DOMAIN f \ {id} |-> f[e]]

\* Writing through a reference (or _dense[i] = component).
Written(set, i, value) ==
  IF i \in DOMAIN set.dense THEN [set EXCEPT !.dense[i] = value]
  ELSE [set EXCEPT !.tail[i - Len(set.dense)] = value]

\* put(id, value).
Placed(set, id, value) ==
  IF Has(set, id) THEN Written(set, set.sparse[id], value)
  ELSE [dense    |-> Append(set.dense, value),
        entities |-> Append(set.entities, id),
        sparse   |-> With(set.sparse, id, Len(set.dense) + 1),
        tail     |-> IF set.tail = << >> THEN << >> ELSE Tail(set.tail)]

\* remove(id): the last instance moves into the gap.
Removed(set, id) ==
  IF ~Has(set, id) THEN set
  ELSE LET i == set.sparse[id]
           last == Len(set.dense)
       IN  [dense    |-> SubSeq([set.dense EXCEPT ![i] = set.dense[last]], 1, last - 1),
            entities |-> SubSeq([set.entities EXCEPT ![i] = set.entities[last]], 1, last - 1),
            sparse   |-> [e \in DOMAIN set.sparse \ {id} |->
                            IF e = set.entities[last] THEN i ELSE set.sparse[e]],
            tail     |-> <<set.dense[i]>> \o set.tail]

------------------------------------------------------------------------------
(* What a sparse set is for: a map from entities to values.                *)

\* The map that the set stands for.
Map(set) == [id \in DOMAIN set.sparse |-> Get(set, id)]

\* The two dense arrays are of one length, and the places of the entities lead there and back.
Consistent(set) ==
  /\ Len(set.dense) = Len(set.entities)
  /\ \A i \in DOMAIN set.entities :
       set.entities[i] \in DOMAIN set.sparse /\ set.sparse[set.entities[i]] = i
  /\ \A id \in DOMAIN set.sparse :
       set.sparse[id] \in DOMAIN set.entities /\ set.entities[set.sparse[id]] = id
==============================================================================
