--------------------------------- MODULE Ecs ---------------------------------
(***************************************************************************)
(* rtecs::ECS, as operators on a world:                                    *)
(*   entities  _entities: the mask of every entity                         *)
(*   next      _entitiesID                                                 *)
(*   sets      _components: the sparse set of every registered component   *)
(*   masks     _componentsMasks                                            *)
(*   index     _componentMaskIndex                                         *)
(* The instances of an entity are a function from components to values.    *)
(* Systems are called by those who own the world; the warnings are left    *)
(* out, with the early returns they announce kept.                         *)
(***************************************************************************)
EXTENDS BitSet, SparseSet, SequencesExt

\* ECS::ECS: the mask index starts at index 0, which no component gets.
NewWorld ==
  [entities |-> << >>, next |-> 0, sets |-> << >>, masks |-> << >>,
   index |-> <<{BlockBits - 1}>>]

Components(w) == DOMAIN w.sets
Entities(w) == DOMAIN w.entities

\* registerComponent: the index moves on even if the component is registered already.
RegisterComponent(w, c) ==
  LET index == RightShift(IF None(RightShift(w.index)) THEN Increased(w.index) ELSE w.index)
  IN  IF c \in Components(w) THEN [w EXCEPT !.index = index]
      ELSE [w EXCEPT !.index = index, !.masks = With(@, c, index), !.sets = With(@, c, EmptySet)]

RegisterComponents(w, cs) == InTurn(LAMBDA v, i : RegisterComponent(v, cs[i]), w, Len(cs))

\* getComponentMask<T...>(), of the components in order; the mask of none is empty.
ComponentMask(w, cs) ==
  InTurn(LAMBDA mask, i : IF cs[i] \in DOMAIN w.masks THEN Or(mask, w.masks[cs[i]]) ELSE mask,
         << >>, Len(cs))

\* insertComponentInstance
Insert(w, id, c, value) ==
  IF id \notin Entities(w) \/ c \notin Components(w) THEN w
  ELSE [w EXCEPT !.entities[id] = Or(@, ComponentMask(w, <<c>>)),
                 !.sets[c] = Placed(@, id, value)]

\* addEntityComponents, with the components as a sequence of their types.
AddComponents(w, id, cs, instances) ==
  InTurn(LAMBDA v, i : Insert(v, id, cs[i], instances[cs[i]]), w, Len(cs))

\* registerEntity: the entity gets w.next, unless none of its components is registered.
RegisterEntity(w, cs, instances) ==
  LET mask == ComponentMask(w, cs)
      inserted == [w EXCEPT !.entities = With(@, w.next, mask)]
  IN  IF None(mask) THEN w
      ELSE [AddComponents(inserted, w.next, cs, instances) EXCEPT !.next = @ + 1]

\* preRegisterEntity
PreRegisterEntity(w) == [w EXCEPT !.entities = With(@, w.next, << >>), !.next = @ + 1]

\* Mutant: one sparse set keeps its instance of the entity.
DestroyEntityPartly(w, id) ==
  LET kept == CHOOSE c \in Components(w) : TRUE
  IN  [w EXCEPT !.sets = [c \in Components(w) |-> IF c = kept THEN @[c] ELSE Removed(@[c], id)],
                !.entities = Without(@, id)]

DestroyEntity(w, id) ==
  [w EXCEPT !.sets = [c \in Components(w) |-> Removed(@[c], id)],
            !.entities = Without(@, id)]

\* What was popped is forgotten: no group, hence no reference, outlives a step of a thread.
Settled(w) == [w EXCEPT !.sets = [c \in DOMAIN @ |-> [@[c] EXCEPT !.tail = << >>]]]

HasComponent(w, id, c) == c \in Components(w) /\ Has(w.sets[c], id)

\* group<T>().getEntity<T>(id), and getEntityComponent<T>(id), where present.
Component(w, id, c) == Get(w.sets[c], id)

\* A write through the reference they return.
SetComponent(w, id, c, value) == [w EXCEPT !.sets[c] = Written(@, @.sparse[id], value)]

------------------------------------------------------------------------------
(* Groups.  A view holds, for every entity put in it, a reference to its   *)
(* instance of a component: the slot it had at that time.                  *)

EmptyView == [keys |-> << >>, slots |-> << >>]

\* SparseView::put: a key that is there keeps its value, and is listed again.
Put(view, id, slot) ==
  [keys  |-> Append(view.keys, id),
   slots |-> IF id \in DOMAIN view.slots THEN view.slots ELSE With(view.slots, id, slot)]

\* SparseGroup::addEntity
AddEntity(set, view, id) == IF Has(set, id) THEN Put(view, id, set.sparse[id]) ELSE view
ViewOf(set, ids) ==
  InTurn(LAMBDA view, i : AddEntity(set, view, ids[i]), EmptyView, Len(ids))

\* The smallest of the sets, the first of those: group<T...>() takes its entities in their order.
Driver(w, cs) ==
  CHOOSE i \in DOMAIN cs :
    /\ \A j \in DOMAIN cs : Len(w.sets[cs[i]].dense) <= Len(w.sets[cs[j]].dense)
    /\ \A j \in 1..(i - 1) : Len(w.sets[cs[i]].dense) < Len(w.sets[cs[j]].dense)

\* group<T...>(): a view per component, of the entities that all the sets have.
Group(w, cs) ==
  LET valid(id) == \A c \in ToSet(cs) : Has(w.sets[c], id)
      driver == w.sets[cs[Driver(w, cs)]].entities
      ids == Kept(driver, {i \in DOMAIN driver : valid(driver[i])})
  IN  [c \in ToSet(cs) |-> ViewOf(w.sets[c], ids)]

\* getEntities(): the keys of the first view.
GroupEntities(group, cs) == group[cs[1]].keys

\* SparseView::at, as SparseGroup::apply hands it to its callback.
Referenced(w, group, id, c) == Memory(w.sets[c])[group[c].slots[id]]
==============================================================================
