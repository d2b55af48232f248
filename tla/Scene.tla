-------------------------------- MODULE Scene --------------------------------
(***************************************************************************)
(* The component stores of a Scene (src/entity.cpp, entity.hpp), on top of *)
(* the entities that the world of SceneReplicator keeps.                   *)
(*                                                                         *)
(* Every live entity has a Transform; any other kind is a store of its     *)
(* own, a map from entity to value.                                        *)
(***************************************************************************)
EXTENDS SceneReplicator

\* The kinds with accessors of their own, which are shorthands for Attach, Detach and Get.
RigidBody       == "RigidBody"
Collider        == "Collider"
Shape           == "Shape"
SpriteAnimation == "SpriteAnimation"
Text            == "Text"

Kinds == {RigidBody, Collider, Shape, SpriteAnimation, Text}

NoComponent == "NoComponent"

NewScene(sources) ==
    LET w == NewWorld(sources)
    IN  [live |-> w.live, nextEntity |-> w.nextEntity, nextLocal |-> w.nextLocal,
         entities |-> w.entities, netIds |-> w.netIds, receivedFrom |-> w.receivedFrom,
         transforms |-> <<>>, stores |-> [k \in Kinds |-> <<>>], extras |-> <<>>]

Identity == 0

\* createEntity() for every entity that lives and has no Transform yet.
GiveTransforms(w) ==
    [w EXCEPT !.transforms = [e \in DOMAIN @ \cup w.live |->
                                 IF e \in DOMAIN @ THEN @[e] ELSE Identity]]

\* Slip: the components of a destroyed entity stay in their stores.
EraseComponents_TransformOnly(w) == [w EXCEPT !.transforms = Restrict(@, w.live)]

\* destroyEntity() of every entity that lives no more: it erases it from all the stores.
EraseComponents(w) ==
    [w EXCEPT !.transforms = Restrict(@, w.live),
              !.stores = [k \in Kinds |-> Restrict(@[k], w.live \cap DOMAIN @[k])]]

Create(w)     == GiveTransforms(CreateEntity(w))
Destroy(w, e) == EraseComponents(DestroyEntity(w, e))

HasEntity(w, e) == e \in w.live

\* add() throws for an entity that does not live, and changes nothing.
Attach(w, kind, e, value) ==
    IF HasEntity(w, e) THEN [w EXCEPT !.stores[kind] = Put(@, e, value)] ELSE w

Detach(w, kind, e) == [w EXCEPT !.stores[kind] = Erase(@, {e})]

Has(w, kind, e) == e \in DOMAIN w.stores[kind]
Get(w, kind, e) == IF Has(w, kind, e) THEN w.stores[kind][e] ELSE NoComponent

SetTransform(w, e, value) ==
    IF HasEntity(w, e) THEN [w EXCEPT !.transforms[e] = value] ELSE w
=============================================================================
