----------------------------- MODULE Replication -----------------------------
(***************************************************************************)
(* A scene replicated as data: what sceneReplicator (encode, apply, extra  *)
(* bytes; src/networking/sceneReplicator.cpp) copies of every component,   *)
(* between the game of one client that edits its scene and the game of     *)
(* another that may touch the copies.                                      *)
(*                                                                         *)
(* SceneReplicator says which entities a snapshot creates and destroys;    *)
(* here the records have their components and the snapshots their bytes.   *)
(***************************************************************************)
EXTENDS Scene, SceneCodec

CONSTANTS
    Sender, Receiver,  \* the ClientIds of the two
    MaxEdits,          \* bound: edits of either game
    MaxEntities        \* bound: entities of the sender

\* What an id is made of is as wide as a byte here.
ASSUME ReplicationAssumption ==
    /\ Sender \in 0 .. Base - 1 /\ Receiver \in (0 .. Base - 1) \ {Sender}
    /\ MaxEntities \in 0 .. Base

VARIABLES
    scene,     \* the sender's replicator and scene
    format,    \* ... and its setFormat()
    copies,    \* the receiver's replicator and scene
    edits      \* how many edits there were

gameVars == <<scene, format, copies, edits>>

NetIdNumber(id) == OwnerOf(id) * Base + LocalOf(id)
NetId(number)   == <<number \div Base, number % Base>>

-----------------------------------------------------------------------------
SetExtra(w, id, extra) == [w EXCEPT !.extras = Put(@, id, extra)]

\* untrack() also erases the extra bytes.
UntrackAll(w, e) == [Untrack(w, e) EXCEPT !.extras = Erase(@, ValuesOf(w.netIds, {e}))]

Bit(b) == IF b THEN 1 ELSE 0

\* What the entity does not have keeps its default.
Record(w, id) ==
    LET e      == w.entities[id]
        shape  == Get(w, Shape, e)
        shaped == Has(w, Shape, e)
        more   == id \in DOMAIN w.extras
    IN  [EntityRecord EXCEPT
            !.id = NetIdNumber(id), !.transform = w.transforms[e],
            !.mask = HasRigidBody * Bit(Has(w, RigidBody, e))
                     + HasCollider * Bit(Has(w, Collider, e))
                     + HasShape * Bit(shaped) + HasExtra * Bit(more),
            !.rigidBody = IF Has(w, RigidBody, e) THEN Get(w, RigidBody, e) ELSE @,
            !.collider = IF Has(w, Collider, e) THEN Get(w, Collider, e) ELSE @,
            !.shapeSize = IF shaped THEN shape.size ELSE @,
            !.shapeColor = IF shaped THEN shape.color ELSE @,
            !.shapeTiled = IF shaped THEN shape.tiled ELSE @,
            !.extra = IF more THEN w.extras[id] ELSE @]

\* What is mapped to an entity that still lives, in the order of a hash map.
Records(w, self, ownedOnly) ==
    LET ids   == {id \in DOMAIN w.entities :
                     (ownedOnly => OwnerOf(id) = self) /\ HasEntity(w, w.entities[id])}
        order == SetToSeq(ids)
    IN  [i \in DOMAIN order |-> Record(w, order[i])]

Encode(w, self, fmt, ownedOnly) == WriteSnapshot(fmt, Records(w, self, ownedOnly))

EncodeOwned(w, self, fmt) == Encode(w, self, fmt, TRUE)

-----------------------------------------------------------------------------
AddOrRemove(w, kind, e, present, value) ==
    IF present THEN Attach(w, kind, e, value) ELSE Detach(w, kind, e)

NoTexture == "NoTexture"

\* Slip: the shape of the record replaces all of the shape.
ShapeOf_NoTexture(w, e, r) ==
    [size |-> r.shapeSize, color |-> r.shapeColor, tiled |-> r.shapeTiled, texture |-> NoTexture]

\* The texture of a shape is local: it stays when the shape is overwritten.
ShapeOf(w, e, r) ==
    [size |-> r.shapeSize, color |-> r.shapeColor, tiled |-> r.shapeTiled,
     texture |-> IF Has(w, Shape, e) THEN Get(w, Shape, e).texture ELSE NoTexture]

\* Slip: a component the record does not have stays.
ApplyRecord_NeverRemoves(w, r) ==
    LET id == NetId(r.id)
        e  == w.entities[id]
        placed  == SetTransform(w, e, r.transform)
        moving  == IF Holds(r.mask, HasRigidBody)
                   THEN Attach(placed, RigidBody, e, r.rigidBody) ELSE placed
        solid   == IF Holds(r.mask, HasCollider)
                   THEN Attach(moving, Collider, e, r.collider) ELSE moving
    IN  IF Holds(r.mask, HasShape) THEN Attach(solid, Shape, e, ShapeOf(solid, e, r)) ELSE solid

ApplyRecord(w, r) ==
    LET id == NetId(r.id)
        e  == w.entities[id]
        placed  == SetTransform(w, e, r.transform)
        moving  == AddOrRemove(placed, RigidBody, e, Holds(r.mask, HasRigidBody), r.rigidBody)
        solid   == AddOrRemove(moving, Collider, e, Holds(r.mask, HasCollider), r.collider)
        visible == AddOrRemove(solid, Shape, e, Holds(r.mask, HasShape), ShapeOf(solid, e, r))
    IN  IF Holds(r.mask, HasExtra) THEN SetExtra(visible, id, r.extra)
        ELSE [visible EXCEPT !.extras = Erase(@, {id})]

\* What this process owns itself is skipped.
ApplyUnlessOwn(w, self, r) == IF OwnerOf(NetId(r.id)) = self THEN w ELSE ApplyRecord(w, r)

ApplyEach(w, self, records) ==
    FoldLeft(LAMBDA u, r : ApplyUnlessOwn(u, self, r), w, records)

\* Slip: the extra bytes of an id go only with an entity that is mapped to it.
ApplyRecords_ExtraOfMapped(w, self, records, from, g) ==
    LET seen    == Accepted(self, {NetId(r.id) : r \in ToSet(records)})
        updated == ApplyEach(GiveTransforms(Spawn(w, g)), self, records)
        gone    == (w.receivedFrom[from] \ seen) \cap DOMAIN w.entities
    IN  EraseComponents([Replace(updated, from, seen) EXCEPT !.extras = Erase(@, gone)])

\* apply() of the records of a snapshot that could be read; g numbers the new entities.
ApplyRecords(w, self, records, from, g) ==
    LET seen    == Accepted(self, {NetId(r.id) : r \in ToSet(records)})
        spawned == GiveTransforms(Spawn(w, g))
        updated == ApplyEach(spawned, self, records)
        gone    == w.receivedFrom[from] \ seen
    IN  EraseComponents([Replace(updated, from, seen) EXCEPT !.extras = Erase(@, gone)])

\* The ids of a snapshot for which apply() creates an entity.
NewIds(w, self, records) ==
    Missing(w, Accepted(self, {NetId(r.id) : r \in ToSet(records)}))

-----------------------------------------------------------------------------
EntityOf(w, id) == IF id \in DOMAIN w.entities THEN {w.entities[id]} ELSE {}
NetIdOf(w, e)   == IF e \in DOMAIN w.netIds THEN {w.netIds[e]} ELSE {}
ExtraOf(w, id)  == IF id \in DOMAIN w.extras THEN {w.extras[id]} ELSE {}

\* What a snapshot shows of an entity: all that is replicated, and no texture.
Picture(w, id) ==
    LET e == w.entities[id]
    IN  [place |-> w.transforms[e], moves |-> Get(w, RigidBody, e),
         blocks |-> Get(w, Collider, e),
         looks |-> IF Has(w, Shape, e)
                   THEN LET s == Get(w, Shape, e) IN <<s.size, s.color, s.tiled>> ELSE <<>>,
         extra |-> ExtraOf(w, id)]

\* The entities of an owner that live, as they look.
Pictures(w, owner) ==
    [id \in {i \in DOMAIN w.entities : OwnerOf(i) = owner /\ w.entities[i] \in w.live} |->
        Picture(w, id)]

-----------------------------------------------------------------------------
(***************************************************************************)
(* The two games.                                                          *)
(***************************************************************************)
Shapes == {[size |-> 300, color |-> 2, tiled |-> 1, texture |-> "wood"]}
Extras == {<<>>, <<OpenBrace, 7>>}

GameInit ==
    /\ scene = LET w == Create(NewScene({Sender}))
               IN  SetExtra(Attach(Track(w, Sender, 1), Collider, 1, 5), <<Sender, 0>>, <<>>)
    /\ format = "Binary"
    /\ copies = NewScene({Sender})
    /\ edits = 0

Edit(w) ==
    /\ edits < MaxEdits /\ w # scene
    /\ edits' = edits + 1
    /\ scene' = w
    /\ UNCHANGED <<format, copies>>

AddEntity ==
    /\ scene.nextEntity <= MaxEntities
    /\ Edit(Track(Create(scene), Sender, scene.nextEntity))

EditEntity ==
    \E id \in DOMAIN scene.entities :
        LET e == scene.entities[id] IN
        /\ HasEntity(scene, e)
        /\ \/ Edit(SetTransform(scene, e, 400))
           \/ Edit(Attach(scene, RigidBody, e, 9)) \/ Edit(Detach(scene, RigidBody, e))
           \/ \E s \in Shapes : Edit(Attach(scene, Shape, e, s))
           \/ Edit(Detach(scene, Shape, e)) \/ Edit(Detach(scene, Collider, e))
           \/ \E x \in Extras : Edit(SetExtra(scene, id, x))
           \/ Edit(Destroy(scene, e))
           \/ Edit(UntrackAll(scene, e))

SetFormat ==
    /\ format' = "Json" /\ format # "Json"
    /\ UNCHANGED <<scene, copies, edits>>

\* The ids that the receiver's game names: any of the sender's, shown or not, and one of its own.
GameIds == ({Sender} \X (0 .. MaxEntities - 1)) \cup {<<Receiver, 0>>}

\* The receiver's game makes an entity of its own; dresses one up, gives it a label, destroys it,
\* untracks it or binds it to an id; or sets the extra bytes of an id.
TouchCopies ==
    /\ edits < MaxEdits
    /\ edits' = edits + 1
    /\ \/ copies' = Create(copies)
       \/ \E e \in copies.live :
             \/ copies' = Attach(copies, Text, e, "label")
             \/ /\ Has(copies, Shape, e)
                /\ copies' = [copies EXCEPT !.stores[Shape][e].texture = "brick"]
             \/ copies' = Destroy(copies, e)
             \/ copies' = UntrackAll(copies, e)
             \/ \E id \in GameIds : copies' = Bind(copies, Receiver, id, e)
       \/ \E id \in GameIds : copies' = SetExtra(copies, id, <<9>>)
    /\ copies' # copies
    /\ UNCHANGED <<scene, format>>

\* apply() of a snapshot of the sender; one that cannot be read changes nothing.
ApplySnapshot(snapshot) ==
    LET read    == ReadSnapshot(snapshot)
        records == read.records
    IN  IF ~read.ok THEN UNCHANGED copies
        ELSE \E g \in Numberings(copies, NewIds(copies, Receiver, records)) :
                copies' = ApplyRecords(copies, Receiver, records, Sender, g)
=============================================================================
