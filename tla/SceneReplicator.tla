--------------------------- MODULE SceneReplicator ---------------------------
(***************************************************************************)
(* sceneReplicator (src/networking/sceneReplicator.cpp), which keeps the   *)
(* entities of a Scene in step with the snapshots of other processes.      *)
(*                                                                         *)
(* A NetId is the pair of its owner and a local number.  A world is what   *)
(* one process has: the members of its replicator and, of its Scene, which *)
(* entities live and which handle createEntity() gives next.  Handles are  *)
(* never reused.  A snapshot is the set of the NetIds it carries; the      *)
(* components and the extra bytes of an entity are copied as they are, and *)
(* are left out.                                                           *)
(*                                                                         *)
(* The operations are functions from world to world, as several modules    *)
(* and their proofs use them.                                              *)
(***************************************************************************)
EXTENDS Integers, FiniteSets, Functions

OwnerOf(id) == id[1]
LocalOf(id) == id[2]

\* Functions used as maps: erase the keys of S; set one key.
Erase(map, S) == Restrict(map, DOMAIN map \ S)
Put(map, key, value) ==
    [k \in DOMAIN map \cup {key} |-> IF k = key THEN value ELSE map[k]]

\* The values the map has for the keys of S that it contains.
ValuesOf(map, S) == {map[k] : k \in S \cap DOMAIN map}

NewWorld(sources) ==
    [live |-> {}, nextEntity |-> 1,
     nextLocal |-> 0, entities |-> <<>>, netIds |-> <<>>,
     receivedFrom |-> [s \in sources |-> {}]]

-----------------------------------------------------------------------------
(***************************************************************************)
(* The Scene's own calls, by the game.                                     *)
(***************************************************************************)
CreateEntity(w) ==
    [w EXCEPT !.live = @ \cup {w.nextEntity}, !.nextEntity = @ + 1]

DestroyEntity(w, e) == [w EXCEPT !.live = @ \ {e}]

-----------------------------------------------------------------------------
(***************************************************************************)
(* Sender side.                                                            *)
(***************************************************************************)
Track(w, self, e) ==
    IF e \in DOMAIN w.netIds THEN w
    ELSE [w EXCEPT !.entities = Put(@, <<self, w.nextLocal>>, e),
                   !.netIds = Put(@, e, <<self, w.nextLocal>>),
                   !.nextLocal = @ + 1]

Untrack(w, e) ==
    [w EXCEPT !.entities = Erase(@, ValuesOf(w.netIds, {e})),
              !.netIds = Erase(@, {e})]

\* Slip: leaves the id the entity had pointing at it.
Bind_KeepsOldId(w, self, id, e) ==
    [w EXCEPT
        !.entities = Put(@, id, e),
        !.netIds = Put(Erase(@, ValuesOf(w.entities, {id})), e, id),
        !.nextLocal = IF OwnerOf(id) = self /\ LocalOf(id) >= @
                      THEN LocalOf(id) + 1 ELSE @]

\* Whatever the id or the entity was mapped to before is unmapped.
Bind(w, self, id, e) ==
    [w EXCEPT
        !.entities = Put(Erase(@, ValuesOf(w.netIds, {e})), id, e),
        !.netIds = Put(Erase(@, ValuesOf(w.entities, {id})), e, id),
        !.nextLocal = IF OwnerOf(id) = self /\ LocalOf(id) >= @
                      THEN LocalOf(id) + 1 ELSE @]

-----------------------------------------------------------------------------
(***************************************************************************)
(* Receiver side.                                                          *)
(***************************************************************************)
\* forget(), for every id of a set.
Forget(w, ids) ==
    [w EXCEPT !.live = @ \ ValuesOf(w.entities, ids),
              !.netIds = Erase(@, ValuesOf(w.entities, ids)),
              !.entities = Erase(@, ids)]

\* Slip: takes back what this process owns.
Accepted_AnyOwner(self, ids) == ids

Accepted(self, ids) == {id \in ids : OwnerOf(id) # self}

\* The ids for which apply() has to create an entity.
Missing(w, ids) ==
    {id \in ids : id \notin DOMAIN w.entities \/ w.entities[id] \notin w.live}

\* Which id gets which of the next handles: the records come in no given order.
Numberings(w, new) ==
    Injection(new, w.nextEntity .. (w.nextEntity + Cardinality(new) - 1))

Spawn(w, g) ==
    [w EXCEPT
        !.live = @ \cup {g[id] : id \in DOMAIN g},
        !.nextEntity = @ + Cardinality(DOMAIN g),
        !.entities = [id \in DOMAIN @ \cup DOMAIN g |->
                         IF id \in DOMAIN g THEN g[id] ELSE @[id]],
        !.netIds = LET kept == Erase(@, ValuesOf(w.entities, DOMAIN g))
                   IN  [e \in DOMAIN kept \cup {g[id] : id \in DOMAIN g} |->
                           IF \E id \in DOMAIN g : g[id] = e
                           THEN CHOOSE id \in DOMAIN g : g[id] = e ELSE kept[e]]]

\* What the source sent before and does not send now is destroyed.
Replace(w, from, seen) ==
    [Forget(w, w.receivedFrom[from] \ seen) EXCEPT !.receivedFrom[from] = seen]

\* apply() of a snapshot with these ids; g numbers the entities it creates.
Apply(w, self, ids, from, g) ==
    Replace(Spawn(w, g), from, Accepted(self, ids))

\* Slip: takes the owner off the lists and destroys nothing.
DropOwner_KeepsEntities(w, self, owner) ==
    IF owner = self THEN w ELSE [w EXCEPT !.receivedFrom[owner] = {}]

DropOwner(w, self, owner) ==
    LET owned == {id \in DOMAIN w.entities : OwnerOf(id) = owner}
    IN  IF owner = self THEN w
        ELSE [Forget(w, owned) EXCEPT
                 !.receivedFrom = [s \in DOMAIN @ |-> IF s = owner THEN {} ELSE @[s] \ owned]]

-----------------------------------------------------------------------------
(***************************************************************************)
(* What holds of a world.                                                  *)
(***************************************************************************)
WorldOK(w, ids) ==
    /\ w.nextLocal \in Nat
    /\ w.nextEntity \in Nat \ {0} /\ w.live \subseteq 1 .. (w.nextEntity - 1)
    /\ DOMAIN w.entities \subseteq ids
    /\ DOMAIN w.netIds \subseteq 1 .. (w.nextEntity - 1)
    /\ \A s \in DOMAIN w.receivedFrom : w.receivedFrom[s] \subseteq ids

\* Each of two maps undoes the other.
MutuallyInverse(f, g) ==
    /\ \A x \in DOMAIN f : f[x] \in DOMAIN g /\ g[f[x]] = x
    /\ \A y \in DOMAIN g : g[y] \in DOMAIN f /\ f[g[y]] = y
=============================================================================
