------------------------ MODULE SceneReplicatorProofs ------------------------
(***************************************************************************)
(* What the operations on a world preserve, for any ids and entities.      *)
(***************************************************************************)
EXTENDS SceneReplicator, FiniteSetTheorems, TLAPS

(***************************************************************************)
(* Maps.                                                                   *)
(***************************************************************************)
LEMMA EraseFacts ==
    ASSUME NEW f, NEW S
    PROVE  /\ DOMAIN Erase(f, S) = DOMAIN f \ S
           /\ \A x \in DOMAIN f \ S : Erase(f, S)[x] = f[x]
BY DEF Erase, Restrict

\* Erasing keys on one side and their values on the other keeps two maps inverse.
LEMMA EraseBoth ==
    ASSUME NEW f, NEW g, MutuallyInverse(f, g), NEW S
    PROVE  MutuallyInverse(Erase(f, S), Erase(g, ValuesOf(f, S)))
<1> DEFINE T == ValuesOf(f, S)
<1>1. \A x \in DOMAIN f : f[x] \in T <=> x \in S
  BY DEF MutuallyInverse, ValuesOf
<1>2. \A y \in DOMAIN g : y \in T <=> g[y] \in S
  BY <1>1 DEF MutuallyInverse
<1> HIDE DEF T
<1>3. /\ DOMAIN Erase(f, S) = DOMAIN f \ S
      /\ \A x \in DOMAIN f \ S : Erase(f, S)[x] = f[x]
  BY DEF Erase, Restrict
<1>4. /\ DOMAIN Erase(g, T) = DOMAIN g \ T
      /\ \A y \in DOMAIN g \ T : Erase(g, T)[y] = g[y]
  BY DEF Erase, Restrict
<1>5. MutuallyInverse(Erase(f, S), Erase(g, T))
  BY <1>1, <1>2, <1>3, <1>4 DEF MutuallyInverse
<1> QED BY <1>5 DEF T

LEMMA InverseSymmetric ==
    ASSUME NEW f, NEW g, MutuallyInverse(f, g)
    PROVE  MutuallyInverse(g, f)
BY DEF MutuallyInverse

\* A new pair may be added when neither part of it is in use.
LEMMA PutBoth ==
    ASSUME NEW f, NEW g, MutuallyInverse(f, g), NEW x, NEW y,
           x \notin DOMAIN f, y \notin DOMAIN g
    PROVE  MutuallyInverse(Put(f, x, y), Put(g, y, x))
<1>1. /\ DOMAIN Put(f, x, y) = DOMAIN f \cup {x} /\ Put(f, x, y)[x] = y
      /\ \A z \in DOMAIN f \ {x} : Put(f, x, y)[z] = f[z]
  BY DEF Put
<1>2. /\ DOMAIN Put(g, y, x) = DOMAIN g \cup {y} /\ Put(g, y, x)[y] = x
      /\ \A z \in DOMAIN g \ {y} : Put(g, y, x)[z] = g[z]
  BY DEF Put
<1> QED BY <1>1, <1>2 DEF MutuallyInverse

\* bind(): whatever both parts of the pair were mapped to is erased first.
LEMMA RebindBoth ==
    ASSUME NEW f, NEW g, MutuallyInverse(f, g), NEW x, NEW y
    PROVE  MutuallyInverse(Put(Erase(f, ValuesOf(g, {y})), x, y),
                           Put(Erase(g, ValuesOf(f, {x})), y, x))
<1> DEFINE F == Erase(f, ValuesOf(g, {y}))
           G == Erase(g, ValuesOf(f, {x}))
<1>1. /\ DOMAIN F = DOMAIN f \ ValuesOf(g, {y})
      /\ \A z \in DOMAIN F : F[z] = f[z]
  BY DEF Erase, Restrict
<1>2. /\ DOMAIN G = DOMAIN g \ ValuesOf(f, {x})
      /\ \A z \in DOMAIN G : G[z] = g[z]
  BY DEF Erase, Restrict
<1>3. \A z \in DOMAIN f : z \in ValuesOf(g, {y}) <=> f[z] = y
  BY DEF MutuallyInverse, ValuesOf
<1>4. \A z \in DOMAIN g : z \in ValuesOf(f, {x}) <=> g[z] = x
  BY DEF MutuallyInverse, ValuesOf
<1> HIDE DEF F, G
<1>5. /\ DOMAIN Put(F, x, y) = DOMAIN F \cup {x} /\ Put(F, x, y)[x] = y
      /\ \A z \in DOMAIN F \ {x} : Put(F, x, y)[z] = F[z]
  BY DEF Put
<1>6. /\ DOMAIN Put(G, y, x) = DOMAIN G \cup {y} /\ Put(G, y, x)[y] = x
      /\ \A z \in DOMAIN G \ {y} : Put(G, y, x)[z] = G[z]
  BY DEF Put
<1>7. MutuallyInverse(Put(F, x, y), Put(G, y, x))
  <2>1. ASSUME NEW z \in DOMAIN Put(F, x, y)
        PROVE  Put(F, x, y)[z] \in DOMAIN Put(G, y, x) /\ Put(G, y, x)[Put(F, x, y)[z]] = z
    <3>1. CASE z = x
      BY <3>1, <1>5, <1>6
    <3>2. CASE z # x
      <4>1. z \in DOMAIN f /\ f[z] # y /\ Put(F, x, y)[z] = f[z]
        BY <3>2, <2>1, <1>5, <1>1, <1>3
      <4>2. f[z] \in DOMAIN g /\ g[f[z]] = z
        BY <4>1 DEF MutuallyInverse
      <4>3. f[z] \in DOMAIN G \ {y} /\ G[f[z]] = z
        BY <4>1, <4>2, <3>2, <1>4, <1>2
      <4> QED BY <4>1, <4>3, <1>6
    <3> QED BY <3>1, <3>2
  <2>2. ASSUME NEW z \in DOMAIN Put(G, y, x)
        PROVE  Put(G, y, x)[z] \in DOMAIN Put(F, x, y) /\ Put(F, x, y)[Put(G, y, x)[z]] = z
    <3>1. CASE z = y
      BY <3>1, <1>5, <1>6
    <3>2. CASE z # y
      <4>1. z \in DOMAIN g /\ g[z] # x /\ Put(G, y, x)[z] = g[z]
        BY <3>2, <2>2, <1>6, <1>2, <1>4
      <4>2. g[z] \in DOMAIN f /\ f[g[z]] = z
        BY <4>1 DEF MutuallyInverse
      <4>3. g[z] \in DOMAIN F \ {x} /\ F[g[z]] = z
        BY <4>1, <4>2, <3>2, <1>3, <1>1
      <4> QED BY <4>1, <4>3, <1>5
    <3> QED BY <3>1, <3>2
  <2> QED BY <2>1, <2>2 DEF MutuallyInverse
<1> QED BY <1>7 DEF F, G

-----------------------------------------------------------------------------
(***************************************************************************)
(* Worlds.  Beside WorldOK and the inverse maps: track() hands out no id   *)
(* that is in use, because those this process owns are below nextLocal;    *)
(* and the lists of what was received hold no id this process owns.        *)
(***************************************************************************)
IsWorld(w) ==
    DOMAIN w = {"live", "nextEntity", "nextLocal", "entities", "netIds", "receivedFrom"}

OwnIdsBelow(w, self) ==
    \A id \in DOMAIN w.entities : OwnerOf(id) = self => LocalOf(id) < w.nextLocal

ForeignLists(w, self) ==
    \A s \in DOMAIN w.receivedFrom : \A id \in w.receivedFrom[s] : OwnerOf(id) # self

WorldInv(w, self, ids, sources) ==
    /\ IsWorld(w) /\ WorldOK(w, ids) /\ DOMAIN w.receivedFrom = sources
    /\ MutuallyInverse(w.entities, w.netIds)
    /\ OwnIdsBelow(w, self) /\ ForeignLists(w, self)

LEMMA NewWorldInv ==
    ASSUME NEW self, NEW ids, NEW sources
    PROVE  WorldInv(NewWorld(sources), self, ids, sources)
BY DEF NewWorld, WorldInv, IsWorld, WorldOK, MutuallyInverse, OwnIdsBelow, ForeignLists

LEMMA CreateEntityInv ==
    ASSUME NEW w, NEW self, NEW ids, NEW sources, WorldInv(w, self, ids, sources)
    PROVE  WorldInv(CreateEntity(w), self, ids, sources)
<1> DEFINE v == CreateEntity(w)
<1>1. /\ IsWorld(v)
      /\ v.live = w.live \cup {w.nextEntity} /\ v.nextEntity = w.nextEntity + 1
      /\ v.nextLocal = w.nextLocal /\ v.entities = w.entities
      /\ v.netIds = w.netIds /\ v.receivedFrom = w.receivedFrom
  BY DEF CreateEntity, WorldInv, IsWorld
<1> QED BY <1>1 DEF WorldInv, WorldOK, OwnIdsBelow, ForeignLists

LEMMA DestroyEntityInv ==
    ASSUME NEW w, NEW self, NEW ids, NEW sources, WorldInv(w, self, ids, sources), NEW e
    PROVE  WorldInv(DestroyEntity(w, e), self, ids, sources)
<1> DEFINE v == DestroyEntity(w, e)
<1>1. /\ IsWorld(v)
      /\ v.live = w.live \ {e} /\ v.nextEntity = w.nextEntity
      /\ v.nextLocal = w.nextLocal /\ v.entities = w.entities
      /\ v.netIds = w.netIds /\ v.receivedFrom = w.receivedFrom
  BY DEF DestroyEntity, WorldInv, IsWorld
<1> QED BY <1>1 DEF WorldInv, WorldOK, OwnIdsBelow, ForeignLists

LEMMA TrackInv ==
    ASSUME NEW w, NEW self, NEW ids, NEW sources, WorldInv(w, self, ids, sources),
           NEW e \in w.live, DOMAIN Track(w, self, e).entities \subseteq ids,
           \A i \in ids : LocalOf(i) \in Nat
    PROVE  WorldInv(Track(w, self, e), self, ids, sources)
<1>1. CASE e \in DOMAIN w.netIds
  BY <1>1 DEF Track
<1>2. CASE e \notin DOMAIN w.netIds
  <2> DEFINE v == Track(w, self, e)
             id == <<self, w.nextLocal>>
  <2>1. /\ IsWorld(v)
        /\ v.live = w.live /\ v.nextEntity = w.nextEntity
        /\ v.nextLocal = w.nextLocal + 1 /\ v.entities = Put(w.entities, id, e)
        /\ v.netIds = Put(w.netIds, e, id) /\ v.receivedFrom = w.receivedFrom
    BY <1>2 DEF Track, WorldInv, IsWorld
  <2>2. OwnerOf(id) = self /\ LocalOf(id) = w.nextLocal /\ w.nextLocal \in Nat
    BY DEF OwnerOf, LocalOf, WorldInv, WorldOK
  <2> HIDE DEF id
  <2>3. id \notin DOMAIN w.entities
    BY <2>2 DEF WorldInv, OwnIdsBelow, ForeignLists
  <2>4. MutuallyInverse(v.entities, v.netIds)
    BY <2>1, <2>3, <1>2, PutBoth DEF WorldInv
  <2>5. /\ DOMAIN v.entities = DOMAIN w.entities \cup {id}
        /\ DOMAIN v.netIds = DOMAIN w.netIds \cup {e}
    BY <2>1 DEF Put
  <2>6. OwnIdsBelow(v, self)
    <3> SUFFICES ASSUME NEW i \in DOMAIN v.entities, OwnerOf(i) = self
                 PROVE  LocalOf(i) < v.nextLocal
      BY DEF OwnIdsBelow, ForeignLists
    <3>1. CASE i = id
      BY <3>1, <2>1, <2>2
    <3>2. CASE i # id
      <4>1. LocalOf(i) < w.nextLocal
        BY <3>2, <2>5 DEF WorldInv, OwnIdsBelow, ForeignLists
      <4>2. LocalOf(i) \in Nat
        OBVIOUS
      <4> QED BY <4>1, <2>1, <2>2
    <3> QED BY <3>1, <3>2
  <2>7. WorldOK(v, ids)
    BY <2>1, <2>5 DEF WorldInv, WorldOK
  <2> QED BY <2>1, <2>4, <2>6, <2>7 DEF WorldInv, ForeignLists
<1> QED BY <1>1, <1>2

LEMMA UntrackInv ==
    ASSUME NEW w, NEW self, NEW ids, NEW sources, WorldInv(w, self, ids, sources), NEW e
    PROVE  WorldInv(Untrack(w, e), self, ids, sources)
<1> DEFINE v == Untrack(w, e)
           F == Erase(w.entities, ValuesOf(w.netIds, {e}))
           G == Erase(w.netIds, {e})
<1>1. /\ IsWorld(v)
      /\ v.live = w.live /\ v.nextEntity = w.nextEntity /\ v.nextLocal = w.nextLocal
      /\ v.entities = F /\ v.netIds = G /\ v.receivedFrom = w.receivedFrom
  BY DEF Untrack, WorldInv, IsWorld
<1>2. MutuallyInverse(F, G)
  BY EraseBoth, InverseSymmetric DEF WorldInv
<1>3. DOMAIN F \subseteq DOMAIN w.entities /\ DOMAIN G \subseteq DOMAIN w.netIds
  BY DEF Erase, Restrict
<1> QED BY <1>1, <1>2, <1>3 DEF WorldInv, WorldOK, OwnIdsBelow, ForeignLists

LEMMA BindInv ==
    ASSUME NEW w, NEW self, NEW ids, NEW sources, WorldInv(w, self, ids, sources),
           NEW e \in w.live, NEW id \in ids,
           \A i \in ids : LocalOf(i) \in Nat
    PROVE  WorldInv(Bind(w, self, id, e), self, ids, sources)
<1> DEFINE v == Bind(w, self, id, e)
           F == Put(Erase(w.entities, ValuesOf(w.netIds, {e})), id, e)
           G == Put(Erase(w.netIds, ValuesOf(w.entities, {id})), e, id)
           n == IF OwnerOf(id) = self /\ LocalOf(id) >= w.nextLocal
                THEN LocalOf(id) + 1 ELSE w.nextLocal
<1>1. /\ IsWorld(v)
      /\ v.live = w.live /\ v.nextEntity = w.nextEntity /\ v.nextLocal = n
      /\ v.entities = F /\ v.netIds = G /\ v.receivedFrom = w.receivedFrom
  BY DEF Bind, WorldInv, IsWorld
<1>2. MutuallyInverse(F, G)
  BY RebindBoth DEF WorldInv
<1>3. /\ DOMAIN F \subseteq DOMAIN w.entities \cup {id}
      /\ DOMAIN G \subseteq DOMAIN w.netIds \cup {e}
  BY DEF Erase, Restrict, Put
<1>4. w.nextLocal \in Nat /\ n \in Nat /\ n >= w.nextLocal
  BY DEF WorldInv, WorldOK
<1>5. OwnerOf(id) = self => LocalOf(id) < n
  BY <1>4
<1>6. OwnIdsBelow(v, self)
  BY <1>1, <1>3, <1>4, <1>5 DEF WorldInv, WorldOK, OwnIdsBelow, ForeignLists
<1>7. WorldOK(v, ids)
  BY <1>1, <1>3, <1>4 DEF WorldInv, WorldOK
<1> QED BY <1>1, <1>2, <1>6, <1>7 DEF WorldInv, ForeignLists

LEMMA ForgetInv ==
    ASSUME NEW w, NEW self, NEW ids, NEW sources, WorldInv(w, self, ids, sources), NEW S
    PROVE  WorldInv(Forget(w, S), self, ids, sources)
<1> DEFINE v == Forget(w, S)
           F == Erase(w.entities, S)
           G == Erase(w.netIds, ValuesOf(w.entities, S))
<1>1. /\ IsWorld(v)
      /\ v.live = w.live \ ValuesOf(w.entities, S) /\ v.nextEntity = w.nextEntity
      /\ v.nextLocal = w.nextLocal /\ v.entities = F /\ v.netIds = G
      /\ v.receivedFrom = w.receivedFrom
  BY DEF Forget, WorldInv, IsWorld
<1>2. MutuallyInverse(F, G)
  BY EraseBoth DEF WorldInv
<1>3. DOMAIN F \subseteq DOMAIN w.entities /\ DOMAIN G \subseteq DOMAIN w.netIds
  BY DEF Erase, Restrict
<1> QED BY <1>1, <1>2, <1>3 DEF WorldInv, WorldOK, OwnIdsBelow, ForeignLists

\* The entities that apply() creates get handles that were never used.
LEMMA SpawnInv ==
    ASSUME NEW w, NEW self, NEW ids, NEW sources, WorldInv(w, self, ids, sources),
           NEW new, new \subseteq ids, IsFiniteSet(new),
           \A id \in new : OwnerOf(id) # self,
           NEW g \in Numberings(w, new)
    PROVE  /\ WorldInv(Spawn(w, g), self, ids, sources)
           /\ Spawn(w, g).receivedFrom = w.receivedFrom
<1> DEFINE v == Spawn(w, g)
           F == w.entities
           made == {g[id] : id \in new}
           K == Erase(w.netIds, ValuesOf(F, new))
           NewF == [id \in DOMAIN F \cup new |-> IF id \in new THEN g[id] ELSE F[id]]
           NewG == [e \in DOMAIN K \cup made |->
                       IF \E id \in new : g[id] = e
                       THEN CHOOSE id \in new : g[id] = e ELSE K[e]]
<1>1. /\ g \in [new -> w.nextEntity .. (w.nextEntity + Cardinality(new) - 1)]
      /\ \A i, j \in new : g[i] = g[j] => i = j
  BY DEF Numberings, Injection, IsInjective
<1>2. DOMAIN g = new
  BY <1>1
<1>3. /\ IsWorld(v)
      /\ v.live = w.live \cup made
      /\ v.nextEntity = w.nextEntity + Cardinality(new)
      /\ v.nextLocal = w.nextLocal /\ v.entities = NewF /\ v.netIds = NewG
      /\ v.receivedFrom = w.receivedFrom
  BY <1>2 DEF Spawn, WorldInv, IsWorld
<1>4. Cardinality(new) \in Nat
  BY FS_CardinalityType
<1>5. w.nextEntity \in Nat \ {0}
  BY DEF WorldInv, WorldOK
<1>6. /\ made \subseteq 1 .. (w.nextEntity + Cardinality(new) - 1)
      /\ \A e \in made : e >= w.nextEntity
  BY <1>1, <1>4, <1>5
<1>7. /\ DOMAIN w.netIds \subseteq 1 .. (w.nextEntity - 1)
      /\ w.live \subseteq 1 .. (w.nextEntity - 1)
  BY DEF WorldInv, WorldOK
<1>8. \A e \in DOMAIN w.netIds : e \notin made
  <2> SUFFICES ASSUME NEW e \in DOMAIN w.netIds, e \in made
               PROVE  FALSE
    OBVIOUS
  <2>1. e >= w.nextEntity
    BY <1>6
  <2>2. e \in 1 .. (w.nextEntity - 1)
    BY <1>7
  <2> QED BY <2>1, <2>2, <1>5
<1>9. \A id \in new : g[id] \in made /\ NewG[g[id]] = id
  BY <1>1
<1>10. MutuallyInverse(F, w.netIds)
  BY DEF WorldInv
<1>11. /\ DOMAIN K = DOMAIN w.netIds \ ValuesOf(F, new)
       /\ \A e \in DOMAIN K : K[e] = w.netIds[e]
  BY DEF Erase, Restrict
<1>12. \A e \in DOMAIN w.netIds : e \in ValuesOf(F, new) <=> w.netIds[e] \in new
  BY <1>10 DEF MutuallyInverse, ValuesOf
<1>13. \A e \in DOMAIN K : e \notin made /\ NewG[e] = w.netIds[e]
  BY <1>8, <1>11
<1>14. DOMAIN NewF = DOMAIN F \cup new /\ DOMAIN NewG = DOMAIN K \cup made
  OBVIOUS
<1>15. /\ \A id \in new : NewF[id] = g[id]
       /\ \A id \in DOMAIN F \ new : NewF[id] = F[id]
  OBVIOUS
<1> HIDE DEF NewF, NewG, K
<1>16. MutuallyInverse(NewF, NewG)
  <2>1. ASSUME NEW id \in DOMAIN NewF
        PROVE  NewF[id] \in DOMAIN NewG /\ NewG[NewF[id]] = id
    <3>1. CASE id \in new
      BY <3>1, <1>9, <1>14, <1>15
    <3>2. CASE id \notin new
      <4>1. id \in DOMAIN F /\ NewF[id] = F[id]
        BY <3>2, <1>14, <1>15
      <4>2. F[id] \in DOMAIN w.netIds /\ w.netIds[F[id]] = id
        BY <4>1, <1>10 DEF MutuallyInverse
      <4>3. F[id] \in DOMAIN K
        BY <4>2, <3>2, <1>11, <1>12
      <4> QED BY <4>1, <4>2, <4>3, <1>13, <1>14
    <3> QED BY <3>1, <3>2
  <2>2. ASSUME NEW e \in DOMAIN NewG
        PROVE  NewG[e] \in DOMAIN NewF /\ NewF[NewG[e]] = e
    <3>1. CASE e \in made
      <4>1. PICK id \in new : e = g[id]
        BY <3>1
      <4> QED BY <4>1, <1>9, <1>14, <1>15
    <3>2. CASE e \notin made
      <4>1. e \in DOMAIN K /\ e \in DOMAIN w.netIds /\ NewG[e] = w.netIds[e]
        BY <3>2, <1>11, <1>13, <1>14
      <4>2. w.netIds[e] \in DOMAIN F /\ F[w.netIds[e]] = e
        BY <4>1, <1>10 DEF MutuallyInverse
      <4>3. w.netIds[e] \notin new
        BY <4>1, <1>11, <1>12
      <4> QED BY <4>1, <4>2, <4>3, <1>14, <1>15
    <3> QED BY <3>1, <3>2
  <2> QED BY <2>1, <2>2 DEF MutuallyInverse
<1>17. WorldOK(v, ids)
  <2>1. /\ v.nextEntity \in Nat \ {0}
        /\ v.live \subseteq 1 .. (v.nextEntity - 1)
        /\ DOMAIN v.netIds \subseteq 1 .. (v.nextEntity - 1)
    BY <1>3, <1>4, <1>5, <1>6, <1>7, <1>11, <1>14
  <2> QED BY <2>1, <1>3, <1>14 DEF WorldInv, WorldOK
<1>18. OwnIdsBelow(v, self)
  BY <1>3, <1>14 DEF WorldInv, OwnIdsBelow, ForeignLists
<1> QED BY <1>3, <1>16, <1>17, <1>18 DEF WorldInv, ForeignLists

LEMMA ReplaceInv ==
    ASSUME NEW w, NEW self, NEW ids, NEW sources, WorldInv(w, self, ids, sources),
           NEW from \in sources, NEW seen, seen \subseteq ids,
           \A id \in seen : OwnerOf(id) # self
    PROVE  WorldInv(Replace(w, from, seen), self, ids, sources)
<1> DEFINE u == Forget(w, w.receivedFrom[from] \ seen)
           v == Replace(w, from, seen)
<1>1. WorldInv(u, self, ids, sources)
  BY ForgetInv
<1> HIDE DEF u
<1>2. /\ IsWorld(v)
      /\ v.live = u.live /\ v.nextEntity = u.nextEntity /\ v.nextLocal = u.nextLocal
      /\ v.entities = u.entities /\ v.netIds = u.netIds
      /\ v.receivedFrom = [u.receivedFrom EXCEPT ![from] = seen]
  BY <1>1 DEF Replace, WorldInv, IsWorld, u
<1>3. /\ DOMAIN v.receivedFrom = sources
      /\ \A s \in sources : v.receivedFrom[s] \subseteq ids
  BY <1>1, <1>2 DEF WorldInv, WorldOK
<1> QED BY <1>1, <1>2, <1>3 DEF WorldInv, WorldOK, OwnIdsBelow, ForeignLists

LEMMA ApplyInv ==
    ASSUME NEW w, NEW self, NEW ids, NEW sources, WorldInv(w, self, ids, sources),
           NEW sent, sent \subseteq ids, IsFiniteSet(sent), NEW from \in sources,
           NEW g \in Numberings(w, Missing(w, Accepted(self, sent)))
    PROVE  WorldInv(Apply(w, self, sent, from, g), self, ids, sources)
<1> DEFINE new == Missing(w, Accepted(self, sent))
<1>1. new \subseteq sent /\ \A id \in new : OwnerOf(id) # self
  BY DEF Missing, Accepted
<1>2. IsFiniteSet(new)
  BY <1>1, FS_Subset
<1>3. WorldInv(Spawn(w, g), self, ids, sources)
  BY <1>1, <1>2, SpawnInv
<1>4. Accepted(self, sent) \subseteq ids /\ \A id \in Accepted(self, sent) : OwnerOf(id) # self
  BY DEF Accepted
<1> QED BY <1>3, <1>4, ReplaceInv DEF Apply

LEMMA DropOwnerInv ==
    ASSUME NEW w, NEW self, NEW ids, NEW sources, WorldInv(w, self, ids, sources), NEW owner
    PROVE  WorldInv(DropOwner(w, self, owner), self, ids, sources)
<1>1. CASE owner = self
  BY <1>1 DEF DropOwner
<1>2. CASE owner # self
  <2> DEFINE owned == {id \in DOMAIN w.entities : OwnerOf(id) = owner}
             u == Forget(w, owned)
             v == DropOwner(w, self, owner)
  <2>1. WorldInv(u, self, ids, sources)
    BY ForgetInv
  <2> HIDE DEF u
  <2>2. /\ IsWorld(v)
        /\ v.live = u.live /\ v.nextEntity = u.nextEntity /\ v.nextLocal = u.nextLocal
        /\ v.entities = u.entities /\ v.netIds = u.netIds
        /\ v.receivedFrom = [s \in DOMAIN u.receivedFrom |->
              IF s = owner THEN {} ELSE u.receivedFrom[s] \ owned]
    BY <1>2, <2>1 DEF DropOwner, WorldInv, IsWorld, u
  <2>3. /\ DOMAIN v.receivedFrom = sources
        /\ \A s \in sources : v.receivedFrom[s] \subseteq ids
    BY <2>1, <2>2 DEF WorldInv, WorldOK
  <2> QED BY <2>1, <2>2, <2>3 DEF WorldInv, WorldOK, OwnIdsBelow, ForeignLists
<1> QED BY <1>1, <1>2
=============================================================================
