-------------------------- MODULE PeerSessionProofs --------------------------
(***************************************************************************)
(* What holds of a peer for any other clients, ids and bounds.             *)
(***************************************************************************)
EXTENDS PeerSession, SceneReplicatorProofs

USE PeerAssumption

-----------------------------------------------------------------------------
(***************************************************************************)
(* The world.  Every change of it is one of the operations whose lemmas    *)
(* are in SceneReplicatorProofs.                                           *)
(***************************************************************************)
WorldGood == WorldInv(world, Self, NetIds, Sources)

LEMMA LocalsAreNat == \A id \in NetIds : LocalOf(id) \in Nat
BY DEF LocalOf

LEMMA GameKeepsWorld == WorldGood /\ Game => WorldGood'
<1> SUFFICES ASSUME WorldGood, Game
             PROVE  WorldGood'
  OBVIOUS
<1>1. CASE GameCreate
  BY <1>1, CreateEntityInv DEF GameCreate, GameStep, WorldGood
<1>2. CASE \E e \in world.live : GameDestroy(e) \/ GameTrack(e)
  <2> PICK e \in world.live : GameDestroy(e) \/ GameTrack(e)
    BY <1>2
  <2>1. CASE GameDestroy(e)
    BY <2>1, DestroyEntityInv DEF GameDestroy, GameStep, WorldGood
  <2>2. CASE GameTrack(e)
    BY <2>2, TrackInv, LocalsAreNat DEF GameTrack, GameStep, WorldGood
  <2> QED BY <2>1, <2>2
<1>3. CASE \E e \in DOMAIN world.netIds : GameUntrack(e)
  BY <1>3, UntrackInv DEF GameUntrack, GameStep, WorldGood
<1>4. CASE \E e \in world.live, id \in NetIds : GameBind(id, e)
  BY <1>4, BindInv, LocalsAreNat DEF GameBind, GameStep, WorldGood
<1> QED BY <1>1, <1>2, <1>3, <1>4 DEF Game

\* A mailbox that is taken leaves the world alone or applies a snapshot to it.
LEMMA TakenIsApplied ==
    ASSUME NEW full, NEW from \in Sources, ApplyLatest(full, from), WorldGood
    PROVE  \/ world' = world /\ copies' = copies
           \/ \E ids \in Sent(from) :
                \E g \in Numberings(world, Missing(world, Accepted(Self, ids))) :
                   /\ ids \subseteq NetIds /\ IsFiniteSet(ids)
                   /\ world' = Apply(world, Self, ids, from, g)
                   /\ copies' = copies \cup
                        {g[id] : id \in Missing(world, Accepted(Self, ids))}
<1>1. \A ids \in Sent(from) : ids \subseteq NetIds /\ IsFiniteSet(ids)
  BY FS_Subset DEF Sent, OwnedBy
<1> QED BY <1>1 DEF ApplyLatest

LEMMA ApplyKeepsWorld ==
    ASSUME NEW full, NEW from \in Sources, ApplyLatest(full, from), WorldGood
    PROVE  WorldGood'
BY TakenIsApplied, ApplyInv DEF WorldGood

LEMMA WorldInit == Init => WorldGood
BY NewWorldInv DEF Init, WorldGood

\* The steps that change the world.
WorldStep ==
    \/ Game
    \/ \E o \in ClientIds : EventLeft(o)
    \/ ApplySnapshot
    \/ \E o \in ClientIds : ApplyPeer(o)

LEMMA OtherStepsLeaveWorld == [Next]_vars => WorldStep \/ UNCHANGED <<world, copies>>
BY DEF Next, vars, callVars, Environment, ClientJoins, ClientLeaves, SnapshotArrives,
       StateArrives, ListenerEnds, Start, BeginLeave, Leaving, LeaveStopPeer, LeaveJoinPeer,
       LeaveSession, Destroy, Updates, BeginApply, EndApply, EventJoined, EventStopPeer,
       WorldStep

\* Only others have listeners, so only others are visited.
TurnsGood == turn \subseteq DOMAIN peers /\ DOMAIN peers \subseteq Others

LEMMA WorldNext == WorldGood /\ TurnsGood /\ [Next]_vars => WorldGood'
<1> SUFFICES ASSUME WorldGood, TurnsGood, [Next]_vars
             PROVE  WorldGood'
  OBVIOUS
<1>1. CASE Game
  BY <1>1, GameKeepsWorld
<1>2. CASE \E o \in ClientIds : EventLeft(o)
  BY <1>2, DropOwnerInv DEF EventLeft, WorldGood
<1>3. CASE ApplySnapshot
  BY <1>3, ApplyKeepsWorld DEF ApplySnapshot, Sources
<1>4. CASE \E o \in ClientIds : ApplyPeer(o)
  BY <1>4, ApplyKeepsWorld DEF ApplyPeer, Sources, TurnsGood, First
<1>5. CASE UNCHANGED <<world, copies>>
  BY <1>5 DEF WorldGood
<1> QED BY <1>1, <1>2, <1>3, <1>4, <1>5, OtherStepsLeaveWorld DEF WorldStep

-----------------------------------------------------------------------------
(***************************************************************************)
(* Types.  Nobody is left to visit outside the last part of applyUpdates().*)
(***************************************************************************)
NoTurnLeft == call # "peers" => turn = {}

TypeInv == TypeOK /\ NoTurnLeft /\ WorldGood

LEMMA TypeInit == Init => TypeInv
<1> SUFFICES ASSUME Init PROVE TypeInv
  OBVIOUS
<1>1. WorldGood
  BY WorldInit
<1>2. batch \in Seq(RosterEvents) /\ rosterEvents \in Seq(RosterEvents)
  BY DEF Init
<1>3. DOMAIN peers = {}
  BY DEF Init
<1> QED BY <1>1, <1>2, <1>3 DEF Init, TypeInv, TypeOK, NoTurnLeft, WorldGood, WorldInv

LEMMA TurnsAreGood == TypeOK => TurnsGood
BY DEF TypeOK, TurnsGood

\* The handles of a world are never taken back.
LEMMA HandlesGrow ==
    ASSUME NEW w, IsWorld(w), w.nextEntity \in Nat,
           NEW id, NEW e, NEW S, NEW from
    PROVE  /\ CreateEntity(w).nextEntity = w.nextEntity + 1
           /\ DestroyEntity(w, e).nextEntity = w.nextEntity
           /\ Track(w, Self, e).nextEntity = w.nextEntity
           /\ Untrack(w, e).nextEntity = w.nextEntity
           /\ Bind(w, Self, id, e).nextEntity = w.nextEntity
           /\ DropOwner(w, Self, from).nextEntity = w.nextEntity
           /\ \A g : Apply(w, Self, S, from, g).nextEntity
                         = w.nextEntity + Cardinality(DOMAIN g)
<1>1. \A u : IsWorld(u) => \A T : /\ Forget(u, T).nextEntity = u.nextEntity
                                  /\ IsWorld(Forget(u, T))
  BY DEF Forget, IsWorld
<1>2. DropOwner(w, Self, from).nextEntity = w.nextEntity
  BY <1>1 DEF DropOwner, IsWorld
<1>3. \A g : IsWorld(Spawn(w, g)) /\ Spawn(w, g).nextEntity = w.nextEntity + Cardinality(DOMAIN g)
  BY DEF Spawn, IsWorld
<1>4. \A u : IsWorld(u) => \A T : Replace(u, from, T).nextEntity = u.nextEntity
  BY <1>1 DEF Replace, IsWorld
<1>5. \A g : Apply(w, Self, S, from, g).nextEntity = w.nextEntity + Cardinality(DOMAIN g)
  BY <1>3, <1>4 DEF Apply
<1>6. CreateEntity(w).nextEntity = w.nextEntity + 1
  BY DEF CreateEntity, IsWorld
<1>7. DestroyEntity(w, e).nextEntity = w.nextEntity
  BY DEF DestroyEntity, IsWorld
<1>8. Track(w, Self, e).nextEntity = w.nextEntity
  <2>1. CASE e \in DOMAIN w.netIds
    BY <2>1 DEF Track
  <2>2. CASE e \notin DOMAIN w.netIds
    BY <2>2 DEF Track, IsWorld
  <2> QED BY <2>1, <2>2
<1>9. Untrack(w, e).nextEntity = w.nextEntity
  BY DEF Untrack, IsWorld
<1>10. Bind(w, Self, id, e).nextEntity = w.nextEntity
  BY DEF Bind, IsWorld
<1> QED BY <1>2, <1>5, <1>6, <1>7, <1>8, <1>9, <1>10

CopiesHaveHandles == copies \subseteq 1 .. (world.nextEntity - 1)

LEMMA GameKeepsHandles == CopiesHaveHandles /\ WorldGood /\ Game => CopiesHaveHandles'
<1> SUFFICES ASSUME CopiesHaveHandles, WorldGood, Game
             PROVE  CopiesHaveHandles'
  OBVIOUS
<1>1. IsWorld(world) /\ world.nextEntity \in Nat
  BY DEF WorldGood, WorldInv, WorldOK
<1>2. copies' \subseteq copies
  BY DEF Game, GameCreate, GameDestroy, GameTrack, GameUntrack, GameBind
<1>3. world'.nextEntity \in {world.nextEntity, world.nextEntity + 1}
  <2> DEFINE n(w) == w.nextEntity = world.nextEntity
  <2>1. CASE GameCreate
    BY <2>1, <1>1, HandlesGrow DEF GameCreate, GameStep
  <2>2. CASE \E e \in world.live : GameDestroy(e) \/ GameTrack(e)
    <3> PICK e \in world.live : GameDestroy(e) \/ GameTrack(e)
      BY <2>2
    <3>1. n(DestroyEntity(world, e)) /\ n(Track(world, Self, e))
      BY <1>1, HandlesGrow
    <3> QED BY <3>1 DEF GameDestroy, GameTrack, GameStep
  <2>3. CASE \E e \in DOMAIN world.netIds : GameUntrack(e)
    <3> PICK e \in DOMAIN world.netIds : GameUntrack(e)
      BY <2>3
    <3>1. n(Untrack(world, e))
      BY <1>1, HandlesGrow
    <3> QED BY <3>1 DEF GameUntrack, GameStep
  <2>4. CASE \E e \in world.live, id \in NetIds : GameBind(id, e)
    <3> PICK e \in world.live, id \in NetIds : GameBind(id, e)
      BY <2>4
    <3>1. n(Bind(world, Self, id, e))
      BY <1>1, HandlesGrow
    <3> QED BY <3>1 DEF GameBind, GameStep
  <2> QED BY <2>1, <2>2, <2>3, <2>4 DEF Game
<1> QED BY <1>1, <1>2, <1>3 DEF CopiesHaveHandles

LEMMA ApplyKeepsHandles ==
    ASSUME NEW full, NEW from \in Sources, ApplyLatest(full, from), WorldGood, CopiesHaveHandles
    PROVE  CopiesHaveHandles'
<1>1. CASE world' = world /\ copies' = copies
  BY <1>1 DEF CopiesHaveHandles
<1>2. ASSUME NEW ids \in Sent(from), ids \subseteq NetIds, IsFiniteSet(ids),
             NEW g \in Numberings(world, Missing(world, Accepted(Self, ids))),
             world' = Apply(world, Self, ids, from, g),
             copies' = copies \cup {g[id] : id \in Missing(world, Accepted(Self, ids))}
      PROVE  CopiesHaveHandles'
  <2> DEFINE new == Missing(world, Accepted(Self, ids))
  <2>1. IsFiniteSet(new)
    BY <1>2, FS_Subset DEF Missing, Accepted
  <2>2. Cardinality(new) \in Nat
    BY <2>1, FS_CardinalityType
  <2>3. g \in [new -> world.nextEntity .. (world.nextEntity + Cardinality(new) - 1)]
    BY <1>2 DEF Numberings, Injection
  <2> HIDE DEF new
  <2>4. IsWorld(world) /\ world.nextEntity \in Nat \ {0}
    BY DEF WorldGood, WorldInv, WorldOK
  <2>5. world'.nextEntity = world.nextEntity + Cardinality(new)
    BY <1>2, <2>3, <2>4, HandlesGrow
  <2>6. copies' = copies \cup {g[id] : id \in new}
    BY <1>2 DEF new
  <2>7. SUFFICES ASSUME NEW e \in copies'
                 PROVE  e \in 1 .. (world'.nextEntity - 1)
    BY DEF CopiesHaveHandles
  <2>8. CASE e \in copies
    <3>1. e \in 1 .. (world.nextEntity - 1)
      BY <2>8 DEF CopiesHaveHandles
    <3> QED BY <3>1, <2>2, <2>4, <2>5
  <2>9. CASE e \in {g[id] : id \in new}
    <3>1. PICK id \in new : e = g[id]
      BY <2>9
    <3>2. e \in world.nextEntity .. (world.nextEntity + Cardinality(new) - 1)
      BY <3>1, <2>3
    <3> QED BY <3>2, <2>2, <2>4, <2>5
  <2> QED BY <2>6, <2>8, <2>9
<1> QED BY <1>1, <1>2, TakenIsApplied

LEMMA HandlesNext == CopiesHaveHandles /\ WorldGood /\ TurnsGood /\ [Next]_vars => CopiesHaveHandles'
<1> SUFFICES ASSUME CopiesHaveHandles, WorldGood, TurnsGood, [Next]_vars
             PROVE  CopiesHaveHandles'
  OBVIOUS
<1>1. CASE Game
  BY <1>1, GameKeepsHandles
<1>2. CASE \E o \in ClientIds : EventLeft(o)
  <2>1. IsWorld(world) /\ world.nextEntity \in Nat
    BY DEF WorldGood, WorldInv, WorldOK
  <2> QED BY <2>1, <1>2, HandlesGrow DEF EventLeft, CopiesHaveHandles
<1>3. CASE ApplySnapshot
  BY <1>3, ApplyKeepsHandles DEF ApplySnapshot, Sources
<1>4. CASE \E o \in ClientIds : ApplyPeer(o)
  BY <1>4, ApplyKeepsHandles DEF ApplyPeer, Sources, TurnsGood, First
<1>5. CASE UNCHANGED <<world, copies>>
  BY <1>5 DEF CopiesHaveHandles
<1> QED BY <1>1, <1>2, <1>3, <1>4, <1>5, OtherStepsLeaveWorld DEF WorldStep

-----------------------------------------------------------------------------
LEMMA TypeNext == TypeInv /\ [Next]_vars => TypeInv'
<1> SUFFICES ASSUME TypeInv, [Next]_vars
             PROVE  TypeInv'
  OBVIOUS
<1> USE DEF TypeInv
<1>1. WorldGood'
  BY WorldNext, TurnsAreGood
<1>2. CopiesHaveHandles'
  BY HandlesNext, TurnsAreGood DEF TypeOK, CopiesHaveHandles
<1>3. WorldOK(world, NetIds)' /\ (DOMAIN world.receivedFrom = Sources)'
  BY <1>1 DEF WorldGood, WorldInv
<1>4. /\ batch' \in Seq(RosterEvents) /\ rosterEvents' \in Seq(RosterEvents)
  <2>1. \A o \in ClientIds : Joined(o) \in RosterEvents /\ Left(o) \in RosterEvents
    BY DEF RosterEvents
  <2> HIDE DEF RosterEvents
  <2> USE <2>1 DEF TypeOK
  <2>2. CASE Environment
    <3>1. ASSUME NEW o \in ClientIds, ClientJoins(o) \/ ClientLeaves(o)
          PROVE  rosterEvents' \in Seq(RosterEvents) /\ batch' = batch
      <4>1. PICK e \in RosterEvents : rosterEvents' = Append(rosterEvents, e)
        BY <3>1 DEF ClientJoins, ClientLeaves
      <4>2. batch' = batch
        BY <3>1 DEF ClientJoins, ClientLeaves, callVars
      <4> QED BY <4>1, <4>2
    <3>2. ASSUME SnapshotArrives \/ \E o \in Others : StateArrives(o) \/ ListenerEnds(o)
          PROVE  UNCHANGED <<batch, rosterEvents>>
      BY <3>2 DEF SnapshotArrives, StateArrives, ListenerEnds, callVars, sessionVars
    <3> QED BY <2>2, <3>1, <3>2 DEF Environment
  <2>3. CASE Game
    BY <2>3 DEF Game, GameCreate, GameDestroy, GameTrack, GameUntrack, GameBind, GameStep,
            callVars, sessionVars
  <2>4. CASE Start \/ BeginLeave \/ Leaving \/ Destroy
    BY <2>4 DEF Start, BeginLeave, Leaving, LeaveStopPeer, LeaveJoinPeer, LeaveSession,
            Destroy, callVars, sessionVars
  <2>5. CASE Updates
    <3>1. CASE BeginApply
      BY <3>1 DEF BeginApply
    <3>2. ASSUME NEW o \in ClientIds, EventJoined(o) \/ EventLeft(o)
          PROVE  batch' = Tail(batch) /\ batch # <<>> /\ rosterEvents' = rosterEvents
      BY <3>2 DEF EventJoined, EventLeft, sessionVars
    <3>3. ASSUME ApplySnapshot \/ EndApply
          PROVE  UNCHANGED <<batch, rosterEvents>>
      BY <3>3 DEF ApplySnapshot, EndApply, sessionVars
    <3>4. ASSUME NEW o \in ClientIds, EventStopPeer(o) \/ ApplyPeer(o)
          PROVE  UNCHANGED <<batch, rosterEvents>>
      BY <3>4 DEF EventStopPeer, ApplyPeer, callVars, sessionVars
    <3> DEFINE Typed == batch' \in Seq(RosterEvents) /\ rosterEvents' \in Seq(RosterEvents)
    <3>5. ASSUME NEW o \in ClientIds, EventJoined(o) \/ EventLeft(o)
          PROVE  Typed
      <4>1. Tail(batch) \in Seq(RosterEvents)
        BY <3>2, <3>5
      <4> QED BY <3>2, <3>5, <4>1
    <3>6. ASSUME UNCHANGED <<batch, rosterEvents>> PROVE Typed
      BY <3>6
    <3>7. BeginApply => Typed
      BY <3>1
    <3> HIDE DEF Typed
    <3>8. Typed
      BY <2>5, <3>3, <3>4, <3>5, <3>6, <3>7 DEF Updates
    <3> QED BY <3>8 DEF Typed
  <2>6. CASE UNCHANGED vars
    BY <2>6 DEF vars, callVars, sessionVars
  <2> QED BY <2>2, <2>3, <2>4, <2>5, <2>6 DEF Next
<1>5. /\ (DOMAIN peers \subseteq endpoints)' /\ (turn \subseteq DOMAIN peers)' /\ NoTurnLeft'
      /\ \A o \in DOMAIN peers' :
            peers'[o] \in [stop : BOOLEAN, listening : BOOLEAN, latest : BOOLEAN]
  <2> DEFINE Shape ==
        /\ (DOMAIN peers \subseteq endpoints)' /\ (turn \subseteq DOMAIN peers)' /\ NoTurnLeft'
        /\ \A o \in DOMAIN peers' :
              peers'[o] \in [stop : BOOLEAN, listening : BOOLEAN, latest : BOOLEAN]
  <2> SUFFICES Shape OBVIOUS
  <2> USE DEF TypeOK, NoTurnLeft
  <2>2. CASE Environment
    <3>1. CASE SnapshotArrives
      BY <3>1 DEF SnapshotArrives, callVars, sessionVars
    <3>2. ASSUME NEW o \in ClientIds, ClientJoins(o) \/ ClientLeaves(o) PROVE Shape
      BY <3>2 DEF ClientJoins, ClientLeaves, callVars, sessionVars
    <3>3. ASSUME NEW o \in Others, StateArrives(o) PROVE Shape
      <4>1. o \in DOMAIN peers /\ UNCHANGED <<callVars, sessionVars>>
        BY <3>3 DEF StateArrives
      <4>2. CASE peers[o].stop
        <5>1. peers' = [peers EXCEPT ![o].latest = TRUE, ![o].listening = FALSE]
          BY <3>3, <4>2 DEF StateArrives
        <5> QED BY <4>1, <5>1 DEF callVars, sessionVars
      <4>3. CASE ~peers[o].stop
        <5>1. peers' = [peers EXCEPT ![o].latest = TRUE, ![o].listening = TRUE]
          BY <3>3, <4>3 DEF StateArrives
        <5> QED BY <4>1, <5>1 DEF callVars, sessionVars
      <4> QED BY <4>2, <4>3
    <3>4. ASSUME NEW o \in Others, ListenerEnds(o) PROVE Shape
      BY <3>4 DEF ListenerEnds, callVars, sessionVars
    <3> QED BY <2>2, <3>1, <3>2, <3>3, <3>4 DEF Environment
  <2>3. CASE Game
    <3>1. PICK w : GameStep(w)
      BY <2>3 DEF Game, GameCreate, GameDestroy, GameTrack, GameUntrack, GameBind
    <3> QED BY <3>1 DEF GameStep, callVars, sessionVars
  <2>4. CASE Start \/ BeginLeave \/ Leaving \/ Destroy
    <3>1. CASE Start \/ BeginLeave \/ LeaveSession \/ Destroy
      BY <3>1 DEF Start, BeginLeave, LeaveSession, Destroy, sessionVars
    <3>2. CASE LeaveStopPeer
      <4>1. PICK o : o \in DOMAIN peers /\ peers' = [peers EXCEPT ![o].stop = TRUE]
        BY <3>2 DEF LeaveStopPeer, StopPeer
      <4>2. UNCHANGED <<callVars, sessionVars>>
        BY <3>2 DEF LeaveStopPeer
      <4> QED BY <4>1, <4>2 DEF callVars, sessionVars
    <3>3. CASE LeaveJoinPeer
      BY <3>3 DEF LeaveJoinPeer, Erase, Restrict, callVars, sessionVars
    <3> QED BY <2>4, <3>1, <3>2, <3>3 DEF Leaving
  <2>5. CASE Updates
    <3>1. CASE BeginApply
      BY <3>1 DEF BeginApply
    <3>2. CASE ApplySnapshot
      BY <3>2 DEF ApplySnapshot
    <3>3. CASE EndApply
      BY <3>3 DEF EndApply, sessionVars
    <3>4. ASSUME NEW o \in ClientIds, EventJoined(o) PROVE Shape
      BY <3>4 DEF EventJoined, Connected, NewPeer, Put, sessionVars
    <3>5. ASSUME NEW o \in ClientIds, EventStopPeer(o) PROVE Shape
      BY <3>5 DEF EventStopPeer, StopPeer, callVars, sessionVars
    <3>6. ASSUME NEW o \in ClientIds, EventLeft(o) PROVE Shape
      BY <3>6 DEF EventLeft, Erase, Restrict, sessionVars
    <3>7. ASSUME NEW o \in ClientIds, ApplyPeer(o) PROVE Shape
      BY <3>7 DEF ApplyPeer, First, sessionVars
    <3> QED BY <2>5, <3>1, <3>2, <3>3, <3>4, <3>5, <3>6, <3>7 DEF Updates
  <2>6. CASE UNCHANGED vars
    BY <2>6 DEF vars, callVars, sessionVars
  <2> QED BY <2>2, <2>3, <2>4, <2>5, <2>6 DEF Next
<1>6. /\ app' \in {"joined", "running", "left", "destroyed"}
      /\ call' \in {"none", "events", "peers", "leaving"}
      /\ roster' \subseteq ClientIds /\ endpoints' \subseteq Others /\ snapshot' \in BOOLEAN
      /\ membership' \in [ClientIds -> {"absent", "in", "gone"}]
  <2> DEFINE Shape ==
        /\ app' \in {"joined", "running", "left", "destroyed"}
        /\ call' \in {"none", "events", "peers", "leaving"}
        /\ roster' \subseteq ClientIds /\ endpoints' \subseteq Others /\ snapshot' \in BOOLEAN
        /\ membership' \in [ClientIds -> {"absent", "in", "gone"}]
  <2> SUFFICES Shape OBVIOUS
  <2> USE DEF TypeOK
  <2>2. CASE Environment
    <3>1. CASE SnapshotArrives
      BY <3>1 DEF SnapshotArrives, callVars, sessionVars
    <3>2. ASSUME NEW o \in ClientIds, ClientJoins(o) \/ ClientLeaves(o) PROVE Shape
      BY <3>2 DEF ClientJoins, ClientLeaves, callVars, sessionVars
    <3>3. ASSUME NEW o \in Others, StateArrives(o) \/ ListenerEnds(o) PROVE Shape
      BY <3>3 DEF StateArrives, ListenerEnds, callVars, sessionVars
    <3> QED BY <2>2, <3>1, <3>2, <3>3 DEF Environment
  <2>3. CASE Game
    BY <2>3 DEF Game, GameCreate, GameDestroy, GameTrack, GameUntrack, GameBind, GameStep,
            callVars, sessionVars
  <2>4. CASE Start \/ BeginLeave \/ Leaving \/ Destroy
    BY <2>4 DEF Start, BeginLeave, Leaving, LeaveStopPeer, LeaveJoinPeer, LeaveSession,
            Destroy, callVars, sessionVars
  <2>5. CASE Updates
    <3>1. CASE BeginApply
      BY <3>1 DEF BeginApply
    <3>2. CASE ApplySnapshot
      BY <3>2 DEF ApplySnapshot
    <3>3. CASE EndApply
      BY <3>3 DEF EndApply, sessionVars
    <3>4. ASSUME NEW o \in ClientIds, EventJoined(o) PROVE Shape
      BY <3>4 DEF EventJoined, Connected, NewPeer, Put, sessionVars
    <3>5. ASSUME NEW o \in ClientIds, EventStopPeer(o) PROVE Shape
      BY <3>5 DEF EventStopPeer, StopPeer, callVars, sessionVars
    <3>6. ASSUME NEW o \in ClientIds, EventLeft(o) PROVE Shape
      BY <3>6 DEF EventLeft, Erase, Restrict, sessionVars
    <3>7. ASSUME NEW o \in ClientIds, ApplyPeer(o) PROVE Shape
      BY <3>7 DEF ApplyPeer, First, sessionVars
    <3> QED BY <2>5, <3>1, <3>2, <3>3, <3>4, <3>5, <3>6, <3>7 DEF Updates
  <2>6. CASE UNCHANGED vars
    BY <2>6 DEF vars, callVars, sessionVars
  <2> QED BY <2>2, <2>3, <2>4, <2>5, <2>6 DEF Next
<1> QED BY <1>1, <1>2, <1>3, <1>4, <1>5, <1>6 DEF TypeOK, CopiesHaveHandles

\* Types are kept, those of the replicator's world included.
THEOREM TypeCorrect == Spec => []TypeOK
<1>1. TypeInv => TypeOK
  BY DEF TypeInv
<1> QED BY <1>1, TypeInit, TypeNext, PTL DEF Spec

\* Tracked, bound, untracked, created and destroyed in any order, an id names one
\* entity and an entity has one id: entityOf() and netIdOf() agree.
THEOREM MapsStayInverse == Spec => []MapsInverse
<1>1. TypeInv => MapsInverse
  BY DEF TypeInv, WorldGood, WorldInv, MapsInverse
<1> QED BY <1>1, TypeInit, TypeNext, PTL DEF Spec

-----------------------------------------------------------------------------
(***************************************************************************)
(* The listeners.  leave() is the only call that takes one away from a     *)
(* client of the roster, and the peer does not run any more when it does.  *)
(***************************************************************************)
LeavingIsLeft == call = "leaving" => app = "left"

RosterHasListeners ==
    app \in {"joined", "running"} => DOMAIN peers = (roster \ {Self}) \cap endpoints

FollowInv == LeavingIsLeft /\ RosterHasListeners

LEMMA FollowInit == Init => FollowInv
BY DEF Init, FollowInv, LeavingIsLeft, RosterHasListeners

LEMMA FollowNext == TypeOK /\ FollowInv /\ [Next]_vars => FollowInv'
<1> SUFFICES ASSUME TypeOK, FollowInv, [Next]_vars
             PROVE  FollowInv'
  OBVIOUS
<1> USE DEF FollowInv, LeavingIsLeft, RosterHasListeners
<1>1. CASE Environment
  <2>1. DOMAIN peers' = DOMAIN peers /\ UNCHANGED <<callVars, roster, endpoints>>
    BY <1>1 DEF Environment, ClientJoins, ClientLeaves, SnapshotArrives, StateArrives,
           ListenerEnds, sessionVars
  <2> QED BY <2>1 DEF callVars
<1>2. CASE Game
  BY <1>2 DEF Game, GameCreate, GameDestroy, GameTrack, GameUntrack, GameBind, GameStep,
         callVars, sessionVars
<1>3. CASE Start \/ BeginLeave \/ Leaving \/ Destroy
  BY <1>3 DEF Start, BeginLeave, Leaving, LeaveStopPeer, LeaveJoinPeer, LeaveSession,
         Destroy, StopPeer, callVars, sessionVars
<1>4. CASE BeginApply \/ ApplySnapshot \/ EndApply
  BY <1>4 DEF BeginApply, ApplySnapshot, EndApply, sessionVars
<1>5. ASSUME NEW o \in ClientIds, EventJoined(o)
      PROVE  FollowInv'
  <2>1. DOMAIN Connected(o) = DOMAIN peers \cup ({o} \cap endpoints)
    BY DEF Connected, Put, TypeOK
  <2>2. UNCHANGED <<app, call, endpoints>> /\ roster' = roster \cup {o} /\ call # "leaving"
        /\ peers' = IF o = Self THEN peers ELSE Connected(o)
    BY <1>5 DEF EventJoined, sessionVars
  <2> QED BY <2>1, <2>2
<1>6. ASSUME NEW o \in ClientIds, EventStopPeer(o) \/ ApplyPeer(o)
      PROVE  FollowInv'
  BY <1>6 DEF EventStopPeer, StopPeer, ApplyPeer, callVars, sessionVars
<1>7. ASSUME NEW o \in ClientIds, EventLeft(o)
      PROVE  FollowInv'
  <2>1. DOMAIN Erase(peers, {o}) = DOMAIN peers \ {o}
    BY EraseFacts
  <2> QED BY <1>7, <2>1 DEF EventLeft, sessionVars
<1>8. CASE UNCHANGED vars
  BY <1>8 DEF vars, callVars, sessionVars
<1> QED BY <1>1, <1>2, <1>3, <1>4, <1>5, <1>6, <1>7, <1>8 DEF Next, Updates

\* Between two calls exactly the other clients of the roster with an endpoint have
\* a listener: connect(), disconnect() and the roster never drift apart.
THEOREM PeersFollow == Spec => []PeersFollowRoster
<1>1. Init => TypeInv /\ FollowInv
  BY TypeInit, FollowInit
<1>2. TypeInv /\ FollowInv /\ [Next]_vars => (TypeInv /\ FollowInv)'
  BY TypeNext, FollowNext DEF TypeInv
<1>3. TypeInv /\ FollowInv => PeersFollowRoster
  BY DEF FollowInv, RosterHasListeners, PeersFollowRoster
<1> QED BY <1>1, <1>2, <1>3, PTL DEF Spec

-----------------------------------------------------------------------------
(***************************************************************************)
(* leave() empties the map of peers, and a game that does not call         *)
(* applyUpdates() afterwards never fills it again.                         *)
(***************************************************************************)
AfterLeave ==
    /\ LeavingIsLeft
    /\ app = "left" => \/ call = "leaving"
                       \/ call = "none" /\ DOMAIN peers = {}
    /\ app = "destroyed" => call = "none" /\ DOMAIN peers = {}

LEMMA AfterLeaveInit == Init => AfterLeave
BY DEF Init, AfterLeave, LeavingIsLeft

LEMMA AfterLeaveNext ==
    ASSUME ~UseAfterLeave
    PROVE  TypeOK /\ AfterLeave /\ [Next]_vars => AfterLeave'
<1> SUFFICES ASSUME TypeOK, AfterLeave, [Next]_vars
             PROVE  AfterLeave'
  OBVIOUS
<1> USE DEF AfterLeave, LeavingIsLeft
<1>1. CASE Environment
  <2>1. DOMAIN peers' = DOMAIN peers /\ UNCHANGED callVars
    BY <1>1 DEF Environment, ClientJoins, ClientLeaves, SnapshotArrives, StateArrives,
           ListenerEnds
  <2> QED BY <2>1 DEF callVars
<1>2. CASE Game
  BY <1>2 DEF Game, GameCreate, GameDestroy, GameTrack, GameUntrack, GameBind, GameStep,
         callVars
<1>3. CASE Start \/ BeginLeave \/ Leaving \/ Destroy
  BY <1>3 DEF Start, BeginLeave, Leaving, LeaveStopPeer, LeaveJoinPeer, LeaveSession,
         Destroy, StopPeer, callVars
<1>4. CASE BeginApply \/ ApplySnapshot \/ EndApply
  BY <1>4 DEF BeginApply, ApplySnapshot, EndApply, TypeOK
<1>5. ASSUME NEW o \in ClientIds, EventJoined(o) \/ EventStopPeer(o) \/ EventLeft(o) \/ ApplyPeer(o)
      PROVE  AfterLeave'
  BY <1>5 DEF EventJoined, EventStopPeer, EventLeft, ApplyPeer, callVars, TypeOK
<1>6. CASE UNCHANGED vars
  BY <1>6 DEF vars, callVars
<1> QED BY <1>1, <1>2, <1>3, <1>4, <1>5, <1>6 DEF Next, Updates

\* No listener thread is left when the members of the session are destroyed, of any
\* number of peers and wherever leave() meets their listeners, if applyUpdates() is
\* not called after leave(); the run peer_after_leave shows that it needs the "if".
THEOREM NoListenerIsLeft == ~UseAfterLeave => (Spec => []NoListenerLeft)
<1> SUFFICES ASSUME ~UseAfterLeave
             PROVE  Spec => []NoListenerLeft
  OBVIOUS
<1>1. Init => TypeInv /\ AfterLeave
  BY TypeInit, AfterLeaveInit
<1>2. TypeInv /\ AfterLeave /\ [Next]_vars => (TypeInv /\ AfterLeave)'
  BY TypeNext, AfterLeaveNext DEF TypeInv
<1>3. TypeInv /\ AfterLeave => NoListenerLeft
  BY DEF AfterLeave, NoListenerLeft
<1> QED BY <1>1, <1>2, <1>3, PTL DEF Spec

-----------------------------------------------------------------------------
(***************************************************************************)
(* What this peer owns.  A world v keeps the own entities of w when it has *)
(* the same own ids, for the same entities, and those that lived live.     *)
(***************************************************************************)
KeepsOwn(w, v) ==
    \A id : OwnerOf(id) = Self =>
       /\ id \in DOMAIN w.entities <=> id \in DOMAIN v.entities
       /\ id \in DOMAIN w.entities =>
             /\ v.entities[id] = w.entities[id]
             /\ w.entities[id] \in w.live => w.entities[id] \in v.live

LEMMA KeepsOwnTransitive ==
    ASSUME NEW u, NEW v, NEW w, KeepsOwn(u, v), KeepsOwn(v, w)
    PROVE  KeepsOwn(u, w)
BY DEF KeepsOwn

\* An own id and a foreign one never share an entity, as the maps are inverse.
LEMMA ForgetKeepsOwn ==
    ASSUME NEW w, WorldInv(w, Self, NetIds, Sources),
           NEW T, \A id \in T : OwnerOf(id) # Self
    PROVE  KeepsOwn(w, Forget(w, T))
<1>1. Forget(w, T).live = w.live \ ValuesOf(w.entities, T)
  BY DEF Forget, WorldInv, IsWorld
<1>2. Forget(w, T).entities = Erase(w.entities, T)
  BY DEF Forget, WorldInv, IsWorld
<1>3. /\ DOMAIN Erase(w.entities, T) = DOMAIN w.entities \ T
      /\ \A id \in DOMAIN w.entities \ T : Erase(w.entities, T)[id] = w.entities[id]
  BY EraseFacts
<1>4. SUFFICES ASSUME NEW id, OwnerOf(id) = Self, id \in DOMAIN w.entities
               PROVE  w.entities[id] \notin ValuesOf(w.entities, T)
  BY <1>1, <1>2, <1>3 DEF KeepsOwn
<1> QED BY <1>4 DEF WorldInv, MutuallyInverse, ValuesOf

LEMMA SpawnKeepsOwn ==
    ASSUME NEW w, WorldInv(w, Self, NetIds, Sources),
           NEW g, \A id \in DOMAIN g : OwnerOf(id) # Self
    PROVE  KeepsOwn(w, Spawn(w, g))
<1>1. Spawn(w, g).live = w.live \cup {g[id] : id \in DOMAIN g}
  BY DEF Spawn, WorldInv, IsWorld
<1>2. Spawn(w, g).entities = [id \in DOMAIN w.entities \cup DOMAIN g |->
                                 IF id \in DOMAIN g THEN g[id] ELSE w.entities[id]]
  BY DEF Spawn, WorldInv, IsWorld
<1> QED BY <1>1, <1>2 DEF KeepsOwn

LEMMA ApplyKeepsOwn ==
    ASSUME NEW w, WorldInv(w, Self, NetIds, Sources),
           NEW sent, sent \subseteq NetIds, IsFiniteSet(sent), NEW from \in Sources,
           NEW g \in Numberings(w, Missing(w, Accepted(Self, sent)))
    PROVE  KeepsOwn(w, Apply(w, Self, sent, from, g))
<1> DEFINE seen == Accepted(Self, sent)
           new == Missing(w, seen)
           u == Spawn(w, g)
           gone == u.receivedFrom[from] \ seen
<1>1. new \subseteq sent /\ \A id \in new : OwnerOf(id) # Self
  BY DEF Missing, Accepted
<1>2. IsFiniteSet(new)
  BY <1>1, FS_Subset
<1>3. WorldInv(u, Self, NetIds, Sources)
  BY <1>1, <1>2, SpawnInv
<1>4. DOMAIN g = new
  BY DEF Numberings, Injection
<1>5. KeepsOwn(w, u)
  BY <1>1, <1>4, SpawnKeepsOwn
<1>6. \A id \in gone : OwnerOf(id) # Self
  BY <1>3 DEF WorldInv, ForeignLists
<1> HIDE DEF gone, u
<1>7. KeepsOwn(u, Forget(u, gone))
  BY <1>3, <1>6, ForgetKeepsOwn
<1>8. /\ Replace(u, from, seen).live = Forget(u, gone).live
      /\ Replace(u, from, seen).entities = Forget(u, gone).entities
  BY <1>3 DEF Replace, gone, Forget, WorldInv, IsWorld
<1>9. KeepsOwn(u, Replace(u, from, seen))
  BY <1>7, <1>8 DEF KeepsOwn
<1> QED BY <1>5, <1>9, KeepsOwnTransitive DEF Apply, u

LEMMA DropOwnerKeepsOwn ==
    ASSUME NEW w, WorldInv(w, Self, NetIds, Sources), NEW o
    PROVE  KeepsOwn(w, DropOwner(w, Self, o))
<1>1. CASE o = Self
  BY <1>1 DEF DropOwner, KeepsOwn
<1>2. CASE o # Self
  <2> DEFINE owned == {id \in DOMAIN w.entities : OwnerOf(id) = o}
  <2>1. KeepsOwn(w, Forget(w, owned))
    BY <1>2, ForgetKeepsOwn
  <2>2. /\ DropOwner(w, Self, o).live = Forget(w, owned).live
        /\ DropOwner(w, Self, o).entities = Forget(w, owned).entities
    BY <1>2 DEF DropOwner, Forget, WorldInv, IsWorld
  <2> QED BY <2>1, <2>2 DEF KeepsOwn
<1> QED BY <1>1, <1>2

LEMMA CallsKeepOwn == TypeInv /\ [Next]_vars /\ call # "none" => KeepsOwn(world, world')
<1> SUFFICES ASSUME TypeInv, [Next]_vars, call # "none"
             PROVE  KeepsOwn(world, world')
  OBVIOUS
<1>1. WorldInv(world, Self, NetIds, Sources) /\ TurnsGood
  BY TurnsAreGood DEF TypeInv, WorldGood
<1>2. CASE world' = world
  BY <1>2 DEF KeepsOwn
<1>3. ASSUME NEW full, NEW from \in Sources, ApplyLatest(full, from)
      PROVE  KeepsOwn(world, world')
  BY <1>1, <1>2, <1>3, TakenIsApplied, ApplyKeepsOwn DEF WorldGood
<1>4. CASE Game
  BY <1>4 DEF Game, GameCreate, GameDestroy, GameTrack, GameUntrack, GameBind, GameStep
<1>5. CASE \E o \in ClientIds : EventLeft(o)
  BY <1>1, <1>5, DropOwnerKeepsOwn DEF EventLeft
<1>6. CASE ApplySnapshot
  BY <1>3, <1>6 DEF ApplySnapshot, Sources
<1>7. CASE \E o \in ClientIds : ApplyPeer(o)
  BY <1>1, <1>3, <1>7 DEF ApplyPeer, Sources, TurnsGood, First
<1> QED BY <1>2, <1>4, <1>5, <1>6, <1>7, OtherStepsLeaveWorld DEF WorldStep

\* "apply() never overwrites entities this process owns": whatever the server relays
\* and the peers send, no step of applyUpdates() or leave() creates, remaps or
\* destroys an own entity.
THEOREM OwnStayUntouched == Spec => OwnEntitiesUntouched
<1>1. TypeInv /\ [Next]_vars =>
        [call # "none" =>
           \A id \in OwnedBy(Self) :
              /\ id \in DOMAIN world.entities <=> id \in DOMAIN world'.entities
              /\ id \in DOMAIN world.entities =>
                    /\ world'.entities[id] = world.entities[id]
                    /\ world.entities[id] \in world.live => world.entities[id] \in world'.live]_vars
  BY CallsKeepOwn DEF OwnedBy, KeepsOwn
<1> QED BY <1>1, TypeInit, TypeNext, PTL DEF Spec, OwnEntitiesUntouched
-----------------------------------------------------------------------------
(***************************************************************************)
(* The entities a peer has of others: each is on the list of a source, and *)
(* none outlives its owner.                                                *)
(***************************************************************************)
\* The entities of C that live are mapped to ids that some source is known to send.
Listed(w, C) ==
    \A e \in C \cap w.live :
        /\ e \in DOMAIN w.netIds
        /\ \E s \in DOMAIN w.receivedFrom : w.netIds[e] \in w.receivedFrom[s]

\* A peer only sends what it owns.
OwnLists(w) == \A o \in Others : \A id \in w.receivedFrom[o] : OwnerOf(id) = o

WorldHere(w) == WorldInv(w, Self, NetIds, Sources)

-----------------------------------------------------------------------------
(***************************************************************************)
(* The game's calls.                                                       *)
(***************************************************************************)
LEMMA CreateKeepsListed ==
    ASSUME NEW w, WorldHere(w), NEW C, C \subseteq 1 .. (w.nextEntity - 1), Listed(w, C)
    PROVE  Listed(CreateEntity(w), C)
<1>1. /\ CreateEntity(w).live = w.live \cup {w.nextEntity}
      /\ CreateEntity(w).netIds = w.netIds /\ CreateEntity(w).receivedFrom = w.receivedFrom
  BY DEF CreateEntity, WorldHere, WorldInv, IsWorld
<1>2. w.nextEntity \in Nat
  BY DEF WorldHere, WorldInv, WorldOK
<1>3. w.nextEntity \notin C
  BY <1>2
<1> QED BY <1>1, <1>3 DEF Listed

LEMMA DestroyKeepsListed ==
    ASSUME NEW w, WorldHere(w), NEW C, Listed(w, C), NEW e
    PROVE  Listed(DestroyEntity(w, e), C)
<1>1. /\ DestroyEntity(w, e).live = w.live \ {e}
      /\ DestroyEntity(w, e).netIds = w.netIds
      /\ DestroyEntity(w, e).receivedFrom = w.receivedFrom
  BY DEF DestroyEntity, WorldHere, WorldInv, IsWorld
<1> QED BY <1>1 DEF Listed

LEMMA TrackKeepsListed ==
    ASSUME NEW w, WorldHere(w), NEW C, Listed(w, C), NEW e
    PROVE  Listed(Track(w, Self, e), C)
<1>1. CASE e \in DOMAIN w.netIds
  BY <1>1 DEF Track
<1>2. CASE e \notin DOMAIN w.netIds
  <2>1. /\ Track(w, Self, e).live = w.live
        /\ Track(w, Self, e).netIds = Put(w.netIds, e, <<Self, w.nextLocal>>)
        /\ Track(w, Self, e).receivedFrom = w.receivedFrom
    BY <1>2 DEF Track, WorldHere, WorldInv, IsWorld
  <2>2. \A x \in DOMAIN w.netIds : /\ x \in DOMAIN Put(w.netIds, e, <<Self, w.nextLocal>>)
                                   /\ Put(w.netIds, e, <<Self, w.nextLocal>>)[x] = w.netIds[x]
    BY <1>2 DEF Put
  <2> QED BY <2>1, <2>2 DEF Listed
<1> QED BY <1>1, <1>2

LEMMA UntrackKeepsListed ==
    ASSUME NEW w, WorldHere(w), NEW C, Listed(w, C), NEW e
    PROVE  Listed(Untrack(w, e), C \ {e})
<1>1. /\ Untrack(w, e).live = w.live
      /\ Untrack(w, e).netIds = Erase(w.netIds, {e})
      /\ Untrack(w, e).receivedFrom = w.receivedFrom
  BY DEF Untrack, WorldHere, WorldInv, IsWorld
<1>2. \A x \in DOMAIN w.netIds \ {e} : /\ x \in DOMAIN Erase(w.netIds, {e})
                                       /\ Erase(w.netIds, {e})[x] = w.netIds[x]
  BY EraseFacts
<1> QED BY <1>1, <1>2 DEF Listed

LEMMA BindKeepsListed ==
    ASSUME NEW w, WorldHere(w), NEW C, Listed(w, C), NEW e, NEW id
    PROVE  Listed(Bind(w, Self, id, e), C \ ({e} \cup ValuesOf(w.entities, {id})))
<1> DEFINE old == ValuesOf(w.entities, {id})
           G == Put(Erase(w.netIds, old), e, id)
<1>1. /\ Bind(w, Self, id, e).live = w.live /\ Bind(w, Self, id, e).netIds = G
      /\ Bind(w, Self, id, e).receivedFrom = w.receivedFrom
  BY DEF Bind, WorldHere, WorldInv, IsWorld
<1>2. \A x \in DOMAIN w.netIds \ ({e} \cup old) : x \in DOMAIN G /\ G[x] = w.netIds[x]
  <2>1. \A x \in DOMAIN w.netIds \ old : x \in DOMAIN Erase(w.netIds, old)
                                         /\ Erase(w.netIds, old)[x] = w.netIds[x]
    BY EraseFacts
  <2> HIDE DEF old
  <2> QED BY <2>1 DEF Put
<1> HIDE DEF G, old
<1> QED BY <1>1, <1>2 DEF Listed, old

-----------------------------------------------------------------------------
(***************************************************************************)
(* The calls of applyUpdates().                                            *)
(***************************************************************************)
\* An entity that lives after forget() lived before, is mapped as before, and not to
\* an id that was forgotten.
LEMMA ForgetFacts ==
    ASSUME NEW w, WorldHere(w), NEW T
    PROVE  /\ Forget(w, T).live \subseteq w.live
           /\ \A e \in Forget(w, T).live \cap DOMAIN w.netIds :
                 /\ w.netIds[e] \notin T
                 /\ e \in DOMAIN Forget(w, T).netIds
                 /\ Forget(w, T).netIds[e] = w.netIds[e]
           /\ Forget(w, T).receivedFrom = w.receivedFrom
<1>1. /\ Forget(w, T).live = w.live \ ValuesOf(w.entities, T)
      /\ Forget(w, T).netIds = Erase(w.netIds, ValuesOf(w.entities, T))
      /\ Forget(w, T).receivedFrom = w.receivedFrom
  BY DEF Forget, WorldHere, WorldInv, IsWorld
<1>2. \A e \in DOMAIN w.netIds : w.netIds[e] \in T => e \in ValuesOf(w.entities, T)
  BY DEF ValuesOf, WorldHere, WorldInv, MutuallyInverse
<1>3. \A e \in DOMAIN w.netIds \ ValuesOf(w.entities, T) :
         /\ e \in DOMAIN Erase(w.netIds, ValuesOf(w.entities, T))
         /\ Erase(w.netIds, ValuesOf(w.entities, T))[e] = w.netIds[e]
  BY EraseFacts
<1> QED BY <1>1, <1>2, <1>3

LEMMA DropOwnerFacts ==
    ASSUME NEW w, WorldHere(w), NEW o, o # Self
    PROVE  LET owned == {id \in DOMAIN w.entities : OwnerOf(id) = o}
           IN  /\ DropOwner(w, Self, o).live = Forget(w, owned).live
               /\ DropOwner(w, Self, o).netIds = Forget(w, owned).netIds
               /\ DropOwner(w, Self, o).receivedFrom =
                     [s \in DOMAIN w.receivedFrom |->
                        IF s = o THEN {} ELSE w.receivedFrom[s] \ owned]
BY DEF DropOwner, Forget, WorldHere, WorldInv, IsWorld

\* What was on the list of the client that left was its own, so it is destroyed.
LEMMA DropOwnerKeepsListed ==
    ASSUME NEW w, WorldHere(w), NEW C, Listed(w, C), OwnLists(w), NEW o \in ClientIds
    PROVE  Listed(DropOwner(w, Self, o), C)
<1>1. CASE o = Self
  BY <1>1 DEF DropOwner
<1>2. CASE o # Self
  <2> DEFINE owned == {id \in DOMAIN w.entities : OwnerOf(id) = o}
             u == Forget(w, owned)
             v == DropOwner(w, Self, o)
  <2>1. /\ v.live = u.live /\ v.netIds = u.netIds
        /\ v.receivedFrom = [s \in DOMAIN w.receivedFrom |->
              IF s = o THEN {} ELSE w.receivedFrom[s] \ owned]
    BY <1>2, DropOwnerFacts
  <2> HIDE DEF v
  <2> SUFFICES ASSUME NEW e \in C, e \in v.live
               PROVE  /\ e \in DOMAIN v.netIds
                      /\ \E s \in DOMAIN v.receivedFrom : v.netIds[e] \in v.receivedFrom[s]
    BY DEF Listed, v
  <2>2. e \in w.live /\ e \in u.live
    BY <2>1, ForgetFacts
  <2>3. PICK s \in DOMAIN w.receivedFrom : e \in DOMAIN w.netIds /\ w.netIds[e] \in w.receivedFrom[s]
    BY <2>2 DEF Listed
  <2>4. e \in DOMAIN v.netIds /\ v.netIds[e] = w.netIds[e] /\ w.netIds[e] \notin owned
    BY <2>1, <2>2, <2>3, ForgetFacts
  <2>5. w.netIds[e] \in DOMAIN w.entities
    BY <2>3 DEF WorldHere, WorldInv, MutuallyInverse
  <2>6. s # o
    BY <1>2, <2>3, <2>4, <2>5 DEF OwnLists, ClientIds
  <2> QED BY <2>1, <2>3, <2>4, <2>6
<1> QED BY <1>1, <1>2

\* The part of apply() that creates entities.
LEMMA SpawnFacts ==
    ASSUME NEW w, WorldHere(w), NEW seen, seen \subseteq NetIds, IsFiniteSet(seen),
           \A id \in seen : OwnerOf(id) # Self,
           NEW g \in Numberings(w, Missing(w, seen))
    PROVE  LET new == Missing(w, seen)
               u == Spawn(w, g)
           IN  /\ u.live = w.live \cup {g[id] : id \in new}
               /\ u.receivedFrom = w.receivedFrom
               /\ \A e \in w.live \cap DOMAIN w.netIds :
                     e \in DOMAIN u.netIds /\ u.netIds[e] = w.netIds[e]
               /\ \A id \in new : g[id] \in DOMAIN u.netIds /\ u.netIds[g[id]] = id
<1> DEFINE new == Missing(w, seen)
           u == Spawn(w, g)
           made == {g[id] : id \in new}
           K == Erase(w.netIds, ValuesOf(w.entities, new))
<1>1. new \subseteq seen
  BY DEF Missing
<1>2. IsFiniteSet(new) /\ new \subseteq NetIds
  BY <1>1, FS_Subset
<1>3. Cardinality(new) \in Nat /\ w.nextEntity \in Nat
  BY <1>2, FS_CardinalityType DEF WorldHere, WorldInv, WorldOK
<1>4. /\ g \in [new -> w.nextEntity .. (w.nextEntity + Cardinality(new) - 1)]
      /\ \A i, j \in new : g[i] = g[j] => i = j
      /\ DOMAIN g = new
  BY DEF Numberings, Injection, IsInjective
<1>5. /\ u.live = w.live \cup made /\ u.receivedFrom = w.receivedFrom
      /\ u.netIds = [e \in DOMAIN K \cup made |->
                       IF \E id \in new : g[id] = e
                       THEN CHOOSE id \in new : g[id] = e ELSE K[e]]
  BY <1>4 DEF Spawn, WorldHere, WorldInv, IsWorld
<1>6. \A id \in new : g[id] \in DOMAIN u.netIds /\ u.netIds[g[id]] = id
  BY <1>4, <1>5
<1>7. ASSUME NEW e \in w.live, e \in DOMAIN w.netIds
      PROVE  e \in DOMAIN u.netIds /\ u.netIds[e] = w.netIds[e]
  <2>1. \A id \in new : g[id] # e
    <3> SUFFICES ASSUME NEW id \in new, g[id] = e
                 PROVE  FALSE
      OBVIOUS
    <3>1. e \in w.nextEntity .. (w.nextEntity + Cardinality(new) - 1)
      BY <1>4
    <3>2. e \in 1 .. (w.nextEntity - 1)
      BY DEF WorldHere, WorldInv, WorldOK
    <3> QED BY <3>1, <3>2, <1>3
  <2>2. e \notin ValuesOf(w.entities, new)
    BY DEF ValuesOf, Missing
  <2>3. e \in DOMAIN K /\ K[e] = w.netIds[e]
    <3> DEFINE replaced == ValuesOf(w.entities, new)
    <3>1. /\ DOMAIN Erase(w.netIds, replaced) = DOMAIN w.netIds \ replaced
          /\ \A x \in DOMAIN w.netIds \ replaced : Erase(w.netIds, replaced)[x] = w.netIds[x]
      BY EraseFacts
    <3> QED BY <1>7, <2>2, <3>1
  <2> QED BY <1>5, <2>1, <2>3
<1> QED BY <1>5, <1>6, <1>7

LEMMA ApplyKeepsListed ==
    ASSUME NEW w, WorldHere(w), NEW C, Listed(w, C),
           NEW sent, sent \subseteq NetIds, IsFiniteSet(sent), NEW from \in Sources,
           NEW g \in Numberings(w, Missing(w, Accepted(Self, sent)))
    PROVE  Listed(Apply(w, Self, sent, from, g),
                  C \cup {g[id] : id \in Missing(w, Accepted(Self, sent))})
<1> DEFINE seen == Accepted(Self, sent)
           new == Missing(w, seen)
           made == {g[id] : id \in new}
           u == Spawn(w, g)
           gone == u.receivedFrom[from] \ seen
           f == Forget(u, gone)
           v == Apply(w, Self, sent, from, g)
<1>1. /\ seen \subseteq sent /\ seen \subseteq NetIds /\ new \subseteq seen
      /\ \A id \in seen : OwnerOf(id) # Self
  BY DEF Accepted, Missing
<1>2. IsFiniteSet(seen) /\ IsFiniteSet(new)
  BY <1>1, FS_Subset
<1>3. WorldHere(u)
  BY <1>1, <1>2, SpawnInv DEF WorldHere
<1> HIDE DEF seen
<1>4. /\ u.live = w.live \cup made /\ u.receivedFrom = w.receivedFrom
      /\ \A e \in w.live \cap DOMAIN w.netIds :
            e \in DOMAIN u.netIds /\ u.netIds[e] = w.netIds[e]
      /\ \A id \in new : g[id] \in DOMAIN u.netIds /\ u.netIds[g[id]] = id
  BY <1>1, <1>2, SpawnFacts DEF seen
<1> HIDE DEF u, gone
<1>5. /\ f.live \subseteq u.live
      /\ \A e \in f.live \cap DOMAIN u.netIds :
            u.netIds[e] \notin gone /\ e \in DOMAIN f.netIds /\ f.netIds[e] = u.netIds[e]
  BY <1>3, ForgetFacts
<1>6. /\ v.live = f.live /\ v.netIds = f.netIds
      /\ v.receivedFrom = [u.receivedFrom EXCEPT ![from] = seen]
  <2>1. v = Replace(u, from, seen)
    BY DEF Apply, u, seen
  <2>2. /\ Replace(u, from, seen).live = f.live /\ Replace(u, from, seen).netIds = f.netIds
        /\ Replace(u, from, seen).receivedFrom = [u.receivedFrom EXCEPT ![from] = seen]
    <3>1. IsWorld(u)
      BY <1>3 DEF WorldHere, WorldInv
    <3> QED BY <3>1 DEF gone, f, Replace, Forget, IsWorld
  <2> HIDE DEF v, f
  <2> QED BY <2>1, <2>2
<1>7. DOMAIN w.receivedFrom = Sources
  BY DEF WorldHere, WorldInv
<1> HIDE DEF v, f
<1>8. ASSUME NEW e \in C \cup made, e \in v.live
      PROVE  /\ e \in DOMAIN v.netIds
             /\ \E s \in DOMAIN v.receivedFrom : v.netIds[e] \in v.receivedFrom[s]
  <2>1. CASE e \in made
    <3>1. PICK id \in new : e = g[id]
      BY <2>1
    <3>2. e \in DOMAIN v.netIds /\ v.netIds[e] = id
      BY <3>1, <1>4, <1>5, <1>6, <1>8
    <3>3. from \in DOMAIN v.receivedFrom /\ v.receivedFrom[from] = seen
      BY <1>4, <1>6, <1>7
    <3> QED BY <3>2, <3>3, <1>1
  <2>2. CASE e \notin made
    <3>1. e \in C /\ e \in w.live
      BY <2>2, <1>4, <1>5, <1>6, <1>8
    <3>2. PICK s \in DOMAIN w.receivedFrom :
                  e \in DOMAIN w.netIds /\ w.netIds[e] \in w.receivedFrom[s]
      BY <3>1 DEF Listed
    <3>3. /\ e \in DOMAIN v.netIds /\ v.netIds[e] = w.netIds[e]
          /\ w.netIds[e] \notin gone
      BY <3>1, <3>2, <1>4, <1>5, <1>6, <1>8
    <3>4. CASE s = from
      <4>1. w.netIds[e] \in seen
        BY <3>2, <3>3, <3>4, <1>4 DEF gone
      <4> QED BY <4>1, <3>3, <1>4, <1>6, <1>7
    <3>5. CASE s # from
      BY <3>2, <3>3, <3>5, <1>4, <1>6
    <3> QED BY <3>4, <3>5
  <2> QED BY <2>1, <2>2
<1> QED BY <1>8 DEF Listed, seen, v

LEMMA GameKeepsLists == WorldGood /\ Game => world'.receivedFrom = world.receivedFrom
<1> SUFFICES ASSUME WorldGood, Game
             PROVE  world'.receivedFrom = world.receivedFrom
  OBVIOUS
<1> USE DEF WorldGood, WorldInv, IsWorld, GameStep
<1>1. CASE GameCreate
  BY <1>1 DEF GameCreate, CreateEntity
<1>2. ASSUME NEW e, GameDestroy(e) PROVE world'.receivedFrom = world.receivedFrom
  BY <1>2 DEF GameDestroy, DestroyEntity
<1>3. ASSUME NEW e, GameTrack(e) PROVE world'.receivedFrom = world.receivedFrom
  <2>1. CASE e \in DOMAIN world.netIds
    BY <1>3, <2>1 DEF GameTrack, Track
  <2>2. CASE e \notin DOMAIN world.netIds
    BY <1>3, <2>2 DEF GameTrack, Track
  <2> QED BY <2>1, <2>2
<1>4. ASSUME NEW e, GameUntrack(e) PROVE world'.receivedFrom = world.receivedFrom
  BY <1>4 DEF GameUntrack, Untrack
<1>5. ASSUME NEW e, NEW id, GameBind(id, e) PROVE world'.receivedFrom = world.receivedFrom
  BY <1>5 DEF GameBind, Bind
<1> QED BY <1>1, <1>2, <1>3, <1>4, <1>5 DEF Game

-----------------------------------------------------------------------------
(***************************************************************************)
(* A list is empty for a client that is not in the roster: only what has a *)
(* listener is listened to, and only clients of the roster have one.       *)
(***************************************************************************)
CopiesInv ==
    /\ Listed(world, copies)
    /\ OwnLists(world)
    /\ \A o \in Others : world.receivedFrom[o] # {} => o \in roster
    /\ DOMAIN peers \subseteq roster

LEMMA CopiesInit == Init => CopiesInv
BY DEF Init, CopiesInv, Listed, OwnLists, NewWorld, Sources

LEMMA GameKeepsCopies == TypeInv /\ CopiesInv /\ Game => CopiesInv'
<1> SUFFICES ASSUME TypeInv, CopiesInv, Game
             PROVE  CopiesInv'
  OBVIOUS
<1>1. WorldHere(world) /\ copies \subseteq 1 .. (world.nextEntity - 1) /\ Listed(world, copies)
  BY DEF TypeInv, TypeOK, WorldGood, WorldHere, CopiesInv
<1>2. Listed(world', copies')
  <2>1. CASE GameCreate
    BY <2>1, <1>1, CreateKeepsListed DEF GameCreate, GameStep
  <2>2. ASSUME NEW e, GameDestroy(e) PROVE Listed(world', copies')
    BY <2>2, <1>1, DestroyKeepsListed DEF GameDestroy, GameStep, Listed
  <2>3. ASSUME NEW e, GameTrack(e) PROVE Listed(world', copies')
    BY <2>3, <1>1, TrackKeepsListed DEF GameTrack, GameStep
  <2>4. ASSUME NEW e, GameUntrack(e) PROVE Listed(world', copies')
    BY <2>4, <1>1, UntrackKeepsListed DEF GameUntrack, GameStep
  <2>5. ASSUME NEW e, NEW id, GameBind(id, e) PROVE Listed(world', copies')
    BY <2>5, <1>1, BindKeepsListed DEF GameBind, GameStep
  <2> QED BY <2>1, <2>2, <2>3, <2>4, <2>5 DEF Game
<1>3. world'.receivedFrom = world.receivedFrom
  BY GameKeepsLists DEF TypeInv
<1>4. UNCHANGED <<roster, peers>>
  BY DEF Game, GameCreate, GameDestroy, GameTrack, GameUntrack, GameBind, GameStep
<1> QED BY <1>2, <1>3, <1>4 DEF CopiesInv, OwnLists

LEMMA LeftKeepsCopies ==
    ASSUME TypeInv, CopiesInv, NEW o \in ClientIds, EventLeft(o)
    PROVE  CopiesInv'
<1>1. WorldHere(world) /\ Listed(world, copies) /\ OwnLists(world)
  BY DEF TypeInv, WorldGood, WorldHere, CopiesInv
<1>2. world' = DropOwner(world, Self, o) /\ copies' = copies /\ roster' = roster \ {o}
  BY DEF EventLeft
<1>3. Listed(world', copies')
  BY <1>1, <1>2, DropOwnerKeepsListed
<1>4. DOMAIN peers' = DOMAIN peers \ {o}
  <2>1. DOMAIN Erase(peers, {o}) = DOMAIN peers \ {o}
    BY EraseFacts
  <2> QED BY <2>1 DEF EventLeft
<1>5. \A p \in Others : /\ world'.receivedFrom[p] \subseteq world.receivedFrom[p]
                        /\ p = o => world'.receivedFrom[p] = {}
  <2>1. CASE o = Self
    BY <1>2, <2>1, PeerAssumption DEF DropOwner
  <2>2. CASE o # Self
    <3> DEFINE owned == {id \in DOMAIN world.entities : OwnerOf(id) = o}
    <3>1. world'.receivedFrom = [s \in DOMAIN world.receivedFrom |->
                          IF s = o THEN {} ELSE world.receivedFrom[s] \ owned]
      BY <1>1, <1>2, <2>2 DEF DropOwner, Forget, WorldHere, WorldInv, IsWorld
    <3> HIDE DEF owned
    <3>2. DOMAIN world.receivedFrom = Sources
      BY <1>1 DEF WorldHere, WorldInv
    <3> QED BY <3>1, <3>2 DEF Sources
  <2> QED BY <2>1, <2>2
<1> QED BY <1>2, <1>3, <1>4, <1>5 DEF CopiesInv, OwnLists

LEMMA TakenKeepsCopies ==
    ASSUME TypeInv, CopiesInv, NEW full, NEW from \in Sources, ApplyLatest(full, from),
           from # Server => from \in roster, roster' = roster, DOMAIN peers' = DOMAIN peers
    PROVE  CopiesInv'
<1>1. WorldHere(world) /\ Listed(world, copies) /\ WorldGood
  BY DEF TypeInv, WorldGood, WorldHere, CopiesInv
<1>2. CASE world' = world /\ copies' = copies
  BY <1>2 DEF CopiesInv
<1>3. ASSUME NEW ids \in Sent(from), ids \subseteq NetIds, IsFiniteSet(ids),
             NEW g \in Numberings(world, Missing(world, Accepted(Self, ids))),
             world' = Apply(world, Self, ids, from, g),
             copies' = copies \cup {g[id] : id \in Missing(world, Accepted(Self, ids))}
      PROVE  CopiesInv'
  <2>1. Listed(world', copies')
    BY <1>1, <1>3, ApplyKeepsListed
  <2>2. world'.receivedFrom = [world.receivedFrom EXCEPT ![from] = Accepted(Self, ids)]
    <3> DEFINE u == Spawn(world, g)
               seen == Accepted(Self, ids)
    <3>1. IsWorld(u) /\ u.receivedFrom = world.receivedFrom
      BY <1>1 DEF Spawn, WorldHere, WorldInv, IsWorld
    <3> HIDE DEF u, seen
    <3>2. Replace(u, from, seen).receivedFrom = [u.receivedFrom EXCEPT ![from] = seen]
      BY <3>1 DEF Replace, Forget, IsWorld
    <3> QED BY <1>3, <3>1, <3>2 DEF Apply, u, seen
  <2>3. from # Server => \A id \in Accepted(Self, ids) : OwnerOf(id) = from
    BY <1>3 DEF Accepted, Sent, OwnedBy
  <2>4. DOMAIN world.receivedFrom = Sources /\ Server \notin Others
    BY <1>1, PeerAssumption DEF WorldHere, WorldInv, Server
  <2>5. \A o \in Others : /\ \A id \in world'.receivedFrom[o] : OwnerOf(id) = o
                          /\ world'.receivedFrom[o] # {} => o \in roster
    BY <2>2, <2>3, <2>4 DEF CopiesInv, OwnLists, Sources
  <2> QED BY <2>1, <2>5 DEF CopiesInv, OwnLists
<1> QED BY <1>1, <1>2, <1>3, TakenIsApplied

LEMMA CopiesNext == TypeInv /\ CopiesInv /\ [Next]_vars => CopiesInv'
<1> SUFFICES ASSUME TypeInv, CopiesInv, [Next]_vars
             PROVE  CopiesInv'
  OBVIOUS
<1>1. CASE Game
  BY <1>1, GameKeepsCopies
<1>2. CASE \E o \in ClientIds : EventLeft(o)
  BY <1>2, LeftKeepsCopies
<1>3. CASE ApplySnapshot
  <2>1. ApplyLatest(snapshot, Server) /\ UNCHANGED <<roster, peers>> /\ Server \in Sources
    BY <1>3 DEF ApplySnapshot, Sources
  <2> QED BY <2>1, TakenKeepsCopies
<1>4. ASSUME NEW o \in ClientIds, ApplyPeer(o)
      PROVE  CopiesInv'
  <2>1. o \in DOMAIN peers /\ o \in Sources
    BY <1>4, TurnsAreGood DEF ApplyPeer, First, TypeInv, TurnsGood, Sources
  <2>2. /\ ApplyLatest(peers[o].latest, o) /\ roster' = roster /\ DOMAIN peers' = DOMAIN peers
    BY <1>4 DEF ApplyPeer
  <2> QED BY <2>1, <2>2, TakenKeepsCopies DEF CopiesInv
<1>5. CASE UNCHANGED <<world, copies>> /\ ~\E o \in ClientIds : EventLeft(o)
  <2>1. DOMAIN peers' \subseteq roster' /\ roster \subseteq roster'
    <3>1. ASSUME NEW o \in ClientIds, EventJoined(o)
          PROVE  DOMAIN peers' \subseteq roster' /\ roster \subseteq roster'
      BY <3>1 DEF EventJoined, Connected, Put, CopiesInv
    <3>2. CASE LeaveJoinPeer
      <4>1. PICK o : peers' = Erase(peers, {o})
        BY <3>2 DEF LeaveJoinPeer
      <4>2. DOMAIN Erase(peers, {o}) = DOMAIN peers \ {o}
        BY EraseFacts
      <4> QED BY <3>2, <4>1, <4>2 DEF LeaveJoinPeer, CopiesInv
    <3>3. CASE UNCHANGED vars \/ \E o \in ClientIds : EventStopPeer(o) \/ ApplyPeer(o)
      BY <3>3 DEF vars, EventStopPeer, StopPeer, ApplyPeer, CopiesInv
    <3>4. CASE Environment \/ Game
      BY <3>4 DEF Environment, ClientJoins, ClientLeaves, SnapshotArrives, StateArrives,
              ListenerEnds, Game, GameCreate, GameDestroy, GameTrack, GameUntrack, GameBind,
              GameStep, CopiesInv
    <3>5. CASE Start \/ BeginLeave \/ LeaveStopPeer \/ LeaveSession \/ Destroy
      BY <3>5 DEF Start, BeginLeave, LeaveStopPeer, StopPeer, LeaveSession, Destroy, CopiesInv
    <3>6. CASE BeginApply \/ ApplySnapshot \/ EndApply
      BY <3>6 DEF BeginApply, ApplySnapshot, EndApply, CopiesInv
    <3> QED BY <1>5, <3>1, <3>2, <3>3, <3>4, <3>5, <3>6 DEF Next, Updates, Leaving
  <2> QED BY <1>5, <2>1 DEF CopiesInv
<1> QED BY <1>1, <1>2, <1>3, <1>4, <1>5, OtherStepsLeaveWorld DEF WorldStep

LEMMA CopiesAlways == Spec => [](TypeInv /\ CopiesInv)
<1>1. Init => TypeInv /\ CopiesInv
  BY TypeInit, CopiesInit
<1>2. TypeInv /\ CopiesInv /\ [Next]_vars => (TypeInv /\ CopiesInv)'
  BY TypeNext, CopiesNext
<1> QED BY <1>1, <1>2, PTL DEF Spec

\* Every entity a snapshot created, and the game left alone, is mapped and on the list
\* of a source: something will destroy it, and nothing can make it stay for ever.
THEOREM CopiesStayListed == Spec => []CopiesAreListed
<1>1. TypeInv /\ CopiesInv => CopiesAreListed
  BY DEF TypeInv, WorldGood, WorldInv, CopiesInv, Listed, CopiesAreListed
<1> QED BY <1>1, CopiesAlways, PTL

\* A client that left leaves no entity behind but those the server itself still sends.
THEOREM GhostFreedom == Spec => []NoGhosts
<1>1. TypeInv /\ CopiesInv => NoGhosts
  <2> SUFFICES ASSUME TypeInv, CopiesInv, NEW e \in copies \cap world.live
               PROVE  \/ OwnerOf(world.netIds[e]) \in roster
                      \/ world.netIds[e] \in world.receivedFrom[Server]
    BY DEF NoGhosts
  <2>1. PICK s \in Sources : world.netIds[e] \in world.receivedFrom[s]
    BY DEF TypeInv, WorldGood, WorldInv, CopiesInv, Listed
  <2>2. CASE s = Server
    BY <2>1, <2>2
  <2>3. CASE s # Server
    BY <2>1, <2>3 DEF Sources, CopiesInv, OwnLists
  <2> QED BY <2>2, <2>3
<1> QED BY <1>1, CopiesAlways, PTL
=============================================================================
