----------------------------- MODULE PeerSession -----------------------------
(***************************************************************************)
(* peerSession (src/networking/peerSession.cpp): one peer of a mesh.  It   *)
(* learns of the others from the server's roster, has a listener thread    *)
(* for each, and applies what the server and the peers send to its Scene.  *)
(*                                                                         *)
(* The other peers, the server and the network are its environment.  The   *)
(* server's roster events arrive in their order; a client id joins once    *)
(* and leaves once.  A topic may lose messages: what a listener receives   *)
(* next is any state its publisher may have published.  A server may bind  *)
(* and relay any id, those of this peer included.  A mailbox is full or    *)
(* empty: which of the states its sender published it holds is chosen when *)
(* it is taken.                                                            *)
(*                                                                         *)
(* The game's thread makes every call.  applyUpdates() and leave() are     *)
(* split wherever they meet the listeners or the session's thread: at each *)
(* event, at each listener they stop or whose mailbox they empty, and at   *)
(* the snapshot of the server.                                             *)
(***************************************************************************)
EXTENDS SceneReplicator, SessionProtocol

CONSTANTS
    Self,        \* this peer's id
    Others,      \* ids of other clients
    NetIds,      \* ids of entities
    MaxEntities, \* bound: entities created
    UseAfterLeave \* whether the game calls applyUpdates() after leave()

Server == 0
ClientIds == Others \cup {Self}
Sources == Others \cup {Server}
Owners == ClientIds \cup {Server}

ASSUME PeerAssumption ==
    /\ Self \in Nat \ {0} /\ Others \subseteq Nat \ {0, Self}
    /\ NetIds \subseteq Owners \X Nat /\ IsFiniteSet(NetIds)
    /\ MaxEntities \in Nat /\ UseAfterLeave \in BOOLEAN

VARIABLES
    app,            \* joined, running, left, destroyed
    call,           \* what the game's thread is in: none, events, peers, leaving
    batch,          \* roster events drained and not yet looked at
    turn,           \* peers whose state applyUpdates() has still to take
    roster,         \* impl::roster
    peers,          \* impl::peers, from id to slot
    world,          \* the replicator and the Scene
    rosterEvents,   \* sessionClient's queue of roster events
    snapshot,       \* whether sessionClient has a snapshot of the server to apply
    membership,     \* of each client on the server: absent, in or gone
    endpoints,      \* the others that join with a publisher's endpoint (never changes)
    copies          \* history: entities apply() created and the game left alone

sessionVars == <<rosterEvents, snapshot, membership, endpoints>>
callVars == <<app, call, batch, turn>>
vars == <<callVars, roster, peers, world, sessionVars, copies>>

\* A new slot: its thread listens, its mailbox is empty.
NewPeer == [stop |-> FALSE, listening |-> TRUE, latest |-> FALSE]

Init ==
    /\ app = "joined" /\ call = "none" /\ batch = <<>> /\ turn = {}
    /\ roster = {} /\ peers = <<>> /\ world = NewWorld(Sources)
    /\ rosterEvents = <<>> /\ snapshot = FALSE
    /\ membership = [o \in ClientIds |-> "absent"] /\ endpoints \in SUBSET Others
    /\ copies = {}

-----------------------------------------------------------------------------
(***************************************************************************)
(* The environment: the update thread of sessionClient, and the listeners. *)
(***************************************************************************)
\* The thread runs from start() to the end of leave().
Updating == app = "running" \/ call = "leaving"

ClientJoins(o) ==
    /\ Updating /\ membership[o] = "absent"
    /\ membership' = [membership EXCEPT ![o] = "in"]
    /\ rosterEvents' = Append(rosterEvents, Joined(o))
    /\ UNCHANGED <<callVars, roster, peers, world, snapshot, endpoints, copies>>

ClientLeaves(o) ==
    /\ Updating /\ o # Self /\ membership[o] = "in"
    /\ membership' = [membership EXCEPT ![o] = "gone"]
    /\ rosterEvents' = Append(rosterEvents, Left(o))
    /\ UNCHANGED <<callVars, roster, peers, world, snapshot, endpoints, copies>>

SnapshotArrives ==
    /\ Updating
    /\ snapshot' = TRUE
    /\ UNCHANGED <<callVars, roster, peers, world, rosterEvents, membership, endpoints, copies>>

\* A listener that was told to stop while it waited still publishes this state.
StateArrives(o) ==
    /\ o \in DOMAIN peers /\ peers[o].listening
    /\ peers' = [peers EXCEPT ![o].latest = TRUE,
                              ![o].listening = ~peers[o].stop]
    /\ UNCHANGED <<callVars, roster, world, sessionVars, copies>>

\* stop was seen after a receive timeout, or the subscriber failed or was closed.
ListenerEnds(o) ==
    /\ o \in DOMAIN peers /\ peers[o].listening
    /\ peers' = [peers EXCEPT ![o].listening = FALSE]
    /\ UNCHANGED <<callVars, roster, world, sessionVars, copies>>

Environment ==
    \/ \E o \in ClientIds : ClientJoins(o) \/ ClientLeaves(o)
    \/ SnapshotArrives
    \/ \E o \in Others : StateArrives(o) \/ ListenerEnds(o)

-----------------------------------------------------------------------------
(***************************************************************************)
(* The game's calls on the Scene and the replicator.                       *)
(***************************************************************************)
GameStep(w) ==
    /\ call = "none" /\ app # "destroyed"
    /\ w # world /\ DOMAIN w.entities \subseteq NetIds /\ world' = w
    /\ UNCHANGED <<callVars, roster, peers, sessionVars>>

GameCreate ==
    world.nextEntity <= MaxEntities /\ GameStep(CreateEntity(world)) /\ UNCHANGED copies

GameDestroy(e) == GameStep(DestroyEntity(world, e)) /\ copies' = copies \ {e}

GameTrack(e) == GameStep(Track(world, Self, e)) /\ UNCHANGED copies

GameUntrack(e) == GameStep(Untrack(world, e)) /\ copies' = copies \ {e}

GameBind(id, e) ==
    /\ GameStep(Bind(world, Self, id, e))
    /\ copies' = copies \ ({e} \cup ValuesOf(world.entities, {id}))

Game ==
    \/ GameCreate
    \/ \E e \in world.live : GameDestroy(e) \/ GameTrack(e)
    \/ \E e \in DOMAIN world.netIds : GameUntrack(e)
    \/ \E e \in world.live, id \in NetIds : GameBind(id, e)

-----------------------------------------------------------------------------
(***************************************************************************)
(* start() and leave().                                                    *)
(***************************************************************************)
Start ==
    /\ app = "joined" /\ call = "none"
    /\ app' = "running"
    /\ UNCHANGED <<call, batch, turn, roster, peers, world, sessionVars, copies>>

BeginLeave ==
    /\ app \in {"joined", "running"} /\ call = "none"
    /\ app' = "left" /\ call' = "leaving"
    /\ UNCHANGED <<batch, turn, roster, peers, world, sessionVars, copies>>

\* Slip: disconnect() waits for a thread that was not told to stop.
StopPeer_NoFlag(o) ==
    /\ o \in DOMAIN peers /\ ~peers[o].stop
    /\ peers' = peers

\* disconnect() raises stop, waits for the thread and drops the slot.
StopPeer(o) ==
    /\ o \in DOMAIN peers /\ ~peers[o].stop
    /\ peers' = [peers EXCEPT ![o].stop = TRUE]

Stopped(o) == o \in DOMAIN peers /\ peers[o].stop /\ ~peers[o].listening

First(S) == {o \in S : \A p \in S : o <= p}

LeaveStopPeer ==
    /\ call = "leaving"
    /\ \E o \in First(DOMAIN peers) : StopPeer(o)
    /\ UNCHANGED <<callVars, roster, world, sessionVars, copies>>

LeaveJoinPeer ==
    /\ call = "leaving"
    /\ \E o \in First(DOMAIN peers) : Stopped(o) /\ peers' = Erase(peers, {o})
    /\ UNCHANGED <<callVars, roster, world, sessionVars, copies>>

\* Slip: goes on after the first peer.
LeaveSession_AnyPeers ==
    /\ call = "leaving" /\ \A o \in First(DOMAIN peers) : peers[o].stop
    /\ call' = "none"
    /\ UNCHANGED <<app, batch, turn, roster, peers, world, sessionVars, copies>>

\* session.leave(), with no peer left.
LeaveSession ==
    /\ call = "leaving" /\ DOMAIN peers = {}
    /\ call' = "none"
    /\ UNCHANGED <<app, batch, turn, roster, peers, world, sessionVars, copies>>

\* The destructor, after its leave(): the members are destroyed.
Destroy ==
    /\ app = "left" /\ call = "none"
    /\ app' = "destroyed"
    /\ UNCHANGED <<call, batch, turn, roster, peers, world, sessionVars, copies>>

-----------------------------------------------------------------------------
(***************************************************************************)
(* applyUpdates().                                                         *)
(***************************************************************************)
BeginApply ==
    /\ call = "none"
    /\ \/ app \in {"joined", "running"}
       \/ app = "left" /\ UseAfterLeave
    /\ call' = "events"
    /\ batch' = rosterEvents /\ rosterEvents' = <<>>
    /\ UNCHANGED <<app, turn, roster, peers, world, snapshot, membership, endpoints, copies>>

\* Slip: connects to this peer's own publisher and to clients without one.
Connected_Everyone(o) == Put(peers, o, NewPeer)

\* connect()
Connected(o) ==
    IF o \in DOMAIN peers \/ o \notin endpoints THEN peers ELSE Put(peers, o, NewPeer)

EventJoined(o) ==
    /\ call = "events" /\ batch # <<>> /\ Head(batch) = Joined(o)
    /\ batch' = Tail(batch) /\ roster' = roster \cup {o}
    /\ peers' = IF o = Self THEN peers ELSE Connected(o)
    /\ UNCHANGED <<app, call, turn, world, sessionVars, copies>>

EventStopPeer(o) ==
    /\ call = "events" /\ batch # <<>> /\ Head(batch) = Left(o)
    /\ StopPeer(o)
    /\ UNCHANGED <<callVars, roster, world, sessionVars, copies>>

\* disconnect() does nothing for a client without a slot.
EventLeft(o) ==
    /\ call = "events" /\ batch # <<>> /\ Head(batch) = Left(o)
    /\ o \in DOMAIN peers => Stopped(o)
    /\ batch' = Tail(batch) /\ roster' = roster \ {o}
    /\ peers' = Erase(peers, {o})
    /\ world' = DropOwner(world, Self, o)
    /\ UNCHANGED <<app, call, turn, sessionVars, copies>>

OwnedBy(o) == {id \in NetIds : OwnerOf(id) = o}

\* What a source may send: a peer its own entities, the server any.
Sent(from) == SUBSET (IF from = Server THEN NetIds ELSE OwnedBy(from))

\* apply() of what the mailbox of a source held, if anything.
ApplyLatest(full, from) ==
    \/ ~full /\ UNCHANGED <<world, copies>>
    \/ /\ full
       /\ \E ids \in Sent(from) :
             LET new == Missing(world, Accepted(Self, ids)) IN
             /\ world.nextEntity + Cardinality(new) <= MaxEntities + 1
             /\ \E g \in Numberings(world, new) :
                   /\ world' = Apply(world, Self, ids, from, g)
                   /\ copies' = copies \cup {g[id] : id \in new}

ApplySnapshot ==
    /\ call = "events" /\ batch = <<>>
    /\ ApplyLatest(snapshot, Server)
    /\ snapshot' = FALSE
    /\ call' = "peers" /\ turn' = DOMAIN peers
    /\ UNCHANGED <<app, batch, roster, peers, rosterEvents, membership, endpoints>>

ApplyPeer(o) ==
    /\ call = "peers" /\ o \in First(turn)
    /\ ApplyLatest(peers[o].latest, o)
    /\ turn' = turn \ {o}
    /\ peers' = [peers EXCEPT ![o].latest = FALSE]
    /\ UNCHANGED <<app, call, batch, roster, sessionVars>>

EndApply ==
    /\ call = "peers" /\ turn = {}
    /\ call' = "none"
    /\ UNCHANGED <<app, batch, turn, roster, peers, world, sessionVars, copies>>

Updates ==
    \/ BeginApply \/ ApplySnapshot \/ EndApply
    \/ \E o \in ClientIds : EventJoined(o) \/ EventStopPeer(o) \/ EventLeft(o) \/ ApplyPeer(o)

Leaving == LeaveStopPeer \/ LeaveJoinPeer \/ LeaveSession

Next == Environment \/ Game \/ Start \/ BeginLeave \/ Leaving \/ Destroy \/ Updates

Spec == Init /\ [][Next]_vars

(***************************************************************************)
(* Fairness: the game's thread goes on with the call it is in, and a       *)
(* listener that was told to stop ends, as its receive times out (kPollMs).*)
(***************************************************************************)
FairSpec ==
    /\ Spec
    /\ WF_vars(Leaving)
    /\ WF_vars(Updates /\ call # "none")
    /\ \A o \in Others : WF_vars(ListenerEnds(o) /\ peers[o].stop)

-----------------------------------------------------------------------------
(***************************************************************************)
(* Properties.                                                             *)
(***************************************************************************)
RosterEvents == {Joined(o) : o \in ClientIds} \cup {Left(o) : o \in ClientIds}

TypeOK ==
    /\ app \in {"joined", "running", "left", "destroyed"}
    /\ call \in {"none", "events", "peers", "leaving"}
    /\ batch \in Seq(RosterEvents) /\ rosterEvents \in Seq(RosterEvents)
    /\ turn \subseteq DOMAIN peers
    /\ roster \subseteq ClientIds /\ endpoints \subseteq Others
    /\ DOMAIN peers \subseteq endpoints
    /\ \A o \in DOMAIN peers :
          peers[o] \in [stop : BOOLEAN, listening : BOOLEAN, latest : BOOLEAN]
    /\ snapshot \in BOOLEAN
    /\ membership \in [ClientIds -> {"absent", "in", "gone"}]
    /\ DOMAIN world.receivedFrom = Sources /\ WorldOK(world, NetIds)
    /\ copies \subseteq 1 .. (world.nextEntity - 1)

\* "entityOf" and "netIdOf" agree, whatever the game tracks, binds, untracks and
\* destroys between snapshots: an id names one entity and an entity has one id.
MapsInverse == MutuallyInverse(world.entities, world.netIds)

\* "apply() never overwrites entities this process owns" (sceneReplicator.hpp:26):
\* no update or roster change creates, remaps or destroys what this peer owns.
OwnEntitiesUntouched ==
    [][call # "none" =>
         \A id \in OwnedBy(Self) :
            /\ id \in DOMAIN world.entities <=> id \in DOMAIN world'.entities
            /\ id \in DOMAIN world.entities =>
                  /\ world'.entities[id] = world.entities[id]
                  /\ world.entities[id] \in world.live => world.entities[id] \in world'.live]_vars

\* Every entity a snapshot created is still mapped and on the list of a source, so
\* that the source or its departure will destroy it: none is left in the scene for ever.
CopiesAreListed ==
    \A e \in copies \cap world.live :
        e \in DOMAIN world.netIds /\ \E s \in Sources : world.netIds[e] \in world.receivedFrom[s]

\* "destroys the entities of peers that left" (peerSession.hpp:61): what is left of
\* a client that is not in the roster is what the server itself still sends.
NoGhosts ==
    \A e \in copies \cap world.live :
        \/ OwnerOf(world.netIds[e]) \in roster \cup {Server}
        \/ world.netIds[e] \in world.receivedFrom[Server]

\* Between two calls exactly the other clients of the roster that advertise a
\* publisher have a listener, until leave().
PeersFollowRoster ==
    call = "none" /\ app = "running" => DOMAIN peers = (roster \ {Self}) \cap endpoints

\* "Disconnects every peer" (peerSession.hpp:47) and "~peerSession(); // leave()"
\* (peerSession.hpp:38): no listener thread is left when the members are destroyed.
NoListenerLeft == app = "destroyed" => DOMAIN peers = {}

\* applyUpdates() and leave() return although they wait for listeners.
CallsReturn == call # "none" ~> call = "none"
=============================================================================
