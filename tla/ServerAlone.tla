----------------------------- MODULE ServerAlone -----------------------------
(***************************************************************************)
(* A sessionServer against an arbitrary environment: any join request may  *)
(* arrive at the join socket and any update request at any client's        *)
(* socket, at any time, whatever was sent before.  What holds here holds   *)
(* of a server with any clients at all: in particular Session's steps      *)
(* change the server's variables only in ways this module allows.          *)
(***************************************************************************)
EXTENDS SessionServer

CONSTANT UpdateRequests     \* the update requests that may arrive

ASSUME EnvironmentAssumption ==
    \A req \in UpdateRequests :
        /\ req.kind \in {"Update", "Leave"}
        /\ req.state \in Nat

Next ==
    \/ ServerStep
    \/ \E token \in Tokens, status \in {"Ok", "Rejected"},
          id \in Ids \cup {ServerId}, port \in Ports \cup {0} :
             HandleJoin(token, JoinReply(status, id, port))
    \/ \E id \in Ids, req \in UpdateRequests : HandleUpdate(id, req)

Spec == ServerInit /\ [][Next]_serverVars

(***************************************************************************)
(* Every thread keeps running; the owner finishes a stop() it began.       *)
(***************************************************************************)
Fairness ==
    /\ WF_serverVars(JoinThreadExit)
    /\ WF_serverVars(StopWatchdog \/ StopTakeSlots \/ StopDone)
    /\ WF_serverVars(\E silent \in SUBSET clients : WatchdogScan(silent))
    /\ WF_serverVars(WatchdogDone \/ \E id \in Ids : WatchdogJoin(id))
    /\ WF_serverVars(WatchdogExit)
    /\ \A id \in Ids : /\ WF_serverVars(HandlerExit(id))
                       /\ WF_serverVars(StopSlot(id) \/ JoinSlot(id))

FairSpec == Spec /\ Fairness

-----------------------------------------------------------------------------
(***************************************************************************)
(* Type invariant.                                                         *)
(***************************************************************************)
Event == {Joined(id) : id \in Ids} \cup {Left(id) : id \in Ids}

TypeOK ==
    /\ phase \in {"idle", "running", "stopJoin", "stopWatchdog", "stopSlots", "stopped"}
    /\ joinThread \in {"off", "running", "exited"}
    /\ watchdog \in {"off", "waiting", "joining", "exited"}
    /\ finished \subseteq Ids /\ doomed \subseteq Ids
    /\ clients \subseteq Ids /\ retired \subseteq Ids /\ departed \subseteq Ids
    /\ thread \in [Ids -> {"none", "running", "exited", "joined"}]
    /\ stopFlag \in [Ids -> BOOLEAN]
    /\ nextId \in 1..(MaxClientId + 1)
    /\ rosterLog \in Seq(Event) /\ rosterEvents \in Seq(Event)
    /\ states \in [Ids -> Nat]
    /\ snapshotVersion \in Nat
    /\ scene \subseteq Ids /\ applying \in BOOLEAN
-----------------------------------------------------------------------------
(***************************************************************************)
(* Safety.                                                                 *)
(***************************************************************************)
\* The owner has not yet taken the slots away in stop().
Serving == phase \in {"idle", "running", "stopJoin", "stopWatchdog"}

\* The slot of a client's thread that still has to be joined is in exactly one
\* place: the client map, retired, the watchdog's finished or stop()'s list.
\* Otherwise the slot is destroyed with a joinable thread (which terminates the
\* process) or two threads join it (handleJoin, retireLocked, watchdog, stop).
EveryThreadHasOneOwner ==
    /\ \A id \in Ids : thread[id] \in {"running", "exited"} => id \in LiveSlots
    /\ clients \cap retired = {}
    /\ finished \cap doomed = {}
    /\ (clients \cup retired) \cap (finished \cup doomed) = {}

\* stop() joins all network threads, whatever the clients, the watchdog and
\* retirements in progress were doing when it was called (sessionServer.hpp:43).
StoppedMeansJoined ==
    phase = "stopped" =>
        /\ joinThread = "exited" /\ watchdog = "exited"
        /\ \A id \in Ids : thread[id] \in {"none", "joined"}

\* Nothing a departed client owns stays in the server's Scene unless the next
\* DropDeparted will remove it: a state received before the departure must not be
\* applied after the departure was processed (retireLocked, applyClientStates).
NoGhostEntities ==
    Serving => /\ scene \subseteq clients \cup departed
               /\ \A id \in Ids : states[id] # None => id \in clients

\* The client map and the roster log are a Roster: each id joins once, in the order
\* of ids, and leaves at most once, only after it joined, and the log that clients
\* are sent the end of tells exactly that (addRosterEvent and its callers).
R == INSTANCE Roster WITH
    ClientIds <- Ids, members <- clients, history <- rosterLog, open <- Serving

RosterIsKept == R!Spec

\* A client process is in the roster under one id at most: a join request that is
\* repeated while its first id is connected gets that id (handleJoin).
OneIdPerClient ==
    \A a, b \in clients : slot[a].token = slot[b].token => a = b

-----------------------------------------------------------------------------
(***************************************************************************)
(* Liveness.                                                               *)
(***************************************************************************)
\* stop() returns: it never waits for a thread that waits for it.
StopReturns == phase = "stopJoin" ~> phase = "stopped"

\* The thread of a client that left or was timed out is joined, by the watchdog
\* or by stop().
RetiredThreadsJoined == \A id \in Ids : id \in retired ~> thread[id] = "joined"
=============================================================================
