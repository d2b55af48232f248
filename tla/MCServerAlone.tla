---------------------------- MODULE MCServerAlone ----------------------------
(***************************************************************************)
(* Small instances of ServerAlone.  A request carries at most one message. *)
(***************************************************************************)
EXTENDS ServerAlone

MCTokens == {1, 2}
MCPorts == {11, 12}
MCAllCalls == CallNames
MCRequests ==
    {UpdateRequest("Update", id, 0, 0, state, {}) : id \in Ids, state \in {None, 1}}
        \cup {UpdateRequest("Leave", id, 0, 0, None, {}) : id \in Ids}
        \cup {UpdateRequest("Update", 1, 0, 0, None, {WireMessage(1, 1)}),
              UpdateRequest("Update", 1, 1, 0, None, {})}

\* Bound: messages and snapshots are for the first client, while it is the only one that
\* joined; Session has the others.
MCOneClientTalks ==
    nextId > 2 => /\ snapshotVersion = 0
                  /\ \A id \in Ids : slot[id].sent = 0 /\ slot[id].lastReceivedSeq = 0

=============================================================================
