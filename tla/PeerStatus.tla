---------------------------- MODULE PeerStatus ----------------------------
(***************************************************************************)
(* The per-session record PeerStatus of src/p2p/peer_status.go, as a      *)
(* value.  Its methods become operators from a record to a record (and    *)
(* the method's return value); the modules of the two join-party          *)
(* protocols keep one such record per node and session in a variable and  *)
(* apply these operators inside their actions, which is where the locks   *)
(* that the methods take are released.                                    *)
(*                                                                         *)
(* The streams sync.Map maps a peer to the stream its counted request     *)
(* came on; the notify and newFound channels are counters of buffered     *)
(* wake-ups (their capacity is len(peerNodes)).                            *)
(***************************************************************************)
EXTENDS Naturals, FiniteSets

CONSTANTS
    NONE,       \* the leader string "NONE" of the leaderless protocol
    NoStream,   \* absent entry of the streams map
    NoResponse  \* leaderResponse == nil

(* NewPeerStatus(peerNodes, myPeerID, leader, threshold) *)
NewPeerStatus(peerNodes, myPeerID, leader, threshold) ==
    [peersResponse  |-> [p \in peerNodes \ {myPeerID} |-> FALSE],
     leader         |-> leader,
     threshold      |-> threshold,
     reqCount       |-> 0,
     streams        |-> [p \in peerNodes \ {myPeerID} |-> NoStream],
     notify         |-> 0,
     newFound       |-> 0,
     capacity       |-> Cardinality(peerNodes),
     leaderResponse |-> NoResponse]

(* getLeaderResponse and setLeaderResponse, under leaderResponseLock. *)
GetLeaderResponse(ps) == ps.leaderResponse
SetLeaderResponse(ps, resp) == [ps EXCEPT !.leaderResponse = resp]

(* getPeersStatus: the peers that responded and those that did not. *)
Online(ps)  == {p \in DOMAIN ps.peersResponse : ps.peersResponse[p]}
Offline(ps) == {p \in DOMAIN ps.peersResponse : ~ps.peersResponse[p]}

(* getCoordinationStatus *)
CoordinationDone(ps) == Offline(ps) = {}

(* Mutant: the quorum guard "reqCount >= threshold" is missing, so a      *)
(* request that arrives after the party formed is still counted.          *)
UpdatePeerNoCap(ps, p, s) ==
    CASE p \notin DOMAIN ps.peersResponse ->
            [ps |-> ps, formed |-> FALSE, err |-> TRUE]
      [] ps.leader = NONE ->
            [ps |-> [ps EXCEPT !.peersResponse[p] = TRUE],
             formed |-> ~ps.peersResponse[p], err |-> FALSE]
      [] ~ps.peersResponse[p] ->
            [ps |-> [ps EXCEPT !.peersResponse[p] = TRUE, !.streams[p] = s,
                               !.reqCount = @ + 1],
             formed |-> ps.reqCount + 1 >= ps.threshold, err |-> FALSE]
      [] OTHER -> [ps |-> ps, formed |-> FALSE, err |-> FALSE]

(* Mutant: the leaderless branch reports every response as new, not     *)
(* only the first one of a peer.                                          *)
UpdatePeerRenotify(ps, p, s) ==
    CASE p \notin DOMAIN ps.peersResponse ->
            [ps |-> ps, formed |-> FALSE, err |-> TRUE]
      [] ps.leader = NONE ->
            [ps |-> [ps EXCEPT !.peersResponse[p] = TRUE],
             formed |-> TRUE, err |-> FALSE]
      [] OTHER -> UpdatePeerNoCap(ps, p, s)

(* updatePeer(peerNode, stream): an unknown peer is an error; in the      *)
(* leaderless protocol a first response marks the peer and reports it    *)
(* new; with a leader, once reqCount reached the threshold nothing is     *)
(* counted any more, and a first response marks the peer, stores its      *)
(* stream and reports the party formed when the count reaches the         *)
(* threshold.  A repeated response changes nothing.                       *)
UpdatePeer(ps, p, s) ==
    CASE p \notin DOMAIN ps.peersResponse ->
            [ps |-> ps, formed |-> FALSE, err |-> TRUE]
      [] ps.leader = NONE ->
            [ps |-> [ps EXCEPT !.peersResponse[p] = TRUE],
             formed |-> ~ps.peersResponse[p], err |-> FALSE]
      [] ps.reqCount >= ps.threshold ->
            [ps |-> ps, formed |-> FALSE, err |-> FALSE]
      [] ~ps.peersResponse[p] ->
            [ps |-> [ps EXCEPT !.peersResponse[p] = TRUE, !.streams[p] = s,
                               !.reqCount = @ + 1],
             formed |-> ps.reqCount + 1 >= ps.threshold, err |-> FALSE]
      [] OTHER -> [ps |-> ps, formed |-> FALSE, err |-> FALSE]

(* The streams stored in the sync.Map (what Range visits). *)
StoredStreams(ps) == {ps.streams[p] : p \in Online(ps)} \ {NoStream}

=============================================================================
