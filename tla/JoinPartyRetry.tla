-------------------------- MODULE JoinPartyRetry --------------------------
(***************************************************************************)
(* One session of the leaderless join party of                            *)
(* src/p2p/party_coordinator.go: JoinPartyWithRetry on every node, its    *)
(* two goroutines (the request sender and the outcome waiter), and the    *)
(* joinPartyProtocol handler HandleStream.                                 *)
(*                                                                         *)
(* A request on the wire is a pair <<from, to>>.  It is a new stream each *)
(* time (sendMsgToPeer opens one per send), so a resend while an earlier  *)
(* request is still in flight changes nothing the receiver can tell       *)
(* apart: updatePeer counts a peer once.  The streams themselves, and     *)
(* their StreamMgr bookkeeping, are left to JoinPartyLeader.               *)
(***************************************************************************)
EXTENDS Naturals, FiniteSets, PeerStatus

CONSTANTS
    Nodes,     \* the peers of the session; every one of them may call
    NoResult,  \* JoinPartyWithRetry has not returned
    Patient,   \* TRUE: the waiter's timeout never fires (an unbounded timeout)
    Lossy      \* TRUE: a request may be lost (open, write or read fails)

ASSUME Patient \in BOOLEAN /\ Lossy \in BOOLEAN

VARIABLES
    pc,        \* pc[n]: where JoinPartyWithRetry of n is
    ps,        \* ps[n]: the PeerStatus record of n's session
    offline,   \* offline[n]: the peers the sender loop sends to (line 632)
    done,      \* done[n]: the done channel of n is closed
    spc,       \* spc[n]: the sender goroutine of n
    targets,   \* targets[n]: the sends of the current sendRequestToAll not yet made
    wire,      \* the requests written and not yet handled
    result     \* result[n]: what the call of n returns (set at line 669)

vars == <<pc, ps, offline, done, spc, targets, wire, result>>

(* The session of n is in the peersGroup registry. *)
Registered(n) == pc[n] \in {"created", "wait", "final"}

Init ==
    /\ pc = [n \in Nodes |-> "idle"]
    /\ ps = [n \in Nodes |-> NewPeerStatus(Nodes, n, NONE, 1)]
    /\ offline = [n \in Nodes |-> {}]
    /\ done = [n \in Nodes |-> FALSE]
    /\ spc = [n \in Nodes |-> "none"]
    /\ targets = [n \in Nodes |-> {}]
    /\ wire = {}
    /\ result = [n \in Nodes |-> NoResult]

(* createJoinPartyGroups(msgID, "NONE", peers, 1): a fresh record is put  *)
(* in the registry.                                                       *)
CreateGroup(n) ==
    /\ pc[n] = "idle"
    /\ pc' = [pc EXCEPT ![n] = "created"]
    /\ ps' = [ps EXCEPT ![n] = NewPeerStatus(Nodes, n, NONE, 1)]
    /\ UNCHANGED <<offline, done, spc, targets, wire, result>>

(* getPeersStatus once, after the record is registered: the sender loop  *)
(* will send to the peers that were offline at that moment, for the whole *)
(* session.  Both goroutines start.                                       *)
Snapshot(n) ==
    /\ pc[n] = "created"
    /\ pc' = [pc EXCEPT ![n] = "wait"]
    /\ offline' = [offline EXCEPT ![n] = Offline(ps[n])]
    /\ spc' = [spc EXCEPT ![n] = "top"]
    /\ UNCHANGED <<ps, done, targets, wire, result>>

(* The top of the sender loop: return when done is closed, otherwise     *)
(* start sendRequestToAll(offline).                                        *)
SenderTop(n) ==
    /\ spc[n] = "top"
    /\ IF done[n]
       THEN /\ spc' = [spc EXCEPT ![n] = "exit"]
            /\ UNCHANGED targets
       ELSE /\ spc' = [spc EXCEPT ![n] = "send"]
            /\ targets' = [targets EXCEPT ![n] = offline[n]]
    /\ UNCHANGED <<pc, ps, offline, done, wire, result>>

(* One goroutine of sendRequestToAll: sendMsgToPeer opens a stream and    *)
(* writes the request, or fails to open (peer unreachable, 4 s context)  *)
(* or to write, and the request is lost.                                  *)
SendRequest(n, p) ==
    /\ p \in targets[n]
    /\ targets' = [targets EXCEPT ![n] = @ \ {p}]
    /\ \/ wire' = wire \cup {<<n, p>>}
       \/ Lossy /\ UNCHANGED wire
    /\ UNCHANGED <<pc, ps, offline, done, spc, result>>

(* wg.Wait of sendRequestToAll returned; after the sleep the loop goes   *)
(* back to its top.                                                       *)
SenderSleep(n) ==
    /\ spc[n] = "send"
    /\ targets[n] = {}
    /\ spc' = [spc EXCEPT ![n] = "top"]
    /\ UNCHANGED <<pc, ps, offline, done, targets, wire, result>>

(* The waiter: select on peerGroup.notify or time.After(timeout).  No      *)
(* handler of this protocol sends on notify (HandleStream signals         *)
(* newFound, and processRespMsg only a response from the leader, which    *)
(* "NONE" never is), so the only way out is the timeout, which closes     *)
(* done.                                                                   *)
WaiterTimeout(n) ==
    /\ ~Patient
    /\ pc[n] = "wait"
    /\ ~done[n]
    /\ done' = [done EXCEPT ![n] = TRUE]
    /\ UNCHANGED <<pc, ps, offline, spc, targets, wire, result>>

(* Mutant: the list is compared with peers before the node appends      *)
(* itself.                                                                 *)
FinalRoundWithoutSelf(n) ==
    /\ pc[n] = "wait"
    /\ done[n]
    /\ spc[n] = "exit"
    /\ pc' = [pc EXCEPT ![n] = "final"]
    /\ targets' = [targets EXCEPT ![n] = Online(ps[n])]
    /\ result' = [result EXCEPT ![n] =
                     [online |-> Online(ps[n]) \cup {n},
                      ok |-> Cardinality(Online(ps[n])) = Cardinality(Nodes)]]
    /\ UNCHANGED <<ps, offline, done, spc, wire>>

(* After wg.Wait: the online peers are read once, a last                  *)
(* sendRequestToAll goes to them, and the call will return them with      *)
(* itself appended; the error is nil only if that list is as long as      *)
(* peers.                                                                  *)
FinalRound(n) ==
    /\ pc[n] = "wait"
    /\ done[n]
    /\ spc[n] = "exit"
    /\ pc' = [pc EXCEPT ![n] = "final"]
    /\ targets' = [targets EXCEPT ![n] = Online(ps[n])]
    /\ LET online == Online(ps[n]) \cup {n}
       IN  result' = [result EXCEPT ![n] =
                        [online |-> online,
                         ok |-> Cardinality(online) = Cardinality(Nodes)]]
    /\ UNCHANGED <<ps, offline, done, spc, wire>>

(* The last sendRequestToAll returned: the call returns and the deferred  *)
(* RemoveJoinPartyGroups takes the record out of the registry and drains *)
(* its channels.                                                          *)
ReturnCall(n) ==
    /\ pc[n] = "final"
    /\ targets[n] = {}
    /\ pc' = [pc EXCEPT ![n] = "done"]
    /\ ps' = [ps EXCEPT ![n].notify = 0, ![n].newFound = 0]
    /\ UNCHANGED <<offline, done, spc, targets, wire, result>>

(* HandleStream on node n for a request of p: if n's session is          *)
(* registered, updatePeer marks p, and a newly found peer is signalled on *)
(* newFound (a send that waits while the channel is full).  Without a     *)
(* registered session the request is dropped ("this party is not         *)
(* ready").                                                                *)
HandleStream(n, p) ==
    /\ <<p, n>> \in wire
    /\ wire' = wire \ {<<p, n>>}
    /\ IF Registered(n)
       THEN LET r == UpdatePeer(ps[n], p, NoStream)
            IN  /\ r.formed => r.ps.newFound < r.ps.capacity
                /\ ps' = [ps EXCEPT ![n] =
                            IF r.formed THEN [r.ps EXCEPT !.newFound = @ + 1]
                                        ELSE r.ps]
       ELSE UNCHANGED ps
    /\ UNCHANGED <<pc, offline, done, spc, targets, result>>

(* ReadStreamWithBuffer fails on n (deadline or reset): the stream goes   *)
(* to "UNKNOWN" and the request is lost.                                  *)
LoseRequest(n, p) ==
    /\ Lossy
    /\ <<p, n>> \in wire
    /\ wire' = wire \ {<<p, n>>}
    /\ UNCHANGED <<pc, ps, offline, done, spc, targets, result>>

(* Every call returned and every request was handled: the session is over. *)
Terminated == (\A n \in Nodes : pc[n] = "done") /\ wire = {}

Next ==
    \/ \E n \in Nodes :
          \/ CreateGroup(n) \/ Snapshot(n) \/ SenderTop(n) \/ SenderSleep(n)
          \/ WaiterTimeout(n) \/ FinalRound(n) \/ ReturnCall(n)
    \/ \E n, p \in Nodes : SendRequest(n, p) \/ HandleStream(n, p) \/ LoseRequest(n, p)
    \/ Terminated /\ UNCHANGED vars

Spec == Init /\ [][Next]_vars

(* Every goroutine runs until it blocks and every timer fires; whether a  *)
(* node calls JoinPartyWithRetry at all is its caller's choice, so        *)
(* CreateGroup has no fairness.                                           *)
Progress ==
    \A n \in Nodes :
        /\ WF_vars(Snapshot(n)) /\ WF_vars(SenderTop(n)) /\ WF_vars(SenderSleep(n))
        /\ WF_vars(WaiterTimeout(n)) /\ WF_vars(FinalRound(n)) /\ WF_vars(ReturnCall(n))
        /\ \A p \in Nodes : WF_vars(SendRequest(n, p)) /\ WF_vars(HandleStream(n, p))

FairSpec == Spec /\ Progress

(* Every peer calls JoinPartyWithRetry (spec 8: "all N peers reachable"). *)
AllCallSpec == FairSpec /\ \A n \in Nodes : WF_vars(CreateGroup(n))

-----------------------------------------------------------------------------
TypeOK ==
    /\ pc \in [Nodes -> {"idle", "created", "wait", "final", "done"}]
    /\ offline \in [Nodes -> SUBSET Nodes]
    /\ done \in [Nodes -> BOOLEAN]
    /\ spc \in [Nodes -> {"none", "top", "send", "exit"}]
    /\ targets \in [Nodes -> SUBSET Nodes]
    /\ wire \subseteq Nodes \X Nodes
    /\ \A n \in Nodes : result[n] \in {NoResult} \cup [online : SUBSET Nodes, ok : BOOLEAN]

(* A handler never waits on newFound: each peer is signalled at most     *)
(* once per session, although the sender loops resend their requests      *)
(* every round, so the channel of capacity len(peers), which nothing     *)
(* reads until RemoveJoinPartyGroups, never fills.                        *)
NewFoundNeverFull == \A n \in Nodes : ps[n].newFound < ps[n].capacity

(* The call keeps the promise of JoinPartyAbstract: it returns, it only  *)
(* reports peers that joined, itself included, and the error is nil      *)
(* exactly when every expected peer is in the list.                       *)
JPA == INSTANCE JoinPartyAbstract
         WITH started <- {n \in Nodes : pc[n] # "idle"},
              ret <- [n \in Nodes |-> IF pc[n] = "done" THEN result[n] ELSE NoResult]
ImplementsAbstract == JPA!AbsSpec

(* When every peer calls JoinPartyWithRetry and no request is lost, each *)
(* node eventually hears from every other one while it waits, so an      *)
(* unbounded wait would end with the full list (spec 4.3 and 8).          *)
PeersLearnEachOther ==
    <>(\A n \in Nodes : Offline(ps[n]) = {})

=============================================================================
