-------------------------- MODULE JoinPartyLeader --------------------------
(***************************************************************************)
(* The leader-directed join-party protocol of src/p2p/party_coordinator.go *)
(* (JoinPartyWithLeader, joinPartyLeader, joinPartyMember) for one        *)
(* message id, with the stream handler HandleStreamWithLeader, the        *)
(* member's request/listen goroutines (sendRequestToLeader,               *)
(* sendMsgToPeer), the leader's broadcast (sendResponseToAll) and each    *)
(* node's StreamMgr.                                                       *)
(*                                                                         *)
(* Processes: the leader's main routine (lpc); per member its main        *)
(* routine with the waiting goroutine folded in (mpc), its request        *)
(* sender goroutine (sender) and, per stream, the handler that the        *)
(* leader's host runs and the listener goroutine the member spawns.  A    *)
(* request attempt of member m is the stream <<m, i>>; st[<<m, i>>]       *)
(* records what has happened on it.  The transport may reset a stream     *)
(* (deadline passed, connection lost) and a stream open may complete      *)
(* only after its 4-second context expired; both are faults, at most      *)
(* MaxFaults of them.                                                      *)
(*                                                                         *)
(* Time: the leader may time out whenever it waits.  A member waits       *)
(* timeout+5s, longer than the leader, so its timeout is taken to fire    *)
(* only once the leader has returned (or never ran) and no response to it *)
(* is still on the wire.                                                   *)
(***************************************************************************)
EXTENDS Naturals, FiniteSets, Sequences, PeerStatus, StreamMgr

CONSTANTS
    Leader,       \* the node LeaderNode(msgID, blockHeight, peers) elects
    Members,      \* the other peers of the request
    Threshold,    \* threshold argument of JoinPartyWithLeader
    Msg,          \* the message id of the session
    MaxAttempts,  \* bound on the request attempts of one member
    MaxFaults,    \* bound on stream resets and late stream opens
    ResetPhases   \* the stream phases in which the transport may reset it

ASSUME /\ Nodes = {Leader} \cup Members /\ Leader \notin Members
       /\ SessionKeys = {Msg}
       /\ Threshold \in 1..Cardinality(Members)
       /\ MaxAttempts \in Nat \ {0} /\ MaxFaults \in Nat
       /\ ResetPhases \subseteq {"req", "listen"}

Sids == Members \X (1..MaxAttempts)
LEnd(sid) == <<Leader, sid>>     \* the leader host's end of a stream
MEnd(sid) == <<sid[1], sid>>     \* the member's end

Decisions == [ok : BOOLEAN, peers : SUBSET Nodes]

VARIABLES
    lpc,        \* leader: "offline" | "idle" | "wait" | "snap" | "range" | "send" | "done" | "released"
    lps,        \* leader's PeerStatus for Msg
    lGroup,     \* peersGroup[Msg] present on the leader
    decision,   \* the JoinPartyLeaderComm the leader built (NoResponse before)
    toSend,     \* streams whose response goroutine has not written yet
    mpc,        \* member main: "offline" | "idle" | "wait" | "woken" | "done" | "released"
    mps,        \* member's PeerStatus (only leaderResponse and notify are used)
    mGroup,     \* peersGroup[Msg] present on the member
    sender,     \* request goroutine: "ready" | "busy" | "stopped"
    attempts,   \* request streams opened (or tried) so far
    result,     \* what joinPartyMember returned: [err, peers]
    st,         \* per stream: see StreamInit
    faults

vars == <<lpc, lps, lGroup, decision, toSend, mpc, mps, mGroup, sender,
          attempts, result, st, faults, smVars>>

(* ph, the member's side: "none" (not opened), "orphan" (opened after    *)
(* its context expired), "req" (request written, answer awaited),         *)
(* "listen" (answer was "request received", listener running), "spent"    *)
(* (member done with it).  lh, the leader's handler: "none", "lookup"     *)
(* (group looked up), "read" (request processed, answer not yet written), *)
(* "done"; found: the lookup saw the group.  ok: the answer               *)
(* is "request received".  out: the frames the leader wrote, in order;    *)
(* rd: how many of them the member's reads have taken off the stream;     *)
(* drop: a read took more frames than it returned.  copied: the listener  *)
(* processed a response.                                                   *)
StreamInit == [ph |-> "none", lh |-> "none", found |-> FALSE, ok |-> FALSE, dead |-> FALSE,
               out |-> << >>, rd |-> 0, drop |-> FALSE, copied |-> FALSE]

(* A frame: the handler's answer ("request received" or "invalid         *)
(* request") or a response carrying the leader's decision.                *)
Frame(kind, dec) == [kind |-> kind, dec |-> dec]
Received == Frame("request received", NoResponse)
Invalid  == Frame("invalid request", NoResponse)
Frames == {Received, Invalid} \cup {Frame("response", d) : d \in Decisions}
IsResponse(f) == f.kind = "response"

Results == {"None", "Success", "JoinTimeout", "NotEnough", "LeaderNotReady"}

Init ==
    /\ lpc \in {"offline", "idle"}
    /\ lps = NewPeerStatus(Nodes, Leader, Leader, Threshold)
    /\ lGroup = FALSE
    /\ decision = NoResponse
    /\ toSend = {}
    /\ mpc \in [Members -> {"offline", "idle"}]
    /\ mps = [m \in Members |-> NewPeerStatus({Leader}, m, Leader, Threshold)]
    /\ mGroup = [m \in Members |-> FALSE]
    /\ sender = [m \in Members |-> "stopped"]
    /\ attempts = [m \in Members |-> 0]
    /\ result = [m \in Members |-> [err |-> "None", peers |-> {}]]
    /\ st = [s \in Sids |-> StreamInit]
    /\ faults = 0
    /\ SMInit

Cur(m) == <<m, attempts[m]>>   \* the stream of the sender's current attempt

-----------------------------------------------------------------------------
(* Member side *)

(* joinPartyMember: createJoinPartyGroups with the leader as the only     *)
(* peer, set the leader, sleep 300-2000ms, start the request goroutine    *)
(* and the waiting goroutine.                                              *)
MemberStart(m) ==
    /\ mpc[m] = "idle"
    /\ mpc' = [mpc EXCEPT ![m] = "wait"]
    /\ mGroup' = [mGroup EXCEPT ![m] = TRUE]
    /\ mps' = [mps EXCEPT ![m] = NewPeerStatus({Leader}, m, Leader, Threshold)]
    /\ sender' = [sender EXCEPT ![m] = "ready"]
    /\ UNCHANGED <<lpc, lps, lGroup, decision, toSend, attempts, result, st,
                   faults, smVars>>

(* One attempt of sendRequestToLeader: sendMsgToPeer opens a stream (in   *)
(* a goroutine, raced against a 4s context), reserves JOINPARTYSIZE on it *)
(* and writes the request.  The open fails when the leader is offline; it *)
(* may also finish after the context expired, and then the stream is     *)
(* reserved but handed to no StreamMgr.                                    *)
SenderOpen(m) ==
    LET sid == <<m, attempts[m] + 1>> IN
    /\ sender[m] = "ready" /\ mpc[m] = "wait"
    /\ attempts[m] < MaxAttempts
    /\ attempts' = [attempts EXCEPT ![m] = @ + 1]
    /\ \/ /\ lpc = "offline"
          /\ UNCHANGED <<st, sender, faults, reserved>>
       \/ /\ lpc # "offline"
          /\ st' = [st EXCEPT ![sid].ph = "req"]
          /\ sender' = [sender EXCEPT ![m] = "busy"]
          /\ reserved' = BagAdd(reserved, MEnd(sid))
          /\ UNCHANGED faults
       \/ /\ lpc # "offline" /\ faults < MaxFaults
          /\ st' = [st EXCEPT ![sid].ph = "orphan"]
          /\ reserved' = BagAdd(reserved, MEnd(sid))
          /\ faults' = faults + 1
          /\ UNCHANGED sender
    /\ UNCHANGED <<lpc, lps, lGroup, decision, toSend, mpc, mps, mGroup,
                   result, unusedStreams, closed, freed>>

(* The rest of sendMsgToPeer: ReadStreamWithBuffer takes the leader's    *)
(* answer, the first frame on the stream.  Its fresh bufio.Reader fills   *)
(* its buffer with one Read of all the bytes that have arrived and is     *)
(* dropped on return, so frames queued behind the first are lost.  A      *)
(* failed read closes the connection; "request received" spawns the       *)
(* listener and ends the request loop; any other answer is retried after  *)
(* 500ms.  The stream is added to the StreamMgr on every return           *)
(* (deferred).                                                             *)
(* sendRequestToLeader's result: send again, unless the first frame read *)
(* from the stream is "request received".                                 *)
NeedResend(s) == s.dead \/ s.out[1] # Received

SenderReadAck(m) ==
    LET sid == Cur(m)
        s   == st[sid]
    IN
    /\ sender[m] = "busy"
    /\ s.dead \/ Len(s.out) > 0
    /\ LET listen == ~NeedResend(s) IN
       /\ st' = [st EXCEPT ![sid].ph = IF listen THEN "listen" ELSE "spent",
                           ![sid].rd = Len(s.out),
                           ![sid].drop = ~s.dead /\ Len(s.out) > 1]
       /\ sender' = [sender EXCEPT ![m] = IF listen THEN "stopped" ELSE "ready"]
    /\ unusedStreams' = AddStream(unusedStreams, m, Msg, MEnd(sid))
    /\ UNCHANGED <<lpc, lps, lGroup, decision, toSend, mpc, mps, mGroup,
                   attempts, result, faults, closed, reserved, freed>>

(* Mutant: the request loop never looks at done, it stops only on an ack. *)
SenderStopIgnoringDone(m) == FALSE /\ UNCHANGED vars

(* The request loop sees done closed at its top and returns. *)
SenderStop(m) ==
    /\ sender[m] = "ready" /\ mpc[m] # "wait"
    /\ sender' = [sender EXCEPT ![m] = "stopped"]
    /\ UNCHANGED <<lpc, lps, lGroup, decision, toSend, mpc, mps, mGroup,
                   attempts, result, st, faults, smVars>>

(* processRespMsg, under joinPartyGroupLock for reading: the group of the *)
(* message id, if there still is one, gets the response from its leader   *)
(* (setLeaderResponse) and notify <- true.                                 *)
ProcessRespMsg(m, resp) ==
    IF mGroup[m] THEN [mps EXCEPT ![m] = [SetLeaderResponse(@, resp) EXCEPT !.notify = @ + 1]]
                 ELSE mps

(* The listener goroutine: ReadStreamWithBufferNoDeadline takes the next *)
(* frame, the leader's response; processRespMsg looks the group up under  *)
(* the read lock, checks the sender is the leader, setLeaderResponse and  *)
(* notify <- true, which blocks while the channel is full; then           *)
(* "copy_done" is written back.                                            *)
Listener(sid) ==
    LET m == sid[1]
        s == st[sid]
    IN
    /\ s.ph = "listen" /\ ~s.dead /\ Len(s.out) > s.rd
    /\ mGroup[m] => mps[m].notify < mps[m].capacity
    /\ st' = [st EXCEPT ![sid].rd = @ + 1, ![sid].copied = TRUE]
    /\ mps' = ProcessRespMsg(m, s.out[s.rd + 1].dec)
    /\ UNCHANGED <<lpc, lps, lGroup, decision, toSend, mpc, mGroup, sender,
                   attempts, result, faults, smVars>>

LeaderReturned == lpc \in {"offline", "done", "released"}

(* A response of the leader that the member will still read. *)
ResponseOnWire(m) ==
    \E i \in 1..MaxAttempts :
        LET s == st[<<m, i>>] IN
        /\ ~s.dead /\ s.ph \in {"req", "listen"}
        /\ \E j \in s.rd + 1..Len(s.out) : IsResponse(s.out[j])

(* The waiting goroutine: the leader's notification, or the timeout     *)
(* (timeout+5s); either closes done.                                       *)
MemberWake(m) ==
    /\ mpc[m] = "wait"
    /\ \/ /\ mps[m].notify > 0
          /\ mps' = [mps EXCEPT ![m].notify = @ - 1]
       \/ /\ LeaderReturned /\ ~ResponseOnWire(m)
          /\ UNCHANGED mps
    /\ mpc' = [mpc EXCEPT ![m] = "woken"]
    /\ UNCHANGED <<lpc, lps, lGroup, decision, toSend, mGroup, sender,
                   attempts, result, st, faults, smVars>>

(* The error joinPartyMember returns for a leader response. *)
MemberOutcome(resp) ==
    CASE resp = NoResponse                    -> "LeaderNotReady"
      [] Cardinality(resp.peers) < Threshold -> "NotEnough"
      [] resp.ok                             -> "Success"
      [] OTHER                               -> "JoinTimeout"

(* After wg.Wait (both goroutines returned): getLeaderResponse,          *)
(* RemoveJoinPartyGroups (delete the group, drain notify) and return.     *)
MemberFinish(m) ==
    LET resp == GetLeaderResponse(mps[m]) IN
    /\ mpc[m] = "woken" /\ sender[m] = "stopped"
    /\ mpc' = [mpc EXCEPT ![m] = "done"]
    /\ mGroup' = [mGroup EXCEPT ![m] = FALSE]
    /\ mps' = [mps EXCEPT ![m].notify = 0]
    /\ result' = [result EXCEPT ![m] =
                    [err |-> MemberOutcome(resp),
                     peers |-> IF resp = NoResponse THEN {} ELSE resp.peers]]
    /\ UNCHANGED <<lpc, lps, lGroup, decision, toSend, sender, attempts, st,
                   faults, smVars>>

(* KeySign's deferred partyCoordinator.ReleaseStream(msgID). *)
MemberRelease(m) ==
    /\ mpc[m] = "done"
    /\ mpc' = [mpc EXCEPT ![m] = "released"]
    /\ ReleaseStream(m, Msg)
    /\ UNCHANGED <<lpc, lps, lGroup, decision, toSend, mps, mGroup, sender,
                   attempts, result, st, faults>>

-----------------------------------------------------------------------------
(* Leader side *)

(* joinPartyLeader: createJoinPartyGroups over all the peers and set the *)
(* leader, then wait. *)
LeaderStart ==
    /\ lpc = "idle"
    /\ lpc' = "wait"
    /\ lGroup' = TRUE
    /\ lps' = NewPeerStatus(Nodes, Leader, Leader, Threshold)
    /\ UNCHANGED <<decision, toSend, mpc, mps, mGroup, sender, attempts,
                   result, st, faults, smVars>>

(* HandleStreamWithLeader on the leader's host, for a stream of member   *)
(* m: a failed read files the stream under "UNKNOWN".  Otherwise, for a   *)
(* "request": reserve JOINPARTYSIZE and call processReqMsg, which looks   *)
(* the group up under joinPartyGroupLock and releases the lock.  The      *)
(* handler runs whether or not the session is active.                     *)
LeaderHandle(sid) ==
    /\ lpc # "offline" /\ st[sid].lh = "none" /\ st[sid].ph # "none"
    /\ IF st[sid].dead \/ st[sid].ph = "orphan"
         THEN /\ st' = [st EXCEPT ![sid].lh = "done"]
              /\ unusedStreams' = AddStream(unusedStreams, Leader, Unknown, LEnd(sid))
              /\ UNCHANGED reserved
         ELSE /\ st' = [st EXCEPT ![sid].lh = "lookup", ![sid].found = lGroup]
              /\ reserved' = BagAdd(reserved, LEnd(sid))
              /\ UNCHANGED unusedStreams
    /\ UNCHANGED <<lpc, lps, lGroup, decision, toSend, mpc, mps, mGroup, sender,
                   attempts, result, faults, closed, freed>>

(* The rest of processReqMsg, without the lock: updatePeer on the group   *)
(* it looked up (which joinPartyLeader may have removed meanwhile; the    *)
(* record lives on), which stores the stream, and notify <- true when the *)
(* party just formed.                                                      *)
ProcessReqMsg(sid) ==
    LET up  == UpdatePeer(lps, sid[1], sid)
        acc == st[sid].found /\ ~up.err
    IN
    /\ st[sid].lh = "lookup"
    /\ (acc /\ up.formed) => lps.notify < lps.capacity
    /\ lps' = IF acc THEN [up.ps EXCEPT !.notify = @ + (IF up.formed THEN 1 ELSE 0)]
                     ELSE lps
    /\ st' = [st EXCEPT ![sid].lh = "read", ![sid].ok = acc]
    /\ UNCHANGED <<lpc, lGroup, decision, toSend, mpc, mps, mGroup, sender,
                   attempts, result, faults, smVars>>

(* The rest of the handler: write "request received" (or "invalid         *)
(* request"; the write fails on a dead stream) and add the stream under   *)
(* the message id.                                                         *)
LeaderAck(sid) ==
    /\ st[sid].lh = "read"
    /\ st' = [st EXCEPT ![sid].lh = "done",
                        ![sid].out = IF st[sid].dead THEN @
                                     ELSE Append(@, IF st[sid].ok THEN Received ELSE Invalid)]
    /\ unusedStreams' = AddStream(unusedStreams, Leader, Msg, LEnd(sid))
    /\ UNCHANGED <<lpc, lps, lGroup, decision, toSend, mpc, mps, mGroup, sender,
                   attempts, result, faults, closed, reserved, freed>>

(* The transport resets a stream in use, or its read deadline passes. *)
Reset(sid) ==
    /\ faults < MaxFaults
    /\ st[sid].ph \in ResetPhases /\ ~st[sid].dead
    /\ st' = [st EXCEPT ![sid].dead = TRUE]
    /\ faults' = faults + 1
    /\ UNCHANGED <<lpc, lps, lGroup, decision, toSend, mpc, mps, mGroup,
                   sender, attempts, result, smVars>>

(* The waiting goroutine of joinPartyLeader: the party-formed            *)
(* notification or the timeout.  ("signature received" on sigChan does    *)
(* not end this loop; the race is modelled in KeySignRace.)               *)
LeaderWake ==
    /\ lpc = "wait"
    /\ \/ /\ lps.notify > 0
          /\ lps' = [lps EXCEPT !.notify = @ - 1]
       \/ UNCHANGED lps
    /\ lpc' = "snap"
    /\ UNCHANGED <<lGroup, decision, toSend, mpc, mps, mGroup, sender,
                   attempts, result, st, faults, smVars>>

(* Mutant: the leader forgets to count itself when checking the quorum. *)
DecisionOffByOne(online) ==
    [ok |-> Cardinality(online) >= Threshold, peers |-> online]

(* The message joinPartyLeader broadcasts for the online peers plus      *)
(* itself: Success when they are at least threshold+1, else Timeout.      *)
Decision(online) ==
    [ok |-> Cardinality(online) >= Threshold + 1, peers |-> online]

(* Mutant: the leader builds the message from the online peers without  *)
(* appending itself.                                                       *)
LeaderDecideWithoutSelf ==
    /\ lpc = "snap"
    /\ decision' = Decision(Online(lps))
    /\ lpc' = "range"
    /\ UNCHANGED <<lps, lGroup, toSend, mpc, mps, mGroup, sender, attempts,
                   result, st, faults, smVars>>

(* getPeersStatus, append the leader, build the message. *)
LeaderDecide ==
    /\ lpc = "snap"
    /\ decision' = Decision(Online(lps) \cup {Leader})
    /\ lpc' = "range"
    /\ UNCHANGED <<lps, lGroup, toSend, mpc, mps, mGroup, sender, attempts,
                   result, st, faults, smVars>>

(* sendResponseToAll(msg, nil, peerGroup.streams): Range over the stored *)
(* streams, one goroutine each. *)
LeaderRange ==
    /\ lpc = "range"
    /\ toSend' = StoredStreams(lps)
    /\ lpc' = "send"
    /\ UNCHANGED <<lps, lGroup, decision, mpc, mps, mGroup, sender, attempts,
                   result, st, faults, smVars>>

(* One goroutine of sendResponseToAll: sendMsgToPeerWithStream writes the *)
(* response on the stored stream (it fails on a dead stream), waits for   *)
(* "copy_done" (bounded by the read deadline) and, deferred, adds the     *)
(* stream to the StreamMgr under the message id.                          *)
LeaderSend(sid) ==
    /\ lpc = "send" /\ sid \in toSend
    /\ toSend' = toSend \ {sid}
    /\ st' = IF st[sid].dead THEN st ELSE [st EXCEPT ![sid].out = Append(@, Frame("response", decision))]
    /\ unusedStreams' = AddStream(unusedStreams, Leader, Msg, LEnd(sid))
    /\ UNCHANGED <<lpc, lps, lGroup, decision, mpc, mps, mGroup, sender,
                   attempts, result, faults, closed, reserved, freed>>

(* All response goroutines returned: the deferred RemoveJoinPartyGroups  *)
(* deletes the group and drains notify; joinPartyLeader returns.          *)
LeaderFinish ==
    /\ lpc = "send" /\ toSend = {}
    /\ lpc' = "done"
    /\ lGroup' = FALSE
    /\ lps' = [lps EXCEPT !.notify = 0]
    /\ UNCHANGED <<decision, toSend, mpc, mps, mGroup, sender, attempts,
                   result, st, faults, smVars>>

(* KeySign's deferred partyCoordinator.ReleaseStream(msgID). *)
LeaderRelease ==
    /\ lpc = "done"
    /\ lpc' = "released"
    /\ ReleaseStream(Leader, Msg)
    /\ UNCHANGED <<lps, lGroup, decision, toSend, mpc, mps, mGroup, sender,
                   attempts, result, st, faults>>

-----------------------------------------------------------------------------
(* Every node that took part has returned and released its streams. *)
SessionOver ==
    /\ lpc \in {"offline", "released"}
    /\ \A m \in Members : mpc[m] \in {"offline", "released"}

Next ==
    \/ LeaderStart \/ LeaderWake \/ LeaderDecide \/ LeaderRange
    \/ LeaderFinish \/ LeaderRelease
    \/ \E sid \in Sids : \/ LeaderHandle(sid) \/ ProcessReqMsg(sid) \/ LeaderAck(sid)
                          \/ LeaderSend(sid)
                          \/ Listener(sid) \/ Reset(sid)
    \/ \E m \in Members : \/ MemberStart(m) \/ SenderOpen(m) \/ SenderReadAck(m)
                          \/ SenderStop(m) \/ MemberWake(m) \/ MemberFinish(m)
                          \/ MemberRelease(m)
    \/ SessionOver /\ UNCHANGED vars

Spec == Init /\ [][Next]_vars

(* Goroutines are scheduled and timers fire: every step of the protocol  *)
(* is weakly fair.  Faults (Reset, a late open) are not.                  *)
Fairness ==
    /\ WF_vars(LeaderStart) /\ WF_vars(LeaderWake) /\ WF_vars(LeaderDecide)
    /\ WF_vars(LeaderRange) /\ WF_vars(LeaderFinish) /\ WF_vars(LeaderRelease)
    /\ \A sid \in Sids : WF_vars(LeaderHandle(sid)) /\ WF_vars(ProcessReqMsg(sid))
                         /\ WF_vars(LeaderAck(sid))
                         /\ WF_vars(LeaderSend(sid))
                         /\ WF_vars(Listener(sid))
    /\ \A m \in Members : /\ WF_vars(MemberStart(m)) /\ WF_vars(SenderReadAck(m))
                         /\ WF_vars(SenderStop(m)) /\ WF_vars(MemberWake(m))
                         /\ WF_vars(MemberFinish(m)) /\ WF_vars(MemberRelease(m))

FairSpec == Spec /\ Fairness

-----------------------------------------------------------------------------
(* Properties *)

TypeOK ==
    /\ lpc \in {"offline", "idle", "wait", "snap", "range", "send", "done", "released"}
    /\ mpc \in [Members -> {"offline", "idle", "wait", "woken", "done", "released"}]
    /\ sender \in [Members -> {"ready", "busy", "stopped"}]
    /\ attempts \in [Members -> 0..MaxAttempts]
    /\ decision \in Decisions \cup {NoResponse}
    /\ toSend \subseteq Sids
    /\ result \in [Members -> [err : Results, peers : SUBSET Nodes]]
    /\ lps.reqCount \in 0..Threshold
    /\ faults \in 0..MaxFaults
    /\ \A sid \in Sids : /\ st[sid].out \in Seq(Frames)
                         /\ st[sid].rd \in 0..Len(st[sid].out)
    /\ \A n \in Nodes, k \in Keys : DOMAIN unusedStreams[n][k] \subseteq Ends

(* A member that joinPartyMember lets go on with Success (so that it     *)
(* signs) is in the participant list, holds exactly the list the leader  *)
(* decided, and that list is a quorum of exactly threshold+1 distinct     *)
(* nodes.  This is about updatePeer's cap on reqCount, the leader's       *)
(* threshold+1 check, and the order of the leader's snapshot of the       *)
(* online peers and its Range over the stored streams.                    *)
SuccessIsQuorum ==
    \A m \in Members : result[m].err = "Success" =>
        /\ m \in result[m].peers
        /\ decision # NoResponse /\ result[m].peers = decision.peers
        /\ Cardinality(decision.peers) = Threshold + 1

(* Once a node has released the session (KeySign's deferred               *)
(* ReleaseStream) every stream end it opened or accepted for the session  *)
(* has been closed: StreamMgr closes every stream (spec 4.4).              *)
NodeEnds(n) ==
    {e \in Ends : /\ e[1] = n
                  /\ \/ e \in DOMAIN reserved
                     \/ \E k \in Keys : e \in DOMAIN unusedStreams[n][k]}
SessionStreamsClosed ==
    \A n \in Nodes :
        (IF n = Leader THEN lpc = "released" ELSE mpc[n] = "released")
            => \A e \in NodeEnds(n) : e \in DOMAIN closed

(* The leader writes "request received" on a request stream before its  *)
(* response: sendMsgToPeer takes the first frame on the stream as the     *)
(* answer to the request and only then starts the listener.  It is about  *)
(* processReqMsg signalling notify (which wakes joinPartyLeader, and its  *)
(* sendResponseToAll writes on the stored stream) before the handler      *)
(* writes its answer.                                                      *)
AckBeforeDecision ==
    \A sid \in Sids :
        \A j \in 1..Len(st[sid].out) :
            IsResponse(st[sid].out[j]) => \E i \in 1..j - 1 : st[sid].out[i] = Received

(* No frame the leader wrote is lost unread on the member's side: every   *)
(* ReadStreamWithBuffer returns all it took off the stream.  It is about  *)
(* the bufio.Reader each read wraps around the stream and drops.          *)
NoFrameDropped == \A sid \in Sids : ~st[sid].drop

(* The session keeps the promise of JoinPartyLeaderAbstract: a leader    *)
(* that runs decides once, on members that asked, itself included, and   *)
(* succeeds exactly on a quorum; every member that joins returns, either  *)
(* "leader not ready" or the leader's decision, a success only with       *)
(* itself in the list.                                                     *)
(* It is about the leader's snapshot and the append of itself, the        *)
(* member's outcome rule and the delivery of the decision over the        *)
(* stored streams.                                                         *)
NoMemberRet == [err |-> "None", peers |-> {}]   \* result before the return
JPLA == INSTANCE JoinPartyLeaderAbstract
          WITH lstarted <- lpc \notin {"offline", "idle"},
               joined <- {m \in Members : mpc[m] \notin {"offline", "idle"}},
               dec <- decision,
               mret <- [m \in Members |-> IF mpc[m] \in {"done", "released"}
                                          THEN result[m] ELSE NoMemberRet],
               NoRet <- NoMemberRet
ImplementsLeaderAbstract == JPLA!LAbsSpec

(* Every node that takes part in the session eventually returns from the *)
(* join party and releases its streams: nobody waits forever.             *)
EveryoneReturns == <>SessionOver

=============================================================================
