--------------------------- MODULE KeySignRace ----------------------------
(***************************************************************************)
(* One node's TssServer.KeySign (src/tss/keysign.go): the waiter          *)
(* goroutine (waitForSignatures) races the producer goroutine             *)
(* (generateSignature, which first runs the leader-directed join party)   *)
(* and both report on the shared channel sigChan of capacity 2.  KeySign  *)
(* waits for both, closes sigChan, releases the session and picks the     *)
(* response.                                                               *)
(*                                                                         *)
(* The join party is abstracted to the select of the node's own wait      *)
(* loop: joinPartyLeader's loop (notify, timeout, sigChan) or             *)
(* joinPartyMember's waiter (notify, timeout+5s, sigChan); what the       *)
(* leader decided and whether this node is in the list is a               *)
(* nondeterministic input (JoinPartyLeader checks the decision itself).   *)
(* The signature notifier's WaitForSignature is not under src/: it        *)
(* returns a verified signature, an error on timeout, or an error on      *)
(* reading the producer's sentinel from sigChan.  SignMessage and         *)
(* BroadcastSignature succeed or fail nondeterministically.                *)
(***************************************************************************)
EXTENDS Naturals, Sequences

Roles == {"leader", "member"}
Sentinels == {"signature received", "signature generated"}
JoinErrs == {"nil", "SignReceived", "LeaderNotReady", "JoinTimeout", "NotEnough"}
Statuses == {"Empty", "Success", "Fail"}   \* keysign.Response{} / common.Success / common.Fail
GenErrs == {"nil", "SignReceived", "broadcast"}

VARIABLES
    role,      \* whether LeaderNode elected this node
    sigChan,   \* the buffered channel's contents, oldest first
    chClosed,  \* close(sigChan) happened
    wpc,       \* waiter: "wait" | "send" | "done"
    errWait,   \* waiter's error: "nil" | "err"
    ppc,       \* producer: "start" | "join" | "joined" | "signing" | "done"
    heldSig,   \* the leader loop's sigNotify was set
    jp,        \* the error joinParty returned: [err]
    genStatus, \* generatedSig.Status
    errGen,    \* producer's error
    group,     \* peersGroup[msgID] present on this node
    kpc,       \* KeySign: "wait" | "returned"
    resp       \* what KeySign returned: [status, err]

vars == <<role, sigChan, chClosed, wpc, errWait, ppc, heldSig, jp,
          genStatus, errGen, group, kpc, resp>>

NoJoin == [err |-> "nil"]

(* Mutant: the channel is made with capacity 1. *)
SigChanCapOne == 1

(* sigChan := make(chan string, 2) *)
SigChanCap == 2

CanSend == Len(sigChan) < SigChanCap   \* a send does not block

Init ==
    /\ role \in Roles
    /\ sigChan = << >>
    /\ chClosed = FALSE
    /\ wpc = "wait"
    /\ errWait = "nil"
    /\ ppc = "start"
    /\ heldSig = FALSE
    /\ jp = NoJoin
    /\ genStatus = "Empty"
    /\ errGen = "nil"
    /\ group = FALSE
    /\ kpc = "wait"
    /\ resp = [status |-> "Empty", err |-> "nil"]

-----------------------------------------------------------------------------
(* Waiter goroutine *)

(* WaitForSignature delivers a verified signature; errWait = nil. *)
WaiterGotSig ==
    /\ wpc = "wait"
    /\ wpc' = "send"
    /\ errWait' = "nil"
    /\ UNCHANGED <<role, sigChan, chClosed, ppc, heldSig, jp, genStatus,
                   errGen, group, kpc, resp>>

(* WaitForSignature times out, or the candidate fails verification. *)
WaiterTimeout ==
    /\ wpc = "wait"
    /\ wpc' = "done"
    /\ errWait' = "err"
    /\ UNCHANGED <<role, sigChan, chClosed, ppc, heldSig, jp, genStatus,
                   errGen, group, kpc, resp>>

(* WaitForSignature reads the producer's sentinel and stops listening. *)
WaiterCancelled ==
    /\ wpc = "wait"
    /\ sigChan # << >> /\ Head(sigChan) = "signature generated"
    /\ sigChan' = Tail(sigChan)
    /\ wpc' = "done"
    /\ errWait' = "err"
    /\ UNCHANGED <<role, chClosed, ppc, heldSig, jp, genStatus,
                   errGen, group, kpc, resp>>

(* if errWait == nil { sigChan <- "signature received" } *)
WaiterSend ==
    /\ wpc = "send"
    /\ CanSend
    /\ sigChan' = Append(sigChan, "signature received")
    /\ wpc' = "done"
    /\ UNCHANGED <<role, chClosed, errWait, ppc, heldSig, jp, genStatus,
                   errGen, group, kpc, resp>>

-----------------------------------------------------------------------------
(* Producer goroutine: the join party *)

(* JoinPartyWithLeader -> joinPartyLeader / joinPartyMember:               *)
(* createJoinPartyGroups registers the session.                           *)
JoinStart ==
    /\ ppc = "start"
    /\ ppc' = "join"
    /\ group' = TRUE
    /\ UNCHANGED <<role, sigChan, chClosed, wpc, errWait, heldSig, jp,
                   genStatus, errGen, kpc, resp>>

(* Leader loop, case result := <-sigChan: record it and keep waiting. *)
LeaderSigCase ==
    /\ role = "leader" /\ ppc = "join"
    /\ sigChan # << >> /\ Head(sigChan) = "signature received"
    /\ sigChan' = Tail(sigChan)
    /\ heldSig' = TRUE
    /\ UNCHANGED <<role, chClosed, wpc, errWait, ppc, jp, genStatus,
                   errGen, group, kpc, resp>>

(* Leader loop left on notify (quorum) or on the timeout; the deferred    *)
(* RemoveJoinPartyGroups runs on every return.  A held sentinel returns   *)
(* ErrSignReceived; otherwise nil after notify (the list has threshold+1 *)
(* nodes, the leader among them) or the timeout.                          *)
LeaderLoopExit ==
    /\ role = "leader" /\ ppc = "join"
    /\ \E quorum \in BOOLEAN :
         jp' = IF heldSig THEN [NoJoin EXCEPT !.err = "SignReceived"]
               ELSE [err |-> IF quorum THEN "nil" ELSE "JoinTimeout"]
    /\ ppc' = "joined"
    /\ group' = FALSE
    /\ UNCHANGED <<role, sigChan, chClosed, wpc, errWait, heldSig,
                   genStatus, errGen, kpc, resp>>

(* Member waiter, case <-peerGroup.notify: the leader's response is in;   *)
(* RemoveJoinPartyGroups, then the outcome checks of joinPartyMember.     *)
(* nil comes only with a Success decision, which lists the member         *)
(* (JoinPartyLeader's SuccessIsQuorum).                                    *)
MemberNotified ==
    /\ role = "member" /\ ppc = "join"
    /\ \E out \in {"nil", "NotEnough", "JoinTimeout"} : jp' = [err |-> out]
    /\ ppc' = "joined"
    /\ group' = FALSE
    /\ UNCHANGED <<role, sigChan, chClosed, wpc, errWait, heldSig,
                   genStatus, errGen, kpc, resp>>

(* Member waiter, case <-time.After(timeout+5s): no leader response. *)
MemberTimedOut ==
    /\ role = "member" /\ ppc = "join"
    /\ jp' = [NoJoin EXCEPT !.err = "LeaderNotReady"]
    /\ ppc' = "joined"
    /\ group' = FALSE
    /\ UNCHANGED <<role, sigChan, chClosed, wpc, errWait, heldSig,
                   genStatus, errGen, kpc, resp>>

(* Member waiter, case result := <-sigChan: joinPartyMember returns       *)
(* ErrSignReceived before it reaches RemoveJoinPartyGroups.               *)
MemberSigCase ==
    /\ role = "member" /\ ppc = "join"
    /\ sigChan # << >> /\ Head(sigChan) = "signature received"
    /\ sigChan' = Tail(sigChan)
    /\ jp' = [NoJoin EXCEPT !.err = "SignReceived"]
    /\ ppc' = "joined"
    /\ UNCHANGED <<role, chClosed, wpc, errWait, heldSig, genStatus,
                   errGen, group, kpc, resp>>

-----------------------------------------------------------------------------
(* Producer goroutine: generateSignature after joinParty *)

(* Race lost: return ErrSignReceived.  Other errors: blame, broadcast the *)
(* failure, return a Fail response with a nil error.  Otherwise go on to  *)
(* sign: the isKeySignMember check always passes, as a nil error of       *)
(* joinParty comes with a list that holds this node.                      *)
GenAfterJoin ==
    /\ ppc = "joined"
    /\ \/ /\ jp.err = "SignReceived"
          /\ errGen' = "SignReceived" /\ genStatus' = "Empty" /\ ppc' = "done"
       \/ /\ jp.err \notin {"nil", "SignReceived"}
          /\ errGen' = "nil" /\ genStatus' = "Fail" /\ ppc' = "done"
       \/ /\ jp.err = "nil"
          /\ ppc' = "signing"
          /\ UNCHANGED <<errGen, genStatus>>
    /\ UNCHANGED <<role, sigChan, chClosed, wpc, errWait, heldSig, jp,
                   group, kpc, resp>>

(* GetPubKeysFromPeerIDs or SignMessage fails, or SignMessage succeeds:   *)
(* each path sends "signature generated" (blocking while sigChan is full) *)
(* and returns; after a signature BroadcastSignature may still fail.      *)
Sign ==
    /\ ppc = "signing"
    /\ CanSend
    /\ sigChan' = Append(sigChan, "signature generated")
    /\ \/ genStatus' = "Fail" /\ errGen' = "nil"
       \/ genStatus' = "Success" /\ errGen' = "nil"
       \/ genStatus' = "Empty" /\ errGen' = "broadcast"
    /\ ppc' = "done"
    /\ UNCHANGED <<role, chClosed, wpc, errWait, heldSig, jp, group, kpc,
                   resp>>

-----------------------------------------------------------------------------
(* KeySign *)

ReceivedSig == IF errWait = "nil" THEN "Success" ELSE "Empty"

(* The response after wg.Wait: the received signature if the waiter got  *)
(* one; the (possibly empty) received one if the producer lost the race; *)
(* otherwise the producer's.                                              *)
Outcome ==
    CASE errWait = "nil"          -> [status |-> ReceivedSig, err |-> "nil"]
      [] errGen = "SignReceived"  -> [status |-> ReceivedSig, err |-> "nil"]
      [] OTHER                    -> [status |-> genStatus, err |-> errGen]

(* wg.Wait(); close(sigChan); return, running the deferred CancelSubscribe *)
(* and ReleaseStream calls.                                                *)
KeySignReturn ==
    /\ kpc = "wait" /\ wpc = "done" /\ ppc = "done"
    /\ chClosed' = TRUE
    /\ resp' = Outcome
    /\ kpc' = "returned"
    /\ UNCHANGED <<role, sigChan, wpc, errWait, ppc, heldSig, jp, genStatus,
                   errGen, group>>

Returned == kpc = "returned"

Next ==
    \/ WaiterGotSig \/ WaiterTimeout \/ WaiterCancelled \/ WaiterSend
    \/ JoinStart \/ LeaderSigCase \/ LeaderLoopExit
    \/ MemberNotified \/ MemberTimedOut \/ MemberSigCase
    \/ GenAfterJoin \/ Sign \/ KeySignReturn
    \/ (Returned /\ UNCHANGED vars)   \* the call has returned; nothing runs

Spec == Init /\ [][Next]_vars

(* Timers fire and runnable goroutines run: every step but the arrival   *)
(* of a signature or of the leader's response is weakly fair.             *)
FairSpec ==
    /\ Spec
    /\ WF_vars(WaiterTimeout) /\ WF_vars(WaiterSend)
    /\ WF_vars(JoinStart) /\ WF_vars(LeaderLoopExit) /\ WF_vars(MemberTimedOut)
    /\ WF_vars(GenAfterJoin) /\ WF_vars(Sign) /\ WF_vars(KeySignReturn)

-----------------------------------------------------------------------------
(* Properties *)

(* KeySign always returns: neither goroutine blocks forever on a full     *)
(* sigChan, whichever of them reports first and whether or not the other  *)
(* reads the sentinel, so wg.Wait in KeySign completes.                   *)
KeySignReturns == <>Returned

(* Session resources, the registry entry included, are released once both *)
(* tasks returned (spec 4.5): after KeySign returns no peersGroup entry   *)
(* for the message id is left on the node.                                 *)
RegistryReleased == Returned => ~group

=============================================================================
