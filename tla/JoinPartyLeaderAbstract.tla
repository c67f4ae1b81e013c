---------------------- MODULE JoinPartyLeaderAbstract ----------------------
(***************************************************************************)
(* What the leader-directed join party promises (spec 4.2), with no       *)
(* streams, frames or goroutines.                                          *)
(*                                                                         *)
(* The leader, once it runs, decides exactly once: the members it heard   *)
(* from (at most threshold of them) plus itself, a success exactly when   *)
(* that list is a quorum of threshold+1.  A member that joined returns    *)
(* either "leader not ready" with no list, or the leader's decision: the  *)
(* list it holds is that list, and it succeeds exactly when the decision  *)
(* is a success, which then lists it.  (A failed decision may reach a     *)
(* member it does not list: one whose request the leader took after its   *)
(* snapshot of the online peers.)                                          *)
(***************************************************************************)
EXTENDS Naturals, FiniteSets

CONSTANTS
    Leader,      \* the elected leader
    Members,     \* the other peers of the session
    Threshold,   \* threshold argument of JoinPartyWithLeader
    NoResponse,  \* the leader has not decided
    NoRet        \* the member's call has not returned

VARIABLES
    lstarted,    \* the leader runs joinPartyLeader
    joined,      \* the members that called joinPartyMember
    dec,         \* the leader's decision
    mret         \* mret[m]: what joinPartyMember of m returned

labsVars == <<lstarted, joined, dec, mret>>

LAbsInit ==
    /\ lstarted = FALSE
    /\ joined = {}
    /\ dec = NoResponse
    /\ mret = [m \in Members |-> NoRet]

LJoin ==
    /\ ~lstarted
    /\ lstarted' = TRUE
    /\ UNCHANGED <<joined, dec, mret>>

MJoin(m) ==
    /\ m \notin joined
    /\ joined' = joined \cup {m}
    /\ UNCHANGED <<lstarted, dec, mret>>

(* The one decision: some members that joined, at most threshold. *)
Decide ==
    /\ lstarted /\ dec = NoResponse
    /\ \E S \in SUBSET joined :
          /\ Cardinality(S) <= Threshold
          /\ dec' = [ok |-> Cardinality(S \cup {Leader}) >= Threshold + 1,
                     peers |-> S \cup {Leader}]
    /\ UNCHANGED <<lstarted, joined, mret>>

(* The errors a member may return for a decision that is not a success. *)
Failures == {"NotEnough", "JoinTimeout"}

MReturn(m) ==
    /\ m \in joined /\ mret[m] = NoRet
    /\ \/ mret' = [mret EXCEPT ![m] = [err |-> "LeaderNotReady", peers |-> {}]]
       \/ /\ dec # NoResponse /\ (dec.ok => m \in dec.peers)
          /\ \E e \in IF dec.ok THEN {"Success"} ELSE Failures :
                mret' = [mret EXCEPT ![m] = [err |-> e, peers |-> dec.peers]]
    /\ UNCHANGED <<lstarted, joined, dec>>

LAbsNext == LJoin \/ Decide \/ \E m \in Members : MJoin(m) \/ MReturn(m)

(* A leader that runs decides, and a member that joined returns. *)
LAbsSpec ==
    /\ LAbsInit /\ [][LAbsNext]_labsVars
    /\ WF_labsVars(Decide) /\ \A m \in Members : WF_labsVars(MReturn(m))

=============================================================================
