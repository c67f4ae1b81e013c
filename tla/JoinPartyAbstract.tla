------------------------- MODULE JoinPartyAbstract -------------------------
(***************************************************************************)
(* What the leaderless join party promises its caller (spec 4.3 and 7),   *)
(* with no messages, streams or goroutines.                               *)
(*                                                                         *)
(* A node joins the session by calling JoinPartyWithRetry.  Each node     *)
(* that joined eventually returns the peers it found online, itself       *)
(* included.  A peer it reports has itself joined the session.  The call  *)
(* succeeds exactly when every expected peer is in the list; otherwise    *)
(* it returns the partial list with a timeout error.                      *)
(***************************************************************************)
EXTENDS FiniteSets

CONSTANTS
    Nodes,     \* the expected peers of the session
    NoResult   \* the call has not returned

VARIABLES
    started,   \* the nodes that called JoinPartyWithRetry
    ret        \* ret[n]: what the call of n returned

absVars == <<started, ret>>

Results == [online : SUBSET Nodes, ok : BOOLEAN]

AbsInit ==
    /\ started = {}
    /\ ret = [n \in Nodes |-> NoResult]

Join(n) ==
    /\ n \notin started
    /\ started' = started \cup {n}
    /\ UNCHANGED ret

(* The call returns a set of joined peers that contains n; the error is   *)
(* nil exactly when that set is every expected peer.                      *)
Return(n) ==
    /\ n \in started
    /\ ret[n] = NoResult
    /\ \E S \in SUBSET started :
          /\ n \in S
          /\ ret' = [ret EXCEPT ![n] = [online |-> S, ok |-> S = Nodes]]
    /\ UNCHANGED started

AbsNext == \E n \in Nodes : Join(n) \/ Return(n)

(* A call that was made returns. *)
AbsSpec == AbsInit /\ [][AbsNext]_absVars /\ \A n \in Nodes : WF_absVars(Return(n))

=============================================================================
