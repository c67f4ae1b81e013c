----------------------------- MODULE StreamMgr -----------------------------
(***************************************************************************)
(* The stream manager of src/p2p/stream_helper.go (type StreamMgr).       *)
(*                                                                         *)
(* Every node keeps one StreamMgr per PartyCoordinator and per            *)
(* Communication.  It collects the transport streams used for a message   *)
(* id (or, when the message could not be attributed, under "UNKNOWN") and *)
(* closes them when the session releases its id.                          *)
(*                                                                         *)
(* A stream end is a model value.  The slice unusedStreams[msgID] is a     *)
(* bag of stream ends: AddStream appends without looking for duplicates,   *)
(* so the multiplicity of an end in the slice is the number of times it    *)
(* will be closed.  The transport's bookkeeping of each end is kept in     *)
(* three bags: how often it was closed, how often its JOINPARTYSIZE       *)
(* reservation was taken (by the callers) and how often it was given back *)
(* (by ReleaseStream).                                                     *)
(***************************************************************************)
EXTENDS Naturals, Bags, BagsExt

CONSTANTS
    Nodes,        \* the hosts, each with its own StreamMgr
    Ends,         \* stream ends (one side of a libp2p stream)
    SessionKeys,  \* message ids
    Unknown,      \* the "UNKNOWN" bucket
    LeaderEnds    \* ends whose Protocol() is joinPartyProtocolWithLeader

ASSUME Unknown \notin SessionKeys /\ LeaderEnds \subseteq Ends

Keys == SessionKeys \cup {Unknown}

VARIABLES
    unusedStreams,  \* unusedStreams[n][k]: the bag of ends stored under k on node n
    closed,         \* bag: how many times each end was closed
    reserved,       \* bag: how many JOINPARTYSIZE reservations each end took
    freed           \* bag: how many JOINPARTYSIZE reservations each end gave back

smVars == <<unusedStreams, closed, reserved, freed>>

(* NewStreamMgr: every node starts with an empty map. *)
SMInit ==
    /\ unusedStreams = [n \in Nodes |-> [k \in Keys |-> EmptyBag]]
    /\ closed = EmptyBag
    /\ reserved = EmptyBag
    /\ freed = EmptyBag

(* AddStream(msgID, stream): append the end to the slice of msgID, as a   *)
(* function of the map (the callers add inside larger steps).             *)
AddStream(us, n, k, e) == [us EXCEPT ![n][k] = BagAdd(@, e)]

(* The JOINPARTYSIZE reservations a release gives back: one per copy of   *)
(* a joinPartyProtocolWithLeader end in the msgID slice (not the UNKNOWN  *)
(* slice).                                                                 *)
LeaderCopies(B) == [e \in DOMAIN B \cap LeaderEnds |-> B[e]]

(* Mutant: the "UNKNOWN" slice is closed but not deleted from the map. *)
ReleaseStreamKeepUnknown(n, k) ==
    LET used    == unusedStreams[n][k]
        unknown == unusedStreams[n][Unknown]
    IN  /\ unusedStreams' = [unusedStreams EXCEPT ![n][k] = EmptyBag]
        /\ freed' = freed (+) LeaderCopies(used)
        /\ closed' = closed (+) used (+) unknown
        /\ UNCHANGED reserved

(* ReleaseStream(msgID): under the lock take (and delete) the slices of    *)
(* msgID and of "UNKNOWN"; then, outside the lock, release the memory of   *)
(* every leader-protocol stream of msgID and close every stream of both.   *)
(* The close loop only touches the taken slices, so it is one step here.   *)
ReleaseStream(n, k) ==
    LET used    == unusedStreams[n][k]
        unknown == unusedStreams[n][Unknown]
    IN  /\ unusedStreams' = [unusedStreams EXCEPT ![n][k] = EmptyBag,
                                                  ![n][Unknown] = EmptyBag]
        /\ freed' = freed (+) LeaderCopies(used)
        /\ closed' = closed (+) used (+) unknown
        /\ UNCHANGED reserved

-----------------------------------------------------------------------------
(* No stream end is closed twice: every release, of any id and however     *)
(* often repeated, closes each stored stream once (spec 4.4, 8).  It is    *)
(* about ReleaseStream deleting both slices it takes, and about callers    *)
(* never storing one end twice.                                            *)
CloseAtMostOnce == \A e \in DOMAIN closed : closed[e] <= 1

(* ReleaseStream never gives back more JOINPARTYSIZE memory for an end    *)
(* than was reserved for it: the transport's memory account of a stream   *)
(* never goes negative.                                                    *)
NoOverRelease == \A e \in DOMAIN freed : CopiesIn(e, freed) <= CopiesIn(e, reserved)

=============================================================================
