-------------------------- MODULE MCCommunication --------------------------
(***************************************************************************)
(* One node, two concurrent KeySign sessions with two subscribed topics   *)
(* each, two streams opened by peers and one broadcast stream of each     *)
(* session.  Messages are of up to three bytes, MaxPayload is two.        *)
(***************************************************************************)
EXTENDS Communication

CONSTANTS n1, k1, k2, i1, i2, o1, o2, t1, t2, UNKNOWN

MCNodes == {n1}
MCSessionKeys == {k1, k2}
MCTopics == {t1, t2}
MCLeaderEnds == {}
MCInEnds == {i1, i2}
MCOutEnds == [k \in MCSessionKeys |-> IF k = k1 THEN {o1} ELSE {o2}]
MCEnds == {i1, i2, o1, o2}

(* The framing operators agree with their reference over the messages of *)
(* up to MaxPayload+1 bytes. *)
ASSUME FrameRoundTrip

=============================================================================
