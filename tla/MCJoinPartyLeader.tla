------------------------- MODULE MCJoinPartyLeader -------------------------
(* Model values and bounds for JoinPartyLeader: a leader, two or three   *)
(* members, one message id.                                                *)
EXTENDS JoinPartyLeader, TLC

CONSTANTS L, m1, m2, m3, MSG, UNKNOWN, NONE_, NOSTREAM, NORESPONSE

MCMembers2 == {m1, m2}
MCMembers3 == {m1, m2, m3}
MCEnds(members, max) ==
    {<<n, sid>> : n \in {L} \cup members, sid \in members \X (1..max)}

MCNodes2 == {L} \cup MCMembers2
MCNodes3 == {L} \cup MCMembers3
(* The members are interchangeable. *)
MemberSymmetry == Permutations(MCMembers3)

MCKeys == {MSG}

MCEnds2 == MCEnds(MCMembers2, 2)
MCEnds3 == MCEnds(MCMembers3, 1)

=============================================================================
