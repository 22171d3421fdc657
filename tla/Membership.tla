----------------------------- MODULE Membership -----------------------------
(***************************************************************************)
(* What the member list of the idobata server promises: the members in the *)
(* order in which they joined, each socket at most once.                   *)
(***************************************************************************)
EXTENDS Integers, Sequences

CONSTANT Socks

VARIABLE members

IsMember(s) == \E i \in DOMAIN members : members[i] = s

Init == members = <<>>

Add(s) == ~IsMember(s) /\ members' = Append(members, s)

Delete(s) ==
  \E i \in DOMAIN members :
    /\ members[i] = s
    /\ members' = [j \in 1 .. Len(members) - 1 |->
                     IF j < i THEN members[j] ELSE members[j + 1]]

Next == \E s \in Socks : Add(s) \/ Delete(s)

Spec == Init /\ [][Next]_members
=============================================================================
