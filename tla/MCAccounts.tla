------------------------------ MODULE MCAccounts ------------------------------
(* Instances of Invitations (and with it Sessions): one account, two clubs.  *)
EXTENDS Invitations, TLC

CONSTANTS c1, c2

ManagerAndAdmin == {[role |-> "club_manager", clubs |-> {c2}],
                    [role |-> "platform_admin", clubs |-> {}]}
SwitchAndReassign == {[active |-> FALSE, clubs |-> None],
                      [active |-> None, clubs |-> <<c1, c2>>]}

\* Any two requests, and three of one family.
Families == {{"login", "refresh", "logout"}, {"refresh", "forgot", "reset"},
             {"create", "accept"}, {"accept", "rotate", "revoke"}}
ThreeOfAFamily ==
  LET begun == {r \in Requests : req[r] # None}
  IN  \/ Cardinality(begun) <= 2
      \/ \E f \in Families : \A r \in begun : req[r].op \in f

Symmetric == Permutations(Requests)
===============================================================================
