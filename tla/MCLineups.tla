------------------------------ MODULE MCLineups -------------------------------
(* Instances of LineupRequests: teams of two in two formations.              *)
EXTENDS LineupRequests, TLC

CONSTANTS r1, r2, r3, p1, p2, p3

Narrow == [f \in Formations |-> IF f = "narrow" THEN {"GK", "ST"} ELSE {"GK", "CB"}]

At(p, s) == [player |-> p, slot |-> s]
Upsert(access, formation, picks) ==
  [op |-> "upsert", access |-> access, formation |-> formation, picks |-> picks]
Drop(access) == [op |-> "delete", access |-> access]

\* Two squads that differ in every way, three that are refused by their form, one
\* that names a slot and a player twice with every slot filled, and deletions.
EditPayloads ==
  {Upsert(TRUE, "narrow", <<At(p1, "GK"), At(p2, "ST")>>),
   Upsert(TRUE, "wide", <<At(p2, "GK"), At(p3, "CB")>>),
   Upsert(TRUE, "narrow", <<At(p1, "GK"), At(p2, "ST"), At(p2, "GK")>>),
   Upsert(TRUE, "narrow", <<At(p1, "GK"), At(p1, "ST")>>),
   Upsert(TRUE, "unknown", <<At(p1, "GK"), At(p2, "ST")>>),
   Upsert(FALSE, "wide", <<At(p1, "GK"), At(p2, "CB")>>),
   Drop(TRUE)}
FewPayloads ==
  {Upsert(TRUE, "narrow", <<At(p1, "GK"), At(p2, "ST")>>), Drop(TRUE)}

Symmetric == Permutations(Requests)
===============================================================================
