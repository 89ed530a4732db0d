--------------------------- MODULE MCPublication ---------------------------
(* Instances of Publication for TLC. *)
EXTENDS Publication

\* A section whose first user expires at time 1, what the expiry batch leaves
\* of it, and the empty section.
MCNodes     == {"empty", "ab", "b"}
MCDisabled  == [n \in MCNodes |-> IF n = "ab" THEN "b" ELSE n]
MCExpiresAt == [n \in MCNodes |-> IF n = "ab" THEN 1 ELSE 9]

\* The classes of steps that fail.
AllFaults      == FaultClasses
FaultsButMark  == FaultClasses \ {"mark"}
NoPrune        == FaultClasses \ {"prune", "mark"}
NoFaults       == {}
=============================================================================
