--------------------------- MODULE Configuration ---------------------------
(***************************************************************************)
(* What a publication promises to those who look at a panel that has       *)
(* settled: one desired state and one file rendered from it, replaced      *)
(* together, in one step, whatever failed on the way.                      *)
(***************************************************************************)
CONSTANTS
  Renderings,  \* records of a desired state and a file rendered from it
  Blank,       \* the state before the first publication
  Nothing      \* no file has been published
VARIABLES state, file

Init == state = Blank /\ file = Nothing

Publish(r) == state' = r.state /\ file' = r.file

Next == \E r \in Renderings : Publish(r)

Spec == Init /\ [][Next]_<<state, file>>
=============================================================================
