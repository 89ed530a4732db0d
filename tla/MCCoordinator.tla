--------------------------- MODULE MCCoordinator ---------------------------
(* An instance of Coordinator for TLC. *)
EXTENDS Coordinator, TLC

CONSTANTS panel, command, t1, t2, t3, t4, t5

\* Three goroutines of the panel and two of a command.
MCHome == t1 :> panel @@ t2 :> panel @@ t3 :> panel @@ t4 :> command @@ t5 :> command
=============================================================================
