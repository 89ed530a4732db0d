------------------------------- MODULE Lease -------------------------------
(***************************************************************************)
(* What internal/operation promises to everything that publishes, replaces *)
(* the core or runs Mihomo: one lease at a time, in all processes of the   *)
(* host.  A lease ends when its holder releases it or its process dies.    *)
(***************************************************************************)
CONSTANT Tasks      \* whoever may ask for the lease
VARIABLE holders    \* the tasks that hold it

Init == holders = {}

Grant == holders = {} /\ \E t \in Tasks : holders' = {t}
End   == holders # {} /\ holders' = {}

Next == Grant \/ End

Spec == Init /\ [][Next]_holders
=============================================================================
