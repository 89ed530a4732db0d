------------------------------- MODULE MCCore -------------------------------
(* Instances of CoreManager for TLC. *)
EXTENDS CoreManager

\* The upstream has another core than the packaged one.
MCBuilds == [ch \in Channels |-> {"b"}]

\* The panel does everything but a bootstrap, which is the command's way out.
PanelOperations == {<<Panel, "check">>, <<Panel, "auto">>, <<Panel, "rollback">>,
                    <<Panel, "settings">>, <<Command, "bootstrap">>}

\* Past the first rename of an activation; old backups are always removed.
ActivationFaults == {"switch", "restart", "commit", "install", "swap", "again",
                     "sentinel", "degrade", "stop"}

\* An operator updates the core while an endpoint change waits.
CommandUpdates == {<<Command, "update">>}
=============================================================================
