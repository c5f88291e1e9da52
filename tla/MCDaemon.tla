------------------------------ MODULE MCDaemon ------------------------------
\* Instances of Daemon for TLC: which commands arrive in which run.
EXTENDS Daemon

PhysicalCommands == {<<"release-physical">>, <<"resume-physical">>}
StandaloneCommands == {<<"create-virtual", "dualsense">>, <<"destroy-virtual">>}
NameCommands == {<<"set-name", "ds4", arg>> : arg \in {"custom", "--reset"}}

SafetyCommands == PhysicalCommands \cup StandaloneCommands \cup NameCommands
                    \cup {<<"set-type", t>> : t \in {"ds4", "none"}}
                    \cup {<<"set-backend", "ds4", b>> : b \in Backends}
LivenessCommands == PhysicalCommands \cup StandaloneCommands
=============================================================================
