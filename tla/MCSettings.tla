----------------------------- MODULE MCSettings -----------------------------
\* Instances of Settings for TLC: a setting of each kind, changed by two clients.
\* The second one has the daemon's own backlog and a client that sends nothing.
EXTENDS Settings

MCSettings == {[key |-> "backend_ds4", to |-> "uhid"], [key |-> "hide_method", to |-> "unbind"]}
MCCommands ==
  {[key |-> "type", to |-> "dualsense"], [key |-> "name_ds4", to |-> "custom"],
   [key |-> "hide_method", to |-> "legacy"], [key |-> "virtual", to |-> "dualsense"], Silence}

SilentCommands == {Silence}
=============================================================================
