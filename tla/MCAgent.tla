------------------------------- MODULE MCAgent -------------------------------
(* Instances of Agent: one command that restarts the machine and one that   *)
(* does not.                                                                *)
EXTENDS Agent

MCCommands      == {"reboot", "other"}
MCPowerCommands == {"reboot"}
=============================================================================
