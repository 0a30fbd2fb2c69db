------------------------------ MODULE MCTools ------------------------------
(* Instances of Tools for TLC.                                             *)
EXTENDS Tools

MCCommands == {"startup", "fix", "reset", "self", "cloud", "off"}

MCPeerSets == {{<<"k1", "a">>, <<"k2", "b">>}, {<<"k1", "b">>}}

EnoJob(tick, len, flag, noise, havoc) ==
  [tick |-> tick, len |-> len, flag |-> flag, noise |-> noise, havoc |-> havoc]
MCJobs == {EnoJob(2, 0, 1, 0, 0), EnoJob(1, 20, 1, 1, 0), EnoJob(2, 6, 1, 0, 0), EnoJob(1, 6, 0, 0, 1)}

MCFolders == {[a |-> "h1", b |-> "h2"], [b |-> "h2"]}

MCServices == {[timeout |-> 4, sub |-> TRUE], [timeout |-> 9, sub |-> FALSE]}

MCConfigs == [name: {"n"}, data: {1, 2, 3}] \cup {[name |-> "m", data |-> 1]}
============================================================================
