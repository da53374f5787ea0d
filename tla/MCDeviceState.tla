--------------------------- MODULE MCDeviceState ---------------------------
(* Two requests, an inverted range, one reload, and two error rules that   *)
(* share a topic.                                                          *)
EXTENDS DeviceState, TLC

MCRules  == <<[topic |-> "status", value |-> "fault"], [topic |-> "status", value |-> "full"]>>
MCSteps  == {-1, 1}
Symmetry == Permutations(Requests)
=============================================================================
