------------------------- MODULE MCStreamKeepalive -------------------------
(* Three sessions compete for two slots; the ticker period, the latency,   *)
(* go2rtc's timeout and the settings are scaled down, their order kept.    *)
EXTENDS StreamKeepalive, TLC

Symmetry == Permutations(Ids) \cup Permutations(Workers)
=============================================================================
