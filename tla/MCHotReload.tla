---------------------------- MODULE MCHotReload ----------------------------
(* Two users, two edit requests, two transports, three edits.              *)
EXTENDS HotReload
=============================================================================
