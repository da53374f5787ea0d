------------------------- MODULE MCOpenHABConnector -------------------------
(* Three Resyncs over two device sets, one state change, one admin.       *)
EXTENDS OpenHABConnector
=============================================================================
