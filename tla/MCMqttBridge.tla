---------------------------- MODULE MCMqttBridge ----------------------------
(* One topic, two Resyncs and two Reconfigures at a time, a late callback. *)
EXTENDS MqttBridge
=============================================================================
