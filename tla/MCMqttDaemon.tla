---------------------------- MODULE MCMqttDaemon ----------------------------
\* Instances of MqttDaemon for TLC.
EXTENDS MqttDaemon
=============================================================================
