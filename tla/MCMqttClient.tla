---------------------------- MODULE MCMqttClient ----------------------------
(* Small instances of MqttClient.                                          *)
EXTENDS MqttClient, TLC

CONSTANTS l1, l2

MCSegments == { <<"CONNACK">>, <<"PUBLISH1", "PUBREL">>, <<"ACK">> }

LinkSymmetry == Permutations(Links)
=============================================================================
