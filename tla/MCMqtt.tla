------------------------------- MODULE MCMqtt -------------------------------
(***************************************************************************)
(* A switch with two loads under one name, and a meter under another: two  *)
(* names to prime.  The channel has room for both subscriptions and one of *)
(* the two requests.                                                       *)
(***************************************************************************)
EXTENDS MqttProperties

CONSTANTS left, right, meter, gang, hall

MCDevices == {left, right, meter}
MCName == [d \in MCDevices |-> IF d = meter THEN hall ELSE gang]
MCChannel == [d \in MCDevices |-> CASE d = left -> 1 [] d = right -> 2 [] OTHER -> NONE]
MCCapabilities == [d \in MCDevices |-> IF d = meter THEN {"Power"} ELSE {"Switch"}]
=============================================================================
