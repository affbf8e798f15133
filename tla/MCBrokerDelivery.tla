-------------------------- MODULE MCBrokerDelivery --------------------------
(* Values for the constants of BrokerDelivery. *)
EXTENDS BrokerDelivery

MCQos == <<1, 2, 0, 2, 1, 2>>
MCPids == 1..2
=============================================================================
