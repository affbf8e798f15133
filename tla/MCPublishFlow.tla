--------------------------- MODULE MCPublishFlow ----------------------------
EXTENDS PublishFlow

(* QoS of the published messages. *)
Qos22012 == <<2, 2, 0, 1, 2>>
Qos222   == <<2, 2, 2>>

OneDenied == {1}
=============================================================================
