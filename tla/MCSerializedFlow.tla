-------------------------- MODULE MCSerializedFlow --------------------------
EXTENDS SerializedFlow

Qos2012 == <<2, 0, 1, 2>>
OneDenied == {1}
=============================================================================
