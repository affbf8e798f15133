--------------------------- MODULE SerializedFlow ---------------------------
(***************************************************************************)
(* The publishing client's process may die and start again. The endpoint   *)
(* hands every message it stores to the application, which keeps it, and   *)
(* tells it when to remove one (on_serialize_...); a new endpoint is given *)
(* the messages back before it connects (restore_serialized_message). The  *)
(* application's storage is external: one entry for a packet id, written   *)
(* in the callbacks, as in test/system/st_resend_serialize.cpp.            *)
(***************************************************************************)
EXTENDS PublishFlow

CONSTANTS
    ByPacketId,     \* TRUE if messages are restored in the order of their packet ids,
                    \* FALSE if in the order they were first serialized
    Sessionless,    \* TRUE if the application also publishes before it has a session
    MaxRestarts     \* bound: restarts of the client

ASSUME SerializedAssumption ==
    /\ {ByPacketId, Sessionless} \subseteq BOOLEAN
    /\ MaxRestarts \in Nat

VARIABLES
    saved,          \* the application's storage, in the order of its insertions
    restarts        \* restarts so far

serializedVars == <<vars, saved, restarts>>

SerializedInit == Init /\ saved = <<>> /\ restarts = 0

-----------------------------------------------------------------------------
(* The callbacks *)

(* on_serialize_publish_message *)
SavedPublish(e) == Inserted(saved, e)

(* A mutant: the publish is not replaced. *)
SavedPubrelIgnored(p) == saved

(* on_serialize_pubrel_message: it replaces the publish with its packet id. *)
SavedPubrel(p) ==
    [i \in DOMAIN saved |-> IF saved[i].pid = p THEN Entry(p, "pubcomp", saved[i].msg)
                            ELSE saved[i]]

(* on_serialize_remove *)
SavedWithout(p) == SelectSeq(saved, LAMBDA e : e.pid # p)

(* What a handler that finds the message its packet answers has serialized. *)
SavedAt(packet) ==
    IF packet.type \notin Awaited \/ ~Holds(packet.pid, packet.type) THEN saved
    ELSE IF packet.type = "pubrec" /\ ~(V5 /\ IsError(packet.reason)) THEN SavedPubrel(packet.pid)
    ELSE SavedWithout(packet.pid)

-----------------------------------------------------------------------------
(* Restart *)

(* restore_serialized_message, a new endpoint: register_packet_id and store_. *)
Restored ==
    IF ByPacketId THEN SortSeq(saved, LAMBDA e, f : e.pid < f.pid) ELSE saved

(* The process dies and a new endpoint is set up. Dying within a handler is
   dying before it: the callbacks come before anything is written. *)
ClientRestarts ==
    /\ connects < MaxConnects
    /\ restarts < MaxRestarts
    /\ restarts' = restarts + 1
    /\ conn' = "closed"
    /\ store' = Restored
    /\ pids' = {saved[i].pid : i \in DOMAIN saved}
    /\ subInflight' = {} /\ resendPubrel' = {}
    /\ sendCount' = 0 /\ sendQueue' = <<>>
    /\ c2s' = <<>>
    /\ IF conn = "closed" THEN UNCHANGED <<session, handled, received, delivered, s2c>>
       ELSE ReceiverClose
    /\ UNCHANGED <<issued, discarded, saved, bounds>>

SerializedNext ==
    \/ /\ Sessionless \/ session # "none"
       /\ ApplicationPublishes
       /\ saved' = IF Qos[issued'] = 0 THEN saved ELSE SavedPublish(Last(store'))
       /\ UNCHANGED restarts
    \/ ClientReads /\ saved' = SavedAt(Head(s2c)) /\ UNCHANGED restarts
    \/ /\ \/ ApplicationSubscribes \/ ClientConnects \/ BrokerReads
          \/ ConnectionCloses \/ SessionIsDropped
       /\ UNCHANGED <<saved, restarts>>
    \/ ClientRestarts

(* Fairness as in PublishFlow. *)
SerializedSpec ==
    /\ SerializedInit /\ [][SerializedNext]_serializedVars
    /\ WF_serializedVars(BrokerReads /\ UNCHANGED <<saved, restarts>>)
    /\ WF_serializedVars(ClientReads /\ saved' = SavedAt(Head(s2c)) /\ UNCHANGED restarts)
    /\ WF_serializedVars(ClientConnects /\ UNCHANGED <<saved, restarts>>)
=============================================================================
