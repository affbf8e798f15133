-------------------------- MODULE MCBrokerSessions --------------------------
(* Instances of BrokerSessions for TLC. *)
EXTENDS BrokerSessions

P(clean, expiry, will, willExpires, request) ==
    [clean |-> clean, expiry |-> expiry, will |-> will, willExpires |-> willExpires,
     request |-> request]

MCParams == {P(TRUE, "zero", "delayed", FALSE, TRUE), P(FALSE, "finite", "delayed", TRUE, TRUE),
             P(FALSE, "finite", "now", FALSE, FALSE), P(TRUE, "finite", "delayed", FALSE, FALSE),
             P(FALSE, "never", "none", FALSE, FALSE), P(FALSE, "zero", "delayed", FALSE, FALSE)}

MCAccounts == [n \in {"u1", "u2"} |-> [method |-> "sha256", secret |-> n]]

(* The right password and a wrong one. *)
MCCredentials == [cert : {"absent"}, name : {"u1"}, password : {"u1", "u2"}]

(* Nothing is allowed but on response topics. *)
MCRules == <<[topic |-> <<"#">>, allow |-> [pub |-> {}, sub |-> {}],
              deny |-> [pub |-> {"@any"}, sub |-> {"@any"}]]>>

MCGroups == <<[name |-> "@any", members |-> {}]>>

MCUuid == <<"r1", "r2", "r3">>
=============================================================================
