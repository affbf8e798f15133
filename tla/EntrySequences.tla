--------------------------- MODULE EntrySequences ---------------------------
(***************************************************************************)
(* The containers of messages that wait for an answer (store.hpp,          *)
(* inflight_message.hpp): sequences in the order of insertion, indexed by  *)
(* packet id. Positions of such a sequence are counted by rank.            *)
(***************************************************************************)
EXTENDS Integers, Sequences, FiniteSets, SequencesExt

NoPid == 0      \* the packet id of a QoS 0 publish

HasPid(s, p) == \E i \in DOMAIN s : s[i].pid = p

(* insert: the packet id is a unique key, and the first one stays. *)
Inserted(s, e) == IF HasPid(s, e.pid) THEN s ELSE Append(s, e)

(* erase, once an entry with the packet id is known to be there. *)
Erased(s, p) == RemoveAt(s, CHOOSE i \in DOMAIN s : s[i].pid = p)

(* How many of the positions come before i. *)
Rank(positions, i) == Cardinality({j \in positions : j < i})

Nth(positions, k) == CHOOSE i \in positions : Rank(positions, i) = k - 1

(* The entries at the given positions, in order. *)
Selected(s, positions) == [k \in 1..Cardinality(positions) |-> s[Nth(positions, k)]]
=============================================================================
