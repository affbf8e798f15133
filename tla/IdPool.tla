------------------------------- MODULE IdPool -------------------------------
(***************************************************************************)
(* What value_allocator promises its callers: a set of identifiers, of     *)
(* which some are in use. Taking one always gives the lowest vacant one;   *)
(* naming one takes it if it is vacant; giving one back makes it vacant.   *)
(***************************************************************************)
EXTENDS Integers

CONSTANT Ids

VARIABLES
    used,   \* the identifiers somebody holds
    last    \* the last call: its name, its argument and what it returned

vars == <<used, last>>

(* A call as the caller sees it: argument and result are identifiers, at most
   one each. *)
Call(name, arg, result) == [name |-> name, arg |-> arg, result |-> result]

Init == used = {} /\ last = Call("clear", {}, {})

(* allocate(): the lowest vacant identifier, nullopt if there is none. *)
Take ==
    \/ \E v \in Ids \ used :
         /\ \A w \in Ids \ used : v <= w
         /\ used' = used \union {v}
         /\ last' = Call("allocate", {}, {v})
    \/ /\ Ids \subseteq used
       /\ last' = Call("allocate", {}, {})
       /\ UNCHANGED used

(* use(v): true if v is vacant, and then it is taken. *)
TakeThis(v) ==
    /\ used' = used \union {v}
    /\ last' = Call("use", {v}, {v} \ used)

(* deallocate(v). *)
GiveBack(v) ==
    /\ used' = used \ {v}
    /\ last' = Call("deallocate", {v}, {})

(* clear(). *)
GiveBackAll ==
    /\ used' = {}
    /\ last' = Call("clear", {}, {})

Next == \/ Take
        \/ \E v \in Ids : TakeThis(v) \/ GiveBack(v)
        \/ GiveBackAll

Spec == Init /\ [][Next]_vars
=============================================================================
