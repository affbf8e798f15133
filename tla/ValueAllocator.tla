--------------------------- MODULE ValueAllocator ---------------------------
(***************************************************************************)
(* value_allocator<T> (value_allocator.hpp): the pool behind packet ids    *)
(* (packet_id_manager.hpp) and topic aliases (topic_alias_send.hpp). The   *)
(* pool is an ordered set of disjoint closed intervals of vacant values,   *)
(* merged and split as values come back and go.                            *)
(***************************************************************************)
EXTENDS Integers

CONSTANTS
    Lowest, Highest,    \* the values the allocator manages
    TypeMax,            \* the largest value of value_type
    Promotes            \* TRUE if value_type is narrower than int, so that
                        \* low() + 1 is computed in int and cannot wrap

ASSUME RangeAssumption == /\ Lowest \in Nat /\ Highest \in Nat /\ TypeMax \in Nat
                          /\ Lowest <= Highest /\ Highest <= TypeMax

ASSUME PromotesAssumption == Promotes \in BOOLEAN

VARIABLES
    pool,   \* pool_: the vacant intervals
    held,   \* the values callers took and did not give back (their ledger)
    last    \* history: the last call, its argument and what it returned

allocatorVars == <<pool, held, last>>

Values == Lowest..Highest

Interval(l, h) == [low |-> l, high |-> h]

(* v + 1, in the type the compiler computes it in. *)
Succ(v) == IF Promotes \/ v < TypeMax THEN v + 1 ELSE 0

(* operator<: neither of two intervals is before the other iff they share a
   value, and then the ordered_unique index takes them for equal. *)
Before(a, b) == a.low < b.low /\ a.high < b.low

Equivalent(a, b) == ~Before(a, b) /\ ~Before(b, a)

(* pool_.emplace: nothing happens if an equivalent interval is there. *)
Emplaced(p, iv) == IF \E e \in p : Equivalent(e, iv) THEN p ELSE p \union {iv}

Vacant(p) == {v \in Values : \E e \in p : e.low <= v /\ v <= e.high}

Whole == {Interval(Lowest, Highest)}

(* What the caller of an operation sees; a bool is given as a set: {} is false. *)
Call(name, arg, result) == [name |-> name, arg |-> arg, result |-> result]

AllocatorInit == pool = Whole /\ held = {} /\ last = Call("clear", {}, {})

-----------------------------------------------------------------------------
(* Operations *)

(* The last element where the code takes the first. *)
RBegin(p) == {e \in p : \A f \in p : e = f \/ Before(f, e)}

(* pool_.begin(), if there is one. *)
Begin(p) == {e \in p : \A f \in p : e = f \/ Before(e, f)}

(* A mutant of WithoutFirst, the comparison off by one: the last value of an interval is
   never given out as a single one. *)
WithoutFirstOffByOne(p, e) ==
    IF Succ(e.low) < e.high
    THEN (p \ {e}) \union {Interval(Succ(e.low), e.high)}
    ELSE p \ {e}

(* A pool from which the first value of e went. *)
WithoutFirst(p, e) ==
    IF Succ(e.low) <= e.high
    THEN (p \ {e}) \union {Interval(Succ(e.low), e.high)}
    ELSE p \ {e}

(* allocate: nullopt if the pool is empty. *)
Allocate ==
    \/ /\ pool = {}
       /\ last' = Call("allocate", {}, {})
       /\ UNCHANGED <<pool, held>>
    \/ \E e \in Begin(pool) :
         /\ pool' = WithoutFirst(pool, e)
         /\ held' = held \union {e.low}
         /\ last' = Call("allocate", {}, {e.low})

(* The intervals on either side of v in the order of the index: upper_bound
   and the element before it. *)
RightOf(p, v) == {e \in p : /\ v < e.low
                            /\ \A f \in p : v < f.low => e.low <= f.low}

LeftOf(p, v) == {e \in p : /\ e.low <= v
                           /\ \A f \in p : f.low <= v => f.low <= e.low}

Adjoining(p, v) == {e \in LeftOf(p, v) : Succ(e.high) = v}
                      \union {e \in RightOf(p, v) : Succ(v) = e.low}

LowOf(p, v) == IF \E e \in LeftOf(p, v) : Succ(e.high) = v
               THEN (CHOOSE e \in LeftOf(p, v) : TRUE).low ELSE v

HighOf(p, v) == IF \E e \in RightOf(p, v) : Succ(v) = e.low
                THEN (CHOOSE e \in RightOf(p, v) : TRUE).high ELSE v

(* A mutant of WithBack that does not look at the right neighbour. *)
WithBackLeftOnly(p, v) ==
    LET left == {e \in LeftOf(p, v) : Succ(e.high) = v}
    IN  Emplaced(p \ left, Interval(LowOf(p, v), v))

(* deallocate's outcome: v merged with the intervals it touches. *)
WithBack(p, v) ==
    Emplaced(p \ Adjoining(p, v), Interval(LowOf(p, v), HighOf(p, v)))

Deallocate(v) ==
    /\ pool' = WithBack(pool, v)
    /\ held' = held \ {v}
    /\ last' = Call("deallocate", {v}, {})

(* use(v): split the interval v lies in. *)
Split(p, e, v) ==
    LET rest  == p \ {e}
        left  == IF e.low < v THEN Emplaced(rest, Interval(e.low, v - 1)) ELSE rest
    IN  IF Succ(v) <= e.high THEN Emplaced(left, Interval(Succ(v), e.high)) ELSE left

(* use: false if no interval contains v. *)
Use(v) ==
    \/ /\ \A e \in pool : ~Equivalent(e, Interval(v, v))
       /\ last' = Call("use", {v}, {})
       /\ UNCHANGED <<pool, held>>
    \/ \E e \in pool :
         /\ Equivalent(e, Interval(v, v))
         /\ pool' = Split(pool, e, v)
         /\ held' = held \union {v}
         /\ last' = Call("use", {v}, {v})

Clear == pool' = Whole /\ held' = {} /\ last' = Call("clear", {}, {})

AllocatorNext ==
    \/ Allocate
    \/ \E v \in Values : Use(v) \/ Deallocate(v)
    \/ Clear

AllocatorSpec == AllocatorInit /\ [][AllocatorNext]_allocatorVars

-----------------------------------------------------------------------------
(* Properties *)

(* Well-formed pools: intervals of managed values, none empty, no two
   overlapping or even touching (two that touch would be one interval, and
   deallocate's search for neighbours relies on it). *)
InRange(p) == p \subseteq [low : Values, high : Values]

Apart(p) == /\ \A e \in p : e.low <= e.high
            /\ \A e, f \in p : e = f \/ e.high + 1 < f.low \/ f.high + 1 < e.low

(* Type invariant: the pool holds intervals of managed values. *)
TypeOK == /\ InRange(pool)
          /\ held \subseteq Values
          /\ last \in [name : {"allocate", "use", "deallocate", "clear"},
                      arg : SUBSET Values, result : SUBSET Values]

(* No sequence of allocate, use, deallocate and clear leaves two intervals
   that overlap or touch. *)
Separated == Apart(pool)

(* A value is vacant exactly when nobody holds it: no packet id is given to
   two messages, and none is lost to the pool, whatever the order of
   allocate, use, deallocate (of a held or a vacant value) and clear. *)
Ledger == Vacant(pool) = Values \ held

(* The intervals implement the plain set of identifiers, call by call: allocate
   returns the lowest vacant value or, only if there is none, nullopt, and use
   returns true exactly for a vacant value. *)
Abstract == INSTANCE IdPool WITH Ids <- Values, used <- held

ImplementsIdPool == Abstract!Spec
=============================================================================
