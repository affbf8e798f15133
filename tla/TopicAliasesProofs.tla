------------------------- MODULE TopicAliasesProofs -------------------------
(***************************************************************************)
(* The allocator topic aliases and packet ids come from, and the two       *)
(* tables of topic aliases.                                                *)
(*                                                                         *)
(* The allocator, for every range of values: as long as value + 1 cannot   *)
(* wrap (NoWrap), the intervals stay apart and in range, the ledger        *)
(* balances, and the allocator implements IdPool.                          *)
(*                                                                         *)
(* Topic aliases, for every set of topics and any number of publishes and  *)
(* connections: as long as nothing is oversized, nothing waits in the      *)
(* queue and the receiver always announces the same maximum, both ends'    *)
(* tables agree about every alias that stands for a topic. TLC shows that  *)
(* none of the three conditions can be left out. That the alias taken from *)
(* a topic is the one used longest ago needs none of them.                 *)
(***************************************************************************)
EXTENDS TopicAliases, ValueAllocator, EntrySequencesProofs

-----------------------------------------------------------------------------
(* The allocator *)

(* What the two-byte packet ids guarantee, and the four-byte ones do not. *)
NoWrap == Promotes \/ Highest < TypeMax

LEMMA SuccIsPlusOne ==
    ASSUME NoWrap, NEW v \in Values
    PROVE  Succ(v) = v + 1
BY RangeAssumption DEF NoWrap, Succ, Values

(* Two intervals the index takes for equal share a value. *)
LEMMA EquivalentMeansOverlap ==
    ASSUME NEW e \in [low : Values, high : Values], e.low <= e.high,
           NEW l \in Values, NEW h \in Values, l <= h
    PROVE  Equivalent(e, Interval(l, h)) <=> (e.low <= h /\ l <= e.high)
BY RangeAssumption DEF Equivalent, Before, Interval, Values

LEMMA AllocateStep ==
    ASSUME NoWrap, NEW p, InRange(p), Apart(p), NEW e \in Begin(p)
    PROVE  /\ InRange(WithoutFirst(p, e))
           /\ Apart(WithoutFirst(p, e))
           /\ e.low \in Vacant(p)
           /\ \A w \in Vacant(p) : e.low <= w
           /\ Vacant(WithoutFirst(p, e)) = Vacant(p) \ {e.low}
<1>1. /\ e \in p /\ e \in [low : Values, high : Values] /\ e.low <= e.high
      /\ Succ(e.low) = e.low + 1
      /\ \A f \in p : e = f \/ e.high < f.low
  BY SuccIsPlusOne DEF Begin, InRange, Apart, Before
<1> DEFINE n == Interval(e.low + 1, e.high)
<1>2. e.low \in Vacant(p) /\ \A w \in Vacant(p) : e.low <= w
  BY <1>1, RangeAssumption DEF Vacant, InRange, Apart, Values
<1>3. CASE e.low + 1 <= e.high
  <2>1. WithoutFirst(p, e) = (p \ {e}) \union {n}
    BY <1>1, <1>3 DEF WithoutFirst
  <2>2. n \in [low : Values, high : Values] /\ n.low = e.low + 1 /\ n.high = e.high
    BY <1>1, <1>3, RangeAssumption DEF Interval, Values
  <2>3. InRange(WithoutFirst(p, e))
    BY <2>1, <2>2 DEF InRange
  <2>4. Apart(WithoutFirst(p, e))
    BY <1>1, <1>3, <2>1, <2>2, RangeAssumption DEF Apart, InRange, Values
  <2>5. Vacant(WithoutFirst(p, e)) = Vacant(p) \ {e.low}
    BY <1>1, <1>3, <2>1, <2>2, RangeAssumption DEF Vacant, Apart, InRange, Values
  <2> QED BY <1>2, <2>3, <2>4, <2>5
<1>4. CASE ~(e.low + 1 <= e.high)
  <2>1. WithoutFirst(p, e) = p \ {e} /\ e.low = e.high
    BY <1>1, <1>4, RangeAssumption DEF WithoutFirst, Values
  <2>2. Vacant(WithoutFirst(p, e)) = Vacant(p) \ {e.low}
    BY <1>1, <2>1, RangeAssumption DEF Vacant, Apart, InRange, Values
  <2> QED BY <1>2, <2>1, <2>2 DEF InRange, Apart
<1> QED BY <1>3, <1>4

(* emplace adds the interval when it overlaps no other. *)
LEMMA EmplacedAdds ==
    ASSUME NEW p, InRange(p), \A e \in p : e.low <= e.high,
           NEW l \in Values, NEW h \in Values, l <= h,
           \A e \in p : e.high < l \/ h < e.low
    PROVE  Emplaced(p, Interval(l, h)) = p \union {Interval(l, h)}
<1>1. \A e \in p : ~Equivalent(e, Interval(l, h))
  BY EquivalentMeansOverlap, RangeAssumption DEF InRange, Values
<1> QED BY <1>1 DEF Emplaced

LEMMA UseStep ==
    ASSUME NoWrap, NEW p, InRange(p), Apart(p), NEW e \in p, NEW v \in Values,
           Equivalent(e, Interval(v, v))
    PROVE  /\ InRange(Split(p, e, v))
           /\ Apart(Split(p, e, v))
           /\ v \in Vacant(p)
           /\ Vacant(Split(p, e, v)) = Vacant(p) \ {v}
<1>1. /\ e \in [low : Values, high : Values] /\ e.low <= v /\ v <= e.high
      /\ Succ(v) = v + 1
      /\ v \in Vacant(p)
  BY SuccIsPlusOne, EquivalentMeansOverlap, RangeAssumption
     DEF InRange, Apart, Vacant, Values
<1> DEFINE rest == p \ {e}
           l    == Interval(e.low, v - 1)
           r    == Interval(v + 1, e.high)
           lefts  == IF e.low < v THEN {l} ELSE {}
           rights == IF v + 1 <= e.high THEN {r} ELSE {}
<1>2. /\ InRange(rest)
      /\ \A f \in rest : f.low <= f.high /\ (f.high + 1 < e.low \/ e.high + 1 < f.low)
  BY DEF InRange, Apart
<1>3. /\ l.low = e.low /\ l.high = v - 1 /\ r.low = v + 1 /\ r.high = e.high
      /\ (e.low < v => l \in [low : Values, high : Values])
      /\ (v + 1 <= e.high => r \in [low : Values, high : Values])
  BY <1>1, RangeAssumption DEF Interval, Values
<1>4. (IF e.low < v THEN Emplaced(rest, l) ELSE rest) = rest \union lefts
  <2>1. CASE e.low < v
    <3>1. v - 1 \in Values /\ e.low \in Values /\ e.low <= v - 1
      BY <1>1, <2>1, RangeAssumption DEF Values
    <3>2. \A f \in rest : f.high < e.low \/ v - 1 < f.low
      BY <1>1, <1>2, RangeAssumption DEF InRange, Values
    <3>3. Emplaced(rest, l) = rest \union {l}
      BY <1>2, <3>1, <3>2, EmplacedAdds
    <3> QED BY <2>1, <3>3
  <2>2. CASE ~(e.low < v)
    BY <2>2
  <2> QED BY <2>1, <2>2
<1>5. Split(p, e, v) = rest \union lefts \union rights
  <2>1. CASE v + 1 <= e.high
    <3>1. v + 1 \in Values /\ e.high \in Values
      BY <1>1, <2>1, RangeAssumption DEF Values
    <3>2. InRange(rest \union lefts) /\ \A f \in rest \union lefts : f.low <= f.high
      BY <1>1, <1>2, <1>3, RangeAssumption DEF InRange, Values
    <3>3. \A f \in rest \union lefts : f.high < v + 1 \/ e.high < f.low
      BY <1>1, <1>2, <1>3, RangeAssumption DEF InRange, Values
    <3>4. Emplaced(rest \union lefts, r) = rest \union lefts \union {r}
      BY <2>1, <3>1, <3>2, <3>3, EmplacedAdds
    <3> QED BY <1>1, <1>4, <2>1, <3>4 DEF Split
  <2>2. CASE ~(v + 1 <= e.high)
    BY <1>1, <1>4, <2>2 DEF Split
  <2> QED BY <2>1, <2>2
<1>6. InRange(Split(p, e, v))
  BY <1>2, <1>3, <1>5 DEF InRange
<1>7. Apart(Split(p, e, v))
  BY <1>1, <1>2, <1>3, <1>5, RangeAssumption DEF Apart, InRange, Values
<1>8. Vacant(Split(p, e, v)) = Vacant(p) \ {v}
  <2>1. \A w \in Values : (\E f \in Split(p, e, v) : f.low <= w /\ w <= f.high)
                           <=> (w # v /\ \E f \in p : f.low <= w /\ w <= f.high)
    BY <1>1, <1>2, <1>3, <1>5, RangeAssumption DEF InRange, Values
  <2> QED BY <2>1 DEF Vacant
<1> QED BY <1>1, <1>6, <1>7, <1>8

(* Giving back a value that is already vacant changes nothing. *)
LEMMA DeallocateVacant ==
    ASSUME NoWrap, NEW p, InRange(p), Apart(p), NEW v \in Values, v \in Vacant(p)
    PROVE  WithBack(p, v) = p
<1>1. PICK e \in p : e.low <= v /\ v <= e.high
  BY DEF Vacant
<1>2. \A f \in p : f \in [low : Values, high : Values] /\ f.low <= f.high
                   /\ Succ(f.high) = f.high + 1
  BY SuccIsPlusOne DEF InRange, Apart
<1>3. \A f \in p : f = e \/ f.high + 1 < e.low \/ e.high + 1 < f.low
  BY DEF Apart
<1>4. LeftOf(p, v) \subseteq {e}
  BY <1>1, <1>2, <1>3, RangeAssumption DEF LeftOf, Values
<1>5. \A f \in RightOf(p, v) : Succ(v) # f.low
  BY <1>1, <1>2, <1>3, SuccIsPlusOne, RangeAssumption DEF RightOf, Values
<1>6. \A f \in LeftOf(p, v) : Succ(f.high) # v
  BY <1>1, <1>2, <1>4, RangeAssumption DEF Values
<1>7. Adjoining(p, v) = {} /\ LowOf(p, v) = v /\ HighOf(p, v) = v
  BY <1>5, <1>6 DEF Adjoining, LowOf, HighOf
<1>8. Equivalent(e, Interval(v, v))
  BY <1>1, <1>2, EquivalentMeansOverlap, RangeAssumption DEF Values
<1> QED BY <1>7, <1>8 DEF WithBack, Emplaced

(* Giving back a held value: it merges with the neighbours it touches. *)
LEMMA DeallocateHeld ==
    ASSUME NoWrap, NEW p, InRange(p), Apart(p), NEW v \in Values, v \notin Vacant(p)
    PROVE  /\ InRange(WithBack(p, v))
           /\ Apart(WithBack(p, v))
           /\ Vacant(WithBack(p, v)) = Vacant(p) \union {v}
<1> DEFINE L == {e \in p : e.high + 1 = v}
           R == {e \in p : v + 1 = e.low}
           lo == LowOf(p, v)
           hi == HighOf(p, v)
           rest == p \ (L \union R)
           n == Interval(lo, hi)
<1>1. /\ \A e \in p : /\ e \in [low : Values, high : Values]
                      /\ e.low <= e.high
                      /\ Succ(e.high) = e.high + 1
                      /\ e.high < v \/ v < e.low
      /\ \A e, f \in p : e = f \/ e.high + 1 < f.low \/ f.high + 1 < e.low
      /\ Succ(v) = v + 1
  BY SuccIsPlusOne, RangeAssumption DEF InRange, Apart, Vacant, Values
<1>2. \A e, f \in LeftOf(p, v) : e = f
  BY <1>1, RangeAssumption DEF LeftOf, Values
<1>3. \A e, f \in RightOf(p, v) : e = f
  BY <1>1, RangeAssumption DEF RightOf, Values
<1>4. L \subseteq LeftOf(p, v) /\ R \subseteq RightOf(p, v)
  BY <1>1, RangeAssumption DEF LeftOf, RightOf, Values
<1>5. L = {e \in LeftOf(p, v) : Succ(e.high) = v}
  BY <1>1, <1>4 DEF LeftOf
<1>6. R = {e \in RightOf(p, v) : Succ(v) = e.low}
  BY <1>1, <1>4 DEF RightOf
<1>7. Adjoining(p, v) = L \union R
  BY <1>5, <1>6 DEF Adjoining
<1>8. /\ L = {} => lo = v
      /\ \A e \in L : lo = e.low
  BY <1>2, <1>4, <1>5 DEF LowOf
<1>9. /\ R = {} => hi = v
      /\ \A e \in R : hi = e.high
  BY <1>3, <1>4, <1>6 DEF HighOf
<1>10. lo \in Values /\ hi \in Values /\ lo <= v /\ v <= hi
  BY <1>1, <1>8, <1>9, RangeAssumption DEF Values
<1>11. /\ InRange(rest)
       /\ \A e \in rest : e.low <= e.high /\ (e.high + 1 < lo \/ hi + 1 < e.low)
  <2>1. \A e \in rest : e.high + 1 < lo \/ v + 1 < e.low
    BY <1>1, <1>8, RangeAssumption DEF Values
  <2>2. \A e \in rest : e.high + 1 < v \/ hi + 1 < e.low
    BY <1>1, <1>9, RangeAssumption DEF Values
  <2>3. \A e \in rest : e.high + 1 < lo \/ hi + 1 < e.low
    BY <1>1, <1>10, <2>1, <2>2, RangeAssumption DEF Values
  <2> QED BY <1>1, <2>3 DEF InRange
<1>12. WithBack(p, v) = rest \union {n}
  <2>1. \A e \in rest : e.high < lo \/ hi < e.low
    BY <1>1, <1>10, <1>11, RangeAssumption DEF Values
  <2>2. lo <= hi /\ \A e \in rest : e.low <= e.high
    BY <1>10, <1>11, RangeAssumption DEF Values
  <2> HIDE DEF rest, lo, hi
  <2>3. Emplaced(rest, n) = rest \union {n}
    BY <1>10, <1>11, <2>1, <2>2, EmplacedAdds
  <2> QED BY <1>7, <2>3 DEF WithBack, rest, lo, hi
<1>13. n \in [low : Values, high : Values] /\ n.low = lo /\ n.high = hi
  BY <1>10 DEF Interval
<1>14. InRange(WithBack(p, v))
  BY <1>11, <1>12, <1>13 DEF InRange
<1>15. Apart(WithBack(p, v))
  BY <1>1, <1>10, <1>11, <1>12, <1>13, RangeAssumption DEF Apart, Values
<1>16. Vacant(WithBack(p, v)) = Vacant(p) \union {v}
  <2>1. \A w \in Values : (lo <= w /\ w <= hi)
          <=> (w = v \/ \E e \in L \union R : e.low <= w /\ w <= e.high)
    <3>1. \A w \in Values : (lo <= w /\ w < v) <=> \E e \in L : e.low <= w /\ w <= e.high
      BY <1>1, <1>8, RangeAssumption DEF Values
    <3>2. \A w \in Values : (v < w /\ w <= hi) <=> \E e \in R : e.low <= w /\ w <= e.high
      BY <1>1, <1>9, RangeAssumption DEF Values
    <3> QED BY <1>10, <3>1, <3>2, RangeAssumption DEF Values
  <2>2. \A w \in Values : (\E e \in WithBack(p, v) : e.low <= w /\ w <= e.high)
          <=> (w = v \/ \E e \in p : e.low <= w /\ w <= e.high)
    BY <1>12, <1>13, <2>1
  <2> QED BY <2>2 DEF Vacant
<1> QED BY <1>14, <1>15, <1>16

LEMMA DeallocateStep ==
    ASSUME NoWrap, NEW p, InRange(p), Apart(p), NEW v \in Values
    PROVE  /\ InRange(WithBack(p, v))
           /\ Apart(WithBack(p, v))
           /\ Vacant(WithBack(p, v)) = Vacant(p) \union {v}
<1>1. CASE v \in Vacant(p)
  BY <1>1, DeallocateVacant
<1>2. CASE v \notin Vacant(p)
  BY <1>2, DeallocateHeld
<1> QED BY <1>1, <1>2

-----------------------------------------------------------------------------
(* The three invariants hold together: each operation needs the pool apart
   to find its interval, and the ledger to know what it takes or returns. *)
AllocatorInv == TypeOK /\ Separated /\ Ledger

LEMMA WholePool ==
    InRange(Whole) /\ Apart(Whole) /\ Vacant(Whole) = Values
BY RangeAssumption DEF InRange, Apart, Vacant, Whole, Interval, Values

LEMMA AllocatorStarts == AllocatorInit => AllocatorInv
BY WholePool DEF AllocatorInit, AllocatorInv, TypeOK, Separated, Ledger, Call

(* The index finds no interval for v exactly when v is not vacant. *)
LEMMA NotFoundMeansHeld ==
    ASSUME NEW p, InRange(p), Apart(p), NEW v \in Values,
           \A e \in p : ~Equivalent(e, Interval(v, v))
    PROVE  v \notin Vacant(p)
BY EquivalentMeansOverlap, RangeAssumption DEF Vacant, InRange, Apart, Values

LEMMA AllocatorStays == NoWrap /\ AllocatorInv /\ [AllocatorNext]_allocatorVars => AllocatorInv'
<1> SUFFICES ASSUME NoWrap, AllocatorInv, [AllocatorNext]_allocatorVars PROVE AllocatorInv'
  OBVIOUS
<1> USE DEF AllocatorInv, TypeOK, Separated, Ledger
<1>1. CASE Allocate
  <2>1. CASE pool = {} /\ last' = Call("allocate", {}, {}) /\ UNCHANGED <<pool, held>>
    BY <2>1 DEF Vacant, Call
  <2>2. ASSUME NEW e \in Begin(pool), pool' = WithoutFirst(pool, e),
               held' = held \union {e.low}, last' = Call("allocate", {}, {e.low})
        PROVE  AllocatorInv'
    BY <2>2, AllocateStep DEF Vacant, Call
  <2> QED BY <1>1, <2>1, <2>2 DEF Allocate
<1>2. ASSUME NEW v \in Values, Use(v) PROVE AllocatorInv'
  <2>1. CASE last' = Call("use", {v}, {}) /\ UNCHANGED <<pool, held>>
    BY <2>1 DEF Vacant, Call
  <2>2. ASSUME NEW e \in pool, Equivalent(e, Interval(v, v)), pool' = Split(pool, e, v),
               held' = held \union {v}, last' = Call("use", {v}, {v})
        PROVE  AllocatorInv'
    BY <2>2, UseStep DEF Call
  <2> QED BY <1>2, <2>1, <2>2 DEF Use
<1>3. ASSUME NEW v \in Values, Deallocate(v) PROVE AllocatorInv'
  BY <1>3, DeallocateStep DEF Deallocate, Call
<1>4. CASE Clear
  BY <1>4, WholePool DEF Clear, Call
<1>5. CASE UNCHANGED allocatorVars
  BY <1>5 DEF allocatorVars, Vacant
<1> QED BY <1>1, <1>2, <1>3, <1>4, <1>5 DEF AllocatorNext

(* value_allocator never corrupts its pool: with two-byte packet ids, no call
   sequence yields touching intervals, gives an id to two holders or loses one. *)
THEOREM PoolSafety ==
    ASSUME NoWrap PROVE AllocatorSpec => [](TypeOK /\ Separated /\ Ledger)
<1>1. AllocatorInv => TypeOK /\ Separated /\ Ledger
  BY DEF AllocatorInv
<1> QED BY <1>1, AllocatorStarts, AllocatorStays, PTL DEF AllocatorSpec

(* No two intervals of the pool overlap or adjoin: deallocate merges with both
   neighbours, so that a value is in one interval and `use` and `allocate` find it
   where the order of the intervals says it is. *)
THEOREM IntervalsStayApart == ASSUME NoWrap PROVE AllocatorSpec => []Separated
<1> QED BY PoolSafety, PTL

LEMMA StepsRefine ==
    NoWrap /\ AllocatorInv /\ [AllocatorNext]_allocatorVars => [Abstract!Next]_<<held, last>>
<1> SUFFICES ASSUME NoWrap, AllocatorInv, [AllocatorNext]_allocatorVars
             PROVE  [Abstract!Next]_<<held, last>>
  OBVIOUS
<1> USE DEF AllocatorInv, TypeOK, Separated, Ledger, Call, Abstract!Call
<1>1. CASE Allocate
  <2>1. CASE pool = {} /\ last' = Call("allocate", {}, {}) /\ UNCHANGED <<pool, held>>
    <3>1. Values \subseteq held
      BY <2>1 DEF Vacant
    <3> QED BY <2>1, <3>1 DEF Abstract!Next, Abstract!Take
  <2>2. ASSUME NEW e \in Begin(pool), held' = held \union {e.low},
               last' = Call("allocate", {}, {e.low})
        PROVE  Abstract!Take
    <3>1. e.low \in Values \ held /\ \A w \in Values \ held : e.low <= w
      BY AllocateStep
    <3> QED BY <2>2, <3>1 DEF Abstract!Take
  <2> QED BY <1>1, <2>1, <2>2 DEF Allocate, Abstract!Next
<1>2. ASSUME NEW v \in Values, Use(v) PROVE Abstract!TakeThis(v)
  <2>1. CASE /\ \A e \in pool : ~Equivalent(e, Interval(v, v))
             /\ last' = Call("use", {v}, {})
             /\ UNCHANGED <<pool, held>>
    <3>1. v \in held
      BY <2>1, NotFoundMeansHeld
    <3>2. {v} \ held = {} /\ held' = held \union {v}
      BY <2>1, <3>1
    <3> QED BY <2>1, <3>2 DEF Abstract!TakeThis
  <2>2. ASSUME NEW e \in pool, Equivalent(e, Interval(v, v)),
               held' = held \union {v}, last' = Call("use", {v}, {v})
        PROVE  Abstract!TakeThis(v)
    <3>1. v \notin held
      BY <2>2, UseStep
    <3>2. {v} \ held = {v}
      BY <3>1
    <3> QED BY <2>2, <3>2 DEF Abstract!TakeThis
  <2> QED BY <1>2, <2>1, <2>2 DEF Use
<1>3. ASSUME NEW v \in Values, Deallocate(v) PROVE Abstract!GiveBack(v)
  BY <1>3 DEF Deallocate, Abstract!GiveBack
<1>4. CASE Clear
  BY <1>4 DEF Clear, Abstract!Next, Abstract!GiveBackAll
<1>5. CASE UNCHANGED allocatorVars
  BY <1>5 DEF allocatorVars
<1> QED BY <1>1, <1>2, <1>3, <1>4, <1>5 DEF AllocatorNext, Abstract!Next

(* The interval pool implements the plain set of identifiers IdPool. *)
THEOREM AllocatorImplementsIdPool ==
    ASSUME NoWrap PROVE AllocatorSpec => ImplementsIdPool
<1>1. AllocatorInit => Abstract!Init
  BY DEF AllocatorInit, Abstract!Init, Call, Abstract!Call
<1> QED BY <1>1, AllocatorStarts, AllocatorStays, StepsRefine, PTL
        DEF AllocatorSpec, ImplementsIdPool, Abstract!Spec, Abstract!vars

-----------------------------------------------------------------------------
(* Tables *)

Entries == [alias : Nat \ {0}, topic : Topics]

Tables == [max : Nat, used : SUBSET (Nat \ {0}), entries : Seq(Entries)]

(* No two entries share the alias or the topic. *)
EntriesApart(entries) ==
    \A i, j \in DOMAIN entries :
        entries[i].alias = entries[j].alias \/ entries[i].topic = entries[j].topic => i = j

(* The aliases of the entries are in use; once one is, there is an entry; and
   without a maximum nothing is ever entered. *)
TableOK(table) ==
    /\ table \in Tables
    /\ EntriesApart(table.entries)
    /\ \A e \in Range(table.entries) : e.alias \in table.used
    /\ table.used # {} => table.entries # <<>>
    /\ table.max = 0 => table = NoTable

LEMMA MembersOf ==
    ASSUME NEW S, NEW s \in Seq(S)
    PROVE  /\ Len(s) \in Nat /\ DOMAIN s = 1..Len(s)
           /\ Range(s) \subseteq S
           /\ \A i \in DOMAIN s : s[i] \in Range(s)
           /\ \A f \in Range(s) : \E i \in DOMAIN s : s[i] = f
<1>1. Len(s) \in Nat /\ DOMAIN s = 1..Len(s) /\ \A i \in 1..Len(s) : s[i] \in S
  BY LenProperties
<1>2. \A f \in Range(s) : \E i \in DOMAIN s : s[i] = f
  BY DEF Range
<1>3. \A i \in DOMAIN s : s[i] \in Range(s)
  BY DEF Range
<1>4. ASSUME NEW f \in Range(s) PROVE f \in S
  BY <1>1, <1>2
<1>5. Range(s) \subseteq S
  BY <1>4
<1> QED BY <1>1, <1>2, <1>3, <1>5

LEMMA RangeAppended ==
    ASSUME NEW S, NEW s \in Seq(S), NEW e \in S
    PROVE  Range(Append(s, e)) = Range(s) \union {e}
BY AfterAppend DEF Range

(* The other entries, in the same order. *)
LEMMA OthersKept ==
    ASSUME NEW table, TableOK(table), NEW alias \in Nat
    PROVE  LET others == Others(table, alias)
           IN  /\ others \in Seq(Entries)
               /\ EntriesApart(others)
               /\ Range(others) = {e \in Range(table.entries) : e.alias # alias}
               /\ \A i, j \in DOMAIN others : i < j =>
                    \E k, l \in DOMAIN table.entries :
                        k < l /\ table.entries[k] = others[i] /\ table.entries[l] = others[j]
<1> DEFINE s == table.entries
           others == Others(table, alias)
<1>1. s \in Seq(Entries) /\ EntriesApart(s)
  BY DEF TableOK, Tables
<1> HIDE DEF s
<1>2. CASE ~HasAlias(table, alias)
  <2>1. others = s
    BY <1>2 DEF Others, s
  <2>2. \A e \in Range(s) : e.alias # alias
    BY <1>2 DEF HasAlias, s
  <2> QED BY <1>1, <2>1, <2>2 DEF s
<1>3. CASE HasAlias(table, alias)
  <2> DEFINE p == PlaceOf(table, alias)
  <2>1. p \in DOMAIN s /\ s[p].alias = alias
    <3>1. \E i \in DOMAIN s : s[i].alias = alias
      BY <1>3 DEF HasAlias, Range, s
    <3> QED BY <3>1 DEF PlaceOf, s
  <2>2. others = RemoveAt(s, p)
    BY <1>3 DEF Others, s
  <2> HIDE DEF p, others
  <2>3. /\ others \in Seq(Entries) /\ DOMAIN others = 1..(Len(s) - 1)
        /\ DOMAIN s = 1..Len(s) /\ Len(s) \in Nat
        /\ \A i \in 1..(Len(s) - 1) : others[i] = IF i < p THEN s[i] ELSE s[i + 1]
    BY <1>1, <2>1, <2>2, AfterRemoveAt
  <2> DEFINE Old(i) == IF i < p THEN i ELSE i + 1
  <2>4. \A i \in DOMAIN others : Old(i) \in DOMAIN s /\ others[i] = s[Old(i)] /\ Old(i) # p
    BY <2>1, <2>3
  <2>5. \A i, j \in DOMAIN others : i < j => Old(i) < Old(j)
    BY <2>1, <2>3
  <2>6. \A k \in DOMAIN s : k # p => \E i \in DOMAIN others : Old(i) = k
    <3> SUFFICES ASSUME NEW k \in DOMAIN s, k # p
                 PROVE  \E i \in DOMAIN others : Old(i) = k
      OBVIOUS
    <3>1. CASE k < p
      <4>1. k \in DOMAIN others /\ Old(k) = k
        BY <2>1, <2>3, <3>1
      <4> QED BY <4>1
    <3>2. CASE k > p
      <4>1. k - 1 \in DOMAIN others /\ Old(k - 1) = k
        BY <2>1, <2>3, <3>2
      <4> QED BY <4>1
    <3> QED BY <2>1, <2>3, <3>1, <3>2
  <2>11. \A i, j \in DOMAIN others : Old(i) = Old(j) => i = j
    BY <2>1, <2>3
  <2> HIDE DEF Old
  <2>7. EntriesApart(others)
    BY <1>1, <2>4, <2>11 DEF EntriesApart
  <2>8. ASSUME NEW e \in Range(others) PROVE e \in Range(s) /\ e.alias # alias
    <3>1. PICK i \in DOMAIN others : others[i] = e
      BY <2>8 DEF Range
    <3>2. Old(i) \in DOMAIN s /\ e = s[Old(i)] /\ Old(i) # p
      BY <2>4, <3>1
    <3> QED BY <1>1, <2>1, <3>2 DEF EntriesApart, Range
  <2>9. ASSUME NEW e \in Range(s), e.alias # alias PROVE e \in Range(others)
    <3>1. PICK k \in DOMAIN s : s[k] = e
      BY DEF Range
    <3>2. PICK i \in DOMAIN others : Old(i) = k
      BY <2>1, <2>6, <2>9, <3>1
    <3> QED BY <2>4, <3>1, <3>2 DEF Range
  <2>10. ASSUME NEW i \in DOMAIN others, NEW j \in DOMAIN others, i < j
         PROVE  \E k, l \in DOMAIN s : k < l /\ s[k] = others[i] /\ s[l] = others[j]
    BY <2>4, <2>5, <2>10
  <2> QED BY <2>3, <2>7, <2>8, <2>9, <2>10 DEF others, s
<1> QED BY <1>2, <1>3

(* insert_or_update *)
LEMMA AfterEntered ==
    ASSUME NEW table, TableOK(table), table.max # 0, NEW topic \in Topics,
           NEW alias \in Nat \ {0}
    PROVE  LET new == Entered(table, topic, alias)
           IN  /\ TableOK(new)
               /\ new.max = table.max
               /\ new.used = table.used \union {alias}
               /\ \A e \in Range(new.entries) :
                    \/ e.alias = alias /\ e.topic = topic
                    \/ e.alias # alias /\ e \in Range(table.entries)
               /\ \/ /\ new.entries = Others(table, alias)
                     /\ \E e \in Range(table.entries) : e.alias # alias /\ e.topic = topic
                  \/ new.entries = Append(Others(table, alias), Entry(alias, topic))
<1> DEFINE new == Entered(table, topic, alias)
           others == Others(table, alias)
           whole == Append(others, Entry(alias, topic))
<1>1. /\ others \in Seq(Entries) /\ EntriesApart(others)
      /\ Range(others) = {e \in Range(table.entries) : e.alias # alias}
  BY OthersKept
<1>2. /\ table \in Tables /\ \A e \in Range(table.entries) : e.alias \in table.used
  BY DEF TableOK
<1>3. /\ new.max = table.max /\ new.used = table.used \union {alias}
      /\ new = [max |-> new.max, used |-> new.used, entries |-> new.entries]
      /\ new.entries = IF HasTopic([table EXCEPT !.entries = others], topic) THEN others
                       ELSE whole
  <2> DEFINE Clash == HasTopic([table EXCEPT !.entries = others], topic)
  <2>1. new = [table EXCEPT !.used = @ \union {alias},
                            !.entries = IF Clash THEN others ELSE whole]
    BY DEF Entered
  <2> HIDE DEF Clash, new, others, whole
  <2>2. /\ new.max = table.max /\ new.used = table.used \union {alias}
        /\ new = [max |-> new.max, used |-> new.used, entries |-> new.entries]
        /\ new.entries = IF Clash THEN others ELSE whole
    BY <1>2, <2>1 DEF Tables
  <2> QED BY <2>2 DEF Clash
<1>4. Entry(alias, topic) \in Entries
  BY DEF Entry, Entries
<1> HIDE DEF others, new
<1>5. CASE HasTopic([table EXCEPT !.entries = others], topic)
  <2>1. new.entries = others
    BY <1>3, <1>5
  <2>2. others # <<>> /\ \E e \in Range(table.entries) : e.alias # alias /\ e.topic = topic
    <3>1. PICK e \in Range(others) : e.topic = topic
      BY <1>2, <1>5 DEF HasTopic, Tables
    <3>2. DOMAIN others # {}
      BY <3>1 DEF Range
    <3> QED BY <1>1, <3>1, <3>2, EmptySeq
  <2>3. new \in Tables
    BY <1>1, <1>2, <1>3, <2>1 DEF Tables
  <2> QED BY <1>1, <1>2, <1>3, <2>1, <2>2, <2>3 DEF TableOK, others, new
<1>6. CASE ~HasTopic([table EXCEPT !.entries = others], topic)
  <2>1. new.entries = whole
    BY <1>3, <1>6
  <2>2. \A e \in Range(others) : e.topic # topic
    BY <1>2, <1>6 DEF HasTopic, Tables
  <2>3. /\ whole \in Seq(Entries)
        /\ DOMAIN whole = DOMAIN others \union {Len(others) + 1}
        /\ Len(others) + 1 \notin DOMAIN others
        /\ \A i \in DOMAIN others : whole[i] = others[i]
        /\ whole[Len(others) + 1] = Entry(alias, topic)
    BY <1>1, <1>4, AfterAppend
  <2> HIDE DEF whole
  <2>4. \A i \in DOMAIN others : others[i] \in Range(others)
    BY DEF Range
  <2>5. EntriesApart(whole)
    BY <1>1, <2>2, <2>3, <2>4 DEF EntriesApart, Entry
  <2>6. \A e \in Range(whole) : e = Entry(alias, topic) \/ e \in Range(others)
    BY <2>3, <2>4 DEF Range
  <2>7. whole # <<>>
    <3>1. DOMAIN whole # {}
      BY <2>3
    <3> QED BY <3>1, EmptySeq
  <2>8. new \in Tables
    BY <1>2, <1>3, <2>1, <2>3 DEF Tables
  <2>9. Entry(alias, topic).alias = alias /\ Entry(alias, topic).topic = topic
    BY DEF Entry
  <2>10. TableOK(new)
    BY <1>1, <1>2, <1>3, <2>1, <2>5, <2>6, <2>7, <2>8, <2>9 DEF TableOK
  <2> QED BY <1>1, <1>2, <1>3, <2>1, <2>6, <2>9, <2>10 DEF whole, others, new
<1> QED BY <1>5, <1>6

(* find(alias) *)
LEMMA AfterTouched ==
    ASSUME NEW table, TableOK(table), NEW alias \in Nat
    PROVE  LET new == Touched(table, alias)
           IN  /\ TableOK(new)
               /\ new.max = table.max
               /\ new.used = table.used
               /\ Range(new.entries) = Range(table.entries)
               /\ \/ new = table /\ ~HasAlias(table, alias)
                  \/ \E e \in Range(table.entries) :
                        e.alias = alias /\ new.entries = Append(Others(table, alias), e)
<1> DEFINE new == Touched(table, alias)
           others == Others(table, alias)
<1>1. CASE ~HasAlias(table, alias)
  BY <1>1 DEF Touched
<1>2. CASE HasAlias(table, alias)
  <2> DEFINE p == PlaceOf(table, alias)
             e == table.entries[p]
             whole == Append(others, e)
  <2>1. /\ table \in Tables /\ table.entries \in Seq(Entries) /\ EntriesApart(table.entries)
        /\ \A f \in Range(table.entries) : f.alias \in table.used
    BY DEF TableOK, Tables
  <2>2. p \in DOMAIN table.entries /\ e.alias = alias
    <3>1. \E i \in DOMAIN table.entries : table.entries[i].alias = alias
      BY <1>2 DEF HasAlias, Range
    <3> QED BY <3>1 DEF PlaceOf
  <2>3. e \in Range(table.entries) /\ e \in Entries
    <3> HIDE DEF p
    <3>1. e \in Range(table.entries)
      BY <2>2 DEF Range
    <3> QED BY <2>1, <3>1, MembersOf
  <2>4. /\ others \in Seq(Entries) /\ EntriesApart(others)
        /\ Range(others) = {f \in Range(table.entries) : f.alias # alias}
    BY OthersKept
  <2>5. new = [table EXCEPT !.entries = whole]
    BY <1>2 DEF Touched
  <2> HIDE DEF others, new, p
  <2>6. /\ whole \in Seq(Entries)
        /\ DOMAIN whole = DOMAIN others \union {Len(others) + 1}
        /\ Len(others) + 1 \notin DOMAIN others
        /\ \A i \in DOMAIN others : whole[i] = others[i]
        /\ whole[Len(others) + 1] = e
    BY <2>3, <2>4, AfterAppend
  <2> HIDE DEF whole, e
  <2>7. \A i \in DOMAIN others : others[i] \in Range(others)
    BY DEF Range
  <2>8. \A f \in Range(table.entries) : f.alias = e.alias \/ f.topic = e.topic => f = e
    BY <2>1, <2>2 DEF EntriesApart, Range, e
  <2>9. \A f \in Range(others) : f.alias # e.alias /\ f.topic # e.topic
    BY <2>2, <2>4, <2>8
  <2>10. EntriesApart(whole)
    BY <2>4, <2>6, <2>7, <2>9 DEF EntriesApart
  <2>11. Range(whole) = Range(others) \union {e}
    BY <2>6 DEF Range
  <2>12. Range(whole) = Range(table.entries)
    BY <2>2, <2>3, <2>4, <2>8, <2>11
  <2>13. new \in Tables /\ new.max = table.max /\ new.used = table.used /\ new.entries = whole
    BY <2>1, <2>5, <2>6 DEF Tables
  <2>14. whole # <<>>
    BY <2>6, EmptySeq
  <2>15. table.max # 0
    <3>1. table.entries # <<>>
      BY <2>2, EmptySeq
    <3> QED BY <3>1 DEF TableOK, NoTable, SendTable
  <2>16. TableOK(new)
    BY <2>1, <2>10, <2>12, <2>13, <2>14, <2>15 DEF TableOK
  <2> QED BY <2>2, <2>3, <2>12, <2>13, <2>16 DEF whole, others, new
<1> QED BY <1>1, <1>2

(* get_lru_alias: one that is vacant, else that of the first entry. *)
LEMMA LruAliasIs ==
    ASSUME NEW table, TableOK(table), table.max # 0
    PROVE  /\ LruAlias(table) \in Nat \ {0}
           /\ \/ LruAlias(table) \in (1..table.max) \ table.used
              \/ /\ table.entries # <<>>
                 /\ LruAlias(table) = table.entries[1].alias
                 /\ table.entries[1] \in Range(table.entries)
<1> DEFINE vacant == (1..table.max) \ table.used
<1>1. table.max \in Nat \ {0} /\ table.entries \in Seq(Entries)
  BY DEF TableOK, Tables
<1>2. CASE vacant # {}
  <2>1. vacant \subseteq Nat
    BY <1>1
  <2>2. LruAlias(table) = CHOOSE a \in vacant : \A b \in vacant : a <= b
    BY <1>2 DEF LruAlias
  <2> HIDE DEF vacant
  <2>3. LruAlias(table) \in vacant
    BY <1>2, <2>1, <2>2, LeastNumber
  <2> QED BY <1>1, <2>3 DEF vacant
<1>3. CASE vacant = {}
  <2>1. 1 \in table.used
    BY <1>1, <1>3
  <2>2. table.entries # <<>>
    BY <2>1 DEF TableOK
  <2>3. /\ Head(table.entries) = table.entries[1] /\ 1 \in DOMAIN table.entries
        /\ table.entries[1] \in Range(table.entries)
    BY <1>1, <2>2, AfterTail, MembersOf
  <2>4. LruAlias(table) = table.entries[1].alias
    BY <1>3, <2>3 DEF LruAlias
  <2>5. table.entries[1] \in Entries
    BY <1>1, <2>3, MembersOf
  <2> QED BY <2>2, <2>3, <2>4, <2>5 DEF Entries
<1> QED BY <1>2, <1>3

-----------------------------------------------------------------------------
(* apply_topic_alias *)

Publishes == [id : Nat, qos : {0, 1}, topic : Topics \union {None}, alias : Nat]

(* The topic m stands for. *)
TopicOf(table, m) == IF m.topic = None THEN TopicFor(table, m.alias) ELSE m.topic

(* What m may be, given the table: it does not make apply_topic_alias throw. *)
Fits(table, m) == m \in Publishes /\ (m.topic = None => HasAlias(table, m.alias))

(* Each of the four cases of apply_topic_alias. *)
LEMMA AppliedCases ==
    ASSUME NEW table, TableOK(table), NEW m, Fits(table, m)
    PROVE  LET r == Applied(m, table)
           IN  \/ r.msg = m /\ r.table = table /\ (m.alias = 0 \/ table = NoTable)
                    /\ m.topic # None
               \/ r.msg = m /\ r.table = Touched(table, m.alias) /\ m.topic = None
               \/ /\ r.msg = m /\ r.table = Entered(table, m.topic, m.alias)
                  /\ m.topic # None /\ m.alias # 0 /\ table # NoTable
               \/ \E e \in Range(table.entries) :
                    /\ e.topic = m.topic /\ m.topic # None /\ table # NoTable
                    /\ r.msg = [m EXCEPT !.topic = None, !.alias = e.alias]
                    /\ r.table = Entered(table, m.topic, e.alias)
               \/ /\ ~HasTopic(table, m.topic) /\ m.topic # None /\ table # NoTable
                  /\ m.alias = 0
                  /\ r.msg = [m EXCEPT !.alias = LruAlias(table)]
                  /\ r.table = Entered(table, m.topic, LruAlias(table))
<1> DEFINE r == Applied(m, table)
<1>1. CASE table = NoTable
  <2>1. m.topic # None
    BY <1>1 DEF Fits, HasAlias, NoTable, SendTable, Range
  <2> QED BY <1>1, <2>1 DEF Applied
<1>2. CASE table # NoTable /\ m.topic = None
  BY <1>2 DEF Applied
<1>3. CASE table # NoTable /\ m.topic # None /\ m.alias # 0
  BY <1>3 DEF Applied
<1>4. CASE /\ table # NoTable /\ m.topic # None /\ m.alias = 0
           /\ mode # "manual" /\ HasTopic(table, m.topic)
  <2> DEFINE e == CHOOSE e \in Range(table.entries) : e.topic = m.topic
  <2>1. e \in Range(table.entries) /\ e.topic = m.topic
    BY <1>4 DEF HasTopic
  <2>2. AliasFor(table, m.topic) = e.alias
    BY DEF AliasFor
  <2> HIDE DEF e
  <2>3. /\ r.msg = [m EXCEPT !.topic = None, !.alias = e.alias]
        /\ r.table = Entered(table, m.topic, e.alias)
    BY <1>4, <2>2 DEF Applied
  <2> QED BY <1>4, <2>1, <2>3
<1>5. CASE /\ table # NoTable /\ m.topic # None /\ m.alias = 0
           /\ ~(mode # "manual" /\ HasTopic(table, m.topic)) /\ mode = "map"
  BY <1>5 DEF Applied
<1>6. CASE /\ table # NoTable /\ m.topic # None /\ m.alias = 0
           /\ ~(mode # "manual" /\ HasTopic(table, m.topic)) /\ mode # "map"
  BY <1>6 DEF Applied
<1> QED BY <1>1, <1>2, <1>3, <1>4, <1>5, <1>6

(* What a table promises of the message that is written, and of itself
   afterwards; B bounds the aliases. *)
LEMMA AppliedKeeps ==
    ASSUME NEW table, TableOK(table), NEW m, Fits(table, m),
           NEW B \in SUBSET (Nat \ {0}), 1..table.max \subseteq B, table.used \subseteq B,
           m.alias \in B \union {0}
    PROVE  LET r == Applied(m, table)
           IN  /\ TableOK(r.table)
               /\ r.table.max = table.max
               /\ r.table.used \subseteq B
               /\ r.msg \in Publishes
               /\ r.msg.id = m.id /\ r.msg.qos = m.qos
               /\ r.msg.alias \in B \union {0}
               /\ r.msg.topic \in {m.topic, None}
               /\ r.msg.topic = None =>
                    \E e \in Range(table.entries) :
                        e.alias = r.msg.alias /\ e.topic = TopicOf(table, m)
               /\ \A e \in Range(r.table.entries) :
                    \/ /\ e \in Range(table.entries)
                       /\ r.msg.alias = e.alias => r.msg.topic = None
                    \/ e.alias = r.msg.alias /\ e.topic = r.msg.topic
<1> DEFINE r == Applied(m, table)
<1>1. /\ table \in Tables /\ table.entries \in Seq(Entries) /\ table.max \in Nat
      /\ EntriesApart(table.entries) /\ \A e \in Range(table.entries) : e.alias \in table.used
      /\ table.max = 0 => table = NoTable
  BY DEF TableOK, Tables
<1>2. \A e \in Range(table.entries) : e \in Entries /\ e.alias \in B /\ e.topic \in Topics
  <2>1. \A e \in Range(table.entries) : e \in Entries
    BY <1>1, MembersOf
  <2>2. \A e \in Entries : e.topic \in Topics
    BY DEF Entries
  <2>3. \A e \in Range(table.entries) : e.alias \in B
    BY <1>1
  <2> QED BY <2>1, <2>2, <2>3
<1>3. m \in Publishes /\ m.alias \in Nat /\ (m.topic # None => m.topic \in Topics)
  BY DEF Fits, Publishes
<1>4. None \notin Topics
  BY AliasAssumption
<1> HIDE DEF r
<1>5. CASE /\ r.msg = m /\ r.table = table /\ (m.alias = 0 \/ table = NoTable)
           /\ m.topic # None
  <2>1. \A e \in Range(table.entries) : m.alias # e.alias
    BY <1>2, <1>5 DEF NoTable, SendTable, Range, Entries
  <2> QED BY <1>3, <1>5, <2>1 DEF r
<1>6. CASE r.msg = m /\ r.table = Touched(table, m.alias) /\ m.topic = None
  <2>1. /\ TableOK(r.table) /\ r.table.max = table.max /\ r.table.used = table.used
        /\ Range(r.table.entries) = Range(table.entries)
    BY <1>3, <1>6, AfterTouched
  <2>2. PICK i \in DOMAIN table.entries : table.entries[i].alias = m.alias
    BY <1>6 DEF Fits, HasAlias, Range
  <2>3. /\ PlaceOf(table, m.alias) \in DOMAIN table.entries
        /\ table.entries[PlaceOf(table, m.alias)].alias = m.alias
    BY <2>2 DEF PlaceOf
  <2>4. /\ table.entries[PlaceOf(table, m.alias)] \in Range(table.entries)
        /\ TopicOf(table, m) = table.entries[PlaceOf(table, m.alias)].topic
    BY <1>1, <1>6, <2>3, MembersOf DEF TopicOf, TopicFor, Fits
  <2> QED BY <1>3, <1>6, <2>1, <2>3, <2>4 DEF r
<1>7. ASSUME NEW a \in B, table # NoTable, m.topic # None,
             r.table = Entered(table, m.topic, a),
             r.msg.alias = a, r.msg \in Publishes, r.msg.id = m.id, r.msg.qos = m.qos,
             \/ r.msg.topic = m.topic
             \/ /\ r.msg.topic = None
                /\ \E e \in Range(table.entries) : e.alias = a /\ e.topic = m.topic
      PROVE  /\ TableOK(r.table)
             /\ r.table.max = table.max
             /\ r.table.used \subseteq B
             /\ r.msg.topic = None =>
                  \E e \in Range(table.entries) :
                      e.alias = r.msg.alias /\ e.topic = TopicOf(table, m)
             /\ \A e \in Range(r.table.entries) :
                  \/ /\ e \in Range(table.entries)
                     /\ r.msg.alias = e.alias => r.msg.topic = None
                  \/ e.alias = r.msg.alias /\ e.topic = r.msg.topic
  <2>1. /\ TableOK(r.table) /\ r.table.max = table.max
        /\ r.table.used = table.used \union {a}
        /\ \A e \in Range(r.table.entries) :
             \/ e.alias = a /\ e.topic = m.topic
             \/ e.alias # a /\ e \in Range(table.entries)
    <3>1. table.max # 0 /\ m.topic \in Topics /\ a \in Nat \ {0}
      BY <1>1, <1>3, <1>7
    <3> QED BY <1>7, <3>1, AfterEntered
  <2>2. \A e \in Range(r.table.entries) : e \in Entries
    BY <2>1, MembersOf DEF TableOK, Tables
  <2>3. CASE r.msg.topic = m.topic
    BY <1>7, <2>1, <2>3
  <2>4. CASE r.msg.topic = None
    <3>1. PICK f \in Range(table.entries) : f.alias = a /\ f.topic = m.topic
      BY <1>7, <2>4
    <3>2. \A e \in Range(r.table.entries) : e.alias = a => e = f
      BY <1>2, <2>1, <2>2, <3>1 DEF Entries
    <3> QED BY <1>7, <2>1, <2>4, <3>1, <3>2 DEF TopicOf
  <2> QED BY <1>7, <2>3, <2>4
<1>8. CASE /\ r.msg = m /\ r.table = Entered(table, m.topic, m.alias)
           /\ m.topic # None /\ m.alias # 0 /\ table # NoTable
  <2>1. m.alias \in B
    BY <1>8
  <2> QED BY <1>3, <1>7, <1>8, <2>1 DEF r
<1>9. ASSUME NEW e \in Range(table.entries),
             e.topic = m.topic, m.topic # None, table # NoTable,
             r.msg = [m EXCEPT !.topic = None, !.alias = e.alias],
             r.table = Entered(table, m.topic, e.alias)
      PROVE  /\ TableOK(r.table)
             /\ r.table.max = table.max
             /\ r.table.used \subseteq B
             /\ r.msg \in Publishes
             /\ r.msg.id = m.id /\ r.msg.qos = m.qos
             /\ r.msg.alias \in B \union {0}
             /\ r.msg.topic \in {m.topic, None}
             /\ r.msg.topic = None =>
                  \E f \in Range(table.entries) :
                      f.alias = r.msg.alias /\ f.topic = TopicOf(table, m)
             /\ \A f \in Range(r.table.entries) :
                  \/ /\ f \in Range(table.entries)
                     /\ r.msg.alias = f.alias => r.msg.topic = None
                  \/ f.alias = r.msg.alias /\ f.topic = r.msg.topic
  <2>1. /\ r.msg \in Publishes /\ r.msg.id = m.id /\ r.msg.qos = m.qos
        /\ r.msg.topic = None /\ r.msg.alias = e.alias /\ e.alias \in B
    BY <1>2, <1>3, <1>9 DEF Publishes, Entries
  <2> QED BY <1>7, <1>9, <2>1
<1>10. CASE /\ m.topic # None /\ table # NoTable
            /\ r.msg = [m EXCEPT !.alias = LruAlias(table)]
            /\ r.table = Entered(table, m.topic, LruAlias(table))
  <2>1. LruAlias(table) \in B /\ LruAlias(table) \in Nat
    BY <1>1, <1>2, <1>10, LruAliasIs
  <2>2. /\ r.msg \in Publishes /\ r.msg.id = m.id /\ r.msg.qos = m.qos
        /\ r.msg.topic = m.topic /\ r.msg.alias = LruAlias(table)
    BY <1>3, <1>10, <2>1 DEF Publishes
  <2> QED BY <1>7, <1>10, <2>1, <2>2 DEF r
<1> QED BY <1>5, <1>6, <1>8, <1>9, <1>10, AppliedCases DEF r

-----------------------------------------------------------------------------
(* The order of use *)

UsesOf(u, alias) == {k \in DOMAIN u : u[k] = alias}

LastIn(u, alias) ==
    IF UsesOf(u, alias) = {} THEN 0
    ELSE CHOOSE k \in UsesOf(u, alias) : \A j \in UsesOf(u, alias) : j <= k

ByUse(entries, u) ==
    \A i, j \in DOMAIN entries :
        i < j => LastIn(u, entries[i].alias) <= LastIn(u, entries[j].alias)

LEMMA LastInIs ==
    ASSUME NEW u \in Seq(Nat), NEW a
    PROVE  /\ LastIn(u, a) \in 0..Len(u)
           /\ UsesOf(u, a) # {} =>
                LastIn(u, a) \in UsesOf(u, a) /\ \A j \in UsesOf(u, a) : j <= LastIn(u, a)
           /\ UsesOf(u, a) = {} => LastIn(u, a) = 0
<1> DEFINE at == UsesOf(u, a)
<1>1. Len(u) \in Nat /\ DOMAIN u = 1..Len(u)
  BY LenProperties
<1>2. at \subseteq 1..Len(u)
  BY <1>1 DEF UsesOf
<1>3. CASE at = {}
  BY <1>1, <1>3 DEF LastIn
<1>4. CASE at # {}
  <2> DEFINE l == CHOOSE k \in at : \A j \in at : j <= k
  <2>1. LastIn(u, a) = l
    BY <1>4 DEF LastIn
  <2> HIDE DEF at
  <2>2. at \subseteq 0..Len(u)
    BY <1>2
  <2>3. \E k \in at : \A j \in at : j <= k
    BY <1>1, <1>4, <2>2, GreatestNumber
  <2>4. l \in at /\ \A j \in at : j <= l
    BY <2>3
  <2> HIDE DEF l
  <2> QED BY <1>1, <1>4, <2>1, <2>2, <2>4 DEF at
<1> QED BY <1>3, <1>4

LEMMA LastInAppended ==
    ASSUME NEW u \in Seq(Nat), NEW a \in Nat
    PROVE  /\ LastIn(Append(u, a), a) = Len(u) + 1
           /\ \A b : b # a => LastIn(Append(u, a), b) = LastIn(u, b)
<1> DEFINE v == Append(u, a)
<1>1. /\ v \in Seq(Nat) /\ Len(v) = Len(u) + 1 /\ Len(u) \in Nat
      /\ DOMAIN v = DOMAIN u \union {Len(u) + 1} /\ DOMAIN u = 1..Len(u)
      /\ \A i \in DOMAIN u : v[i] = u[i]
      /\ v[Len(u) + 1] = a
  BY AfterAppend, LenProperties, AppendProperties
<1> HIDE DEF v
<1>2. LastIn(v, a) = Len(u) + 1
  <2>1. Len(u) + 1 \in UsesOf(v, a)
    BY <1>1 DEF UsesOf
  <2>2. LastIn(v, a) \in 0..(Len(u) + 1) /\ Len(u) + 1 <= LastIn(v, a)
    BY <1>1, <2>1, LastInIs
  <2> QED BY <1>1, <2>2
<1>3. ASSUME NEW b, b # a PROVE LastIn(v, b) = LastIn(u, b)
  <2>1. UsesOf(v, b) = UsesOf(u, b)
    BY <1>1, <1>3 DEF UsesOf
  <2> QED BY <2>1 DEF LastIn
<1> QED BY <1>2, <1>3 DEF v

(* The entry that is entered or looked up goes to the end. *)
LEMMA MovedLast ==
    ASSUME NEW table, TableOK(table), NEW u \in Seq(Nat), ByUse(table.entries, u),
           NEW a \in Nat, NEW entries,
           \/ entries = Others(table, a)
           \/ \E e \in Entries : e.alias = a /\ entries = Append(Others(table, a), e)
    PROVE  ByUse(entries, Append(u, a))
<1> DEFINE others == Others(table, a)
           v == Append(u, a)
<1>1. /\ others \in Seq(Entries)
      /\ Range(others) = {e \in Range(table.entries) : e.alias # a}
      /\ \A i, j \in DOMAIN others : i < j =>
           \E k, l \in DOMAIN table.entries :
               k < l /\ table.entries[k] = others[i] /\ table.entries[l] = others[j]
  <2>1. TableOK(table) /\ a \in Nat
    OBVIOUS
  <2> QED BY <2>1, OthersKept
<1>2. \A i \in DOMAIN others : others[i].alias # a
  BY <1>1, MembersOf
<1>3. /\ LastIn(v, a) = Len(u) + 1
      /\ \A b : b # a => LastIn(v, b) = LastIn(u, b)
      /\ \A b : LastIn(u, b) \in 0..Len(u)
      /\ Len(u) \in Nat
  BY LastInAppended, LastInIs, LenProperties
<1> HIDE DEF others, v
<1>4. ByUse(others, v)
  <2> SUFFICES ASSUME NEW i \in DOMAIN others, NEW j \in DOMAIN others, i < j
               PROVE  LastIn(v, others[i].alias) <= LastIn(v, others[j].alias)
    BY DEF ByUse
  <2>1. PICK k \in DOMAIN table.entries, l \in DOMAIN table.entries :
            k < l /\ table.entries[k] = others[i] /\ table.entries[l] = others[j]
    BY <1>1
  <2>2. LastIn(u, others[i].alias) <= LastIn(u, others[j].alias)
    BY <2>1 DEF ByUse
  <2> QED BY <1>2, <1>3, <2>2
<1>5. ASSUME NEW e \in Entries, e.alias = a, entries = Append(others, e)
      PROVE  ByUse(entries, v)
  <2>1. /\ DOMAIN entries = DOMAIN others \union {Len(others) + 1}
        /\ DOMAIN others = 1..Len(others) /\ Len(others) \in Nat
        /\ \A i \in DOMAIN others : entries[i] = others[i]
        /\ entries[Len(others) + 1] = e
    BY <1>1, <1>5, AfterAppend, LenProperties
  <2>2. ASSUME NEW i \in DOMAIN entries, NEW j \in DOMAIN entries, i < j
        PROVE  LastIn(v, entries[i].alias) <= LastIn(v, entries[j].alias)
    <3>1. i \in DOMAIN others
      BY <2>1, <2>2
    <3>2. CASE j \in DOMAIN others
      BY <1>4, <2>1, <2>2, <3>1, <3>2 DEF ByUse
    <3>3. CASE j = Len(others) + 1
      <4>1. LastIn(v, others[i].alias) = LastIn(u, others[i].alias)
        BY <1>2, <1>3, <3>1
      <4>2. LastIn(u, others[i].alias) \in 0..Len(u)
        BY <1>3
      <4> QED BY <1>3, <1>5, <2>1, <3>1, <3>3, <4>1, <4>2
    <3> QED BY <2>1, <3>2, <3>3
  <2> QED BY <2>2 DEF ByUse
<1> QED BY <1>4, <1>5 DEF others, v

LEMMA AppliedByUse ==
    ASSUME NEW table, TableOK(table), NEW m, Fits(table, m),
           NEW u \in Seq(Nat), ByUse(table.entries, u)
    PROVE  LET r == Applied(m, table)
           IN  /\ Used(u, r.msg.alias) \in Seq(Nat)
               /\ ByUse(r.table.entries, Used(u, r.msg.alias))
<1> DEFINE r == Applied(m, table)
<1>1. /\ table \in Tables /\ table.entries \in Seq(Entries) /\ table.max \in Nat
      /\ table.max = 0 => table = NoTable
  BY DEF TableOK, Tables
<1>2. m \in Publishes /\ m.alias \in Nat /\ (m.topic # None => m.topic \in Topics)
  BY DEF Fits, Publishes
<1> SUFFICES /\ Used(u, r.msg.alias) \in Seq(Nat)
             /\ ByUse(r.table.entries, Used(u, r.msg.alias))
  OBVIOUS
<1> HIDE DEF r
<1>3. ASSUME NEW a \in Nat \ {0}, r.msg.alias = a,
             \/ r.table.entries = Others(table, a)
             \/ \E e \in Entries : e.alias = a /\ r.table.entries = Append(Others(table, a), e)
      PROVE  /\ Used(u, r.msg.alias) \in Seq(Nat)
             /\ ByUse(r.table.entries, Used(u, r.msg.alias))
  <2>1. Used(u, r.msg.alias) = Append(u, a)
    BY <1>3 DEF Used
  <2>2. Append(u, a) \in Seq(Nat)
    BY AppendProperties
  <2>3. ByUse(r.table.entries, Append(u, a))
    BY <1>3, MovedLast
  <2> QED BY <2>1, <2>2, <2>3
<1>4. ASSUME NEW a \in Nat \ {0}, table # NoTable, m.topic # None,
             r.table = Entered(table, m.topic, a), r.msg.alias = a
      PROVE  /\ Used(u, r.msg.alias) \in Seq(Nat)
             /\ ByUse(r.table.entries, Used(u, r.msg.alias))
  <2>1. table.max # 0 /\ m.topic \in Topics
    BY <1>1, <1>2, <1>4
  <2>2. \/ r.table.entries = Others(table, a)
        \/ r.table.entries = Append(Others(table, a), Entry(a, m.topic))
    BY <1>4, <2>1, AfterEntered
  <2>3. Entry(a, m.topic) \in Entries /\ Entry(a, m.topic).alias = a
    BY <2>1 DEF Entry, Entries
  <2> QED BY <1>3, <1>4, <2>2, <2>3
<1>5. CASE /\ r.msg = m /\ r.table = table /\ (m.alias = 0 \/ table = NoTable)
           /\ m.topic # None
  <2>1. CASE m.alias = 0
    BY <1>5, <2>1 DEF Used
  <2>2. CASE m.alias # 0
    <3>1. r.table.entries = <<>>
      BY <1>5, <2>2 DEF NoTable, SendTable
    <3>2. Used(u, r.msg.alias) = Append(u, m.alias)
      BY <1>5, <2>2 DEF Used
    <3>3. Append(u, m.alias) \in Seq(Nat)
      BY <1>2, AppendProperties
    <3> QED BY <3>1, <3>2, <3>3 DEF ByUse
  <2> QED BY <2>1, <2>2
<1>6. CASE r.msg = m /\ r.table = Touched(table, m.alias) /\ m.topic = None
  <2>1. HasAlias(table, m.alias)
    BY <1>6 DEF Fits
  <2>2. PICK e \in Range(table.entries) :
            e.alias = m.alias /\ r.table.entries = Append(Others(table, m.alias), e)
    BY <1>2, <1>6, <2>1, AfterTouched
  <2>3. e \in Entries
    BY <1>1, MembersOf
  <2>4. m.alias \in Nat \ {0}
    BY <2>2, <2>3 DEF Entries
  <2> QED BY <1>3, <1>6, <2>2, <2>3, <2>4
<1>7. CASE /\ r.msg = m /\ r.table = Entered(table, m.topic, m.alias)
           /\ m.topic # None /\ m.alias # 0 /\ table # NoTable
  BY <1>2, <1>4, <1>7
<1>8. ASSUME NEW e \in Range(table.entries),
             e.topic = m.topic, m.topic # None, table # NoTable,
             r.msg = [m EXCEPT !.topic = None, !.alias = e.alias],
             r.table = Entered(table, m.topic, e.alias)
      PROVE  /\ Used(u, r.msg.alias) \in Seq(Nat)
             /\ ByUse(r.table.entries, Used(u, r.msg.alias))
  <2>1. e \in Entries
    BY <1>1, MembersOf
  <2>2. r.msg.alias = e.alias /\ e.alias \in Nat \ {0}
    BY <1>2, <1>8, <2>1 DEF Publishes, Entries
  <2> QED BY <1>4, <1>8, <2>2
<1>9. CASE /\ m.topic # None /\ table # NoTable
           /\ r.msg = [m EXCEPT !.alias = LruAlias(table)]
           /\ r.table = Entered(table, m.topic, LruAlias(table))
  <2>1. LruAlias(table) \in Nat \ {0}
    BY <1>1, <1>9, LruAliasIs
  <2>2. r.msg.alias = LruAlias(table)
    BY <1>2, <1>9 DEF Publishes
  <2> QED BY <1>4, <1>9, <2>1, <2>2
<1> QED BY <1>5, <1>6, <1>7, <1>8, <1>9, AppliedCases DEF r

-----------------------------------------------------------------------------
(* send_store, message by message *)

Stored == [id : Nat, qos : {1}, topic : Topics, alias : Nat]

Sendings == [table : {table \in Tables : TableOK(table)}, msgs : Seq(Publishes),
             uses : Seq(Nat)]

LEMMA StoredFits ==
    ASSUME NEW table, NEW m \in Stored
    PROVE  Fits(table, m) /\ m.topic # None /\ m.alias \in Nat
BY AliasAssumption DEF Stored, Fits, Publishes

LEMMA ResentType ==
    ASSUME NEW r \in Sendings, NEW m \in Stored
    PROVE  Resent(r, m) \in Sendings
<1> DEFINE applied == Applied(m, r.table)
<1>1. TableOK(r.table) /\ r.table \in Tables /\ r.msgs \in Seq(Publishes) /\ r.uses \in Seq(Nat)
  BY DEF Sendings
<1>2. Fits(r.table, m) /\ m.alias \in Nat
  BY StoredFits
<1>3. TableOK(applied.table) /\ applied.msg \in Publishes
  <2> DEFINE B == Nat \ {0}
  <2>1. /\ B \in SUBSET (Nat \ {0}) /\ 1..r.table.max \subseteq B
        /\ r.table.used \subseteq B /\ m.alias \in B \union {0}
    BY <1>1, <1>2 DEF Tables
  <2> HIDE DEF B
  <2> QED BY <1>1, <1>2, <2>1, AppliedKeeps
<1>4. applied.msg.alias \in Nat
  BY <1>3 DEF Publishes
<1> HIDE DEF applied
<1>5. Append(r.msgs, applied.msg) \in Seq(Publishes)
  BY <1>1, <1>3, AppendProperties
<1>6. Used(r.uses, applied.msg.alias) \in Seq(Nat)
  BY <1>1, <1>4, AppendProperties DEF Used
<1>7. applied.table \in Tables
  BY <1>3 DEF TableOK
<1> QED BY <1>3, <1>5, <1>6, <1>7 DEF Resent, Sendings, applied

(* The recursive function is there: its first value and each next one. *)
LEMMA ResendingSteps ==
    ASSUME NEW max \in Nat, TableOK(send), store \in Seq(Stored)
    PROVE  LET R == Resending(max)
           IN  /\ \A k \in 0..Len(store) : R[k] \in Sendings
               /\ R[0] = [table |-> ConnackTable(max), msgs |-> <<>>, uses |-> <<>>]
               /\ \A k \in 1..Len(store) : R[k] = Resent(R[k - 1], store[k])
<1> DEFINE n == Len(store)
           b == [table |-> ConnackTable(max), msgs |-> <<>>, uses |-> <<>>]
           F == [k \in 1..n |-> [r \in Sendings |-> Resent(r, store[k])]]
           Is(g) == g = [k \in 0..n |-> IF k = 0 THEN b ELSE Resent(g[k - 1], store[k])]
<1>1. n \in Nat /\ \A k \in 1..n : store[k] \in Stored
  BY LenProperties
<1>2. TableOK(ConnackTable(max)) /\ ConnackTable(max) \in Tables
  <2>1. CASE max > 0
    <3>1. /\ SendTable(max) \in Tables /\ SendTable(max).max = max
          /\ SendTable(max).used = {} /\ SendTable(max).entries = <<>>
      BY EmptySeq DEF SendTable, Tables
    <3>2. TableOK(SendTable(max))
      BY <2>1, <3>1 DEF TableOK, EntriesApart, Range
    <3> QED BY <2>1, <3>1, <3>2 DEF ConnackTable
  <2>2. CASE ~(max > 0)
    BY <2>2 DEF ConnackTable, TableOK
  <2> QED BY <2>1, <2>2
<1>3. b \in Sendings
  BY <1>2, EmptySeq DEF Sendings
<1>4. F \in [1..n -> [Sendings -> Sendings]]
  BY <1>1, ResentType
<1> HIDE DEF n, b
<1>5. PICK g \in [0..n -> Sendings] : g[0] = b /\ \A k \in 1..n : g[k] = F[k][g[k - 1]]
  <2> HIDE DEF F, Is
  <2>1. PICK g : IsRecursive(g, n, Sendings, b, F)
    BY <1>1, <1>3, <1>4, Recursion
  <2> QED BY <2>1 DEF IsRecursive
<1>6. Is(g)
  <2>1. \A k \in 0..n : k # 0 => k \in 1..n /\ g[k - 1] \in Sendings
    BY <1>1
  <2>2. \A k \in 0..n : k # 0 => F[k][g[k - 1]] = Resent(g[k - 1], store[k])
    BY <2>1
  <2>3. \A k \in 0..n : g[k] = IF k = 0 THEN b ELSE Resent(g[k - 1], store[k])
    <3> HIDE DEF F
    <3> QED BY <1>1, <1>5, <2>1, <2>2
  <2> QED BY <2>3
<1>7. Resending(max) = CHOOSE fn : Is(fn)
  BY DEF Resending, n, b
<1> HIDE DEF Is
<1>8. Is(Resending(max))
  BY <1>6, <1>7
<1> DEFINE R == Resending(max)
<1>9. R = [k \in 0..n |-> IF k = 0 THEN b ELSE Resent(R[k - 1], store[k])]
  BY <1>8 DEF Is
<1> HIDE DEF R
<1>10. R[0] = b
  BY <1>1, <1>9
<1>11. \A k \in 1..n : R[k] = Resent(R[k - 1], store[k])
  BY <1>1, <1>9
<1>12. \A k \in 0..n : R[k] \in Sendings
  <2> DEFINE S == {k \in 0..n : R[k] \in Sendings}
  <2>1. 0 \in S
    BY <1>1, <1>3, <1>10
  <2>2. ASSUME NEW k \in 0..(n - 1), k \in S PROVE k + 1 \in S
    <3>1. k + 1 \in 1..n /\ (k + 1) - 1 = k
      BY <1>1
    <3>2. R[k + 1] = Resent(R[k], store[k + 1])
      BY <1>11, <3>1
    <3>3. R[k + 1] \in Sendings
      BY <1>1, <2>2, <3>1, <3>2, ResentType
    <3> QED BY <1>1, <3>1, <3>3
  <2> HIDE DEF S
  <2>3. 0..n \subseteq S
    BY <1>1, <2>1, <2>2, Induction
  <2> QED BY <2>3 DEF S
<1> QED BY <1>10, <1>11, <1>12 DEF R, n, b

-----------------------------------------------------------------------------
(* Which alias is taken *)

(* The sender's table is in order, and its entries are in the order in which
   their aliases were last used. *)
AliasesInOrder ==
    /\ TableOK(send)
    /\ store \in Seq(Stored)
    /\ meant \in Seq(Topics)
    /\ uses \in Seq(Nat)
    /\ ByUse(send.entries, uses)

LEMMA PublishedFits ==
    ASSUME TableOK(send), meant \in Seq(Topics), NEW m \in Sendable, ~Throws(m)
    PROVE  /\ Fits(send, m) /\ m.alias \in 0..send.max /\ m.id = NewId /\ m.qos \in {0, 1}
           /\ Storable(m).topic = TopicOf(send, m) /\ Storable(m).topic \in Topics
           /\ Storable(m).id = m.id /\ Storable(m).qos = m.qos
           /\ Storable(m).alias = m.alias
           /\ m.qos = 1 => Storable(m) \in Stored
<1>1. send \in Tables /\ send.max \in Nat /\ send.entries \in Seq(Entries)
  BY DEF TableOK, Tables
<1>2. NewId \in Nat
  BY LenProperties DEF NewId
<1>3. /\ m \in Publishes /\ m.alias \in 0..send.max /\ m.id = NewId /\ m.qos \in {0, 1}
      /\ m.topic \in Topics \union {None}
  BY <1>1, <1>2 DEF Sendable, Publishes
<1>4. None \notin Topics
  BY AliasAssumption
<1>5. CASE m.topic # None
  <2>1. Storable(m) = m
    BY <1>5 DEF Storable
  <2> QED BY <1>3, <1>5, <2>1 DEF Fits, TopicOf, Stored, Publishes
<1>6. CASE m.topic = None
  <2>1. TopicFor(send, m.alias) # None
    BY <1>6 DEF Throws
  <2>2. HasAlias(send, m.alias)
    BY <2>1 DEF TopicFor
  <2>3. PICK i \in DOMAIN send.entries : send.entries[i].alias = m.alias
    BY <2>2 DEF HasAlias, Range
  <2> DEFINE e == send.entries[PlaceOf(send, m.alias)]
  <2>4. PlaceOf(send, m.alias) \in DOMAIN send.entries
    BY <2>3 DEF PlaceOf
  <2>5. e \in Range(send.entries)
    BY <1>1, <2>4, MembersOf
  <2>6. TopicFor(send, m.alias) = e.topic
    BY <2>2 DEF TopicFor
  <2> HIDE DEF e
  <2>7. e \in Entries
    BY <1>1, <2>5, MembersOf
  <2>8. e.topic \in Topics
    BY <2>7 DEF Entries
  <2>9. Storable(m) = [m EXCEPT !.topic = TopicFor(send, m.alias)]
    BY <1>6 DEF Storable
  <2> QED BY <1>3, <1>6, <2>2, <2>6, <2>8, <2>9 DEF Fits, TopicOf, Stored, Publishes
<1> QED BY <1>5, <1>6

LEMMA UnacknowledgedIs ==
    ASSUME store \in Seq(Stored), NEW id
    PROVE  /\ Unacknowledged(id) \in Seq(Stored)
           /\ Range(Unacknowledged(id)) \subseteq Range(store)
           /\ Len(Unacknowledged(id)) <= Len(store)
<1> DEFINE s == Unacknowledged(id)
<1>1. CASE ~\E i \in DOMAIN store : store[i].id = id
  <2>1. s = store
    BY <1>1 DEF Unacknowledged
  <2> QED BY <2>1, LenProperties
<1>2. CASE \E i \in DOMAIN store : store[i].id = id
  <2> DEFINE p == CHOOSE i \in DOMAIN store : store[i].id = id
  <2>1. p \in DOMAIN store
    BY <1>2
  <2>2. s = RemoveAt(store, p)
    BY <1>2 DEF Unacknowledged
  <2> HIDE DEF p, s
  <2>3. /\ s \in Seq(Stored) /\ DOMAIN s = 1..(Len(store) - 1)
        /\ DOMAIN store = 1..Len(store) /\ Len(store) \in Nat
        /\ \A i \in 1..(Len(store) - 1) : s[i] = IF i < p THEN store[i] ELSE store[i + 1]
    BY <2>1, <2>2, AfterRemoveAt
  <2>4. \A i \in DOMAIN s : \E j \in DOMAIN store : s[i] = store[j]
    <3> SUFFICES ASSUME NEW i \in DOMAIN s PROVE \E j \in DOMAIN store : s[i] = store[j]
      OBVIOUS
    <3>1. i \in DOMAIN store /\ i + 1 \in DOMAIN store
      BY <2>3
    <3> QED BY <2>3, <3>1
  <2>5. Range(s) \subseteq Range(store)
    BY <2>4 DEF Range
  <2>6. Len(s) <= Len(store)
    BY <2>1, <2>3, LenProperties
  <2> QED BY <2>3, <2>5, <2>6 DEF s
<1> QED BY <1>1, <1>2

LEMMA PublishInOrder ==
    ASSUME AliasesInOrder, NEW m \in Sendable, NEW oversized, Publish(m, oversized)
    PROVE  AliasesInOrder'
<1> DEFINE applied == Applied(m, send)
<1>1. /\ TableOK(send) /\ send \in Tables /\ store \in Seq(Stored) /\ meant \in Seq(Topics)
      /\ uses \in Seq(Nat) /\ ByUse(send.entries, uses)
  BY DEF AliasesInOrder, TableOK
<1>2. /\ ~Throws(m) /\ send' = applied.table /\ uses' = Used(uses, applied.msg.alias)
      /\ meant' = Append(meant, Storable(m).topic)
      /\ \/ store' = store
         \/ m.qos # 0 /\ store' = Append(store, Storable(m))
  BY DEF Publish
<1>3. /\ Fits(send, m) /\ Storable(m).topic \in Topics /\ m.qos \in {0, 1}
      /\ m.alias \in Nat
      /\ m.qos = 1 => Storable(m) \in Stored
  <2>1. m.alias \in 0..send.max /\ send.max \in Nat
    BY <1>1, <1>2, PublishedFits DEF Tables
  <2> QED BY <1>1, <1>2, <2>1, PublishedFits
<1>4. TableOK(applied.table)
  <2> DEFINE B == Nat \ {0}
  <2>1. /\ B \in SUBSET (Nat \ {0}) /\ 1..send.max \subseteq B
        /\ send.used \subseteq B /\ m.alias \in B \union {0}
    BY <1>1, <1>3 DEF Tables
  <2> HIDE DEF B
  <2> QED BY <1>1, <1>3, <2>1, AppliedKeeps
<1>5. /\ Used(uses, applied.msg.alias) \in Seq(Nat)
      /\ ByUse(applied.table.entries, Used(uses, applied.msg.alias))
  <2>1. /\ TableOK(send) /\ Fits(send, m) /\ uses \in Seq(Nat) /\ ByUse(send.entries, uses)
    BY <1>1, <1>3
  <2> QED BY <2>1, AppliedByUse
<1> HIDE DEF applied
<1>6. store' \in Seq(Stored)
  <2>1. CASE store' = store
    BY <1>1, <2>1
  <2>2. CASE m.qos # 0 /\ store' = Append(store, Storable(m))
    <3>1. Storable(m) \in Stored
      BY <1>3, <2>2
    <3> QED BY <1>1, <2>2, <3>1, AppendProperties
  <2> QED BY <1>2, <2>1, <2>2
<1>7. meant' \in Seq(Topics)
  <2>1. Storable(m).topic \in Topics /\ meant \in Seq(Topics)
    BY <1>1, <1>3
  <2>2. meant' = Append(meant, Storable(m).topic)
    BY <1>2
  <2> QED BY <2>1, <2>2, AppendProperties
<1> QED BY <1>2, <1>4, <1>5, <1>6, <1>7 DEF AliasesInOrder

LEMMA ConnectInOrder ==
    ASSUME AliasesInOrder, NEW max \in Nat, Connect(max)
    PROVE  AliasesInOrder'
<1> DEFINE R == Resending(max)
           n == Len(store)
<1>1. /\ TableOK(send) /\ store \in Seq(Stored) /\ meant \in Seq(Topics)
      /\ n \in Nat /\ \A k \in 1..n : store[k] \in Stored
  BY LenProperties DEF AliasesInOrder
<1>2. /\ \A k \in 0..n : R[k] \in Sendings
      /\ R[0] = [table |-> ConnackTable(max), msgs |-> <<>>, uses |-> <<>>]
      /\ \A k \in 1..n : R[k] = Resent(R[k - 1], store[k])
  BY <1>1, ResendingSteps
<1>3. send' = R[n].table /\ uses' = R[n].uses /\ UNCHANGED <<store, meant>>
  BY DEF Connect
<1> HIDE DEF R, n
<1> DEFINE S == {k \in 0..n : ByUse(R[k].table.entries, R[k].uses)}
<1>4. 0 \in S
  <2>1. R[0].uses = <<>> /\ R[0] \in Sendings
    BY <1>1, <1>2
  <2>2. DOMAIN R[0].uses = {}
    BY <2>1
  <2>3. \A a : LastIn(R[0].uses, a) = 0
    BY <2>2 DEF LastIn, UsesOf
  <2> QED BY <1>1, <2>3 DEF ByUse
<1>5. ASSUME NEW k \in 0..(n - 1), k \in S PROVE k + 1 \in S
  <2>1. k + 1 \in 1..n /\ (k + 1) - 1 = k /\ k \in 0..n
    BY <1>1
  <2>2. R[k + 1] = Resent(R[k], store[k + 1]) /\ store[k + 1] \in Stored /\ R[k] \in Sendings
    BY <1>1, <1>2, <2>1
  <2> DEFINE applied == Applied(store[k + 1], R[k].table)
  <2>3. R[k + 1].table = applied.table /\ R[k + 1].uses = Used(R[k].uses, applied.msg.alias)
    BY <2>2 DEF Resent
  <2>4. /\ TableOK(R[k].table) /\ R[k].uses \in Seq(Nat) /\ Fits(R[k].table, store[k + 1])
        /\ ByUse(R[k].table.entries, R[k].uses)
    BY <1>5, <2>2, StoredFits DEF Sendings
  <2>5. ByUse(R[k + 1].table.entries, R[k + 1].uses)
    BY <2>3, <2>4, AppliedByUse
  <2> QED BY <2>1, <2>5
<1>6. n \in S
  <2> HIDE DEF S
  <2>1. 0..n \subseteq S
    BY <1>1, <1>4, <1>5, Induction
  <2> QED BY <1>1, <2>1
<1>7. TableOK(R[n].table) /\ R[n].uses \in Seq(Nat)
  BY <1>1, <1>2 DEF Sendings
<1> QED BY <1>1, <1>3, <1>6, <1>7 DEF AliasesInOrder

LEMMA InOrderStep ==
    ASSUME AliasesInOrder, [Next]_vars
    PROVE  AliasesInOrder'
<1>1. CASE UNCHANGED vars
  BY <1>1 DEF AliasesInOrder, vars
<1>2. ASSUME NEW m \in Sendable, NEW oversized \in Oversized, Publish(m, oversized)
      PROVE  AliasesInOrder'
  BY <1>2, PublishInOrder
<1>3. CASE ReceivePuback
  <2>1. store' \in Seq(Stored)
    BY <1>3, UnacknowledgedIs DEF ReceivePuback, AliasesInOrder
  <2> QED BY <1>3, <2>1 DEF ReceivePuback, AliasesInOrder
<1>4. CASE ReceivePublish
  BY <1>4 DEF ReceivePublish, AliasesInOrder
<1>5. CASE Break
  BY <1>5 DEF Break, AliasesInOrder
<1>6. ASSUME NEW max \in Maxima, Connect(max)
      PROVE  AliasesInOrder'
  <2>1. max \in Nat
    BY AliasAssumption
  <2> QED BY <1>6, <2>1, ConnectInOrder
<1> QED BY <1>1, <1>2, <1>3, <1>4, <1>5, <1>6 DEF Next

LEMMA InOrderInit ==
    ASSUME Init
    PROVE  AliasesInOrder
<1>1. /\ send = NoTable /\ NoTable.max = 0 /\ NoTable.used = {} /\ NoTable.entries = <<>>
      /\ NoTable = [max |-> 0, used |-> {}, entries |-> <<>>]
      /\ store = <<>> /\ meant = <<>> /\ uses = <<>>
  BY DEF Init, NoTable, SendTable
<1>2. NoTable \in Tables
  BY <1>1, EmptySeq DEF Tables
<1>3. DOMAIN NoTable.entries = {} /\ Range(NoTable.entries) = {}
  BY <1>1 DEF Range
<1>4. TableOK(send)
  BY <1>1, <1>2, <1>3 DEF TableOK, EntriesApart
<1>5. ByUse(send.entries, uses)
  BY <1>1, <1>3 DEF ByUse
<1> QED BY <1>1, <1>4, <1>5, EmptySeq DEF AliasesInOrder

LEMMA TopicForIs ==
    ASSUME NEW table, TableOK(table), NEW e \in Range(table.entries)
    PROVE  TopicFor(table, e.alias) = e.topic
<1>1. PICK i \in DOMAIN table.entries : table.entries[i] = e
  BY DEF Range
<1>2. EntriesApart(table.entries) /\ HasAlias(table, e.alias)
  BY DEF TableOK, HasAlias
<1>3. /\ PlaceOf(table, e.alias) \in DOMAIN table.entries
      /\ table.entries[PlaceOf(table, e.alias)].alias = e.alias
  BY <1>1 DEF PlaceOf
<1>4. PlaceOf(table, e.alias) = i
  BY <1>1, <1>2, <1>3 DEF EntriesApart
<1> QED BY <1>1, <1>2, <1>4 DEF TopicFor

(* An entry of another alias is not affected; nor is the one entered, if no
   other has the topic. *)
LEMMA EnteredOthers ==
    ASSUME NEW table, TableOK(table), table.max # 0, NEW topic \in Topics,
           NEW alias \in Nat \ {0}, NEW e \in Range(table.entries),
           e.alias # alias \/ e.topic = topic
    PROVE  TopicFor(Entered(table, topic, alias), e.alias) = e.topic
<1> DEFINE new == Entered(table, topic, alias)
           others == Others(table, alias)
<1>1. /\ others \in Seq(Entries)
      /\ Range(others) = {f \in Range(table.entries) : f.alias # alias}
  BY OthersKept
<1>2. /\ TableOK(new)
      /\ \/ /\ new.entries = others
            /\ \E f \in Range(table.entries) : f.alias # alias /\ f.topic = topic
         \/ new.entries = Append(others, Entry(alias, topic))
  BY AfterEntered
<1>3. EntriesApart(table.entries) /\ table.entries \in Seq(Entries)
  BY DEF TableOK, Tables
<1>4. \A f \in Range(table.entries) : f.topic = e.topic => f = e
  BY <1>3 DEF EntriesApart, Range
<1>5. e \in Entries
  BY <1>3, MembersOf
<1>6. Entry(alias, topic) \in Entries
  BY DEF Entry, Entries
<1> HIDE DEF others, new
<1>7. e \in Range(new.entries)
  <2>1. CASE new.entries = others /\ \E f \in Range(table.entries) : f.alias # alias /\ f.topic = topic
    BY <1>1, <1>4, <2>1
  <2>2. CASE new.entries = Append(others, Entry(alias, topic))
    <3>1. Range(new.entries) = Range(others) \union {Entry(alias, topic)}
      BY <1>1, <1>6, <2>2, AfterAppend DEF Range
    <3>2. CASE e.alias # alias
      BY <1>1, <3>1, <3>2
    <3>3. CASE e.alias = alias
      <4>1. e = Entry(alias, topic)
        BY <1>5, <3>3 DEF Entries, Entry
      <4> QED BY <3>1, <4>1
    <3> QED BY <3>2, <3>3
  <2> QED BY <1>2, <2>1, <2>2
<1>8. TopicFor(new, e.alias) = e.topic
  BY <1>2, <1>7, TopicForIs
<1> QED BY <1>8 DEF new

(* The only publish without an alias that takes one from a topic is one whose
   alias get_lru_alias finds in the first entry. *)
LEMMA TakesFirst ==
    ASSUME AliasesInOrder, NEW m \in Sendable, m.alias = 0, Publish(m, FALSE),
           NEW e \in Range(send.entries), TopicFor(send', e.alias) # e.topic
    PROVE  1 \in DOMAIN send.entries /\ e = send.entries[1]
<1> DEFINE r == Applied(m, send)
<1>1. /\ TableOK(send) /\ send \in Tables /\ send.entries \in Seq(Entries)
      /\ EntriesApart(send.entries) /\ meant \in Seq(Topics)
      /\ \A f \in Range(send.entries) : f.alias \in send.used
      /\ send.max = 0 => send = NoTable
  BY DEF AliasesInOrder, TableOK, Tables
<1>2. ~Throws(m) /\ send' = r.table
  BY DEF Publish
<1>3. m.topic # None
  BY <1>2 DEF Throws
<1>4. Fits(send, m) /\ m \in Publishes /\ m.topic \in Topics
  BY <1>1, <1>2, <1>3, PublishedFits DEF Fits, Publishes
<1>5. send.max # 0
  BY <1>1 DEF NoTable, SendTable, Range
<1>6. TopicFor(send, e.alias) = e.topic
  BY <1>1, TopicForIs
<1>7. r.table # send
  BY <1>2, <1>6
<1> HIDE DEF r
<1>8. ASSUME NEW f \in Range(send.entries), f.topic = m.topic,
             r.table = Entered(send, m.topic, f.alias)
      PROVE  FALSE
  <2>1. f \in Entries
    BY <1>1, MembersOf
  <2>2. f.alias \in Nat \ {0}
    BY <2>1 DEF Entries
  <2>3. e.alias # f.alias \/ e.topic = m.topic
    BY <1>1, <1>8 DEF EntriesApart, Range
  <2> QED BY <1>1, <1>2, <1>4, <1>5, <1>8, <2>2, <2>3, EnteredOthers
<1>9. CASE r.table = Entered(send, m.topic, LruAlias(send))
  <2>1. LruAlias(send) \in Nat \ {0}
    BY <1>1, <1>5, LruAliasIs
  <2>2. e.alias = LruAlias(send)
    BY <1>1, <1>2, <1>4, <1>5, <1>9, <2>1, EnteredOthers
  <2>3. LruAlias(send) \in send.used
    BY <1>1, <2>2
  <2>4. send.entries # <<>> /\ e.alias = send.entries[1].alias
    BY <1>1, <1>5, <2>2, <2>3, LruAliasIs
  <2>5. 1 \in DOMAIN send.entries
    BY <1>1, <2>4, AfterTail
  <2> QED BY <1>1, <2>4, <2>5 DEF EntriesApart, Range
<1> QED BY <1>1, <1>3, <1>4, <1>7, <1>8, <1>9, AppliedCases DEF r

LEMMA OldestStep ==
    ASSUME AliasesInOrder
    PROVE  (\E m \in Sendable : m.alias = 0 /\ Publish(m, FALSE)) =>
              \A e \in Range(send.entries) :
                  TopicFor(send', e.alias) # e.topic =>
                      \A f \in Range(send.entries) : LastUse(e.alias) <= LastUse(f.alias)
<1> SUFFICES ASSUME NEW m \in Sendable, m.alias = 0, Publish(m, FALSE),
                    NEW e \in Range(send.entries), TopicFor(send', e.alias) # e.topic,
                    NEW f \in Range(send.entries)
             PROVE  LastUse(e.alias) <= LastUse(f.alias)
  OBVIOUS
<1>1. 1 \in DOMAIN send.entries /\ e = send.entries[1]
  BY TakesFirst
<1>2. send.entries \in Seq(Entries) /\ ByUse(send.entries, uses) /\ uses \in Seq(Nat)
  BY DEF AliasesInOrder, TableOK, Tables
<1>3. PICK j \in DOMAIN send.entries : send.entries[j] = f
  BY <1>2, MembersOf
<1>4. j \in Nat /\ 1 <= j
  BY <1>2, LenProperties
<1>5. \A a : LastUse(a) = LastIn(uses, a)
  BY DEF LastUse, LastIn, UsesOf
<1>6. \A a : LastIn(uses, a) \in Nat
  BY <1>2, LastInIs, LenProperties
<1>7. CASE j = 1
  BY <1>1, <1>3, <1>5, <1>6, <1>7
<1>8. CASE 1 < j
  BY <1>1, <1>2, <1>3, <1>5, <1>8 DEF ByUse
<1> QED BY <1>4, <1>7, <1>8

(* A publish without an alias takes one from another topic only if that one
   was used longest ago: the index of topic_alias_send on time is in the order
   of use, through every entry, lookup, reconnection and resending, whatever
   the maxima and although a publish may be refused after it has its alias. *)
THEOREM OldestIsEvicted == Spec => EvictsOldest
<1>1. Init => AliasesInOrder
  BY InOrderInit
<1>2. AliasesInOrder /\ [Next]_vars => AliasesInOrder'
  BY InOrderStep
<1> DEFINE Oldest ==
        (\E m \in Sendable : m.alias = 0 /\ Publish(m, FALSE)) =>
            \A e \in Range(send.entries) :
                TopicFor(send', e.alias) # e.topic =>
                    \A f \in Range(send.entries) : LastUse(e.alias) <= LastUse(f.alias)
<1>3. AliasesInOrder => Oldest
  BY OldestStep
<1>4. EvictsOldest <=> [][Oldest]_vars
  BY DEF EvictsOldest
<1> HIDE DEF Oldest
<1> QED BY <1>1, <1>2, <1>3, <1>4, PTL DEF Spec

-----------------------------------------------------------------------------
(* What the receiver will know *)

(* Once it has read the first n - 1 packets of w, the receiver, which knows
   the aliases in known now, has t for alias a. *)
StillIs(w, i, n, a, t) ==
    \A k \in i..(n - 1) : w[k].alias = a => w[k].topic \in {None, t}

KnownBefore(known, w, n, a, t) ==
    \/ \E i \in 1..(n - 1) : w[i].alias = a /\ w[i].topic = t /\ StillIs(w, i + 1, n, a, t)
    \/ a \in DOMAIN known /\ known[a] = t /\ StillIs(w, 1, n, a, t)

LEMMA KnownPrefix ==
    ASSUME NEW w \in Seq(Publishes), NEW m \in Publishes, NEW n \in 1..(Len(w) + 1),
           NEW known, NEW a, NEW t, KnownBefore(known, w, n, a, t)
    PROVE  KnownBefore(known, Append(w, m), n, a, t)
<1> DEFINE v == Append(w, m)
<1>1. Len(w) \in Nat /\ \A i \in 1..Len(w) : v[i] = w[i]
  BY AppendProperties, LenProperties
<1> HIDE DEF v
<1>2. \A i \in 1..(n - 1) : v[i] = w[i] /\ i + 1 \in Nat
  BY <1>1
<1>3. \A i \in Nat \ {0} : StillIs(w, i, n, a, t) => StillIs(v, i, n, a, t)
  BY <1>2 DEF StillIs
<1>4. StillIs(w, 1, n, a, t) => StillIs(v, 1, n, a, t)
  BY <1>3
<1>5. \A i \in 1..(n - 1) : StillIs(w, i + 1, n, a, t) => StillIs(v, i + 1, n, a, t)
  BY <1>3
<1>6. KnownBefore(known, v, n, a, t)
  BY <1>2, <1>4, <1>5 DEF KnownBefore
<1> QED BY <1>6 DEF v

LEMMA KnownNext ==
    ASSUME NEW w \in Seq(Publishes), NEW m \in Publishes,
           NEW known, NEW a, NEW t, KnownBefore(known, w, Len(w) + 1, a, t),
           m.alias = a => m.topic \in {None, t}
    PROVE  KnownBefore(known, Append(w, m), Len(w) + 2, a, t)
<1> DEFINE v == Append(w, m)
           n == Len(w) + 1
<1>1. Len(w) \in Nat /\ (\A i \in 1..Len(w) : v[i] = w[i]) /\ v[n] = m
  BY AppendProperties, LenProperties
<1>2. n \in Nat /\ n - 1 = Len(w) /\ Len(w) + 2 = n + 1 /\ 1 <= n
  BY <1>1
<1>7. KnownBefore(known, v, n, a, t)
  BY <1>1, KnownPrefix
<1> HIDE DEF v, n
<1>3. \A i \in 1..n : StillIs(v, i, n, a, t) => StillIs(v, i, n + 1, a, t)
  <2>1. SUFFICES ASSUME NEW i \in 1..n, StillIs(v, i, n, a, t), NEW k \in i..n, v[k].alias = a
                 PROVE  v[k].topic \in {None, t}
    BY <1>2 DEF StillIs
  <2>2. CASE k = n
    BY <1>1, <2>1, <2>2
  <2>3. CASE k # n
    BY <1>2, <2>1, <2>3 DEF StillIs
  <2> QED BY <2>2, <2>3
<1>4. \A i \in 1..(n - 1) : i \in 1..n /\ i + 1 \in 1..n
  BY <1>2
<1>5. 1 \in 1..n /\ 1..(n - 1) \subseteq 1..((n + 1) - 1)
  BY <1>2
<1>6. KnownBefore(known, v, n + 1, a, t)
  BY <1>3, <1>4, <1>5, <1>7 DEF KnownBefore
<1> QED BY <1>2, <1>6 DEF v, n

LEMMA KnownEntered ==
    ASSUME NEW w \in Seq(Publishes), NEW m \in Publishes, NEW known
    PROVE  KnownBefore(known, Append(w, m), Len(w) + 2, m.alias, m.topic)
<1> DEFINE v == Append(w, m)
           n == Len(w) + 1
<1>1. Len(w) \in Nat /\ v[n] = m
  BY AppendProperties, LenProperties
<1> HIDE DEF v
<1>2. n \in 1..((Len(w) + 2) - 1)
  BY <1>1
<1>3. StillIs(v, n + 1, Len(w) + 2, m.alias, m.topic)
  BY <1>1 DEF StillIs
<1>4. KnownBefore(known, v, Len(w) + 2, m.alias, m.topic)
  BY <1>1, <1>2, <1>3 DEF KnownBefore
<1> QED BY <1>4 DEF v

(* The receiver reads the first packet. *)
LEMMA KnownTail ==
    ASSUME NEW w \in Seq(Publishes), w # <<>>, NEW n \in 2..(Len(w) + 1),
           NEW recvNow, NEW a \in Nat \ {0}, NEW t \in Topics,
           KnownBefore(recvNow.topics, w, n, a, t),
           recvNow = [max |-> recvNow.max, topics |-> recvNow.topics],
           NEW recvThen,
           recvThen = IF w[1].topic = None \/ w[1].alias = 0 THEN recvNow
                      ELSE Received(recvNow, w[1].topic, w[1].alias)
    PROVE  KnownBefore(recvThen.topics, Tail(w), n - 1, a, t)
<1> DEFINE v == Tail(w)
           known == recvNow.topics
           then == recvThen.topics
<1>1. /\ Len(w) \in Nat \ {0} /\ \A i \in 1..(Len(w) - 1) : v[i] = w[i + 1]
  BY HeadTailProperties, EmptySeq
<1>2. then = IF w[1].topic = None \/ w[1].alias = 0 THEN known
             ELSE [b \in DOMAIN known \union {w[1].alias} |->
                       IF b = w[1].alias THEN w[1].topic ELSE known[b]]
  BY DEF Received
<1>3. None # t /\ t \in Topics
  BY AliasAssumption
<1> HIDE DEF v, then
<1>4. \A k \in 1..(n - 2) : v[k] = w[k + 1]
  BY <1>1
<1>5. \A i \in Nat \ {0} : StillIs(w, i + 1, n, a, t) => StillIs(v, i, n - 1, a, t)
  <2>1. SUFFICES ASSUME NEW i \in Nat \ {0}, StillIs(w, i + 1, n, a, t),
                        NEW k \in i..((n - 1) - 1), v[k].alias = a
                 PROVE  v[k].topic \in {None, t}
    BY DEF StillIs
  <2>2. n \in Nat /\ i \in Nat /\ 1 <= i
    OBVIOUS
  <2>3. k \in Nat /\ i <= k /\ k <= n - 2
    BY <2>2
  <2>4. k + 1 \in (i + 1)..(n - 1) /\ k \in 1..(n - 2)
    BY <2>2, <2>3
  <2> QED BY <1>4, <2>1, <2>4 DEF StillIs
<1>6. CASE \E i \in 1..(n - 1) : w[i].alias = a /\ w[i].topic = t /\ StillIs(w, i + 1, n, a, t)
  <2>1. PICK i \in 1..(n - 1) : w[i].alias = a /\ w[i].topic = t /\ StillIs(w, i + 1, n, a, t)
    BY <1>6
  <2>2. CASE i = 1
    <3>1. a \in DOMAIN then /\ then[a] = t
      BY <1>2, <1>3, <2>1, <2>2
    <3>2. StillIs(v, 1, n - 1, a, t)
      BY <1>5, <2>1, <2>2
    <3> QED BY <3>1, <3>2 DEF KnownBefore, v, then
  <2>3. CASE i # 1
    <3>1. i - 1 \in 1..((n - 1) - 1) /\ v[i - 1] = w[i] /\ i \in Nat \ {0}
      <4>1. n \in Nat /\ i \in Nat /\ 2 <= i /\ i <= n - 1
        BY <2>3
      <4>2. i - 1 \in 1..(n - 2) /\ (i - 1) + 1 = i /\ (n - 1) - 1 = n - 2
        BY <4>1
      <4> QED BY <1>4, <4>1, <4>2
    <3>2. StillIs(v, (i - 1) + 1, n - 1, a, t)
      BY <1>5, <2>1, <3>1
    <3> QED BY <2>1, <3>1, <3>2 DEF KnownBefore, v
  <2> QED BY <2>2, <2>3
<1>7. CASE a \in DOMAIN known /\ known[a] = t /\ StillIs(w, 1, n, a, t)
  <2>1. 1 \in 1..(n - 1)
    OBVIOUS
  <2>2. w[1].alias = a => w[1].topic \in {None, t}
    BY <1>7, <2>1 DEF StillIs
  <2>3. a \in DOMAIN then /\ then[a] = t
    BY <1>2, <1>7, <2>2
  <2>4. StillIs(w, 1 + 1, n, a, t)
    BY <1>7 DEF StillIs
  <2>5. StillIs(v, 1, n - 1, a, t)
    BY <1>5, <2>4
  <2> QED BY <2>3, <2>5 DEF KnownBefore, v, then
<1> QED BY <1>6, <1>7 DEF KnownBefore

-----------------------------------------------------------------------------
(* The two tables and the packets between them *)

(* The receiver will know every entry of the sender's table, and every alias
   that stands for a topic when it gets there; told is what each message was
   published to. *)
Coherent(known, table, w, max, told) ==
    /\ w \in Seq(Publishes)
    /\ TableOK(table) /\ table.max = max /\ table.used \subseteq 1..max
    /\ \A e \in Range(table.entries) : KnownBefore(known, w, Len(w) + 1, e.alias, e.topic)
    /\ \A n \in DOMAIN w :
        /\ w[n].alias \in 0..max
        /\ told[w[n].id] \in Topics
        /\ IF w[n].topic = None
           THEN w[n].alias # 0 /\ KnownBefore(known, w, n, w[n].alias, told[w[n].id])
           ELSE w[n].topic = told[w[n].id]

LEMMA WrittenCoherent ==
    ASSUME NEW known, NEW table, NEW w, NEW max \in Nat, NEW told,
           Coherent(known, table, w, max, told),
           NEW m, Fits(table, m), m.alias \in 0..max,
           told[m.id] = TopicOf(table, m), told[m.id] \in Topics
    PROVE  LET r == Applied(m, table)
           IN  Coherent(known, r.table, Append(w, r.msg), max, told)
<1> DEFINE r == Applied(m, table)
           v == Append(w, r.msg)
           B == 1..max
<1>1. /\ TableOK(table) /\ table.max = max /\ table.used \subseteq B
      /\ w \in Seq(Publishes)
      /\ \A e \in Range(table.entries) : KnownBefore(known, w, Len(w) + 1, e.alias, e.topic)
  BY DEF Coherent
<1>2. /\ B \in SUBSET (Nat \ {0}) /\ 1..table.max \subseteq B /\ m.alias \in B \union {0}
  BY <1>1
<1> HIDE DEF B
<1>3. /\ TableOK(r.table) /\ r.table.max = table.max /\ r.table.used \subseteq B
      /\ r.msg \in Publishes /\ r.msg.id = m.id /\ r.msg.alias \in B \union {0}
      /\ r.msg.topic \in {m.topic, None}
      /\ r.msg.topic = None =>
           \E e \in Range(table.entries) :
               e.alias = r.msg.alias /\ e.topic = TopicOf(table, m)
      /\ \A e \in Range(r.table.entries) :
           \/ /\ e \in Range(table.entries)
              /\ r.msg.alias = e.alias => r.msg.topic = None
           \/ e.alias = r.msg.alias /\ e.topic = r.msg.topic
  BY <1>1, <1>2, AppliedKeeps
<1> HIDE DEF r
<1>4. /\ v \in Seq(Publishes) /\ Len(v) = Len(w) + 1 /\ Len(w) \in Nat
      /\ DOMAIN v = DOMAIN w \union {Len(w) + 1} /\ DOMAIN w = 1..Len(w)
      /\ \A i \in DOMAIN w : v[i] = w[i]
      /\ v[Len(w) + 1] = r.msg
  BY <1>1, <1>3, AfterAppend, LenProperties, AppendProperties
<1>5. Len(v) + 1 = Len(w) + 2
  BY <1>4
<1>6. ASSUME NEW e \in Range(r.table.entries)
      PROVE  KnownBefore(known, v, Len(v) + 1, e.alias, e.topic)
  <2>1. CASE e.alias = r.msg.alias /\ e.topic = r.msg.topic
    BY <1>1, <1>3, <1>5, <2>1, KnownEntered
  <2>2. CASE e \in Range(table.entries) /\ (r.msg.alias = e.alias => r.msg.topic = None)
    BY <1>1, <1>3, <1>5, <2>2, KnownNext
  <2> QED BY <1>3, <2>1, <2>2
<1>7. ASSUME NEW n \in DOMAIN v
      PROVE  /\ v[n].alias \in 0..max
             /\ told[v[n].id] \in Topics
             /\ IF v[n].topic = None
                THEN v[n].alias # 0 /\ KnownBefore(known, v, n, v[n].alias, told[v[n].id])
                ELSE v[n].topic = told[v[n].id]
  <2>1. CASE n \in DOMAIN w
    <3>1. v[n] = w[n] /\ n \in 1..(Len(w) + 1)
      BY <1>4, <2>1
    <3>2. /\ w[n].alias \in 0..max /\ told[w[n].id] \in Topics
          /\ IF w[n].topic = None
             THEN w[n].alias # 0 /\ KnownBefore(known, w, n, w[n].alias, told[w[n].id])
             ELSE w[n].topic = told[w[n].id]
      BY <2>1 DEF Coherent
    <3>3. CASE w[n].topic = None
      BY <1>1, <1>3, <3>1, <3>2, <3>3, KnownPrefix
    <3>4. CASE w[n].topic # None
      BY <3>1, <3>2, <3>4
    <3> QED BY <3>3, <3>4
  <2>2. CASE n = Len(w) + 1
    <3>1. v[n] = r.msg
      BY <1>4, <2>2
    <3>2. r.msg.alias \in 0..max
      BY <1>3 DEF B
    <3>3. CASE r.msg.topic = None
      <4>1. PICK e \in Range(table.entries) :
                e.alias = r.msg.alias /\ e.topic = told[m.id]
        BY <1>3, <3>3
      <4>2. KnownBefore(known, w, n, r.msg.alias, told[m.id])
        BY <1>1, <2>2, <4>1
      <4>3. n \in 1..(Len(w) + 1)
        BY <1>4, <2>2
      <4>4. KnownBefore(known, v, n, r.msg.alias, told[m.id])
        BY <1>1, <1>3, <4>2, <4>3, KnownPrefix
      <4>5. r.msg.alias # 0
        <5>1. table.entries \in Seq(Entries)
          BY <1>1 DEF TableOK, Tables
        <5>2. e \in Entries
          BY <5>1, MembersOf
        <5> QED BY <4>1, <5>2 DEF Entries
      <4> QED BY <1>3, <3>1, <3>2, <3>3, <4>4, <4>5
    <3>4. CASE r.msg.topic # None
      <4>1. r.msg.topic = m.topic /\ m.topic # None
        BY <1>3, <3>4
      <4>2. told[m.id] = m.topic
        BY <4>1 DEF TopicOf
      <4> QED BY <1>3, <3>1, <3>2, <3>4, <4>1, <4>2
    <3> QED BY <3>3, <3>4
  <2> QED BY <1>4, <2>1, <2>2
<1>8. Coherent(known, r.table, v, max, told)
  BY <1>1, <1>3, <1>4, <1>6, <1>7 DEF Coherent, B
<1> QED BY <1>8 DEF r, v

LEMMA CoherentTold ==
    ASSUME NEW known, NEW table, NEW w, NEW max, NEW told, NEW then,
           Coherent(known, table, w, max, told),
           \A n \in DOMAIN w : told[w[n].id] = then[w[n].id]
    PROVE  Coherent(known, table, w, max, then)
BY DEF Coherent

LEMMA ReadCoherent ==
    ASSUME NEW recvNow, NEW table, NEW w, w # <<>>, NEW max \in Nat, NEW told,
           Coherent(recvNow.topics, table, w, max, told),
           recvNow = [max |-> recvNow.max, topics |-> recvNow.topics],
           NEW recvThen,
           recvThen = IF w[1].topic = None \/ w[1].alias = 0 THEN recvNow
                      ELSE Received(recvNow, w[1].topic, w[1].alias)
    PROVE  Coherent(recvThen.topics, table, Tail(w), max, told)
<1> DEFINE v == Tail(w)
<1>1. /\ w \in Seq(Publishes)
      /\ TableOK(table) /\ table.max = max /\ table.used \subseteq 1..max
      /\ table.entries \in Seq(Entries)
      /\ \A e \in Range(table.entries) :
           KnownBefore(recvNow.topics, w, Len(w) + 1, e.alias, e.topic)
  BY DEF Coherent, TableOK, Tables
<1>2. /\ v \in Seq(Publishes) /\ Len(v) = Len(w) - 1 /\ Len(w) \in Nat \ {0}
      /\ DOMAIN v = 1..Len(v) /\ DOMAIN w = 1..Len(w)
      /\ \A n \in DOMAIN v : v[n] = w[n + 1]
  BY <1>1, HeadTailProperties, LenProperties, EmptySeq
<1> HIDE DEF v
<1>3. ASSUME NEW e \in Range(table.entries)
      PROVE  KnownBefore(recvThen.topics, v, Len(v) + 1, e.alias, e.topic)
  <2>1. e \in Entries
    BY <1>1, MembersOf
  <2>2. e.alias \in Nat \ {0} /\ e.topic \in Topics
    BY <2>1 DEF Entries
  <2>3. Len(w) + 1 \in 2..(Len(w) + 1) /\ (Len(w) + 1) - 1 = Len(v) + 1
    BY <1>2
  <2>4. KnownBefore(recvThen.topics, Tail(w), (Len(w) + 1) - 1, e.alias, e.topic)
    BY <1>1, <2>2, <2>3, KnownTail
  <2> QED BY <2>3, <2>4 DEF v
<1>4. ASSUME NEW n \in DOMAIN v
      PROVE  /\ v[n].alias \in 0..max
             /\ told[v[n].id] \in Topics
             /\ IF v[n].topic = None
                THEN /\ v[n].alias # 0
                     /\ KnownBefore(recvThen.topics, v, n, v[n].alias, told[v[n].id])
                ELSE v[n].topic = told[v[n].id]
  <2>1. n + 1 \in DOMAIN w /\ v[n] = w[n + 1] /\ n + 1 \in 2..(Len(w) + 1) /\ (n + 1) - 1 = n
    BY <1>2
  <2>2. /\ w[n + 1].alias \in 0..max
        /\ told[w[n + 1].id] \in Topics
        /\ IF w[n + 1].topic = None
           THEN /\ w[n + 1].alias # 0
                /\ KnownBefore(recvNow.topics, w, n + 1, w[n + 1].alias, told[w[n + 1].id])
           ELSE w[n + 1].topic = told[w[n + 1].id]
    BY <2>1 DEF Coherent
  <2>3. CASE w[n + 1].topic = None
    <3>1. w[n + 1].alias \in Nat \ {0}
      BY <2>2, <2>3
    <3>2. KnownBefore(recvThen.topics, Tail(w), (n + 1) - 1, w[n + 1].alias, told[w[n + 1].id])
      BY <1>1, <2>1, <2>2, <2>3, <3>1, KnownTail
    <3> QED BY <2>1, <2>2, <2>3, <3>2 DEF v
  <2>4. CASE w[n + 1].topic # None
    BY <2>1, <2>2, <2>4
  <2> QED BY <2>3, <2>4
<1>5. Coherent(recvThen.topics, table, v, max, told)
  BY <1>1, <1>2, <1>3, <1>4 DEF Coherent
<1> QED BY <1>5 DEF v

(* A connection starts with an empty table at both ends. *)
LEMMA NewTableCoherent ==
    ASSUME NEW max \in Nat, NEW told
    PROVE  Coherent(<<>>, SendTable(max), <<>>, max, told)
<1>1. /\ SendTable(max).max = max /\ SendTable(max).used = {} /\ SendTable(max).entries = <<>>
      /\ SendTable(max) = [max |-> max, used |-> {}, entries |-> <<>>]
  BY DEF SendTable
<1>2. DOMAIN <<>> = {} /\ Range(<<>>) = {}
  BY DEF Range
<1>3. SendTable(max) \in Tables
  BY <1>1, EmptySeq DEF Tables
<1>4. TableOK(SendTable(max))
  BY <1>1, <1>2, <1>3 DEF TableOK, EntriesApart, NoTable, SendTable
<1> QED BY <1>1, <1>2, <1>4, EmptySeq DEF Coherent

-----------------------------------------------------------------------------
(* The right topic *)

Deliveries == [id : Nat, topic : Topics]

(* Both ends' tables agree while there is a connection; max is the maximum
   every receiver announces. *)
TopicsAgree(max) ==
    /\ AliasesInOrder
    /\ send = NoTable \/ send.max = max
    /\ send.used \subseteq 1..max
    /\ \A m \in Range(store) :
        m.alias \in 0..max /\ m.id \in DOMAIN meant /\ m.topic = meant[m.id]
    /\ delivered \in Seq(Deliveries)
    /\ \A d \in Range(delivered) : d.id \in DOMAIN meant /\ d.topic = meant[d.id]
    /\ net \in {"up", "down"}
    /\ net = "down" => wire = <<>>
    /\ net = "up" =>
        /\ recv = [max |-> max, topics |-> recv.topics]
        /\ Coherent(recv.topics, send, wire, max, meant)
        /\ \A n \in DOMAIN wire : wire[n].id \in DOMAIN meant

LEMMA PublishAgrees ==
    ASSUME NEW max \in Nat, TopicsAgree(max), NEW m \in Sendable, Publish(m, FALSE),
           queue' = <<>>, queue = <<>>
    PROVE  TopicsAgree(max)'
<1> DEFINE r == Applied(m, send)
           B == 1..max
<1>1. /\ AliasesInOrder /\ TableOK(send) /\ meant \in Seq(Topics) /\ store \in Seq(Stored)
      /\ send.max \in Nat /\ send.max <= max /\ send.used \subseteq B
      /\ delivered \in Seq(Deliveries)
  <2>1. send.max \in Nat
    BY DEF TopicsAgree, AliasesInOrder, TableOK, Tables
  <2>2. send.max <= max
    BY <2>1 DEF TopicsAgree, NoTable, SendTable
  <2> QED BY <2>1, <2>2 DEF TopicsAgree, AliasesInOrder
<1>2. /\ ~Throws(m) /\ send' = r.table /\ meant' = Append(meant, Storable(m).topic)
      /\ UNCHANGED <<net, recv, delivered>>
  BY DEF Publish
<1>3. /\ Fits(send, m) /\ m.alias \in 0..max /\ m.id = NewId
      /\ Storable(m).topic = TopicOf(send, m) /\ Storable(m).topic \in Topics
      /\ Storable(m).id = NewId /\ Storable(m).alias = m.alias
      /\ m.qos = 1 => Storable(m) \in Stored
      /\ m.qos \in {0, 1}
  <2>1. m.alias \in 0..send.max
    BY <1>1, <1>2, PublishedFits
  <2>2. m.alias \in 0..max
    BY <1>1, <2>1
  <2> QED BY <1>1, <1>2, <2>2, PublishedFits
<1>4. /\ meant' \in Seq(Topics) /\ DOMAIN meant' = DOMAIN meant \union {NewId}
      /\ NewId \notin DOMAIN meant
      /\ \A id \in DOMAIN meant : meant'[id] = meant[id]
      /\ meant'[NewId] = TopicOf(send, m)
  BY <1>1, <1>2, <1>3, AfterAppend DEF NewId
<1>5. AliasesInOrder'
  BY <1>1, PublishInOrder
<1>6. /\ TableOK(r.table) /\ r.table.max = send.max /\ r.table.used \subseteq B
      /\ r.msg.id = NewId
  <2>1. /\ B \in SUBSET (Nat \ {0}) /\ 1..send.max \subseteq B /\ m.alias \in B \union {0}
    BY <1>1, <1>3
  <2> HIDE DEF B
  <2> QED BY <1>1, <1>3, <2>1, AppliedKeeps
<1>7. /\ \/ store' = store
         \/ store' = Append(store, Storable(m)) /\ Storable(m) \in Stored
      /\ wire' = IF net = "up" THEN Append(wire, r.msg) ELSE wire
  <2>1. CASE m.qos = 0
    BY <2>1 DEF Publish, Written
  <2>2. CASE m.qos = 1 /\ count = SendMax
    <3>1. queue' = Append(queue, Storable(m))
      BY <2>2 DEF Publish
    <3>2. queue \in Seq(Stored)
      BY EmptySeq
    <3>3. queue' # <<>>
      BY <1>3, <2>2, <3>1, <3>2, AppendProperties
    <3> QED BY <3>3
  <2>3. CASE m.qos = 1 /\ count # SendMax
    BY <1>3, <2>3 DEF Publish, Written
  <2> QED BY <1>3, <2>1, <2>2, <2>3
<1> HIDE DEF r
<1>8. \A s \in Range(store') :
        s.alias \in 0..max /\ s.id \in DOMAIN meant' /\ s.topic = meant'[s.id]
  <2>1. \A s \in Range(store) :
          s.alias \in 0..max /\ s.id \in DOMAIN meant' /\ s.topic = meant'[s.id]
    BY <1>4 DEF TopicsAgree
  <2>2. \/ store' = store
        \/ Range(store') = Range(store) \union {Storable(m)}
    <3>1. Storable(m) \in Stored =>
            Range(Append(store, Storable(m))) = Range(store) \union {Storable(m)}
      BY <1>1, RangeAppended
    <3> QED BY <1>7, <3>1
  <2>3. /\ Storable(m).alias \in 0..max /\ Storable(m).id \in DOMAIN meant'
        /\ Storable(m).topic = meant'[Storable(m).id]
    BY <1>3, <1>4
  <2> QED BY <2>1, <2>2, <2>3
<1>9. \A d \in Range(delivered) : d.id \in DOMAIN meant' /\ d.topic = meant'[d.id]
  BY <1>4 DEF TopicsAgree
<1>10. send' = NoTable \/ send'.max = max
  <2>1. CASE send = NoTable
    <3>1. send.max = 0
      BY <2>1 DEF NoTable, SendTable
    <3>2. r.table = NoTable
      BY <1>6, <3>1 DEF TableOK
    <3> QED BY <1>2, <3>2 DEF r
  <2>2. CASE send.max = max
    BY <1>2, <1>6, <2>2 DEF r
  <2> QED BY <2>1, <2>2 DEF TopicsAgree
<1>11. CASE net = "down"
  <2>1. wire' = <<>> /\ net' = "down"
    BY <1>2, <1>7, <1>11 DEF TopicsAgree
  <2> QED BY <1>1, <1>2, <1>5, <1>6, <1>8, <1>9, <1>10, <2>1 DEF TopicsAgree, r
<1>12. CASE net = "up"
  <2>1. /\ recv = [max |-> max, topics |-> recv.topics]
        /\ Coherent(recv.topics, send, wire, max, meant)
        /\ \A n \in DOMAIN wire : wire[n].id \in DOMAIN meant
        /\ wire \in Seq(Publishes)
    BY <1>12 DEF TopicsAgree, Coherent
  <2>2. Coherent(recv.topics, send, wire, max, meant')
    BY <1>4, <2>1, CoherentTold
  <2>3. Coherent(recv.topics, r.table, Append(wire, r.msg), max, meant')
    BY <1>3, <1>4, <2>2, WrittenCoherent DEF r
  <2>4. r.msg \in Publishes
    <3>1. Append(wire, r.msg) \in Seq(Publishes)
      BY <2>3 DEF Coherent
    <3>2. /\ B \in SUBSET (Nat \ {0}) /\ 1..send.max \subseteq B /\ m.alias \in B \union {0}
      BY <1>1, <1>3
    <3> HIDE DEF B
    <3> QED BY <1>1, <1>3, <3>2, AppliedKeeps DEF r
  <2>5. \A n \in DOMAIN wire' : wire'[n].id \in DOMAIN meant'
    BY <1>4, <1>6, <1>7, <1>12, <2>1, <2>4, AfterAppend
  <2>6. recv' = recv /\ net' = net /\ wire' = Append(wire, r.msg) /\ send' = r.table
    BY <1>2, <1>7, <1>12 DEF r
  <2>7. Coherent(recv'.topics, send', wire', max, meant')
    BY <2>3, <2>6
  <2> QED BY <1>1, <1>2, <1>5, <1>6, <1>8, <1>9, <1>10, <1>12, <2>1, <2>5, <2>6, <2>7
          DEF TopicsAgree
<1> QED BY <1>11, <1>12 DEF TopicsAgree

LEMMA PubackAgrees ==
    ASSUME NEW max \in Nat, TopicsAgree(max), ReceivePuback, queue = <<>>
    PROVE  TopicsAgree(max)'
<1>1. /\ store \in Seq(Stored)
      /\ store' = Unacknowledged(Head(acks))
      /\ UNCHANGED <<wire, mode, net, send, recv, meant, delivered, uses>>
  BY DEF ReceivePuback, TopicsAgree, AliasesInOrder
<1>2. store' \in Seq(Stored) /\ Range(store') \subseteq Range(store)
  BY <1>1, UnacknowledgedIs
<1>3. AliasesInOrder'
  BY <1>1, <1>2 DEF TopicsAgree, AliasesInOrder
<1>4. \A m \in Range(store') :
        m.alias \in 0..max /\ m.id \in DOMAIN meant' /\ m.topic = meant'[m.id]
  BY <1>1, <1>2 DEF TopicsAgree
<1> QED BY <1>1, <1>3, <1>4 DEF TopicsAgree

LEMMA ReceiveAgrees ==
    ASSUME NEW max \in Nat, TopicsAgree(max), ReceivePublish
    PROVE  TopicsAgree(max)'
<1> DEFINE m == Head(wire)
           known == Found(recv, m.alias)
<1>1. /\ net = "up" /\ wire # <<>> /\ wire' = Tail(wire)
      /\ UNCHANGED <<send, store, meant, uses>>
  BY DEF ReceivePublish
<1>2. /\ recv = [max |-> max, topics |-> recv.topics]
      /\ Coherent(recv.topics, send, wire, max, meant)
      /\ \A n \in DOMAIN wire : wire[n].id \in DOMAIN meant
      /\ delivered \in Seq(Deliveries)
      /\ \A d \in Range(delivered) : d.id \in DOMAIN meant /\ d.topic = meant[d.id]
      /\ meant \in Seq(Topics)
  BY <1>1 DEF TopicsAgree, AliasesInOrder
<1>3. /\ wire \in Seq(Publishes)
      /\ m = wire[1] /\ 1 \in DOMAIN wire /\ m \in Publishes
      /\ Tail(wire) \in Seq(Publishes)
      /\ \A n \in DOMAIN Tail(wire) : n + 1 \in DOMAIN wire /\ Tail(wire)[n] = wire[n + 1]
  BY <1>1, <1>2, AfterTail DEF Coherent
<1>4. /\ m.alias \in 0..max /\ meant[m.id] \in Topics /\ m.id \in DOMAIN meant
      /\ IF m.topic = None
         THEN m.alias # 0 /\ KnownBefore(recv.topics, wire, 1, m.alias, meant[m.id])
         ELSE m.topic = meant[m.id]
  BY <1>2, <1>3 DEF Coherent
<1>5. None \notin Topics /\ m.id \in Nat
  BY <1>3, AliasAssumption DEF Publishes
<1>13. recv.max = max
  BY <1>2
<1> HIDE DEF m
(* What is known when it is the first packet's turn is known now. *)
<1>6. m.topic = None => known = meant[m.id] /\ known # None
  <2>1. ASSUME m.topic = None PROVE known = meant[m.id] /\ known # None
    <3>1. m.alias \in DOMAIN recv.topics /\ recv.topics[m.alias] = meant[m.id]
      BY <1>4, <2>1 DEF KnownBefore
    <3> QED BY <1>4, <1>5, <3>1 DEF Found
  <2> QED BY <2>1
<1>7. /\ net' = "up"
      /\ delivered' = Append(delivered, [id |-> m.id, topic |-> meant[m.id]])
      /\ recv' = IF m.topic = None \/ m.alias = 0 THEN recv
                 ELSE Received(recv, m.topic, m.alias)
  <2>1. CASE m.topic = None
    <3>1. ~(m.alias > recv.max)
      BY <1>4, <1>13
    <3>2. /\ UNCHANGED recv
          /\ IF m.alias > recv.max \/ known = None
             THEN net' = "failed" /\ UNCHANGED <<acks, delivered>>
             ELSE Delivered(m, known) /\ UNCHANGED net
      BY <2>1 DEF ReceivePublish, m
    <3>3. Delivered(m, known) /\ UNCHANGED net
      BY <1>6, <2>1, <3>1, <3>2
    <3> QED BY <1>1, <1>6, <2>1, <3>2, <3>3 DEF Delivered
  <2>2. CASE m.topic # None
    <3>1. /\ recv' = IF m.alias = 0 THEN recv ELSE Received(recv, m.topic, m.alias)
          /\ Delivered(m, m.topic)
          /\ UNCHANGED net
      BY <2>2 DEF ReceivePublish, m
    <3> QED BY <1>1, <1>4, <2>2, <3>1 DEF Delivered
  <2> QED BY <2>1, <2>2
<1>8. Coherent(recv'.topics, send, Tail(wire), max, meant)
  <2>1. recv = [max |-> recv.max, topics |-> recv.topics]
    BY <1>2
  <2> QED BY <1>1, <1>2, <1>3, <1>7, <2>1, ReadCoherent
<1>9. recv' = [max |-> max, topics |-> recv'.topics]
  <2>1. CASE recv' = recv
    BY <1>2, <2>1
  <2>2. CASE recv' = Received(recv, m.topic, m.alias)
    <3> DEFINE new == [a \in DOMAIN recv.topics \union {m.alias} |->
                           IF a = m.alias THEN m.topic ELSE recv.topics[a]]
    <3>1. recv' = [recv EXCEPT !.topics = new]
      BY <2>2 DEF Received
    <3> HIDE DEF new
    <3>2. recv' = [max |-> max, topics |-> new]
      BY <1>2, <3>1
    <3> QED BY <3>2
  <2> QED BY <1>7, <2>1, <2>2
<1>10. /\ delivered' \in Seq(Deliveries)
       /\ \A d \in Range(delivered') : d.id \in DOMAIN meant /\ d.topic = meant[d.id]
  <2> DEFINE new == [id |-> m.id, topic |-> meant[m.id]]
  <2>1. new \in Deliveries
    BY <1>4, <1>5 DEF Deliveries
  <2>2. delivered' \in Seq(Deliveries) /\ Range(delivered') = Range(delivered) \union {new}
    BY <1>2, <1>7, <2>1, RangeAppended, AppendProperties
  <2> QED BY <1>2, <1>4, <2>2
<1>11. \A n \in DOMAIN wire' : wire'[n].id \in DOMAIN meant
  BY <1>1, <1>2, <1>3
<1>12. AliasesInOrder'
  BY <1>1 DEF TopicsAgree, AliasesInOrder
<1> QED BY <1>1, <1>7, <1>8, <1>9, <1>10, <1>11, <1>12 DEF TopicsAgree

LEMMA ConnectAgrees ==
    ASSUME NEW max \in Nat, TopicsAgree(max), Connect(max), queue' = <<>>
    PROVE  TopicsAgree(max)'
<1> DEFINE R == Resending(max)
           n == Len(store)
           room == IF n < SendMax THEN n ELSE SendMax
<1>1. /\ AliasesInOrder /\ TableOK(send) /\ store \in Seq(Stored)
      /\ n \in Nat /\ \A k \in 1..n : store[k] \in Stored /\ store[k] \in Range(store)
  BY LenProperties, MembersOf DEF TopicsAgree, AliasesInOrder
<1>2. /\ \A k \in 0..n : R[k] \in Sendings
      /\ R[0] = [table |-> ConnackTable(max), msgs |-> <<>>, uses |-> <<>>]
      /\ \A k \in 1..n : R[k] = Resent(R[k - 1], store[k])
  BY <1>1, ResendingSteps
<1>3. /\ send' = R[n].table /\ recv' = RecvTable(max) /\ net' = "up"
      /\ wire' = SubSeq(R[n].msgs, 1, room)
      /\ queue' = SubSeq(R[n].msgs, room + 1, n)
      /\ UNCHANGED <<store, meant, delivered>>
  BY DEF Connect
<1>4. ConnackTable(max) = SendTable(max)
  <2>1. CASE max > 0
    BY <2>1 DEF ConnackTable
  <2>2. CASE ~(max > 0)
    <3>1. max = 0
      BY <2>2
    <3>2. send = NoTable
      BY <1>1, <3>1 DEF TopicsAgree, TableOK
    <3> QED BY <3>1, <3>2 DEF ConnackTable, NoTable
  <2> QED BY <2>1, <2>2
<1>5. \A k \in 1..n :
        /\ store[k].alias \in 0..max /\ store[k].id \in DOMAIN meant
        /\ store[k].topic = meant[store[k].id]
  BY <1>1 DEF TopicsAgree
<1>13. SendMax \in Nat \ {0}
  BY AliasAssumption
<1> HIDE DEF R, n
<1> DEFINE Good(k) == /\ Coherent(<<>>, R[k].table, R[k].msgs, max, meant)
                      /\ Len(R[k].msgs) = k
                      /\ \A i \in DOMAIN R[k].msgs : R[k].msgs[i].id \in DOMAIN meant
           S == {k \in 0..n : Good(k)}
<1>6. 0 \in S
  <2>1. R[0].table = SendTable(max) /\ R[0].msgs = <<>>
    BY <1>2, <1>4
  <2>2. Len(<<>>) = 0 /\ DOMAIN <<>> = {}
    BY EmptySeq
  <2>3. Good(0)
    BY <2>1, <2>2, NewTableCoherent
  <2> QED BY <1>1, <2>3
<1>7. ASSUME NEW k \in 0..(n - 1), k \in S PROVE k + 1 \in S
  <2> DEFINE m == store[k + 1]
             r == Applied(m, R[k].table)
  <2>1. k + 1 \in 1..n /\ (k + 1) - 1 = k /\ k \in 0..n /\ k + 1 \in 0..n /\ k \in Nat
    BY <1>1
  <2>2. R[k + 1] = Resent(R[k], m) /\ m \in Stored /\ R[k] \in Sendings
    BY <1>1, <1>2, <2>1
  <2>3. R[k + 1].table = r.table /\ R[k + 1].msgs = Append(R[k].msgs, r.msg)
    BY <2>2 DEF Resent
  <2>4. /\ Coherent(<<>>, R[k].table, R[k].msgs, max, meant)
        /\ Len(R[k].msgs) = k
        /\ \A i \in DOMAIN R[k].msgs : R[k].msgs[i].id \in DOMAIN meant
        /\ R[k].msgs \in Seq(Publishes)
    BY <1>7 DEF Coherent
  <2>5. /\ Fits(R[k].table, m) /\ m.topic # None /\ m.topic \in Topics
        /\ m.alias \in 0..max /\ m.id \in DOMAIN meant /\ m.topic = meant[m.id]
    BY <1>5, <2>1, <2>2, StoredFits DEF Stored
  <2>6. meant[m.id] = TopicOf(R[k].table, m) /\ meant[m.id] \in Topics
    BY <2>5 DEF TopicOf
  <2>7. Coherent(<<>>, r.table, Append(R[k].msgs, r.msg), max, meant)
    BY <2>4, <2>5, <2>6, WrittenCoherent
  <2>8. r.msg \in Publishes /\ r.msg.id = m.id
    <3> DEFINE B == 1..max
    <3>1. /\ TableOK(R[k].table) /\ R[k].table.max = max /\ R[k].table.used \subseteq B
      BY <2>4 DEF Coherent
    <3>2. /\ B \in SUBSET (Nat \ {0}) /\ 1..R[k].table.max \subseteq B
          /\ m.alias \in B \union {0}
      BY <2>5, <3>1
    <3> HIDE DEF B
    <3> QED BY <2>5, <3>1, <3>2, AppliedKeeps
  <2> HIDE DEF r, m
  <2>9. /\ Len(R[k + 1].msgs) = k + 1
        /\ \A i \in DOMAIN R[k + 1].msgs : R[k + 1].msgs[i].id \in DOMAIN meant
    BY <2>3, <2>4, <2>5, <2>8, AppendProperties, AfterAppend
  <2>10. Good(k + 1)
    BY <2>3, <2>7, <2>9
  <2> QED BY <2>1, <2>10
<1>8. Good(n)
  <2> HIDE DEF S
  <2>1. 0..n \subseteq S
    BY <1>1, <1>6, <1>7, Induction
  <2> QED BY <1>1, <2>1 DEF S
<1> HIDE DEF Good
<1>9. R[n].msgs \in Seq(Publishes) /\ Len(R[n].msgs) = n
      /\ \A i \in 1..n : R[n].msgs[i] \in Publishes
  BY <1>8, LenProperties DEF Good, Coherent
<1>10. wire' = R[n].msgs
  <2>1. CASE n < SendMax
    BY <1>3, <1>9, <2>1, SubSeqFull
  <2>2. CASE n = SendMax
    BY <1>3, <1>9, <2>2, SubSeqFull
  <2>3. CASE n > SendMax
    <3>1. room = SendMax
      BY <1>1, <1>13, <2>3
    <3>2. /\ SendMax + 1 \in Int /\ n \in Int /\ SendMax + 1 <= n /\ n - (SendMax + 1) + 1 \in Nat \ {0}
          /\ \A i \in (SendMax + 1)..n : R[n].msgs[i] \in Publishes
      BY <1>1, <1>9, <1>13, <2>3
    <3>3. Len(SubSeq(R[n].msgs, SendMax + 1, n)) = n - (SendMax + 1) + 1
      BY <3>2, SubSeqProperties
    <3>4. Len(queue') # 0
      BY <1>3, <3>1, <3>2, <3>3
    <3> QED BY <3>4, EmptySeq
  <2> QED BY <1>1, <1>13, <2>1, <2>2, <2>3
<1>11. /\ recv' = [max |-> max, topics |-> recv'.topics] /\ recv'.topics = <<>>
  BY <1>3 DEF RecvTable
<1>12. AliasesInOrder'
  BY <1>1, ConnectInOrder
<1>14. /\ Coherent(recv'.topics, send', wire', max, meant')
       /\ \A i \in DOMAIN wire' : wire'[i].id \in DOMAIN meant'
       /\ send'.max = max /\ send'.used \subseteq 1..max
  BY <1>3, <1>8, <1>10, <1>11 DEF Good, Coherent
<1>15. /\ delivered' \in Seq(Deliveries)
       /\ \A d \in Range(delivered') : d.id \in DOMAIN meant' /\ d.topic = meant'[d.id]
       /\ \A m \in Range(store') :
            m.alias \in 0..max /\ m.id \in DOMAIN meant' /\ m.topic = meant'[m.id]
  BY <1>3 DEF TopicsAgree
<1> QED BY <1>3, <1>11, <1>12, <1>14, <1>15 DEF TopicsAgree

LEMMA AgreesInit ==
    ASSUME NEW max \in Nat, Init
    PROVE  TopicsAgree(max)
<1>1. AliasesInOrder
  BY InOrderInit
<1>2. /\ net = "down" /\ send = NoTable /\ NoTable.used = {}
      /\ store = <<>> /\ wire = <<>> /\ delivered = <<>>
  BY DEF Init, NoTable, SendTable
<1>3. Range(<<>>) = {}
  BY DEF Range
<1> QED BY <1>1, <1>2, <1>3, EmptySeq DEF TopicsAgree

LEMMA AgreesStep ==
    ASSUME NEW max \in Nat, Maxima = {max}, TRUE \notin Oversized,
           TopicsAgree(max), [Next]_vars, queue = <<>>, queue' = <<>>
    PROVE  TopicsAgree(max)'
<1>1. CASE UNCHANGED vars
  BY <1>1 DEF TopicsAgree, AliasesInOrder, vars
<1>2. ASSUME NEW m \in Sendable, NEW oversized \in Oversized, Publish(m, oversized)
      PROVE  TopicsAgree(max)'
  <2>1. oversized = FALSE
    BY AliasAssumption
  <2> QED BY <1>2, <2>1, PublishAgrees
<1>3. CASE ReceivePuback
  BY <1>3, PubackAgrees
<1>4. CASE ReceivePublish
  BY <1>4, ReceiveAgrees
<1>5. CASE Break
  <2>1. AliasesInOrder'
    BY <1>5 DEF Break, TopicsAgree, AliasesInOrder
  <2> QED BY <1>5, <2>1 DEF Break, TopicsAgree
<1>6. ASSUME NEW announced \in Maxima, Connect(announced)
      PROVE  TopicsAgree(max)'
  BY <1>6, ConnectAgrees
<1> QED BY <1>1, <1>2, <1>3, <1>4, <1>5, <1>6 DEF Next

LEMMA AgreeingIsRight ==
    ASSUME NEW max \in Nat, TopicsAgree(max)
    PROVE  RightTopic /\ AliasesKnown
BY DEF TopicsAgree, RightTopic, AliasesKnown

(* A message reaches the handler under the topic it was published to, and no
   alias arrives that the receiver does not know, through any number of
   publishes, evictions and reconnections: while nothing waits in
   publish_send_queue_ behind a publish whose alias was chosen later, no publish
   is refused after apply_topic_alias has changed the table, and every
   connection has the same maximum. *)
THEOREM TopicIsRight ==
    ASSUME NEW max \in Nat, Maxima = {max}, TRUE \notin Oversized
    PROVE  Spec /\ [](queue = <<>>) => [](RightTopic /\ AliasesKnown)
<1>1. Init => TopicsAgree(max)
  BY AgreesInit
<1>2. TopicsAgree(max) /\ [Next]_vars /\ queue = <<>> /\ (queue = <<>>)' => TopicsAgree(max)'
  BY AgreesStep
<1>3. TopicsAgree(max) => RightTopic /\ AliasesKnown
  BY AgreeingIsRight
<1> QED BY <1>1, <1>2, <1>3, PTL DEF Spec

-----------------------------------------------------------------------------
(* The queue is empty if the receiver's window is wide enough. *)

RoomForAll ==
    /\ AliasesInOrder
    /\ queue = <<>>
    /\ count \in Int /\ count <= Len(meant)
    /\ Len(store) <= Len(meant)
    /\ Len(meant) <= MaxPublishes

LEMMA RoomStep ==
    ASSUME MaxPublishes <= SendMax, RoomForAll, [Next]_vars
    PROVE  RoomForAll'
<1>1. /\ AliasesInOrder /\ queue = <<>> /\ count \in Int /\ count <= Len(meant)
      /\ Len(store) <= Len(meant) /\ Len(meant) <= MaxPublishes
      /\ store \in Seq(Stored) /\ meant \in Seq(Topics)
      /\ Len(store) \in Nat /\ Len(meant) \in Nat
      /\ SendMax \in Nat \ {0} /\ MaxPublishes \in Nat
  BY LenProperties, AliasAssumption DEF RoomForAll, AliasesInOrder
<1>2. AliasesInOrder'
  BY <1>1, InOrderStep
<1>3. CASE UNCHANGED vars
  BY <1>1, <1>2, <1>3 DEF RoomForAll, vars
<1>4. ASSUME NEW m \in Sendable, NEW oversized \in Oversized, Publish(m, oversized)
      PROVE  RoomForAll'
  <2>1. /\ Len(meant) < MaxPublishes /\ meant' = Append(meant, Storable(m).topic)
        /\ ~Throws(m)
    BY <1>4 DEF Publish
  <2>2. Storable(m).topic \in Topics /\ (m.qos = 1 => Storable(m) \in Stored) /\ m.qos \in {0, 1}
    BY <1>1, <2>1, PublishedFits DEF AliasesInOrder
  <2>3. Len(meant') = Len(meant) + 1
    BY <1>1, <2>1, <2>2, AppendProperties
  <2>4. count # SendMax
    BY <1>1, <2>1
  <2>5. \/ UNCHANGED <<store, queue, count>>
        \/ /\ m.qos = 1 /\ store' = Append(store, Storable(m)) /\ count' = count + 1
           /\ queue' = queue
    BY <1>4, <2>2, <2>4 DEF Publish, Written
  <2>6. m.qos = 1 => Len(Append(store, Storable(m))) = Len(store) + 1
    BY <1>1, <2>2, AppendProperties
  <2> QED BY <1>1, <1>2, <2>1, <2>3, <2>5, <2>6 DEF RoomForAll
<1>5. CASE ReceivePuback
  <2>1. /\ store' = Unacknowledged(Head(acks)) /\ count' = count - 1
        /\ UNCHANGED <<queue, meant>>
    BY <1>1, <1>5 DEF ReceivePuback
  <2>2. store' \in Seq(Stored) /\ Len(store') <= Len(store) /\ Len(store') \in Nat
    BY <1>1, <2>1, UnacknowledgedIs, LenProperties
  <2> QED BY <1>1, <1>2, <2>1, <2>2 DEF RoomForAll
<1>6. CASE ReceivePublish
  BY <1>1, <1>2, <1>6 DEF ReceivePublish, RoomForAll
<1>7. CASE Break
  BY <1>1, <1>2, <1>7 DEF Break, RoomForAll
<1>8. ASSUME NEW max \in Maxima, Connect(max)
      PROVE  RoomForAll'
  <2> DEFINE room == IF Len(store) < SendMax THEN Len(store) ELSE SendMax
             msgs == Resending(max)[Len(store)].msgs
  <2>1. room = Len(store)
    BY <1>1
  <2>2. queue' = SubSeq(msgs, room + 1, Len(store)) /\ count' = room /\ UNCHANGED <<store, meant>>
    BY <1>8 DEF Connect
  <2> HIDE DEF room, msgs
  <2>3. queue' = <<>>
    BY <1>1, <2>1, <2>2, SubSeqEmpty
  <2> QED BY <1>1, <1>2, <2>1, <2>2, <2>3 DEF RoomForAll
<1> QED BY <1>3, <1>4, <1>5, <1>6, <1>7, <1>8 DEF Next

(* No condition on the queue is needed when the receiver's Receive Maximum
   allows every message to be under way at once: nothing ever waits then. *)
THEOREM TopicIsRightWithRoom ==
    ASSUME NEW max \in Nat, Maxima = {max}, TRUE \notin Oversized, MaxPublishes <= SendMax
    PROVE  Spec => [](RightTopic /\ AliasesKnown)
<1>1. Init => RoomForAll
  <2>1. Init => queue = <<>> /\ count = 0 /\ store = <<>> /\ meant = <<>>
    BY DEF Init
  <2>2. Len(<<>>) = 0 /\ MaxPublishes \in Nat
    BY EmptySeq, AliasAssumption
  <2> QED BY <2>1, <2>2, InOrderInit DEF RoomForAll
<1>2. RoomForAll /\ [Next]_vars => RoomForAll'
  BY RoomStep
<1>3. RoomForAll => queue = <<>>
  BY DEF RoomForAll
<1>4. Spec => [](queue = <<>>)
  BY <1>1, <1>2, <1>3, PTL DEF Spec
<1> QED BY <1>4, TopicIsRight, PTL
=============================================================================
